SPECIFICATION Spec
CONSTANTS
  s1 = s1
  s2 = s2
  None = None
  Binary = Binary
  Subtests <- TwoSubtests
  Containers = {s1}
  Streams = {"out"}
  EntryFirst = None
  MaxDynamics = 2
  MaxFixtures = 1
  MaxLines = 0
  MaxFailures = 0
  MaxTogether = 1
  MaxResumes = 0
INVARIANTS
  BlamedTogether
