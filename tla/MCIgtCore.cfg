SPECIFICATION Spec
CONSTANTS
  s1 = s1
  s2 = s2
  None = None
  Binary = Binary
  Subtests <- TwoSubtests
  Containers = {s1}
  Streams = {"out"}
  EntryFirst = s1
  MaxDynamics = 2
  MaxFixtures = 1
  MaxLines = 1
  MaxFailures = 1
  MaxTogether = 2
  MaxResumes = 1
INVARIANTS
  TypeOK
  
  
  ExitCodeAgrees
  OutIsOwn
