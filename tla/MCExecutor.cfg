SPECIFICATION Spec
CONSTANTS
  s1 = s1
  s2 = s2
  MaxSize = 2
  Subtests = {s1, s2}
  Listed = FALSE
  Sync = TRUE
  Extra <- NoExtra
  MaxRuns = 2
  MaxStops = 1
  CrashingTests = TRUE
INVARIANTS
  TypeOK
PROPERTIES
  
  ResumesReachTheEnd
