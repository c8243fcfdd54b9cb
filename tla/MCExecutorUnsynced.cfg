SPECIFICATION Spec
CONSTANTS
  s1 = s1
  s2 = s2
  MaxSize = 2
  Subtests = {s1, s2}
  Listed = TRUE
  Sync = FALSE
  Extra <- NoExtra
  MaxRuns = 2
  MaxStops = 2
  CrashingTests = FALSE
INVARIANTS
  AbortLeavesRecord
  
