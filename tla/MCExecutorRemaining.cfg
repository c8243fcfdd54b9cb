SPECIFICATION Spec
CONSTANTS
  s1 = s1
  s2 = s2
  MaxSize = 2
  Subtests = {s1, s2}
  Listed = FALSE
  Sync = TRUE
  Extra <- NoExtra
  MaxRuns = 1
  MaxStops = 0
  CrashingTests = FALSE
INVARIANTS
  RemainingSubtestsRun
