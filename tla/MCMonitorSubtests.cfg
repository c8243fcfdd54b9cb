SPECIFICATION Spec
CONSTANTS
  s1 = s1
  s2 = s2
  NoSubtest = NoSubtest
  Subtests = {s1, s2}
  PrefixOf <- NoPrefix
  PerTestTimeout = 0
  InactivityTimeout = 1
  DiskUsageLimit = 2
  AbortTaint = TRUE
  LogNormal = TRUE
  QuitGrace = 1
  KillGrace = 1
  TaintDecrease = 10
  MaxNoise = 0
  MaxSignals = 1
  MayStop = TRUE
INVARIANTS
  EveryResultJournaled
  
PROPERTIES
  KeepsPromise
