SPECIFICATION Spec
CONSTANTS
  s1 = s1
  s2 = s2
  NoSubtest = NoSubtest
  Subtests = {s1}
  PrefixOf <- NoPrefix
  PerTestTimeout = 1
  InactivityTimeout = 0
  DiskUsageLimit = 0
  AbortTaint = TRUE
  LogNormal = TRUE
  QuitGrace = 1
  KillGrace = 1
  TaintDecrease = 10
  MaxNoise = 1
  MaxSignals = 1
  MayStop = FALSE
INVARIANTS
  TypeOK
  
  TimeoutVerdictIsDue

  
  
