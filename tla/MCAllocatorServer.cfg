SPECIFICATION FairSpec
CONSTANTS
  main = main
  child1 = child1
  child2 = child2
  server = server
  nobody = nobody
  k1 = k1
  Threads = {main}
  Main = main
  Children = {child1, child2}
  Detaching = {child2}
  Careless = {child1}
  Server = server
  Nobody = nobody
  Keys = {k1}
  Slots = {1}
  QueueLen = 2
  MaxHandles = 2
  Ops <- Requests
INVARIANTS
  TypeOK
  
  KeepsWhatItWasTold
PROPERTIES
  IsSharedSpaces
  EveryCallReturns
  StopUnblocks
CHECK_DEADLOCK FALSE
