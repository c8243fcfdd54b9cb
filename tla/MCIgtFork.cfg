SPECIFICATION Spec
CONSTANTS
  Helpers = {h1, h2}
  MaxHelpers = 2
  MaxChildren = 2
  MaxForks = 3
  MaxSubtests = 2
INVARIANTS
  TypeOK
  NoChildOutlives
  WaitIsRight
  
PROPERTIES
  WaitEnds
