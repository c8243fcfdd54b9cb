SPECIFICATION Spec
CONSTANTS
  h1 = h1
  h2 = h2
  Handles = {h1, h2}
  Start = 2
  End = 8
  Top = 8
  Sizes = {1, 2, 3}
  Alignments = {1, 2}
  DefaultStrategy = "HIGH_TO_LOW"
INVARIANTS
  Validated
  PlacesBest
  Accounts
PROPERTIES
  IsAddressSpace
