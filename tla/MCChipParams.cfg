SPECIFICATION Spec
CONSTANTS
  WordBits = 30
  PageBits = 24
  TransferSize = 4096
  InternalChip <- MCInternal
  Chips <- MCChips
INVARIANTS
  TypeOK
  DividerSound
  IdentifiedSlowly
  WorksAtClock
  SizeListed
  PlanCovers
  DisplayAgrees
