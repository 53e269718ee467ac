SPECIFICATION Spec
CONSTANTS
  WordBits = 30
  PageBits = 24
  TransferSize = 4096
  InternalChip <- MCInternal
  Chips <- MCPlainChips
INVARIANTS
  FallbackSlow
