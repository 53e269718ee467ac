SPECIFICATION Spec
CONSTANTS
  Kind = "nor"
  Byte <- MCByte
  Erased = Erased
  Corrupt = Corrupt
  PageSize = 4
  EraseSize = 8
  BlockErase = 16
  DevSize = 16
  Sfdp <- MCSfdp
  Bus = "external"
  EpBufferSize = 2
  FlashBufferSize = 8
  DefaultCount = 4
  FlashPageSize = 1
  CountModulus = 32
  Commands = {"write"}
  File <- MCFile
  FileLengths = {3}
  Contents <- MCOldContents
  ListedSize = 32
  GarbledSizes = {0, 8}
  SfdpReads <- MCSfdpReads
  MaxKills = 0
INVARIANTS
  WriteDone
