SPECIFICATION FairSpec
CONSTANTS
  Kind = "nor"
  Byte <- MCByte
  Erased = Erased
  Corrupt = Corrupt
  PageSize = 4
  EraseSize = 8
  BlockErase = 16
  DevSize = 8
  Sfdp <- MCSfdp
  Bus = "internal"
  EpBufferSize = 2
  FlashBufferSize = 16
  DefaultCount = 4
  FlashPageSize = 4
  CountModulus = 32
  Commands = {"listDevices", "erase", "read", "write", "sfdp"}
  File <- MCFile
  FileLengths = {3, 8}
  Contents <- MCContents
  ListedSize = 8
  GarbledSizes = {0, 8}
  SfdpReads <- MCSfdpReads
  MaxKills = 1
PROPERTIES
  ImplementsJob
  CommandEnds
  EraseEnds
