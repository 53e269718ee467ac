SPECIFICATION Spec
CONSTANTS
  Kind = "nor"
  Byte <- MCByte
  Erased = Erased
  Corrupt = Corrupt
  PageSize = 4
  EraseSize = 8
  BlockErase = 16
  DevSize = 16
  Sfdp <- MCSfdp
  Bus = "internal"
  EpBufferSize = 2
  FlashBufferSize = 8
  DefaultCount = 4
  FlashPageSize = 4
  CountModulus = 32
  Commands = {"listDevices", "erase", "read", "write", "verifiedWrite", "sfdp"}
  File <- MCFile
  FileLengths = {1, 5, 13}
  Contents <- MCContents
  ListedSize = 16
  GarbledSizes = {0, 8}
  SfdpReads <- MCSfdpReads
  MaxKills = 2
INVARIANTS
  TypeOK
  ControlInv
  NoHang
  CleanStart
  BusDiscipline
  WriteDone
  QuietReadDone
  QuietEraseDone
  RangeErased
  NoOverprogram
  ProgressExact
  SfdpDone
PROPERTIES
  EraseConfined
  ImplementsJob
  ProgressForward
