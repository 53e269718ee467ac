SPECIFICATION Spec
CONSTANTS
  p1 = p1
  p2 = p2
  Procs = {p1, p2}
  NoProc = NoProc
  Commands = {"list", "listDevices", "erase", "read", "write", "verifiedWrite", "sfdp"}
  NoTerminal = NoTerminal
  Windows = {50, 132, NoTerminal}
  SizeModulus = 65536
  MaxString = 1000
  TimeDigits = {5, 7}
  MaxBlocks = 1
  MaxResizes = 1
SYMMETRY Users
INVARIANTS
  TypeOK
  ClaimReturned
  Isolation
  ExitTruth
  DeathKnown
  WidthFresh
PROPERTIES
  TimeFits
  BoardReleased
CHECK_DEADLOCK FALSE
