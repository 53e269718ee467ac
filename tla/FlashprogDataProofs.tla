------------------------ MODULE FlashprogDataProofs ------------------------
(***************************************************************************)
(* What reaches the chip and the host, for every scale, file and first     *)
(* contents of the chip, and however often the host is killed.             *)
(*                                                                         *)
(* ControlInv of FlashprogProofs says what the engine does at each point   *)
(* of the host's program; the invariants here say, for the same points,    *)
(* which bytes are where:                                                  *)
(*   ProgressInv   how far an erase of pages is, on both sides of the wire *)
(*   TrustInv      that the sizes and parameters a command uses are those  *)
(*                 of its chip, unless an earlier command left it busy     *)
(*   DataInv       which cells hold the file, which are erased, and which  *)
(*                 bytes of the chip the host has                          *)
(*   UnkilledInv   that nothing is left running when no host was killed    *)
(*   Sound         that nothing is latched for a cell that is not erased   *)
(* ProgressInv holds on every chip, the others on a byte addressed one     *)
(* (Kind = "nor"); Sound is for the soldered chip, on the internal bus.    *)
(***************************************************************************)
EXTENDS FlashprogProofs, NaturalsInduction, WellFoundedInduction

(* Erase progress, and what each point of the program says of the command *)
\* What the host has of the erase's progress never runs ahead of status, nor
\* status of the page the tick is at; an erase that has ended has shown its last
\* page.  The rest ties the command to the point its program is at.
ProgressInv ==
    /\ pc \in Working => (Bus = "external" => deviceReset)
    /\ pc = "idle" => command = "none"
    /\ pc \in {"count", "listing"} => command = "listDevices"
    /\ pc \in {"idle", "info", "abort", "target", "eraseReq", "eraseData"} =>
          received = <<>> /\ currentPage = 0
    /\ pc \in {"eraseReq", "eraseData", "erasePoll"} => Writing \/ command = "erase"
    /\ pc \in {"readReq", "readData", "readBulk"} => command = "read"
    /\ pc \in {"sfdpReq", "sfdpData", "sfdpBulk"} => command = "sfdp"
    /\ pc \in {"eraseData", "erasePoll"} =>
          eraseOperation = IF Writing THEN "pageRange" ELSE "all"
    /\ pc = "erasePoll" =>
          IF Writing
          THEN /\ endPage = PageCount /\ beginPage <= endPage
               /\ currentPage <= status.erasePage /\ status.erasePage <= beginPage
               /\ ~eraseActive => status.erasePage = endPage
          ELSE ~eraseActive
    /\ pc \in {"writeReq", "writeData", "writeBulk", "verifyPoll"} => currentPage = PageCount
    /\ pc \in {"release", "done"} => result # "none"

\* The number of erase pages of a file is a number: no command divides by an
\* erase size of 0.
LEMMA PageCountNat == ControlInv /\ pc \in Working => PageCount \in Nat
  <1> SUFFICES ASSUME ControlInv, pc \in Working PROVE PageCount \in Nat
    OBVIOUS
  <1>1. fileLength \in Nat /\ chipInfo.eraseSize \in Nat
    BY DEF ControlInv, TypeOK, HostTypeOK, Info
  <1>2. Writing => chipInfo.eraseSize > 0
    BY DEF ControlInv, CommandInv, Working, Writing
  <1>3. QED
    BY <1>1, <1>2, CeilNat DEF PageCount

\* Every step keeps the progress: a status is only read while the erase it is
\* about is polled, or after it.
LEMMA ProgressStep == ControlInv /\ NoHang /\ ProgressInv /\ [Next]_vars => ProgressInv'
  <1> SUFFICES ASSUME ControlInv, NoHang, ProgressInv, [Next]_vars PROVE ProgressInv'
    OBVIOUS
  <1> USE DEF ProgressInv, Working, Writing
  <1>1. ASSUME NEW cmd \in Commands, NEW isValid \in BOOLEAN, NEW length \in FileLengths \cup {0},
               Start(cmd, isValid, length)
        PROVE  ProgressInv'
    BY <1>1, HostAssumption DEF Start, protoVars, targetVars
  <1>2. ASSUME Forget
        PROVE  ProgressInv'
    BY <1>2 DEF Forget
  <1>3. ASSUME RequestCount \/ ListDevice
        PROVE  ProgressInv'
    BY <1>3 DEF RequestCount, ListDevice, Goto, jobVars
  <1>4. ASSUME ReadChipInfo
        PROVE  ProgressInv'
    BY <1>4 DEF ReadChipInfo, Goto, Fail, jobVars
  <1>5. ASSUME Abort
        PROVE  ProgressInv'
    BY <1>5 DEF Abort, Goto, jobVars
  <1>6. ASSUME TargetDevice
        PROVE  ProgressInv'
    BY <1>6 DEF TargetDevice, HandleTargetDevice, HoldReset, Goto, Fail, Release, jobVars
  <1>7. ASSUME TargetRefused
        PROVE  ProgressInv'
    BY <1>7 DEF TargetRefused, Fail
  <1>8. ASSUME Deselected
        PROVE  ProgressInv'
    BY <1>8 DEF Deselected, Goto
  <1>9. ASSUME RequestErase
        PROVE  ProgressInv'
    BY <1>9 DEF RequestErase, SetupErase, Accepted, Goto, Fail, jobVars, targetVars
  <1>10. ASSUME SendEraseConfig
         PROVE  ProgressInv'
    <2>1. /\ pc = "eraseData" /\ pc' = "erasePoll" /\ ~eraseActive
          /\ UNCHANGED <<command, fileLength, chipInfo, currentPage, deviceReset, eraseOperation>>
      BY <1>10 DEF SendEraseConfig, HandleErase, Goto, jobVars, targetVars, PhaseInv, ControlInv
    <2>2. Writing => beginPage' = 0 /\ endPage' = PageCount /\ status'.erasePage = 0 /\ eraseActive'
      BY <1>10, <2>1
         DEF SendEraseConfig, HandleErase, ControlInv, TypeOK, ProtoTypeOK, EngineTypeOK,
             Status
    <2>3. ~Writing => ~eraseActive'
      BY <1>10, <2>1 DEF SendEraseConfig, HandleErase
    <2>4. PageCount \in Nat /\ PageCount' = PageCount
      BY <1>10, <2>1, PageCountNat DEF PageCount
    <2>5. QED
      BY <2>1, <2>2, <2>3, <2>4
  <1>11. ASSUME PollErase
         PROVE  ProgressInv'
    <2>1. /\ pc = "erasePoll" /\ targetDevice = "chip"
          /\ UNCHANGED <<command, fileLength, chipInfo>>
          /\ pc' \in {"erasePoll", "release", "done", "writeReq"} /\ (pc' = "writeReq" => Writing)
          /\ pc' = "erasePoll" => status'.eraseComplete = 0
          /\ pc' = "writeReq" => status'.eraseComplete # 0
          /\ currentPage' = IF Writing THEN status'.erasePage ELSE currentPage
          /\ pc' \in {"release", "done"} => result' # "none"
      BY <1>11 DEF PollErase, Goto, Fail, Release, jobVars, PhaseInv, ControlInv
    <2>2. /\ UNCHANGED <<deviceReset, eraseActive, beginPage, endPage>>
          /\ status' = EraseStatus
          /\ status'.eraseComplete = 0 => eraseOperation' = eraseOperation
      BY <1>11, <2>1 DEF PollErase, FetchStatus, targetVars
    <2>3. /\ status'.erasePage = status.erasePage /\ status.erasePage \in Nat
          /\ status'.eraseComplete # 0 => ~eraseActive
      BY <2>1, <2>2 DEF EraseStatus, ControlInv, TypeOK, ProtoTypeOK, EngineTypeOK, Status
    <2>4. PageCount' = PageCount
      BY <2>1 DEF PageCount
    <2>5. QED
      BY <2>1, <2>2, <2>3, <2>4
  <1>12. ASSUME RequestRead
         PROVE  ProgressInv'
    BY <1>12 DEF RequestRead, SetupRead, Accepted, Goto, Fail, jobVars, targetVars
  <1>13. ASSUME SendReadPage
         PROVE  ProgressInv'
    BY <1>13 DEF SendReadPage, HandleRead, Goto, jobVars, targetVars
  <1>14. ASSUME ReadBulk
         PROVE  ProgressInv'
    BY <1>14
       DEF ReadBulk, Receive, PerformDataOrSFDPRead, Hang, Goto, Release, jobVars, targetVars
  <1>15. ASSUME RequestSfdp \/ SendSfdpAddress
         PROVE  ProgressInv'
    BY <1>15
       DEF RequestSfdp, SendSfdpAddress, SetupSFDPRead, HandleSFDPRead, Accepted, Goto, Fail,
           jobVars, targetVars
  <1>16. ASSUME SfdpBulk
         PROVE  ProgressInv'
    BY <1>16
       DEF SfdpBulk, Receive, PerformDataOrSFDPRead, Hang, Goto, Release, jobVars, targetVars
  <1>17. ASSUME RequestWrite
         PROVE  ProgressInv'
    BY <1>17 DEF RequestWrite, SetupWrite, Accepted, Goto, Fail, jobVars, targetVars, PageCount
  <1>18. ASSUME SendWritePage
         PROVE  ProgressInv'
    BY <1>18 DEF SendWritePage, HandleWrite, Hang, Goto, jobVars, targetVars, PageCount
  <1>19. ASSUME WriteBulk
         PROVE  ProgressInv'
    <2>1. /\ UNCHANGED <<command, fileLength, chipInfo, currentPage, deviceReset>>
          /\ pc = "writeBulk" /\ pc' \in {"writeBulk", "verifyPoll", "writeReq", "release"}
          /\ pc' = "release" => result' # "none"
      BY <1>19 DEF WriteBulk, PerformWrite, Hang, NextBlock, Goto, Release, jobVars, targetVars
    <2>2. PageCount' = PageCount
      BY <2>1 DEF PageCount
    <2>3. QED
      BY <2>1, <2>2
  <1>20. ASSUME VerifyPages
         PROVE  ProgressInv'
    BY <1>20
       DEF VerifyPages, FetchStatus, Hang, NextBlock, Goto, Release, Fail, jobVars, targetVars,
           PageCount
  <1>21. ASSUME ChipFinishes
         PROVE  ProgressInv'
    BY <1>21 DEF ChipFinishes, hostVars, jobVars, targetVars, eraseVars, PageCount
  <1>22. ASSUME StartOfFrame
         PROVE  ProgressInv'
    <2>1. UNCHANGED <<pc, command, fileLength, chipInfo, currentPage, received, result>>
          /\ PageCount' = PageCount
      BY <1>22 DEF StartOfFrame, hostVars, jobVars, PageCount
    <2>2. eraseActive /\ targetDevice = "chip" /\ UNCHANGED <<deviceReset, eraseOperation, endPage>>
      BY <1>22 DEF StartOfFrame, Tick, ControlInv, BusDiscipline, targetVars
    <2>3. /\ status'.erasePage = beginPage /\ beginPage \in Nat /\ endPage \in Nat
          /\ \/ beginPage >= endPage /\ ~eraseActive' /\ beginPage' = beginPage
             \/ ~(beginPage >= endPage) /\ eraseActive' /\ beginPage' = beginPage + 1
      BY <1>22, <2>2
         DEF StartOfFrame, Tick, EraseNextPage, ControlInv, TypeOK, ProtoTypeOK, EngineTypeOK,
             EraseTypeOK, Status
    <2>4. status.erasePage \in Nat /\ currentPage \in Nat
      BY DEF ControlInv, TypeOK, ProtoTypeOK, EngineTypeOK, HostTypeOK, Status
    <2>5. QED
      BY <2>1, <2>2, <2>3, <2>4
  <1>23. ASSUME UNCHANGED vars
         PROVE  ProgressInv'
    BY <1>23 DEF vars, protoVars, hostVars, jobVars, targetVars, eraseVars, PageCount
  <1>24. QED
    BY <1>1, <1>2, <1>3, <1>4, <1>5, <1>6, <1>7, <1>8, <1>9, <1>10, <1>11, <1>12, <1>13, <1>14,
       <1>15, <1>16, <1>17, <1>18, <1>19, <1>20, <1>21, <1>22, <1>23
       DEF Next, User, Transfer, Kill, Exit

(* The parameters a command trusts ***************************************)
\* The points before the chip is targeted.
Starting == {"count", "listing", "info", "abort", "target"}

\* A trusted command meets its chip idle, so that it identifies; from then on
\* the sizes the host has and the parameters the firmware uses are the chip's.
TrustInv ==
    /\ ~chip.protected
    /\ Bus = "internal" => targetParams # "fallback"
    /\ quiet /\ pc \in Starting => ~chip.busy /\ ~eraseActive /\ chip.op = "none"
    /\ Trusted /\ pc \in Working => targetParams = "chip"
    /\ Trusted /\ pc \in {"abort", "target"} \cup Working /\ valid /\ command \notin {"erase", "sfdp"}
          => chipInfo = [deviceSize |-> DevSize, eraseSize |-> EraseSize]
    /\ Writing /\ pc \in {"abort", "target"} \cup Working => fileLength <= chipInfo.deviceSize

\* How much of the file has been sent.
Sent == block * Chunk + ByteCount - want

\* The packet the host sends next.
Packet == [i \in 1..Least(want, EpBufferSize) |-> FileByte(Sent + i - 1)]

\* The page a block starts at is a number.
LEMMA PageNumber == ControlInv => block * PagesPerChunk \in Nat
  <1>1. ControlInv => block \in Nat /\ chipInfo \in Info
    BY DEF ControlInv, TypeOK, HostTypeOK
  <1>2. QED
    BY <1>1, ChunkSize, ProtoAssumption DEF PagesPerChunk

\* WriteBulk hands that packet to performWrite.
LEMMA PacketSent ==
    ASSUME ControlInv, WriteBulk
    PROVE  /\ Packet \in Seq(Byte) /\ Len(Packet) = Least(want, EpBufferSize)
           /\ Len(Packet) \in 1..want /\ want = writeCount /\ chip.op # "none"
           /\ PerformWrite(Packet) /\ want' = want - Len(Packet)
  <1>1. want = writeCount /\ want \in Nat \ {0} /\ chip.op # "none"
    BY DEF WriteBulk, ControlInv, PhaseInv, TypeOK, HostTypeOK
  <1> DEFINE n == Least(want, EpBufferSize)
  <1>2. n \in 1..want
    BY <1>1, ProtoAssumption DEF Least
  <1>3. ASSUME NEW i
        PROVE  FileByte(i) \in Byte
    BY ChipAssumption, HostAssumption DEF FileByte
  <1>4. Packet \in Seq(Byte) /\ Len(Packet) = n
    BY <1>1, <1>2, <1>3 DEF Packet
  <1>5. PerformWrite(Packet) /\ want' = want - Len(Packet)
    BY DEF WriteBulk, Packet, Sent
  <1>6. QED
    BY <1>1, <1>2, <1>4, <1>5

\* The first packet of a block is the chip's, from the page asked for, and the
\* read goes on behind it.
LEMMA ReadCells ==
    ASSUME Kind = "nor", KnownChip, ControlInv, SendReadPage
    PROVE  /\ chip'.mem = chip.mem /\ chip'.protected = chip.protected
           /\ targetParams = "chip" /\ ~chip.busy =>
                 /\ ~chip'.busy
                 /\ \A i \in 1..EpBufferSize :
                       inPacket'[i] = Cell(chip, (block * PagesPerChunk) * PageSize + (i - 1))
                 /\ readCount' > 0 =>
                       /\ chip'.op = "read"
                       /\ chip'.base + chip'.pos = (block * PagesPerChunk) * PageSize + EpBufferSize
  <1>1. ProtoTypeOK /\ targetDevice # "none" /\ chip.op = "none" /\ HandleRead(block * PagesPerChunk)
    BY DEF SendReadPage, ControlInv, PhaseInv, TypeOK, Working
  <1>2. QED
    BY <1>1, PageNumber, NotPaged, HandleReadCells DEF KnownChip

\* Reading the SFDP area leaves the array alone.
LEMMA SfdpCells ==
    ASSUME ControlInv, SendSfdpAddress
    PROVE  chip'.mem = chip.mem /\ chip'.busy = chip.busy /\ chip'.protected = chip.protected
  <1>1. ProtoTypeOK /\ targetDevice # "none" /\ HandleSFDPRead(SfdpReads[block + 1][1])
    BY DEF SendSfdpAddress, ControlInv, PhaseInv, TypeOK, Working
  <1>2. SfdpReads[block + 1] \in Nat \X (1..FlashBufferSize)
    BY HostAssumption DEF SendSfdpAddress, ControlInv, LoopInv, TypeOK, HostTypeOK
  <1>3. SfdpReads[block + 1][1] \in Nat
    BY <1>2
  <1>4. QED
    BY <1>1, <1>3, HandleSFDPReadCells

\* Taking a packet leaves the array alone.
LEMMA ReceiveCells ==
    ASSUME Kind = "nor", KnownChip, ControlInv, ReadBulk \/ SfdpBulk
    PROVE  chip'.mem = chip.mem /\ chip'.busy = chip.busy /\ chip'.protected = chip.protected
  <1>1. ProtoTypeOK /\ chip.op \notin {"program", "skewed"}
    BY DEF ReadBulk, SfdpBulk, ControlInv, PhaseInv, Reading, BusDiscipline, TypeOK
  <1>2. PerformDataOrSFDPRead
    BY DEF ReadBulk, SfdpBulk, Receive
  <1>3. QED
    BY <1>1, <1>2, PerformDataOrSFDPReadCells

\* An array that is not protected never becomes so: only a W25N's registers are
\* ever written.
LEMMA ProtectionStep ==
    ASSUME Kind = "nor", KnownChip, ControlInv, NoHang, ~chip.protected, [Next]_vars
    PROVE  ~chip'.protected
  <1> USE DEF NoHang
  <1>1. /\ ProtoTypeOK /\ chip \in Chip /\ beginPage \in Nat /\ writePage \in Nat /\ verifyPage \in Nat
        /\ writeTotal \in Nat
    BY ProtoAssumption DEF ControlInv, TypeOK, ProtoTypeOK, EngineTypeOK, EraseTypeOK, WriteTypeOK
  <1>2. ASSUME chip' \in {chip, Deselect(chip), IdentDevice(chip), Finish(chip)}
        PROVE  ~chip'.protected
    BY <1>1, <1>2, KeepsSettings, EngineSettings DEF SameSettings
  <1>3. ASSUME \/ UNCHANGED chip \/ Abort \/ RequestCount \/ ListDevice \/ ReadChipInfo \/ TargetDevice
               \/ TargetRefused \/ Deselected \/ RequestErase \/ PollErase \/ RequestRead
               \/ RequestSfdp \/ RequestWrite \/ VerifyPages \/ ChipFinishes
        PROVE  ~chip'.protected
    <2>1. chip' \in {chip, Deselect(chip), IdentDevice(chip), Finish(chip)}
      BY <1>3, NotNand DEF Abort, HandleAbort, RequestCount, FetchDeviceCount, ListDevice,
         ReadChipInfo, FetchDeviceListing, TargetDevice, HandleTargetDevice, TargetRefused,
         RefuseTargetDevice, Deselected, ReleaseTargetDevice, RequestErase, SetupErase,
         PollErase, FetchStatus, Hang, RequestRead, SetupRead, RequestSfdp, SetupSFDPRead,
         RequestWrite, SetupWrite, VerifyPages, ChipFinishes
    <2>2. QED
      BY <1>2, <2>1
  <1>4. ASSUME User \/ Exit
        PROVE  ~chip'.protected
    BY <1>4 DEF User, Start, Kill, Exit, Forget, protoVars
  <1>5. ASSUME SendEraseConfig
        PROVE  ~chip'.protected
    <2>1. chip' \in {chip, ChipErase(WriteEnable(chip))}
      BY <1>5 DEF SendEraseConfig, HandleErase
    <2>2. QED
      BY <1>1, <2>1, KeepsSettings, WriteEnableChip DEF SameSettings
  <1>6. ASSUME StartOfFrame
        PROVE  ~chip'.protected
    <2>1. chip' \in {chip, ErasePage(chip, beginPage)}
      BY <1>6 DEF StartOfFrame, Tick, Hang, EraseNextPage
    <2>2. QED
      BY <1>1, <2>1, EngineSettings DEF SameSettings
  <1>7. ASSUME SendReadPage \/ SendSfdpAddress
        PROVE  ~chip'.protected
    BY <1>7, ReadCells, SfdpCells
  <1>8. ASSUME ReadBulk \/ SfdpBulk
        PROVE  ~chip'.protected
    BY <1>8, ReceiveCells
  <1>9. ASSUME SendWritePage
        PROVE  ~chip'.protected
    <2>1. chip' \in {chip, WriteAddress(chip, block * PagesPerChunk)}
      BY <1>9 DEF SendWritePage, HandleWrite, Hang
    <2>2. QED
      BY <1>1, <2>1, PageNumber, EngineSettings DEF SameSettings
  <1>10. ASSUME WriteBulk
         PROVE  ~chip'.protected
    BY <1>1, <1>10, PacketSent, PerformWriteFacts DEF SameSettings
  <1>11. QED
    BY <1>3, <1>4, <1>5, <1>6, <1>7, <1>8, <1>9, <1>10 DEF Next, Transfer, vars, protoVars

\* While a command works on its chip it neither changes nor targets another.
LEMMA WorkSteps ==
    ASSUME ControlInv,
           \/ Deselected \/ RequestErase \/ SendEraseConfig \/ PollErase \/ RequestRead \/ SendReadPage
           \/ ReadBulk \/ RequestSfdp \/ SendSfdpAddress \/ SfdpBulk
           \/ RequestWrite \/ SendWritePage \/ WriteBulk \/ VerifyPages
    PROVE  /\ pc \in Working /\ pc' \in Working \cup {"done"}
           /\ UNCHANGED <<targetParams, jobVars, chipInfo>>
  <1> USE DEF Working, Goto, Accepted, Fail, Release, targetVars, ControlInv, PhaseInv
  <1>1. CASE Deselected
    BY <1>1 DEF Deselected, ReleaseTargetDevice
  <1>2. CASE RequestErase \/ SendEraseConfig
    BY <1>2 DEF RequestErase, SetupErase, SendEraseConfig, HandleErase
  <1>3. CASE PollErase
    BY <1>3 DEF PollErase, FetchStatus, Hang
  <1>4. CASE RequestRead \/ SendReadPage
    BY <1>4 DEF RequestRead, SetupRead, SendReadPage, HandleRead
  <1>5. CASE ReadBulk \/ SfdpBulk
    BY <1>5 DEF ReadBulk, SfdpBulk, Receive, PerformDataOrSFDPRead, Hang
  <1>6. CASE RequestSfdp \/ SendSfdpAddress
    BY <1>6 DEF RequestSfdp, SetupSFDPRead, SendSfdpAddress, HandleSFDPRead
  <1>7. CASE RequestWrite \/ SendWritePage
    BY <1>7 DEF RequestWrite, SetupWrite, SendWritePage, HandleWrite, Hang
  <1>8. CASE WriteBulk
    BY <1>8 DEF WriteBulk, PerformWrite, Hang, NextBlock
  <1>9. CASE VerifyPages
    BY <1>9 DEF VerifyPages, FetchStatus, Hang, NextBlock
  <1>10. QED
    BY <1>1, <1>2, <1>3, <1>4, <1>5, <1>6, <1>7, <1>8, <1>9

\* An idle chip identifies, and is left idle.
LEMMA QuietIdent ==
    ASSUME NEW c \in Chip, c.op = "none"
    PROVE  /\ IdentDevice(c).busy = c.busy /\ IdentDevice(c).op = "none" /\ IdentDevice(c).mem = c.mem
           /\ Deselect(c).busy = c.busy /\ Deselect(c).op = "none" /\ Deselect(c).mem = c.mem
           /\ ~c.busy => Identified(c) = "chip"
  <1>1. Deselect(c).busy = c.busy /\ Deselect(c).op = "none" /\ Deselect(c).mem = c.mem
    BY DeselectQuiet, DeselectChip DEF Chip
  <1>2. IdentDevice(c) = Deselect(c)
    BY DEF IdentDevice, Latch
  <1>3. QED
    BY <1>1, <1>2 DEF Identified

\* Every step keeps the parameters right.
LEMMA TrustStep ==
    ASSUME Kind = "nor", KnownChip, ControlInv, NoHang, TrustInv, [Next]_vars
    PROVE  TrustInv'
  <1> USE DEF TrustInv, Trusted, Starting, Writing, Working
  <1>1. ~chip'.protected
    BY ProtectionStep
  <1>2. chip \in Chip
    BY DEF ControlInv, TypeOK, ProtoTypeOK, EngineTypeOK
  <1>3. ASSUME NEW cmd \in Commands, NEW isValid \in BOOLEAN, NEW length \in FileLengths \cup {0},
               Start(cmd, isValid, length)
        PROVE  TrustInv'
    BY <1>1, <1>3 DEF Start, protoVars, targetVars, eraseVars
  <1>4. ASSUME Forget
        PROVE  TrustInv'
    BY <1>1, <1>4 DEF Forget, protoVars, targetVars
  <1>5. ASSUME RequestCount \/ ListDevice
        PROVE  TrustInv'
    BY <1>1, <1>2, <1>5, QuietIdent
       DEF RequestCount, ListDevice, FetchDeviceCount, FetchDeviceListing, Goto, jobVars,
           eraseVars
  <1>6. ASSUME ReadChipInfo
        PROVE  TrustInv'
    <2>1. /\ pc = "info" /\ pc' \in {"abort", "done"} /\ UNCHANGED <<jobVars, targetParams, eraseActive>>
          /\ pc' = "abort" /\ Writing => ~(fileLength > chipInfo'.deviceSize)
          /\ chip' \in {chip, IdentDevice(chip)}
          /\ valid => chipInfo' \in Listings(IF Bus = "external" THEN Identified(chip) ELSE "chip")
      BY <1>6 DEF ReadChipInfo, FetchDeviceListing, Goto, Fail, jobVars, eraseVars
    <2>2. fileLength \in Nat /\ chipInfo'.deviceSize \in Nat
      BY <1>6, ReadChipInfoInv DEF ControlInv, TypeOK, HostTypeOK, Info
    <2>3. quiet => /\ ~chip.busy /\ chip.op = "none" /\ ~eraseActive /\ Identified(chip) = "chip"
                   /\ ~chip'.busy /\ chip'.op = "none"
      BY <1>2, <2>1, QuietIdent
    <2>4. Trusted /\ valid => chipInfo' = [deviceSize |-> DevSize, eraseSize |-> EraseSize]
      BY <2>1, <2>3, ProtoAssumption DEF Listings, KnownChip
    <2>5. QED
      BY <1>1, <2>1, <2>2, <2>3, <2>4 DEF jobVars
  <1>7. ASSUME Abort
        PROVE  TrustInv'
    BY <1>1, <1>2, <1>7, QuietIdent DEF Abort, HandleAbort, ResetErase, Goto, jobVars
  <1>8. ASSUME TargetDevice \/ TargetRefused
        PROVE  TrustInv'
    BY <1>1, <1>2, <1>8, QuietIdent
       DEF TargetDevice, HandleTargetDevice, TargetRefused, RefuseTargetDevice, Goto, Fail,
           Release, jobVars, eraseVars, targetVars
  <1>9. ASSUME pc \in Working, pc' \in Working \cup {"done"}, UNCHANGED <<targetParams, jobVars, chipInfo>>
        PROVE  TrustInv'
    BY <1>1, <1>9 DEF jobVars
  <1>10. ASSUME ChipFinishes
         PROVE  TrustInv'
    BY <1>1, <1>2, <1>10, FinishChip
       DEF ChipFinishes, Finish, hostVars, jobVars, targetVars, eraseVars
  <1>11. ASSUME StartOfFrame
         PROVE  TrustInv'
    BY <1>1, <1>11 DEF StartOfFrame, Tick, Hang, hostVars, jobVars, targetVars
  <1>12. ASSUME UNCHANGED vars
         PROVE  TrustInv'
    BY <1>12 DEF vars, protoVars, hostVars, jobVars, targetVars, eraseVars
  <1>13. QED
    BY <1>3, <1>4, <1>5, <1>6, <1>7, <1>8, <1>9, <1>10, <1>11, <1>12, WorkSteps
       DEF Next, User, Transfer, Kill, Exit

(* Blocks, pages and packets *********************************************)
\* A block is a whole number of pages.
LEMMA ChunkPages ==
    ASSUME KnownChip, chipInfo \in Info
    PROVE  /\ Chunk \in Nat \ {0} /\ PagesPerChunk \in Nat \ {0} /\ Chunk = PagesPerChunk * PageSize
           /\ \A b \in Nat : (b * PagesPerChunk) * PageSize = b * Chunk
  <1> DEFINE n == Chunk
             p == PageSize
             q == PagesPerChunk
  <1>1. n \in Nat \ {0} /\ p \in Nat \ {0}
    BY ChunkSize, ChipAssumption
  <1>2. n % p = 0
    <2>1. p % p = 0
      <3>1. 0 \in 0..p - 1 /\ p = (p * 1) + 0
        BY <1>1
      <3> HIDE DEF p
      <3>2. QED
        BY <1>1, <3>1, ModUnique
    <2>2. QED
      BY <2>1 DEF Chunk, KnownChip
  <1>3. q = n \div p
    BY DEF PagesPerChunk, KnownChip
  <1> HIDE DEF n, p, q
  <1>4. q \in Int /\ n = (p * q) + (n % p)
    BY <1>1, <1>3, ModDef
  <1>5. q > 0
    <2>1. q <= 0 => p * q <= 0
      BY <1>1, <1>4
    <2>2. QED
      BY <1>1, <1>2, <1>4, <2>1
  <1>6. q \in Nat \ {0} /\ n = q * p
    BY <1>1, <1>2, <1>4, <1>5
  <1>7. ASSUME NEW b \in Nat
        PROVE  (b * q) * p = b * n
    BY <1>1, <1>6
  <1>8. QED
    BY <1>1, <1>6, <1>7 DEF n, p, q

\* A packet that starts at a multiple of its size inside a page ends inside it,
\* at a multiple of its size.
LEMMA PacketInPage ==
    ASSUME KnownChip, NEW pos \in Column, pos % EpBufferSize = 0
    PROVE  pos + EpBufferSize <= PageSize /\ (pos + EpBufferSize) % EpBufferSize = 0
  <1> DEFINE e == EpBufferSize
             p == PageSize
  <1>1. e \in Nat \ {0} /\ p \in Nat \ {0} /\ p % e = 0 /\ pos \in 0..p - 1 /\ pos % e = 0
    BY ProtoAssumption, ChipAssumption DEF Column, KnownChip
  <1> HIDE DEF e, p
  <1> DEFINE i == pos \div e
             j == p \div e
  <1>2. i \in Int /\ pos = (e * i) + 0 /\ j \in Int /\ p = (e * j) + 0
    BY <1>1, ModDef
  <1> HIDE DEF i, j
  <1>3. e * (i + 1) = (e * i) + e /\ e * (j - i) = (e * j) - (e * i)
    BY <1>1, <1>2
  <1>4. j - i >= 1
    <2>1. j - i <= 0 => e * (j - i) <= 0
      BY <1>1, <1>2
    <2>2. QED
      BY <1>1, <1>2, <1>3, <2>1
  <1>5. e * (j - i) >= e
    BY <1>1, <1>2, <1>4
  <1>6. pos + e <= p
    BY <1>1, <1>2, <1>3, <1>5
  <1>7. (pos + e) % e = 0
    <2>1. 0 \in 0..e - 1 /\ pos + e \in Int /\ i + 1 \in Int /\ pos + e = (e * (i + 1)) + 0
      BY <1>1, <1>2, <1>3
    <2>2. QED
      BY <1>1, <2>1, ModUnique
  <1>8. QED
    BY <1>6, <1>7 DEF e, p

\* The firmware finds the end of a page where the latch is full.
LEMMA PageEnd ==
    ASSUME NEW page \in Nat, NEW chunk \in Nat, NEW pos \in 1..PageSize, NEW end \in Int,
           chunk * PageSize + end = page * PageSize + pos
    PROVE  end % PageSize = 0 <=> pos = PageSize
  <1> DEFINE p == PageSize
             q == page - chunk
  <1>1. p \in Nat \ {0} /\ pos \in 1..p /\ chunk * p + end = page * p + pos
    BY ChipAssumption
  <1> HIDE DEF p
  <1>2. q \in Int /\ p * q = (page * p) - (chunk * p) /\ p * (q + 1) = (p * q) + p
    BY <1>1
  <1>3. end = (p * q) + pos
    BY <1>1, <1>2
  <1> HIDE DEF q
  <1>4. CASE pos = p
    <2>1. q + 1 \in Int /\ 0 \in 0..p - 1 /\ end = (p * (q + 1)) + 0
      BY <1>1, <1>2, <1>3, <1>4
    <2>2. end % p = 0
      BY <1>1, <2>1, ModUnique
    <2>3. QED
      BY <1>4, <2>2 DEF p
  <1>5. CASE pos # p
    <2>1. pos \in 0..p - 1 /\ pos # 0
      BY <1>1, <1>5
    <2>2. end % p = pos
      BY <1>1, <1>2, <1>3, <2>1, ModUnique
    <2>3. QED
      BY <1>5, <2>1, <2>2 DEF p
  <1>6. QED
    BY <1>4, <1>5

\* A device that is read in whole blocks is read to its end.
LEMMA ReadWhole ==
    ASSUME chipInfo \in Info, chipInfo.deviceSize % Chunk = 0
    PROVE  ReadBlocks \in Nat /\ ReadBlocks * Chunk = chipInfo.deviceSize
  <1> DEFINE d == chipInfo.deviceSize
             n == Chunk
             q == d \div n
  <1>1. d \in Nat /\ n \in Nat \ {0} /\ d % n = 0
    BY ChunkSize DEF Info
  <1> HIDE DEF d, n
  <1>2. q \in Int /\ d = (n * q) + 0
    BY <1>1, ModDef
  <1>3. ReadBlocks = q
    BY DEF ReadBlocks, d, n
  <1> HIDE DEF q
  <1>4. q >= 0
    <2>1. q <= -1 => n * q <= -n
      BY <1>1, <1>2
    <2>2. QED
      BY <1>1, <1>2, <2>1
  <1>5. QED
    BY <1>1, <1>2, <1>3, <1>4 DEF d, n

\* A device that is not refused is a whole number of blocks.
LEMMA NotFunky ==
    ASSUME KnownChip, chipInfo \in Info, chipInfo.deviceSize = DevSize, ~Funky
    PROVE  chipInfo.deviceSize % Chunk = 0
  BY DEF Funky, Chunk, KnownChip

\* A rounded up division counts every started part.
LEMMA CeilCovers ==
    ASSUME NEW a \in Nat, NEW b \in Nat \ {0}
    PROVE  Ceil(a, b) * b >= a
  <1> DEFINE n == a + b - 1
             q == n \div b
  <1>1. n \in Int /\ n = a + b - 1
    OBVIOUS
  <1> HIDE DEF n
  <1>2. q \in Int /\ n = (b * q) + (n % b) /\ n % b \in 0..b - 1
    BY <1>1, ModDef
  <1> HIDE DEF q
  <1>3. b * q = q * b
    BY <1>2
  <1>4. q * b >= a
    BY <1>1, <1>2, <1>3
  <1>5. QED
    BY <1>4 DEF Ceil, n, q

\* All blocks of a file but the last are full, and the last ends the file.
LEMMA BlockEnd ==
    ASSUME chipInfo \in Info, fileLength \in Nat, block \in Nat, block * Chunk < fileLength
    PROVE  /\ block + 1 < WriteBlocks => block * Chunk + ByteCount = (block + 1) * Chunk
           /\ block + 1 >= WriteBlocks => block * Chunk + ByteCount = fileLength
           /\ block * Chunk + ByteCount <= fileLength
  <1>1. Chunk \in Nat \ {0}
    BY ChunkSize
  <1>2. (block + 1) * Chunk = block * Chunk + Chunk /\ block * Chunk \in Nat
    BY <1>1
  <1>3. ASSUME block + 1 < WriteBlocks
        PROVE  ByteCount = Chunk
    BY <1>1, <1>2, <1>3, NextBlockInside DEF ByteCount, Least
  <1>4. ASSUME block + 1 >= WriteBlocks
        PROVE  block * Chunk + ByteCount = fileLength
    <2>1. WriteBlocks \in Nat /\ WriteBlocks * Chunk >= fileLength
      BY <1>1, CeilNat, CeilCovers DEF WriteBlocks
    <2>2. (block + 1) * Chunk >= WriteBlocks * Chunk
      BY <1>1, <1>4, <2>1
    <2>3. QED
      BY <1>1, <1>2, <2>1, <2>2 DEF ByteCount, Least
  <1>5. block * Chunk + ByteCount <= fileLength
    BY <1>1, <1>2 DEF ByteCount, Least
  <1>6. QED
    BY <1>2, <1>3, <1>4, <1>5

(* The data *************************************************************)
\* The chip holds the file up to an offset, and the rest of the erase pages the
\* file touches is erased.
Filled(upTo) ==
    \A a \in Addr : /\ a < upTo => chip.mem[a] = File[a]
                    /\ upTo <= a /\ a < Touched => chip.mem[a] = Erased

\* A page is being sent: the latch holds the file's bytes since the start of the
\* page, and nothing behind them.
PageOpen ==
    /\ chip.op = "program" /\ chip.wel /\ ~chip.busy
    /\ writePage > 0 /\ chip.base = (writePage - 1) * PageSize
    /\ chip.pos \in Column /\ chip.pos % EpBufferSize = 0
    /\ chip.base + chip.pos = Sent /\ writeTotal = ByteCount
    /\ \A k \in Column : chip.buf[k] = IF k < chip.pos THEN FileByte(chip.base + k) ELSE Erased
    /\ Filled(chip.base)

\* The first n bytes of the chip have been received.
Delivered(n) == Len(received) = n /\ \A i \in 1..n : received[i] = Cell(chip, i - 1)

\* The loaded packet is what comes next, and the chip's address is behind it.
ReadOpen ==
    /\ \A i \in 1..EpBufferSize : inPacket[i] = Cell(chip, Len(received) + (i - 1))
    /\ readCount > 0 => chip.op = "read" /\ chip.base + chip.pos = Len(received) + EpBufferSize

\* What a command that says ok has done.
Kept ==
    /\ ~eraseActive
    /\ command = "erase" => ~chip.busy /\ \A a \in Addr : chip.mem[a] = Erased
    /\ Writing => ~chip.busy /\ \A a \in Addr : a < fileLength => chip.mem[a] = File[a]
    /\ command = "read" => Delivered(DevSize)

\* The data of a trusted command at each point of its program.
DataInv ==
    Trusted =>
    /\ pc \in {"eraseReq", "eraseData"} /\ ~Writing => ~chip.busy
    /\ pc = "erasePoll" /\ ~Writing => \A a \in Addr : chip.mem[a] = Erased
    /\ pc = "erasePoll" /\ Writing =>
          \A a \in Addr : a < beginPage * EraseSize => chip.mem[a] = Erased
    /\ pc \in {"writeReq", "writeData"} => ~chip.busy /\ Filled(block * Chunk)
    /\ pc = "writeData" => writeTotal = ByteCount
    /\ pc = "writeBulk" => PageOpen
    /\ pc = "verifyPoll" => ~chip.busy /\ Filled(block * Chunk + ByteCount)
    /\ pc \in {"readReq", "readData", "readBulk"} =>
          ~chip.busy /\ DevSize % Chunk = 0 /\ block < ReadBlocks
    /\ pc \in {"readReq", "readData"} => Delivered(block * Chunk)
    /\ pc = "readBulk" => ReadOpen /\ Delivered(block * Chunk + Chunk - want)
    /\ pc \in {"release", "done"} /\ result = "ok" => Kept

\* The invariant of a byte addressed chip.
Inv == ControlInv /\ NoHang /\ ProgressInv /\ TrustInv /\ DataInv

\* DataInv asks nothing while a command starts, dumps SFDP, or has failed.
LEMMA NoData ==
    ASSUME \/ pc' \in Starting \cup {"idle", "sfdpReq", "sfdpData", "sfdpBulk"}
           \/ pc' \in {"release", "done"} /\ result' = "fail"
    PROVE  DataInv'
  BY DEF DataInv, Starting

\* The types the steps below need.
LEMMA ControlTypes ==
    ASSUME ControlInv
    PROVE  /\ ProtoTypeOK /\ chip \in Chip /\ chip.mem \in [Addr -> Byte] /\ chipInfo \in Info
           /\ fileLength \in Nat /\ block \in Nat /\ want \in Nat /\ received \in Seq(Byte)
           /\ readCount \in Nat /\ writeCount \in Nat /\ writeTotal \in Nat /\ writePage \in Nat
           /\ beginPage \in Nat /\ endPage \in Nat /\ chip.base \in Nat /\ chip.pos \in Nat
  BY ProtoAssumption
     DEF ControlInv, TypeOK, HostTypeOK, ProtoTypeOK, ReadTypeOK, EraseTypeOK,
         WriteTypeOK, EngineTypeOK, Chip

\* Where a block starts, in bytes and as a page.
LEMMA BlockPages ==
    ASSUME KnownChip, ControlInv
    PROVE  /\ Chunk \in Nat \ {0} /\ block * Chunk \in Nat /\ block * PagesPerChunk \in Nat
           /\ (block * PagesPerChunk) * PageSize = block * Chunk
  <1>1. block \in Nat /\ chipInfo \in Info
    BY ControlTypes
  <1>2. Chunk \in Nat \ {0} /\ PagesPerChunk \in Nat
    BY <1>1, ChunkPages
  <1>3. (block * PagesPerChunk) * PageSize = block * Chunk
    BY <1>1, ChunkPages
  <1>4. block * Chunk \in Nat /\ block * PagesPerChunk \in Nat
    BY <1>1, <1>2
  <1>5. QED
    BY <1>2, <1>3, <1>4

\* The same from the whole invariant.
LEMMA InvTypes ==
    ASSUME Inv
    PROVE  /\ ProtoTypeOK /\ chip \in Chip /\ chip.mem \in [Addr -> Byte] /\ chipInfo \in Info
           /\ fileLength \in Nat /\ block \in Nat /\ want \in Nat /\ received \in Seq(Byte)
           /\ readCount \in Nat /\ writeCount \in Nat /\ writeTotal \in Nat /\ writePage \in Nat
           /\ beginPage \in Nat /\ endPage \in Nat /\ chip.base \in Nat /\ chip.pos \in Nat
  BY ControlTypes DEF Inv

LEMMA BlockStart ==
    ASSUME KnownChip, Inv
    PROVE  /\ Chunk \in Nat \ {0} /\ block * Chunk \in Nat /\ block * PagesPerChunk \in Nat
           /\ (block * PagesPerChunk) * PageSize = block * Chunk
  BY BlockPages DEF Inv

\* A trusted command that works on its chip has the chip's own parameters.
LEMMA TrustedChip ==
    ASSUME Kind = "nor", KnownChip, Inv, Trusted, pc \in Working
    PROVE  /\ targetDevice = "chip" /\ targetParams = "chip" /\ ~Paged /\ ~chip.protected /\ valid
           /\ command \notin {"erase", "sfdp"} =>
                 chipInfo.deviceSize = DevSize /\ chipInfo.eraseSize = EraseSize
           /\ Writing => fileLength <= DevSize
  <1>1. targetDevice = "chip" /\ targetParams = "chip" /\ ~chip.protected /\ valid
    BY DEF Inv, TrustInv, ControlInv, PhaseInv, CommandInv
  <1>2. /\ command \notin {"erase", "sfdp"} => chipInfo = [deviceSize |-> DevSize, eraseSize |-> EraseSize]
        /\ Writing => fileLength <= chipInfo.deviceSize
    BY <1>1 DEF Inv, TrustInv
  <1>3. QED
    BY <1>1, <1>2, NotPaged DEF Writing

\* The erase pages of a file cover it.
LEMMA FileInside == Writing /\ fileLength \in Nat => Touched \in Nat /\ fileLength <= Touched
  BY CeilNat, CeilCovers, ChipAssumption DEF Touched

(* Every step keeps DataInv **********************************************)
\* Starting, ending and being killed.
LEMMA StartingData ==
    ASSUME Kind = "nor", KnownChip, Inv,
           \/ User \/ Exit \/ RequestCount \/ ListDevice \/ ReadChipInfo \/ Abort \/ TargetRefused
    PROVE  DataInv'
  <1>1. CASE User \/ Exit
    BY <1>1, NoData DEF User, Start, Kill, Exit, Forget, Starting
  <1>2. CASE RequestCount \/ ReadChipInfo \/ Abort \/ TargetRefused
    BY <1>2, NoData DEF RequestCount, ReadChipInfo, Abort, TargetRefused, Goto, Fail, Starting
  <1>3. CASE ListDevice
    <2>1. /\ pc = "listing" /\ command = "listDevices" /\ UNCHANGED <<jobVars, eraseActive>>
          /\ pc' \in {"listing", "done"}
      BY <1>3 DEF ListDevice, FetchDeviceListing, Goto, eraseVars, Inv, ProgressInv
    <2>2. Trusted => ~eraseActive
      BY <2>1 DEF Inv, TrustInv, Trusted, Starting, Writing
    <2>3. QED
      BY <2>1, <2>2 DEF DataInv, Kept, Trusted, Writing, jobVars
  <1>4. QED
    BY <1>1, <1>2, <1>3

\* Targeting: a read starts with nothing received.
LEMMA TargetData ==
    ASSUME Kind = "nor", KnownChip, Inv, TargetDevice
    PROVE  DataInv'
  <1>1. /\ pc = "target" /\ valid /\ UNCHANGED <<jobVars, chipInfo, block, received>>
        /\ block = 0 /\ received = <<>> /\ Chunk' = Chunk
    BY SameChunk DEF TargetDevice, Inv, ProgressInv, ControlInv, LoopInv
  <1>2. Trusted' <=> Trusted
    BY <1>1 DEF Trusted, Writing, jobVars
  <1>3. Trusted /\ ~Writing => ~chip'.busy
    <2>1. chip' \in {chip, IdentDevice(chip)}
      BY NotNand DEF TargetDevice, HandleTargetDevice
    <2>2. Trusted /\ ~Writing => chip.op = "none" /\ ~chip.busy
      BY <1>1 DEF Inv, TrustInv, Trusted, Starting
    <2>3. QED
      BY <2>1, <2>2, InvTypes, QuietIdent
  <1>4. Trusted /\ command = "read" => chipInfo.deviceSize = DevSize
    BY <1>1 DEF Inv, TrustInv
  <1>5. ASSUME Trusted, command = "read", ~Funky
        PROVE  DevSize % Chunk = 0 /\ ReadBlocks > 0
    <2>1. DevSize % Chunk = 0 /\ ReadBlocks \in Nat /\ ReadBlocks * Chunk = DevSize
      BY <1>4, <1>5, InvTypes, NotFunky, ReadWhole
    <2>2. Chunk \in Nat /\ DevSize # 0
      BY InvTypes, ChunkSize, ChipAssumption
    <2>3. QED
      BY <2>1, <2>2
  <1>6. \/ pc' = "eraseReq"
        \/ pc' = "sfdpReq"
        \/ pc' = "done" /\ result' = "fail"
        \/ pc' = "readReq" /\ command = "read" /\ ~Funky
        \/ pc' = "release" /\ command = "read" /\ ~Funky /\ ReadBlocks = 0
    BY DEF TargetDevice, Goto, Fail, Release
  <1>7. CASE pc' = "eraseReq"
    BY <1>1, <1>2, <1>3, <1>7 DEF DataInv, Writing, jobVars
  <1>8. CASE pc' = "sfdpReq" \/ (pc' = "done" /\ result' = "fail")
    BY <1>8, NoData
  <1>9. CASE pc' = "readReq" /\ command = "read" /\ ~Funky
    <2>1. ReadBlocks' = ReadBlocks /\ Delivered(block * Chunk)'
      <3>1. block * Chunk = 0
        BY <1>1, InvTypes, ChunkSize
      <3>2. QED
        BY <1>1, <3>1 DEF ReadBlocks, Delivered
    <2>2. QED
      BY <1>1, <1>2, <1>3, <1>5, <1>9, <2>1 DEF DataInv, Writing, jobVars
  <1>10. CASE pc' = "release" /\ command = "read" /\ ~Funky /\ ReadBlocks = 0
    BY <1>2, <1>5, <1>10 DEF DataInv
  <1>11. QED
    BY <1>6, <1>7, <1>8, <1>9, <1>10

\* The request for an erase: a chip erase is only sent to an idle chip, and a
\* page erase begins at page 0.
LEMMA EraseData ==
    ASSUME Kind = "nor", KnownChip, Inv, RequestErase \/ SendEraseConfig
    PROVE  DataInv'
  <1>1. CASE RequestErase
    BY <1>1, NoData
       DEF RequestErase, SetupErase, Accepted, Goto, Fail, Inv, DataInv, Trusted, Writing,
           jobVars
  <1>2. CASE SendEraseConfig
    <2>1. /\ pc = "eraseData" /\ pc' = "erasePoll" /\ UNCHANGED jobVars /\ beginPage' = 0
          /\ chip.op = "none" /\ chip \in Chip
      BY <1>2, InvTypes
         DEF SendEraseConfig, HandleErase, Goto, Inv, ControlInv, PhaseInv, NoStream
    <2>2. ASSUME Trusted, ~Writing
          PROVE  chip'.mem = [a \in Addr |-> Erased]
      <3>1. eraseOperation = "all" /\ ~chip.busy /\ ~chip.protected
        BY <2>1, <2>2 DEF Inv, ProgressInv, DataInv, TrustInv
      <3>2. chip' = ChipErase(WriteEnable(chip))
        BY <1>2, <3>1 DEF SendEraseConfig, HandleErase
      <3>3. QED
        BY <2>1, <3>1, <3>2, ErasedAll DEF Ready
    <2>3. ASSUME NEW a \in Addr
          PROVE  ~(a < 0 * EraseSize)
      BY ChipAssumption DEF Addr
    <2>4. QED
      BY <2>1, <2>2, <2>3 DEF DataInv, Trusted, Writing, jobVars
  <1>3. QED
    BY <1>1, <1>2

\* The end of an erase: the erase pages of the file, or the whole chip, are
\* erased and the chip is idle.
LEMMA PollData ==
    ASSUME Kind = "nor", KnownChip, Inv, PollErase
    PROVE  DataInv'
  <1>1. /\ pc = "erasePoll" /\ UNCHANGED <<jobVars, chipInfo, block>> /\ block = 0 /\ Chunk' = Chunk
        /\ targetDevice = "chip" /\ eraseOperation # "idle"
    BY SameChunk DEF PollErase, Inv, ControlInv, LoopInv, PhaseInv, Working
  <1>2. /\ UNCHANGED <<chip, beginPage, eraseActive>>
        /\ status'.eraseComplete # 0 => ~eraseActive /\ ~chip.busy
    BY <1>1
       DEF PollErase, FetchStatus, EraseStatus, Inv, ControlInv, TypeOK, ProtoTypeOK,
           EngineTypeOK, Status
  <1>3. Trusted' <=> Trusted
    BY <1>1 DEF Trusted, Writing, jobVars
  <1>4. \/ pc' = "erasePoll"
        \/ pc' = "done" /\ result' = "fail"
        \/ status'.eraseComplete # 0 /\ pc' = "release" /\ ~Writing
        \/ status'.eraseComplete # 0 /\ pc' = "writeReq" /\ Writing
        \/ status'.eraseComplete # 0 /\ pc' = "release" /\ Writing /\ WriteBlocks = 0
    BY DEF PollErase, Goto, Fail, Release, Inv, ControlInv, TypeOK, HostTypeOK, Ceil, WriteBlocks
  <1>5. CASE pc' = "erasePoll"
    BY <1>1, <1>2, <1>3, <1>5 DEF Inv, DataInv, Writing, jobVars
  <1>6. CASE pc' = "done" /\ result' = "fail"
    BY <1>6, NoData
  <1>7. CASE status'.eraseComplete # 0 /\ pc' = "release" /\ ~Writing
    BY <1>1, <1>2, <1>3, <1>7 DEF Inv, DataInv, ProgressInv, Kept, Writing, jobVars
  <1>8. CASE status'.eraseComplete # 0 /\ pc' = "writeReq" /\ Writing
    <2>1. ASSUME Trusted
          PROVE  \A a \in Addr : a < Touched => chip.mem[a] = Erased
      <3>1. beginPage = PageCount
        BY <1>1, <1>2, <1>8, InvTypes DEF Inv, ProgressInv
      <3>2. PageCount * EraseSize = Touched
        BY <1>1, <1>8, <2>1, TrustedChip DEF PageCount, Touched, Working, Writing
      <3>3. QED
        BY <1>1, <1>8, <2>1, <3>1, <3>2 DEF Inv, DataInv
    <2>2. block' * Chunk' = 0
      BY <1>1, InvTypes, ChunkSize
    <2>3. Touched' = Touched
      BY <1>1 DEF Touched, jobVars
    <2>4. ASSUME Trusted
          PROVE  Filled(block * Chunk)'
      BY <1>2, <2>1, <2>2, <2>3, <2>4 DEF Filled, Addr
    <2>5. QED
      BY <1>2, <1>3, <1>8, <2>4 DEF DataInv
  <1>9. CASE status'.eraseComplete # 0 /\ pc' = "release" /\ Writing /\ WriteBlocks = 0
    <2>1. fileLength <= 0 * Chunk
      BY <1>9, InvTypes, ChunkSize, CeilCovers DEF WriteBlocks
    <2>2. ASSUME NEW a \in Addr
          PROVE  ~(a < fileLength)
      BY <2>1, InvTypes, ChunkSize DEF Addr
    <2>3. QED
      BY <1>1, <1>2, <1>9, <2>2 DEF DataInv, Kept, Writing, jobVars
  <1>10. QED
    BY <1>4, <1>5, <1>6, <1>7, <1>8, <1>9

\* The request for a block of a read.
LEMMA ReadData ==
    ASSUME Kind = "nor", KnownChip, Inv, RequestRead \/ SendReadPage
    PROVE  DataInv'
  <1>1. /\ UNCHANGED <<jobVars, chipInfo, block, received>>
        /\ Chunk' = Chunk /\ ReadBlocks' = ReadBlocks
        /\ command = "read" /\ pc \in {"readReq", "readData"}
    BY SameChunk DEF RequestRead, SendReadPage, ReadBlocks, Inv, ProgressInv
  <1>2. Trusted' <=> Trusted
    BY <1>1 DEF Trusted, Writing, jobVars
  <1>3. Trusted => ~chip.busy /\ DevSize % Chunk = 0 /\ block < ReadBlocks /\ Delivered(block * Chunk)
    BY <1>1 DEF Inv, DataInv
  <1>4. CASE RequestRead
    <2>1. /\ UNCHANGED chip
          /\ pc' = "readData" \/ (pc' = "done" /\ result' = "fail")
      BY <1>4 DEF RequestRead, SetupRead, Accepted, Goto, Fail
    <2>2. Delivered(block * Chunk) => Delivered(block * Chunk)'
      BY <1>1, <2>1 DEF Delivered, Cell
    <2>3. QED
      BY <1>1, <1>2, <1>3, <2>1, <2>2 DEF DataInv
  <1>5. CASE SendReadPage
    <2>1. pc' = "readBulk" /\ want' = Chunk
      BY <1>5 DEF SendReadPage, Goto
    <2> SUFFICES ASSUME Trusted
                 PROVE  ~chip'.busy /\ ReadOpen' /\ Delivered(block * Chunk + Chunk - want)'
      BY <1>1, <1>2, <1>3, <2>1 DEF DataInv
    <2> DEFINE first == block * Chunk
    <2>2. first \in Nat /\ (block * PagesPerChunk) * PageSize = first /\ Chunk \in Nat
      BY BlockStart
    <2>3. chip'.mem = chip.mem /\ targetParams = "chip" /\ ~chip.busy
      BY <1>1, <1>3, <1>5, ReadCells, TrustedChip DEF Working, Inv
    <2>4. /\ ~chip'.busy
          /\ \A i \in 1..EpBufferSize : inPacket'[i] = Cell(chip, first + (i - 1))
          /\ readCount' > 0 => chip'.op = "read" /\ chip'.base + chip'.pos = first + EpBufferSize
      BY <1>5, <2>2, <2>3, ReadCells DEF Inv
    <2>5. (block * Chunk + Chunk - want)' = first
      BY <1>1, <2>1, <2>2
    <2>6. Len(received') = first /\ \A i \in 1..first : received'[i] = Cell(chip, i - 1)
      BY <1>1, <1>3 DEF Delivered
    <2>7. \A x : Cell(chip, x)' = Cell(chip', x) /\ Cell(chip', x) = Cell(chip, x)
      BY <2>3 DEF Cell
    <2> HIDE DEF first
    <2>8. ReadOpen'
      BY <2>4, <2>6, <2>7 DEF ReadOpen
    <2>9. Delivered(block * Chunk + Chunk - want)'
      BY <2>5, <2>6, <2>7 DEF Delivered
    <2>10. QED
      BY <2>4, <2>8, <2>9
  <1>6. QED
    BY <1>4, <1>5

\* Past the end of the first sequence, a concatenation holds the second one.
LEMMA AppendedItem ==
    ASSUME NEW first \in Seq(Byte), NEW second \in Seq(Byte),
           NEW i \in Nat, i > Len(first), i <= Len(first) + Len(second)
    PROVE  (first \o second)[i] = second[i - Len(first)]
  OBVIOUS

\* The cells of a packet go behind those the host has.
LEMMA AppendedCells ==
    ASSUME NEW first \in Seq(Byte), NEW second \in Seq(Byte),
           \A i \in 1..Len(first) : first[i] = Cell(chip, i - 1),
           \A i \in 1..Len(second) : second[i] = Cell(chip, Len(first) + (i - 1))
    PROVE  /\ Len(first \o second) = Len(first) + Len(second)
           /\ \A i \in 1..Len(first) + Len(second) : (first \o second)[i] = Cell(chip, i - 1)
  <1> DEFINE have == Len(first)
             n == Len(second)
  <1>1. have \in Nat /\ n \in Nat
    OBVIOUS
  <1>2. ASSUME NEW i \in 1..have + n
        PROVE  (first \o second)[i] = Cell(chip, i - 1)
    <2>1. CASE i <= have
      BY <2>1
    <2>2. CASE i > have
      <3>1. i - have \in 1..n /\ have + ((i - have) - 1) = i - 1
        BY <1>1, <2>2
      <3>2. (first \o second)[i] = second[i - have]
        <4>1. i \in Nat /\ i > Len(first) /\ i <= Len(first) + Len(second)
          BY <1>1, <2>2
        <4>2. QED
          BY <4>1, AppendedItem
      <3>3. QED
        BY <3>1, <3>2
    <2>3. QED
      BY <1>1, <2>1, <2>2
  <1>3. Len(first \o second) = Len(first) + Len(second)
    OBVIOUS
  <1>4. QED
    BY <1>2, <1>3

\* A packet of a read is appended where it belongs; the last one ends the device.
LEMMA ReceiveData ==
    ASSUME Kind = "nor", KnownChip, Inv, ReadBulk
    PROVE  DataInv'
  <1>1. /\ UNCHANGED <<jobVars, chipInfo>> /\ Chunk' = Chunk /\ ReadBlocks' = ReadBlocks
        /\ command = "read" /\ pc = "readBulk" /\ PerformDataOrSFDPRead
    BY SameChunk DEF ReadBulk, Receive, ReadBlocks, Inv, ProgressInv
  <1>2. Trusted' <=> Trusted
    BY <1>1 DEF Trusted, Writing, jobVars
  <1> SUFFICES ASSUME Trusted PROVE DataInv'
    BY <1>2 DEF DataInv
  <1>3. /\ ~chip.busy /\ DevSize % Chunk = 0 /\ block < ReadBlocks
        /\ ReadOpen /\ Delivered(block * Chunk + Chunk - want)
    BY <1>1 DEF Inv, DataInv
  <1>4. /\ Reading /\ readMode = "data" /\ Len(inPacket) = EpBufferSize
        /\ want = readCount + EpBufferSize /\ EpBufferSize \in Nat \ {0}
        /\ ProtoTypeOK /\ inPacket \in Seq(Byte) /\ received \in Seq(Byte)
        /\ readCount \in Nat /\ block \in Nat /\ Chunk \in Nat /\ block * Chunk \in Nat
        /\ chip.base \in Nat /\ chip.pos \in Nat
    BY <1>1, InvTypes, BlockStart, ProtoAssumption
       DEF Inv, ControlInv, PhaseInv, EngineTypeOK, ProtoTypeOK
  <1> DEFINE first == block * Chunk
             have == first + Chunk - want
  <1>5. have \in Nat /\ Len(received) = have /\ \A i \in 1..have : received[i] = Cell(chip, i - 1)
    BY <1>3, <1>4 DEF Delivered
  <1>6. /\ received' = received \o inPacket
        /\ readCount > 0 => want' = readCount /\ block' = block /\ pc' = "readBulk"
        /\ readCount = 0 => /\ want' = 0 /\ block' = block + 1
                            /\ \/ block + 1 < ReadBlocks /\ pc' = "readReq"
                               \/ block + 1 >= ReadBlocks /\ pc' = "release"
    BY <1>4 DEF ReadBulk, Receive, Goto, Release
  <1>7. first + Chunk = (block + 1) * Chunk /\ first \in Nat
    BY <1>4
  <1> HIDE DEF first
  <1>8. chip'.mem = chip.mem /\ ~chip'.busy /\ ~eraseActive'
    BY <1>1, <1>3, <1>4, ReceiveCells DEF Inv, Reading, PerformDataOrSFDPRead, Hang, eraseVars
  <1>9. \A x : Cell(chip, x)' = Cell(chip', x) /\ Cell(chip', x) = Cell(chip, x)
    BY <1>8 DEF Cell
  <1>10. /\ Len(received') = have + EpBufferSize
         /\ \A i \in 1..have + EpBufferSize : received'[i] = Cell(chip, i - 1)
    <2>1. \A i \in 1..EpBufferSize : inPacket[i] = Cell(chip, have + (i - 1))
      BY <1>3, <1>5 DEF ReadOpen
    <2> HIDE DEF have
    <2>2. /\ received \in Seq(Byte) /\ inPacket \in Seq(Byte)
          /\ \A i \in 1..Len(received) : received[i] = Cell(chip, i - 1)
          /\ \A i \in 1..Len(inPacket) : inPacket[i] = Cell(chip, Len(received) + (i - 1))
      BY <1>4, <1>5, <2>1
    <2>3. /\ Len(received \o inPacket) = Len(received) + Len(inPacket)
          /\ \A i \in 1..Len(received) + Len(inPacket) : (received \o inPacket)[i] = Cell(chip, i - 1)
      BY <2>2, AppendedCells
    <2>4. QED
      BY <1>4, <1>5, <1>6, <2>3
  <1> HIDE DEF have
  <1>11. CASE readCount > 0
    <2>1. chip.op = "read" /\ chip.base + chip.pos = have + EpBufferSize
      BY <1>3, <1>5, <1>11 DEF ReadOpen
    <2>2. /\ \A i \in 1..EpBufferSize : inPacket'[i] = Cell(chip, have + EpBufferSize + (i - 1))
          /\ readCount' > 0 => /\ chip'.op = "read"
                               /\ chip'.base + chip'.pos = have + EpBufferSize + EpBufferSize
      BY <1>1, <1>4, <1>11, <2>1, PerformDataOrSFDPReadCells
    <2>3. ReadOpen'
      BY <1>9, <1>10, <2>2 DEF ReadOpen
    <2>4. (block * Chunk + Chunk - want)' = have + EpBufferSize
      BY <1>1, <1>4, <1>6, <1>11 DEF have, first
    <2>5. Delivered(block * Chunk + Chunk - want)'
      BY <1>9, <1>10, <2>4 DEF Delivered
    <2>6. QED
      BY <1>1, <1>3, <1>6, <1>8, <1>11, <2>3, <2>5 DEF DataInv
  <1>12. CASE readCount = 0
    <2>1. have + EpBufferSize = (block + 1) * Chunk
      BY <1>4, <1>7, <1>12 DEF have
    <2>2. CASE block + 1 < ReadBlocks /\ pc' = "readReq"
      <3>1. (block * Chunk)' = have + EpBufferSize
        BY <1>1, <1>6, <1>12, <2>1
      <3>2. Delivered(block * Chunk)'
        BY <1>9, <1>10, <3>1 DEF Delivered
      <3>3. QED
        BY <1>1, <1>3, <1>6, <1>8, <1>12, <2>2, <3>2 DEF DataInv
    <2>3. CASE block + 1 >= ReadBlocks /\ pc' = "release"
      <3>1. chipInfo \in Info /\ chipInfo.deviceSize = DevSize
        BY <1>1, InvTypes, TrustedChip DEF Working
      <3>2. block + 1 = ReadBlocks /\ ReadBlocks * Chunk = DevSize
        BY <1>3, <1>4, <2>3, <3>1, ReadWhole
      <3>3. Delivered(DevSize)'
        BY <1>9, <1>10, <2>1, <3>2 DEF Delivered
      <3>4. QED
        BY <1>1, <1>8, <2>3, <3>3 DEF DataInv, Kept, Writing, jobVars
    <2>4. QED
      BY <1>6, <1>12, <2>2, <2>3
  <1>13. QED
    BY <1>4, <1>11, <1>12

\* A dump leaves the data alone.
LEMMA SfdpData ==
    ASSUME Kind = "nor", KnownChip, Inv, RequestSfdp \/ SendSfdpAddress \/ SfdpBulk
    PROVE  DataInv'
  <1>1. CASE RequestSfdp \/ SendSfdpAddress
    BY <1>1, NoData DEF RequestSfdp, SetupSFDPRead, SendSfdpAddress, Accepted, Goto, Fail
  <1>2. CASE SfdpBulk
    <2>1. /\ pc = "sfdpBulk" /\ command = "sfdp" /\ UNCHANGED <<jobVars, eraseActive>>
          /\ pc' \in {"sfdpBulk", "sfdpReq", "release"}
      BY <1>2
         DEF SfdpBulk, Receive, PerformDataOrSFDPRead, Hang, Goto, Release, eraseVars, Inv,
             ProgressInv
    <2>2. ~eraseActive
      BY <2>1 DEF Inv, ControlInv, PhaseInv, Reading
    <2>3. CASE pc' = "release"
      BY <2>1, <2>2, <2>3 DEF DataInv, Kept, Writing, jobVars
    <2>4. QED
      BY <2>1, <2>3, NoData
  <1>3. QED
    BY <1>1, <1>2

\* The request for a block of a write opens its first page.
LEMMA WriteData ==
    ASSUME Kind = "nor", KnownChip, Inv, RequestWrite \/ SendWritePage
    PROVE  DataInv'
  <1>1. /\ UNCHANGED <<jobVars, chipInfo, block>>
        /\ pc \in {"writeReq", "writeData"} /\ Writing
    BY DEF RequestWrite, SendWritePage, Inv, ControlInv, LoopInv
  <1>2. /\ Chunk' = Chunk /\ ByteCount' = ByteCount /\ Touched' = Touched
        /\ (Trusted' <=> Trusted)
    BY <1>1, SameChunk, SameByteCount DEF Trusted, Writing, Touched, jobVars
  <1> SUFFICES ASSUME Trusted PROVE DataInv'
    BY <1>2 DEF DataInv
  <1>3. ~chip.busy /\ Filled(block * Chunk) /\ chip.op = "none" /\ chip \in Chip
    BY <1>1, InvTypes DEF Inv, DataInv, ControlInv, PhaseInv, NoStream
  <1>4. ByteCount \in Nat \ {0}
    BY <1>1, InvTypes, ByteCountRange DEF Inv, ControlInv, LoopInv
  <1>5. CASE RequestWrite
    <2>1. /\ UNCHANGED chip
          /\ \/ pc' = "writeData" /\ writeTotal' = Requested(ByteCount)
             \/ pc' = "done" /\ result' = "fail"
      BY <1>5 DEF RequestWrite, SetupWrite, Accepted, Goto, Fail
    <2>2. Requested(ByteCount) = ByteCount
      BY <1>4 DEF Requested
    <2>3. Filled(block * Chunk)'
      BY <1>1, <1>2, <1>3, <2>1 DEF Filled
    <2>4. QED
      BY <1>2, <1>3, <2>1, <2>2, <2>3 DEF DataInv
  <1>6. CASE SendWritePage
    <2> DEFINE page == block * PagesPerChunk
               first == block * Chunk
    <2>1. /\ pc = "writeData" /\ pc' = "writeBulk" /\ want' = ByteCount /\ writeTotal' = writeTotal
          /\ chip' = WriteAddress(chip, page) /\ writePage' = AfterAddress(page)
      BY <1>6, TrustedChip DEF SendWritePage, HandleWrite, Goto, Working
    <2>2. writeTotal = ByteCount /\ ~Paged
      BY <1>1, <2>1, TrustedChip DEF Inv, DataInv, Working
    <2>3. page \in Nat /\ first \in Nat /\ page * PageSize = first
      BY BlockStart
    <2>4. Sent' = first
      BY <1>1, <1>2, <1>4, <2>1, <2>3 DEF Sent
    <2> HIDE DEF page, first
    <2>5. chip' = [chip EXCEPT !.op = "program", !.wel = TRUE, !.base = first, !.pos = 0, !.buf = Blank]
      BY <1>3, <2>1, <2>2, <2>3, WriteAddressCells DEF Ready, KnownChip
    <2>6. /\ chip'.op = "program" /\ chip'.wel /\ ~chip'.busy /\ chip'.base = first /\ chip'.pos = 0
          /\ chip'.buf = Blank /\ chip'.mem = chip.mem
      BY <1>3, <2>5 DEF Chip
    <2>7. writePage' = page + 1
      BY <2>1, <2>2 DEF AfterAddress
    <2>8. 0 \in Column /\ 0 % EpBufferSize = 0
      BY ChipAssumption, ProtoAssumption DEF Column
    <2>9. \A k \in Column : chip'.buf[k] = Erased /\ ~(k < 0)
      BY <2>6, ChipAssumption DEF Blank, Column
    <2>10. Filled(chip.base)'
      BY <1>2, <1>3, <2>6 DEF Filled, first
    <2>11. PageOpen'
      BY <1>2, <2>1, <2>2, <2>3, <2>4, <2>6, <2>7, <2>8, <2>9, <2>10 DEF PageOpen
    <2>12. QED
      BY <2>1, <2>11 DEF DataInv
  <1>7. QED
    BY <1>5, <1>6

\* What WriteBulk does after the last byte of a block.
LEMMA BlockSent ==
    ASSUME WriteBulk, want' = 0
    PROVE  /\ Verified => pc' = "verifyPoll" /\ block' = block
           /\ ~Verified => NextBlock
  <1>1. \/ want' > 0 /\ Goto("writeBulk") /\ UNCHANGED block
        \/ want' = 0 /\ Verified /\ Goto("verifyPoll") /\ UNCHANGED block
        \/ want' = 0 /\ ~Verified /\ NextBlock
    BY Zenon DEF WriteBulk
  <1>2. ~(want' > 0)
    OBVIOUS
  <1>3. QED
    BY <1>1, <1>2, Zenon DEF Goto

\* A packet sent stays inside the page; the page it fills programs the file's
\* bytes into erased cells.
LEMMA LatchedPage ==
    ASSUME KnownChip, ControlInv, WriteBulk, fileLength <= DevSize,
           NEW page \in Nat, NEW start, start = page * PageSize, Filled(start),
           chip.op = "program", chip.wel, ~chip.busy, writeTotal = ByteCount,
           chip.pos \in Column, chip.pos % EpBufferSize = 0, start + chip.pos = Sent,
           \A k \in Column : chip.buf[k] = IF k < chip.pos THEN FileByte(start + k) ELSE Erased,
           NEW sent, sent = Latch(chip, Packet), NEW n, n = Len(Packet)
    PROVE  /\ n \in Nat \ {0} /\ chip.pos + n <= PageSize
           /\ n < want => (chip.pos + n) % EpBufferSize = 0
           /\ (writeTotal - writeCount + n) % PageSize = 0 <=> chip.pos + n = PageSize
           /\ sent \in Chip /\ sent.op = "program" /\ sent.wel /\ ~sent.busy /\ sent.mem = chip.mem
           /\ sent.base = chip.base /\ sent.pos = chip.pos + n /\ start + sent.pos = Sent + n
           /\ Sent + n <= fileLength /\ fileLength <= DevSize
           /\ \A k \in Column : sent.buf[k] = IF k < sent.pos THEN FileByte(start + k) ELSE Erased
           /\ \A a \in Addr :
                 /\ a < Sent + n => Burn(sent, start)[a] = File[a]
                 /\ Sent + n <= a /\ a < Touched => Burn(sent, start)[a] = Erased
                 /\ Burn(sent, start)[a] # chip.mem[a] =>
                       /\ a < fileLength /\ chip.mem[a] = Erased
                       /\ Burn(sent, start)[a] = File[a]
  <1>1. /\ pc = "writeBulk" /\ Writing /\ fileLength \in Nat
        /\ block \in Nat /\ chipInfo \in Info /\ block * Chunk < fileLength
    BY ControlTypes DEF WriteBulk, ControlInv, LoopInv
  <1>2. Packet \in Seq(Byte)
    BY PacketSent
  <1>3. /\ n \in 1..want /\ n = Least(want, EpBufferSize) /\ want = writeCount
        /\ want \in Nat /\ EpBufferSize \in Nat \ {0}
    BY ControlTypes, PacketSent, ProtoAssumption
  <1>4. /\ start \in Nat /\ chip.pos \in Nat /\ PageSize \in Nat \ {0}
        /\ chip.pos < PageSize
    BY ControlTypes, ChipAssumption DEF Column
  <1>5. chip.pos + EpBufferSize <= PageSize /\ (chip.pos + EpBufferSize) % EpBufferSize = 0
    BY PacketInPage
  <1>6. chip.pos + n <= PageSize /\ n \in Nat \ {0} /\ (n < want => n = EpBufferSize)
    BY <1>3, <1>4, <1>5 DEF Least
  <1> DEFINE first == block * Chunk
  <1>7. first \in Nat /\ ByteCount \in Nat /\ first + ByteCount <= fileLength
    BY <1>1, BlockPages, BlockEnd, ByteCountRange
  <1>8. Sent = first + ByteCount - want /\ start + chip.pos = Sent /\ writeTotal = ByteCount
    BY DEF Sent
  <1>9. (writeTotal - writeCount + n) % PageSize = 0 <=> chip.pos + n = PageSize
    <2>2. block * PagesPerChunk \in Nat /\ first = (block * PagesPerChunk) * PageSize
      BY BlockPages
    <2> DEFINE chunk == block * PagesPerChunk
               pos == chip.pos + n
               end == writeTotal - writeCount + n
    <2> HIDE DEF first
    <2>3. pos \in 1..PageSize /\ end \in Int /\ first + end = start + pos
      BY <1>3, <1>4, <1>6, <1>7, <1>8
    <2>4. page \in Nat /\ chunk \in Nat /\ chunk * PageSize + end = page * PageSize + pos
      BY <2>2, <2>3
    <2> HIDE DEF chunk, pos, end
    <2>5. end % PageSize = 0 <=> pos = PageSize
      BY <2>3, <2>4, PageEnd
    <2>6. QED
      BY <2>5 DEF pos, end
  <1> HIDE DEF first
  <1>10. Sent + n <= fileLength /\ Sent \in Int
    BY <1>1, <1>3, <1>7, <1>8
  <1>11. fileLength <= DevSize /\ fileLength <= Touched /\ Touched \in Nat /\ DevSize \in Nat
    BY <1>1, FileInside, ChipAssumption
  <1>12. chip \in Chip /\ sent \in Chip
    BY <1>2, ControlTypes, LatchChip
  <1>13. sent = [chip EXCEPT !.pos = chip.pos + n,
                   !.buf = [k \in Column |-> IF chip.pos <= k /\ k < chip.pos + n
                                             THEN Packet[k - chip.pos + 1] ELSE chip.buf[k]]]
    <2>1. chip.op = "program" /\ chip.pos + Len(Packet) <= PageSize
      BY <1>6
    <2> DEFINE bytes == Packet
    <2>2. bytes \in Seq(Byte) /\ chip.pos + Len(bytes) <= PageSize
      BY <1>2, <2>1
    <2> HIDE DEF bytes
    <2>3. Latch(chip, bytes) =
             [chip EXCEPT !.pos = chip.pos + Len(bytes),
                          !.buf = [k \in Column |->
                                     IF chip.pos <= k /\ k < chip.pos + Len(bytes)
                                     THEN bytes[k - chip.pos + 1] ELSE chip.buf[k]]]
      BY <1>12, <2>1, <2>2, LatchInPage
    <2>4. n = Len(bytes) /\ sent = Latch(chip, bytes)
      BY DEF bytes
    <2>5. QED
      BY <2>3, <2>4 DEF bytes
  <1>14. /\ sent.op = "program" /\ sent.wel /\ ~sent.busy /\ sent.mem = chip.mem
         /\ sent.base = chip.base /\ sent.pos = chip.pos + n
         /\ \A k \in Column : sent.buf[k] = IF chip.pos <= k /\ k < chip.pos + n
                                            THEN Packet[k - chip.pos + 1] ELSE chip.buf[k]
    <2>2. /\ sent.op = chip.op /\ sent.wel = chip.wel /\ sent.busy = chip.busy
          /\ sent.mem = chip.mem /\ sent.base = chip.base
      BY <1>12, <1>13 DEF Chip
    <2>3. sent.pos = chip.pos + n
      BY <1>12, <1>13 DEF Chip
    <2>4. sent.buf = [k \in Column |-> IF chip.pos <= k /\ k < chip.pos + n
                                       THEN Packet[k - chip.pos + 1] ELSE chip.buf[k]]
      BY <1>12, <1>13 DEF Chip
    <2>5. QED
      BY <2>2, <2>3, <2>4
  <1>15. \A k \in Column : sent.buf[k] = IF k < sent.pos THEN FileByte(start + k) ELSE Erased
    <2> SUFFICES ASSUME NEW k \in Column
                 PROVE  sent.buf[k] = IF k < sent.pos THEN FileByte(start + k) ELSE Erased
      OBVIOUS
    <2>1. k \in Nat
      BY <1>4 DEF Column
    <2>2. CASE chip.pos <= k /\ k < chip.pos + n
      <3> DEFINE i == k - chip.pos + 1
      <3>1. i \in 1..n /\ Sent + i - 1 = start + k
        BY <1>3, <1>4, <1>6, <1>8, <1>10, <2>1, <2>2
      <3> HIDE DEF i
      <3>2. Packet[i] = FileByte(start + k)
        BY <1>3, <3>1 DEF Packet
      <3>3. QED
        BY <1>4, <1>6, <1>14, <2>1, <2>2, <3>2 DEF i
    <2>3. CASE ~(chip.pos <= k /\ k < chip.pos + n)
      <3>1. chip.buf[k] = IF k < chip.pos THEN FileByte(start + k) ELSE Erased
        OBVIOUS
      <3>2. k < chip.pos <=> k < sent.pos
        BY <1>4, <1>6, <1>14, <2>1, <2>3
      <3>3. QED
        BY <1>14, <2>3, <3>1, <3>2
    <2>4. QED
      BY <2>2, <2>3
  <1>16. start + sent.pos = Sent + n /\ sent.pos \in Nat
    <2>1. sent.pos = chip.pos + n
      BY <1>14
    <2> DEFINE pos == chip.pos
               byte == Sent
    <2>2. pos \in Nat /\ start \in Nat /\ n \in Nat /\ byte \in Int /\ start + pos = byte
      BY <1>4, <1>6, <1>8, <1>10
    <2> HIDE DEF pos, byte
    <2>3. pos + n \in Nat /\ start + (pos + n) = byte + n
      BY <2>2
    <2>4. QED
      BY <2>1, <2>3 DEF pos, byte
  <1>17. ASSUME NEW a \in Addr
         PROVE  /\ a < Sent + n => Burn(sent, start)[a] = File[a]
                /\ Sent + n <= a /\ a < Touched => Burn(sent, start)[a] = Erased
                /\ Burn(sent, start)[a] # chip.mem[a] =>
                      a < fileLength /\ chip.mem[a] = Erased /\ Burn(sent, start)[a] = File[a]
    <2> DEFINE k == a - start
    <2>1. a \in Nat
      BY <1>11 DEF Addr
    <2>2. /\ a < start => chip.mem[a] = File[a]
          /\ start <= a /\ a < Touched => chip.mem[a] = Erased
      BY DEF Filled
    <2>3. /\ k \in Column /\ chip.mem[a] = Erased => Burn(sent, start)[a] = sent.buf[k]
          /\ k \in Column /\ sent.buf[k] = Erased => Burn(sent, start)[a] = chip.mem[a]
          /\ k \notin Column => Burn(sent, start)[a] = chip.mem[a]
      BY <1>4, <1>12, <1>14, BurntCell
    <2>4. k \in Column <=> start <= a /\ a < start + PageSize
      BY <1>4, <2>1 DEF Column
    <2>5. CASE k \in Column /\ k < sent.pos
      <3>1. a < start + sent.pos /\ start <= a
        BY <1>4, <1>16, <2>1, <2>4, <2>5
      <3>2. a < Sent + n /\ a < fileLength /\ a < Touched
        BY <1>1, <1>3, <1>10, <1>11, <1>16, <2>1, <3>1
      <3>3. sent.buf[k] = File[a]
        BY <1>4, <1>15, <1>16, <2>1, <2>5 DEF FileByte
      <3>4. QED
        BY <1>3, <1>10, <2>1, <2>2, <2>3, <2>5, <3>1, <3>2, <3>3
    <2>6. CASE k \in Column /\ ~(k < sent.pos)
      <3>1. sent.buf[k] = Erased
        BY <1>15, <2>6
      <3>2. ~(a < start + sent.pos) /\ start <= a
        BY <1>4, <1>16, <2>1, <2>4, <2>6
      <3>3. QED
        BY <1>16, <2>2, <2>3, <2>6, <3>1, <3>2
    <2>7. CASE k \notin Column
      <3>1. a < start \/ start + PageSize <= a
        BY <1>4, <1>16, <2>1, <2>4, <2>7
      <3>2. /\ a < start + sent.pos => a < start
            /\ start + sent.pos <= a => start <= a
        BY <1>4, <1>6, <1>14, <1>16, <2>1, <3>1
      <3>3. QED
        BY <1>16, <2>2, <2>3, <2>7, <3>2
    <2>8. QED
      BY <2>5, <2>6, <2>7
  <1>18. QED
    BY <1>6, <1>5, <1>9, <1>10, <1>11, <1>12, <1>14, <1>15, <1>16, <1>17

\* The same for a byte addressed chip.
LEMMA SentPage ==
    ASSUME Kind = "nor", KnownChip, Inv, Trusted, WriteBulk,
           NEW sent, sent = Latch(chip, Packet), NEW n, n = Len(Packet)
    PROVE  /\ n \in Nat \ {0} /\ chip.pos + n <= PageSize
           /\ n < want => (chip.pos + n) % EpBufferSize = 0
           /\ (writeTotal - writeCount + n) % PageSize = 0 <=> chip.pos + n = PageSize
           /\ sent \in Chip /\ sent.op = "program" /\ sent.wel /\ ~sent.busy /\ sent.mem = chip.mem
           /\ sent.base = chip.base /\ sent.pos = chip.pos + n /\ sent.base + sent.pos = Sent + n
           /\ Sent + n <= fileLength /\ fileLength <= DevSize
           /\ \A k \in Column : sent.buf[k] = IF k < sent.pos THEN FileByte(sent.base + k) ELSE Erased
           /\ \A a \in Addr :
                 /\ a < Sent + n => Burn(sent, sent.base)[a] = File[a]
                 /\ Sent + n <= a /\ a < Touched => Burn(sent, sent.base)[a] = Erased
                 /\ Burn(sent, sent.base)[a] # chip.mem[a] =>
                       /\ a < fileLength /\ chip.mem[a] = Erased
                       /\ Burn(sent, sent.base)[a] = File[a]
  <1>1. pc = "writeBulk" /\ Writing /\ PageOpen /\ ControlInv
    BY DEF WriteBulk, Inv, DataInv, ControlInv, LoopInv
  <1>2. fileLength <= DevSize
    BY <1>1, TrustedChip DEF Working
  <1>3. writePage - 1 \in Nat
    BY <1>1, InvTypes DEF PageOpen
  <1>4. QED
    BY <1>1, <1>2, <1>3, LatchedPage DEF PageOpen

\* The next block begins where the file has been stored up to, or the file is
\* stored.
LEMMA NextBlockData ==
    ASSUME Kind = "nor", KnownChip, Inv, Trusted, pc \in {"writeBulk", "verifyPoll"},
           NextBlock, UNCHANGED <<jobVars, chipInfo>>, ~chip'.busy, ~eraseActive',
           NEW upTo, upTo = block * Chunk + ByteCount,
           \A a \in Addr : /\ a < upTo => chip'.mem[a] = File[a]
                           /\ upTo <= a /\ a < Touched => chip'.mem[a] = Erased
    PROVE  DataInv'
  <1>1. Writing /\ chipInfo \in Info /\ fileLength \in Nat /\ block \in Nat /\ block * Chunk < fileLength
    BY InvTypes DEF Inv, ControlInv, LoopInv
  <1>2. Chunk' = Chunk /\ Touched' = Touched /\ block' = block + 1
    BY SameChunk DEF Touched, NextBlock, jobVars
  <1>3. CASE block + 1 < WriteBlocks
    <2>1. (block * Chunk)' = upTo
      BY <1>1, <1>2, <1>3, BlockEnd
    <2>2. Filled(block * Chunk)'
      BY <1>2, <2>1 DEF Filled
    <2>3. pc' = "writeReq"
      BY <1>3 DEF NextBlock, Goto
    <2>4. QED
      BY <2>2, <2>3 DEF DataInv
  <1>4. CASE ~(block + 1 < WriteBlocks)
    <2>1. pc' = "release"
      BY <1>4 DEF NextBlock, Release
    <2>2. block + 1 >= WriteBlocks
      <3>1. WriteBlocks \in Nat
        BY <1>1, ChunkSize, CeilNat DEF WriteBlocks
      <3>2. QED
        BY <1>1, <1>4, <3>1
    <2>3. upTo = fileLength
      BY <1>1, <2>2, BlockEnd
    <2>4. QED
      BY <1>1, <2>1, <2>3 DEF DataInv, Kept, Writing, jobVars
  <1>5. QED
    BY <1>3, <1>4

\* A packet of a write: the page is programmed when it is full or the block
\* ends, and the next one is opened only on an idle chip.
LEMMA SendData ==
    ASSUME Kind = "nor", KnownChip, Inv, WriteBulk
    PROVE  DataInv'
  <1>1. /\ UNCHANGED <<jobVars, chipInfo>> /\ pc = "writeBulk"
        /\ Chunk' = Chunk /\ Touched' = Touched /\ (Trusted' <=> Trusted)
    BY SameChunk DEF WriteBulk, Trusted, Touched, Writing, jobVars
  <1> SUFFICES ASSUME Trusted PROVE DataInv'
    BY <1>1 DEF DataInv
  <1> DEFINE n == Len(Packet)
             sent == Latch(chip, Packet)
             upTo == block * Chunk + ByteCount
  <1>2. /\ n \in Nat \ {0} /\ chip.pos + n <= PageSize /\ (n < want => (chip.pos + n) % EpBufferSize = 0)
        /\ (writeTotal - writeCount + n) % PageSize = 0 <=> chip.pos + n = PageSize
        /\ sent \in Chip /\ sent.op = "program" /\ sent.wel /\ ~sent.busy /\ sent.mem = chip.mem
        /\ sent.base = chip.base /\ sent.pos = chip.pos + n /\ sent.base + sent.pos = Sent + n
        /\ \A k \in Column : sent.buf[k] = IF k < sent.pos THEN FileByte(sent.base + k) ELSE Erased
        /\ \A a \in Addr : /\ a < Sent + n => Burn(sent, sent.base)[a] = File[a]
                           /\ Sent + n <= a /\ a < Touched => Burn(sent, sent.base)[a] = Erased
    BY SentPage
  <1>3. PageOpen /\ writeTotal = ByteCount
    BY <1>1 DEF Inv, DataInv, PageOpen
  <1>4. /\ Packet \in Seq(Byte) /\ n \in 1..want /\ want = writeCount /\ PerformWrite(Packet)
        /\ want' = want - n /\ want \in Nat
    BY InvTypes, PacketSent DEF Inv
  <1>5. ProtoTypeOK /\ ~Paged /\ ~chip.protected
    BY <1>1, InvTypes, TrustedChip DEF Working
  <1>6. ~eraseActive' /\ writeTotal' = writeTotal
    <2>1. ~eraseActive /\ chip.op # "none"
      BY <1>1, <1>3 DEF Inv, ControlInv, PhaseInv, PageOpen
    <2>2. QED
      BY <1>4, <1>5, <2>1, PerformWriteFacts DEF eraseVars
  <1>7. block * Chunk \in Nat /\ ByteCount \in Nat /\ Sent = upTo - want
        /\ chip.base \in Nat /\ chip.pos \in Nat /\ writePage \in Nat /\ PageSize \in Nat \ {0}
    BY <1>1, InvTypes, BlockStart, ByteCountRange, ChipAssumption
       DEF Sent, Inv, ControlInv, LoopInv
  <1> HIDE DEF n, upTo
  <1>8. /\ writeCount > n /\ chip.pos + n < PageSize => chip' = sent /\ writePage' = writePage
        /\ writeCount > n /\ chip.pos + n = PageSize =>
              /\ chip'.mem = Burn(sent, sent.base) /\ chip'.base = writePage * PageSize
              /\ chip'.op = "program" /\ chip'.wel /\ ~chip'.busy /\ chip'.pos = 0
              /\ chip'.buf = Blank /\ writePage' = writePage + 1
        /\ writeCount = n => chip'.mem = Burn(sent, sent.base) /\ ~chip'.busy
    BY <1>2, <1>3, <1>4, <1>5, PerformWriteCells DEF PageOpen, n, KnownChip
  <1> HIDE DEF sent
  <1>9. CASE want > n
    <2>1. want' > 0 /\ want' # 0
      BY <1>2, <1>4, <1>9
    <2>2. pc' = "writeBulk" /\ block' = block
      BY <2>1 DEF WriteBulk, Goto
    <2>3. ByteCount' = ByteCount
      BY <1>1, <2>2, SameByteCount DEF jobVars
    <2>4. Sent' = Sent + n
      BY <1>1, <1>2, <1>4, <1>7, <2>2, <2>3 DEF Sent, upTo
    <2>5. CASE chip.pos + n < PageSize
      <3>1. chip' = sent /\ writePage' = writePage
        BY <1>4, <1>8, <1>9, <2>5
      <3>2. chip.pos + n \in Column
        BY <1>2, <1>7, <2>5 DEF Column
      <3>3. Filled(chip.base)'
        BY <1>1, <1>2, <1>3, <3>1 DEF Filled, PageOpen
      <3>4. PageOpen'
        BY <1>2, <1>3, <1>4, <1>6, <1>9, <2>3, <2>4, <3>1, <3>2, <3>3 DEF PageOpen
      <3>5. QED
        BY <2>2, <3>4 DEF DataInv
    <2>6. CASE chip.pos + n = PageSize
      <3>1. /\ chip'.mem = Burn(sent, sent.base) /\ chip'.base = writePage * PageSize
            /\ chip'.op = "program" /\ chip'.wel /\ ~chip'.busy /\ chip'.pos = 0
            /\ chip'.buf = Blank /\ writePage' = writePage + 1
        BY <1>4, <1>8, <1>9, <2>6
      <3>2. chip'.base = Sent + n
        <4>1. chip.base = (writePage - 1) * PageSize
          BY <1>3 DEF PageOpen
        <4>2. (writePage - 1) * PageSize + PageSize = writePage * PageSize
          BY <1>7
        <4>3. chip.base + PageSize = Sent + n
          BY <1>2, <1>7, <2>6
        <4>4. QED
          BY <3>1, <4>1, <4>2, <4>3
      <3>3. 0 \in Column /\ 0 % EpBufferSize = 0
        BY <1>7, ProtoAssumption DEF Column
      <3>4. \A k \in Column : chip'.buf[k] = Erased /\ ~(k < 0)
        BY <1>7, <3>1 DEF Blank, Column
      <3>5. Filled(chip.base)'
        BY <1>1, <1>2, <3>1, <3>2 DEF Filled
      <3>6. writePage' > 0 /\ (writePage - 1)' = writePage /\ chip'.base + chip'.pos = Sent + n
        BY <1>2, <1>7, <3>1, <3>2
      <3>7. PageOpen'
        BY <1>3, <1>6, <2>3, <2>4, <3>1, <3>3, <3>4, <3>5, <3>6 DEF PageOpen
      <3>8. QED
        BY <2>2, <3>7 DEF DataInv
    <2>7. QED
      BY <1>2, <1>7, <2>5, <2>6
  <1>10. CASE want = n
    <2>1. chip'.mem = Burn(sent, sent.base) /\ ~chip'.busy
      BY <1>4, <1>8, <1>10
    <2>2. want' = 0
      BY <1>4, <1>10
    <2>3. upTo \in Nat /\ Sent + n = upTo
      <3>1. upTo \in Nat
        BY <1>7 DEF upTo
      <3>2. QED
        BY <1>4, <1>7, <1>10, <3>1
    <2>4. \A a \in Addr : /\ a < upTo => chip'.mem[a] = File[a]
                          /\ upTo <= a /\ a < Touched => chip'.mem[a] = Erased
      BY <1>2, <2>1, <2>3
    <2>5. CASE Verified
      <3>1. pc' = "verifyPoll" /\ block' = block
        BY <2>2, <2>5, BlockSent
      <3>2. (block * Chunk + ByteCount)' = upTo
        BY <1>1, <3>1, SameByteCount DEF jobVars, upTo
      <3>3. Filled(block * Chunk + ByteCount)'
        BY <1>1, <2>4, <3>2 DEF Filled
      <3>4. QED
        BY <2>1, <3>1, <3>3 DEF DataInv
    <2>6. CASE ~Verified
      <3>1. NextBlock
        BY <2>2, <2>6, BlockSent
      <3>2. QED
        BY <1>1, <1>6, <2>1, <2>4, <3>1, NextBlockData DEF upTo
    <2>7. QED
      BY <2>5, <2>6
  <1>11. QED
    BY <1>4, <1>9, <1>10

\* A verify that agrees leads to the next block.
LEMMA VerifyData ==
    ASSUME Kind = "nor", KnownChip, Inv, VerifyPages
    PROVE  DataInv'
  <1>1. /\ UNCHANGED <<jobVars, chipInfo>> /\ pc = "verifyPoll"
        /\ (NextBlock \/ (pc' = "done" /\ result' = "fail"))
    BY DEF VerifyPages, Fail
  <1>2. CASE pc' = "done" /\ result' = "fail"
    BY <1>2, NoData
  <1>3. CASE NextBlock
    <2>1. (Trusted' <=> Trusted) /\ UNCHANGED <<chip, eraseActive>> /\ ~eraseActive
      BY <1>1
         DEF Trusted, Writing, jobVars, VerifyPages, FetchStatus, Hang, eraseVars, Inv,
             ControlInv, PhaseInv
    <2>2. Trusted => ~chip.busy /\ Filled(block * Chunk + ByteCount)
      BY <1>1 DEF Inv, DataInv
    <2>3. Trusted => DataInv'
      BY <1>1, <1>3, <2>1, <2>2, NextBlockData DEF Filled
    <2>4. QED
      BY <2>1, <2>3 DEF DataInv
  <1>4. QED
    BY <1>1, <1>2, <1>3

\* Deselecting leaves the data alone.
LEMMA ReleaseData ==
    ASSUME Kind = "nor", KnownChip, Inv, Deselected
    PROVE  DataInv'
  <1>1. /\ pc = "release" /\ pc' = "done" /\ UNCHANGED <<jobVars, received, result, eraseActive, chip>>
    BY NotNand DEF Deselected, ReleaseTargetDevice, Goto, eraseVars
  <1>2. (Trusted' <=> Trusted) /\ (Kept => Kept')
    BY <1>1 DEF Trusted, Kept, Delivered, Cell, Writing, jobVars
  <1>3. QED
    BY <1>1, <1>2 DEF Inv, DataInv

\* The chip ends what it was doing: busy is only ever cleared.
LEMMA FinishData ==
    ASSUME Kind = "nor", KnownChip, Inv, ChipFinishes
    PROVE  DataInv'
  <1>1. /\ chip.busy /\ chip'.mem = chip.mem
        /\ UNCHANGED <<pc, jobVars, result, received, eraseActive, beginPage>>
    BY InvTypes DEF ChipFinishes, Finish, Chip, hostVars, eraseVars
  <1>2. (Trusted' <=> Trusted)
    BY <1>1 DEF Trusted, Writing, jobVars
  <1>3. Kept => Kept'
    BY <1>1 DEF Kept, Delivered, Cell, Writing, jobVars
  <1>4. QED
    BY <1>1, <1>2, <1>3 DEF Inv, DataInv, PageOpen, Writing, jobVars

\* A cell below the next page's start is in the page or below it.
LEMMA ErasedPage ==
    ASSUME NEW a \in Nat, NEW page \in Nat, NEW size \in Nat \ {0}, a < (page + 1) * size
    PROVE  a < page * size \/ a \div size = page
  <1> SUFFICES ASSUME a >= page * size PROVE a \div size = page
    OBVIOUS
  <1> DEFINE r == a - page * size
  <1>1. (page + 1) * size = page * size + size /\ page * size = size * page
    OBVIOUS
  <1>2. r \in 0..size - 1 /\ a = (size * page) + r
    BY <1>1
  <1> HIDE DEF r
  <1>3. QED
    BY <1>2, ModUnique

\* tick erases the pages of the file in order, one each time the chip is idle.
LEMMA TickData ==
    ASSUME Kind = "nor", KnownChip, Inv, StartOfFrame
    PROVE  DataInv'
  <1>1. /\ eraseActive /\ UNCHANGED <<pc, jobVars, result, received>>
        /\ Tick /\ (Trusted' <=> Trusted)
    BY DEF StartOfFrame, Tick, hostVars, jobVars, Trusted, Writing
  <1>2. ASSUME Trusted, pc # "erasePoll"
        PROVE  DataInv'
    BY <1>1, <1>2 DEF DataInv, Inv, Kept, ControlInv, PhaseInv, Reading
  <1>3. ASSUME Trusted, pc = "erasePoll"
        PROVE  DataInv'
    <2>1. Writing /\ chip.op = "none" /\ targetDevice # "none" /\ ~Paged /\ ~chip.protected
      BY <1>1, <1>3, TrustedChip DEF Inv, ProgressInv, ControlInv, PhaseInv, NoStream, Working
    <2>2. \A a \in Addr : a < beginPage * EraseSize => chip.mem[a] = Erased
      BY <1>3, <2>1 DEF Inv, DataInv
    <2>3. \/ UNCHANGED <<chip, beginPage>>
          \/ /\ beginPage' = beginPage + 1
             /\ chip'.mem = [a \in Addr |-> IF a \div EraseSize = beginPage THEN Erased ELSE chip.mem[a]]
      BY <1>1, <2>1, InvTypes, TickCells
    <2>4. ASSUME NEW a \in Addr, a < beginPage' * EraseSize
          PROVE  chip'.mem[a] = Erased
      <3>1. a \in Nat
        BY DEF Addr
      <3>2. QED
        BY <2>2, <2>3, <2>4, <3>1, InvTypes, ErasedPage, ChipAssumption
    <2>5. QED
      BY <1>1, <1>3, <2>1, <2>4 DEF DataInv, Writing, jobVars
  <1>4. QED
    BY <1>1, <1>2, <1>3 DEF DataInv

\* Every step keeps the data.
LEMMA DataStep == Kind = "nor" /\ KnownChip /\ Inv /\ [Next]_vars => DataInv'
  <1> SUFFICES ASSUME Kind = "nor", KnownChip, Inv, [Next]_vars PROVE DataInv'
    OBVIOUS
  <1>1. CASE User \/ Exit \/ RequestCount \/ ListDevice \/ ReadChipInfo \/ Abort \/ TargetRefused
    BY <1>1, StartingData
  <1>2. CASE TargetDevice \/ RequestErase \/ SendEraseConfig \/ PollErase
    BY <1>2, TargetData, EraseData, PollData
  <1>3. CASE RequestRead \/ SendReadPage \/ ReadBulk
    BY <1>3, ReadData, ReceiveData
  <1>4. CASE RequestSfdp \/ SendSfdpAddress \/ SfdpBulk
    BY <1>4, SfdpData
  <1>5. CASE RequestWrite \/ SendWritePage \/ WriteBulk \/ VerifyPages
    BY <1>5, WriteData, SendData, VerifyData
  <1>6. CASE Deselected \/ ChipFinishes \/ StartOfFrame
    BY <1>6, ReleaseData, FinishData, TickData
  <1>7. CASE UNCHANGED vars
    <2>1. UNCHANGED <<pc, jobVars, chipInfo, block, want, received, result, chip, inPacket, readCount,
                      writePage, writeTotal, eraseActive, beginPage>>
      BY <1>7 DEF vars, protoVars, hostVars, readVars, eraseVars, writeVars
    <2>2. /\ Chunk' = Chunk /\ ByteCount' = ByteCount /\ Touched' = Touched /\ (Trusted' <=> Trusted)
          /\ Sent' = Sent /\ ReadBlocks' = ReadBlocks
      BY <2>1, SameChunk, SameByteCount DEF Touched, Trusted, Writing, Sent, ReadBlocks, jobVars
    <2>3. /\ (PageOpen => PageOpen') /\ (ReadOpen => ReadOpen') /\ (Kept => Kept')
      BY <2>1, <2>2 DEF PageOpen, Filled, ReadOpen, Kept, Delivered, Cell, Writing, jobVars
    <2>4. QED
      BY <2>1, <2>2, <2>3 DEF Inv, DataInv, Filled, Delivered, Cell, Writing, jobVars
  <1>8. QED
    BY <1>1, <1>2, <1>3, <1>4, <1>5, <1>6, <1>7 DEF Next, Transfer

(* The invariants and what follows at once ********************************)
\* At power up no command runs.
LEMMA StartsRight == Init => ProgressInv /\ (Kind = "nor" => TrustInv /\ DataInv)
  <1> SUFFICES ASSUME Init PROVE ProgressInv /\ (Kind = "nor" => TrustInv /\ DataInv)
    OBVIOUS
  <1>1. pc = "idle" /\ command = "none" /\ received = <<>> /\ currentPage = 0 /\ quiet = FALSE
    BY DEF Init, HostInit
  <1>2. PICK contents \in Contents : ProtoInit(contents)
    BY DEF Init
  <1>3. targetParams = "none" /\ chip.protected = (Kind = "nand")
    BY <1>2 DEF ProtoInit, PowerOn
  <1>4. QED
    BY <1>1, <1>3 DEF ProgressInv, TrustInv, DataInv, Trusted, Working, Writing, Starting

\* The control and progress invariants hold on every chip, whenever the host is
\* killed.
THEOREM ProgressInvariant == Spec => [](ControlInv /\ NoHang /\ ProgressInv)
  <1>1. Init => ControlInv /\ NoHang /\ ProgressInv
    BY InitInv, StartsRight
  <1>2. ControlInv /\ NoHang /\ ProgressInv /\ [Next]_vars => (ControlInv /\ NoHang /\ ProgressInv)'
    BY NextInv, ProgressStep
  <1>3. QED
    BY <1>1, <1>2, PTL DEF Spec

\* The whole invariant holds of a byte addressed chip, whenever the host is
\* killed and whatever it left the firmware and the chip doing.
THEOREM DataInvariant ==
    ASSUME Kind = "nor", KnownChip
    PROVE  Spec => []Inv
  <1>1. Init => Inv
    BY InitInv, StartsRight DEF Inv
  <1>2. Inv /\ [Next]_vars => Inv'
    BY NextInv, ProgressStep, TrustStep, DataStep DEF Inv
  <1>3. QED
    BY <1>1, <1>2, PTL DEF Spec

\* erasePages never returns before it has shown its last page, on every chip:
\* currentPage is the page count when the first block is written, though the
\* completion flag and the page travel in one status the tick fills in parts.
THEOREM ErasePageExact == Spec => []ProgressExact
  <1>1. ProgressInv => ProgressExact
    BY DEF ProgressInv, ProgressExact
  <1>2. QED
    BY <1>1, ProgressInvariant, PTL

\* The page erasePages shows never goes back, on every chip: no poll sees a page
\* of an earlier erase.
THEOREM EraseProgressForward == Spec => ProgressForward
  <1>1. ASSUME ControlInv, ProgressInv, [Next]_vars, pc' = "erasePoll"
        PROVE  currentPage' >= currentPage
    <2>1. currentPage \in Nat
      BY <1>1 DEF ControlInv, TypeOK, HostTypeOK
    <2>2. CASE PollErase
      <3>1. pc = "erasePoll" /\ (Writing => currentPage <= status.erasePage) /\ targetDevice = "chip"
            /\ status.erasePage \in Nat
        BY <1>1, <2>2
           DEF PollErase, ProgressInv, ControlInv, PhaseInv, Working, TypeOK, ProtoTypeOK,
               EngineTypeOK, Status
      <3>2. status' = EraseStatus
        BY <2>2, <3>1 DEF PollErase, FetchStatus
      <3>3. status'.erasePage = status.erasePage
        BY <1>1, <3>2 DEF EraseStatus, ControlInv, TypeOK, ProtoTypeOK, EngineTypeOK, Status
      <3>4. QED
        BY <2>1, <2>2, <3>1, <3>3 DEF PollErase
    <2>3. CASE ~PollErase
      <3>1. UNCHANGED currentPage
        BY <1>1, <2>3
           DEF Next, User, Transfer, Start, Kill, Exit, Forget, RequestCount, ListDevice,
               ReadChipInfo, Abort, TargetDevice, TargetRefused, Deselected, RequestErase,
               SendEraseConfig, RequestRead, SendReadPage, ReadBulk, Receive, RequestSfdp,
               SendSfdpAddress, SfdpBulk, RequestWrite, SendWritePage, WriteBulk, VerifyPages,
               ChipFinishes, StartOfFrame, hostVars, vars
      <3>2. QED
        BY <2>1, <3>1
    <2>4. QED
      BY <2>2, <2>3
  <1>2. QED
    BY <1>1, ProgressInvariant, PTL DEF ProgressForward, Spec

(* The target board ******************************************************)
\* A program that is open on the external chip was opened, and is held open,
\* while the board is held in reset: ending it is harmless.
BoardInv == Bus = "external" /\ chip.op \in {"program", "skewed"} => deviceReset

\* A step that identifies the chip or aborts ends what is open on it, and only
\* what was open as a program changes the array.
LEMMA EndsOpen ==
    ASSUME NEW c \in Chip
    PROVE  /\ Deselect(c).op = "none" /\ IdentDevice(c).op = "none"
           /\ c.op \notin {"program", "skewed"} =>
                 Deselect(c).mem = c.mem /\ IdentDevice(c).mem = c.mem
  <1>1. Deselect(c).op = "none" /\ IdentDevice(c).op = "none"
    BY DeselectChip, IdentDeviceChip
  <1>2. ASSUME c.op \notin {"program", "skewed"}
        PROVE  Deselect(c).mem = c.mem /\ IdentDevice(c).mem = c.mem
    <2>1. Latch(c, <<Corrupt>>) = c
      BY <1>2 DEF Latch
    <2>2. Deselect(c).mem = c.mem
      BY <1>2, DeselectQuiet DEF Chip
    <2>3. QED
      BY <2>1, <2>2 DEF IdentDevice
  <1>3. QED
    BY <1>1, <1>2

\* Every step keeps it: a transaction is opened by a command that works on its
\* chip, and the requests that let the board run close it first.
LEMMA BoardStep ==
    ASSUME ControlInv, NoHang, ProgressInv, ProgressInv', BoardInv, [Next]_vars
    PROVE  BoardInv'
  <1> SUFFICES ASSUME Bus = "external", chip'.op \in {"program", "skewed"} PROVE deviceReset'
    BY DEF BoardInv
  <1>1. chip \in Chip /\ beginPage \in Nat
    BY ControlTypes
  <1>2. CASE pc' \in Working
    BY <1>2 DEF ProgressInv
  <1>3. CASE UNCHANGED <<deviceReset, chip>>
    BY <1>3 DEF BoardInv
  <1>4. ASSUME chip' \in {Deselect(chip), IdentDevice(chip)}
        PROVE  FALSE
    BY <1>1, <1>4, EndsOpen
  <1>5. ASSUME UNCHANGED deviceReset, chip'.op = chip.op
        PROVE  deviceReset'
    BY <1>5 DEF BoardInv
  <1>6. CASE User \/ Exit \/ TargetRefused \/ UNCHANGED vars
    BY <1>3, <1>6
       DEF User, Start, Kill, Exit, Forget, TargetRefused, RefuseTargetDevice, protoVars, targetVars,
           vars
  <1>7. CASE RequestCount \/ ListDevice \/ ReadChipInfo \/ Abort
    <2>1. UNCHANGED <<deviceReset, chip>> \/ chip' \in {Deselect(chip), IdentDevice(chip)}
      BY <1>7
         DEF RequestCount, FetchDeviceCount, ListDevice, ReadChipInfo, FetchDeviceListing, Abort,
             HandleAbort
    <2>2. QED
      BY <1>3, <1>4, <2>1
  <1>8. CASE TargetDevice \/ Deselected
    <2>1. chip.op = "none" /\ IdentDevice(chip) \in Chip
      BY <1>1, <1>8, IdentDeviceChip DEF TargetDevice, Deselected, ControlInv, PhaseInv, NoStream
    <2>2. chip'.op = "none"
      BY <1>1, <1>8, <2>1, IdentDeviceChip, PrepareW25NChip, RestoreW25NChip
         DEF TargetDevice, HandleTargetDevice, Deselected, ReleaseTargetDevice
    <2>3. QED
      BY <2>2
  <1>9. CASE RequestErase \/ PollErase \/ RequestRead \/ RequestSfdp \/ RequestWrite \/ VerifyPages
    BY <1>3, <1>9
       DEF RequestErase, SetupErase, PollErase, VerifyPages, FetchStatus, Hang, RequestRead,
           SetupRead, RequestSfdp, SetupSFDPRead, RequestWrite, SetupWrite, targetVars
  <1>10. CASE SendEraseConfig \/ SendReadPage \/ SendSfdpAddress \/ SendWritePage
    BY <1>2, <1>10 DEF SendEraseConfig, SendReadPage, SendSfdpAddress, SendWritePage, Goto, Working
  <1>11. CASE ReadBulk \/ SfdpBulk \/ WriteBulk
    BY <1>2, <1>11
       DEF ReadBulk, SfdpBulk, Receive, WriteBulk, NextBlock, Release, Goto, Working
  <1>12. CASE ChipFinishes
    BY <1>1, <1>5, <1>12, FinishChip DEF ChipFinishes, targetVars
  <1>13. CASE StartOfFrame
    BY <1>1, <1>3, <1>5, <1>13, ErasePageChip DEF StartOfFrame, Tick, Hang, EraseNextPage, targetVars
  <1>14. QED
    BY <1>6, <1>7, <1>8, <1>9, <1>10, <1>11, <1>12, <1>13 DEF Next, Transfer

\* A step of a command that does not work on the chip yet, or any more, changes
\* the array only by ending a program or as the tick of an erase that was left.
LEMMA OutsideChanges ==
    ASSUME ControlInv, NoHang, [Next]_vars, pc \notin Working,
           chip.op \notin {"program", "skewed"}, chip'.mem # chip.mem
    PROVE  eraseActive /\ pc \in Outside /\ Tick
  <1>1. chip \in Chip
    BY ControlTypes
  <1>2. ASSUME chip' \in {chip, Finish(chip), Deselect(chip), IdentDevice(chip)}
        PROVE  FALSE
    BY <1>1, <1>2, EndsOpen DEF Finish, Chip
  <1>3. CASE User \/ Exit \/ UNCHANGED vars
    BY <1>2, <1>3 DEF User, Start, Kill, Exit, Forget, protoVars, vars
  <1>4. CASE RequestCount \/ ListDevice \/ ReadChipInfo \/ Abort \/ TargetRefused \/ ChipFinishes
    BY <1>2, <1>4
       DEF RequestCount, FetchDeviceCount, ListDevice, ReadChipInfo, FetchDeviceListing, Abort,
           HandleAbort, TargetRefused, RefuseTargetDevice, ChipFinishes
  <1>5. CASE TargetDevice
    <2>1. \E seen \in {chip, IdentDevice(chip)} : chip' \in {seen, PrepareW25N(seen)}
      BY <1>5 DEF TargetDevice, HandleTargetDevice
    <2>2. IdentDevice(chip) \in Chip /\ IdentDevice(chip).mem = chip.mem
      BY <1>1, EndsOpen, IdentDeviceChip
    <2>3. QED
      BY <1>1, <2>1, <2>2 DEF PrepareW25N, Chip
  <1>6. CASE StartOfFrame
    <2>1. eraseActive /\ Tick
      BY <1>6 DEF StartOfFrame, Tick
    <2>2. pc \in PCs /\ pc # "target"
      BY <2>1 DEF ControlInv, TypeOK, HostTypeOK, PhaseInv
    <2>3. QED
      BY <2>1, <2>2 DEF PCs, Working, Outside
  <1>7. QED
    BY <1>3, <1>4, <1>5, <1>6
       DEF Next, Transfer, Working, Deselected, RequestErase, SendEraseConfig, PollErase,
           RequestRead, SendReadPage, ReadBulk, RequestSfdp, SendSfdpAddress, SfdpBulk,
           RequestWrite, SendWritePage, WriteBulk, VerifyPages

\* The external chip is programmed or erased only while the target board is held
\* in reset, but for the page erase that a killed command left to tick: on every
\* chip, whatever an earlier command was killed in the middle of.
THEOREM ResetIsHeld == Spec => ResetHeld
  <1> DEFINE Board == ControlInv /\ NoHang /\ ProgressInv /\ BoardInv
  <1>1. Init => Board
    <2> SUFFICES ASSUME Init PROVE Board
      OBVIOUS
    <2>1. PICK contents \in Contents : ProtoInit(contents)
      BY DEF Init
    <2>2. BoardInv
      BY <2>1 DEF ProtoInit, BoardInv
    <2>3. QED
      BY <2>2, InitInv, StartsRight
  <1>2. Board /\ [Next]_vars => Board'
    BY NextInv, ProgressStep, BoardStep
  <1>3. Board /\ [Next]_vars =>
           (Bus = "external" /\ chip'.mem # chip.mem =>
               deviceReset \/ (eraseActive /\ pc \in Outside))
    BY OutsideChanges DEF ProgressInv, BoardInv
  <1>4. QED
    BY <1>1, <1>2, <1>3, PTL DEF ResetHeld, Spec

(* Results when nothing was left running *********************************)
\* A quiet command that says ok has kept its promise.
LEMMA QuietKept ==
    ASSUME Kind = "nor", KnownChip, Inv, quiet
    PROVE  ReadDone /\ WriteDone /\ EraseDone
  <1> SUFFICES ASSUME pc = "done", result = "ok"
               PROVE  ReadDone /\ WriteDone /\ EraseDone
    BY DEF ReadDone, WriteDone, EraseDone, Exited
  <1>1. Kept
    BY DEF Inv, DataInv, Trusted
  <1>2. WriteDone /\ EraseDone
    BY <1>1 DEF Kept, WriteDone, EraseDone, Exited, Writing
  <1>3. ASSUME command = "read"
        PROVE  received = [i \in 1..DevSize |-> chip.mem[i - 1]]
    <2>1. /\ received \in Seq(Byte) /\ Len(received) = DevSize
          /\ \A i \in 1..DevSize : received[i] = Cell(chip, i - 1)
      BY <1>1, <1>3, InvTypes DEF Kept, Delivered
    <2>2. ASSUME NEW i \in 1..DevSize
          PROVE  Cell(chip, i - 1) = chip.mem[i - 1]
      BY ChipAssumption DEF Cell, Addr
    <2>3. QED
      BY <2>1, <2>2
  <1>4. QED
    BY <1>2, <1>3 DEF ReadDone, Exited

\* read returns exactly the chip's bytes in order, for every size, page and
\* packet, if nothing was left running when it started.
THEOREM QuietRead ==
    ASSUME Kind = "nor", KnownChip
    PROVE  Spec => []QuietReadDone
  <1>1. Inv => QuietReadDone
    BY QuietKept DEF QuietReadDone
  <1>2. QED
    BY <1>1, DataInvariant, PTL

\* write and verifiedWrite say ok only when the chip holds the file and is idle,
\* for every file, if nothing was left running when they started.
THEOREM QuietWrite ==
    ASSUME Kind = "nor", KnownChip
    PROVE  Spec => []QuietWriteDone
  <1>1. Inv => QuietWriteDone
    BY QuietKept DEF QuietWriteDone
  <1>2. QED
    BY <1>1, DataInvariant, PTL

\* erase says ok only when every byte is erased, if nothing was left running
\* when it started.
THEOREM QuietErase ==
    ASSUME Kind = "nor", KnownChip
    PROVE  Spec => []QuietEraseDone
  <1>1. Inv => QuietEraseDone
    BY QuietKept DEF QuietEraseDone
  <1>2. QED
    BY <1>1, DataInvariant, PTL

(* Results when no host was killed ***************************************)
\* Without a kill a command leaves the chip idle and no tick behind, whether it
\* ended well or not.
UnkilledInv ==
    kills = 0 =>
    /\ pc # "idle" => quiet
    /\ pc # "erasePoll" => ~chip.busy
    /\ pc \in {"idle", "done"} => ~eraseActive /\ chip.op = "none"

\* Then tick only runs while its command polls.
LEMMA TickPoll ==
    ASSUME Kind = "nor", KnownChip, Inv, UnkilledInv, kills = 0, eraseActive
    PROVE  pc = "erasePoll"
  <1>1. pc \notin {"idle", "done"}
    BY DEF UnkilledInv
  <1>2. pc \notin Starting
    BY <1>1 DEF UnkilledInv, Inv, TrustInv, Starting
  <1>3. pc \in Working => pc = "erasePoll"
    BY DEF Inv, ControlInv, PhaseInv, Working, Reading
  <1>4. QED
    BY <1>1, <1>2, <1>3 DEF Inv, ControlInv, TypeOK, HostTypeOK, PCs, Starting, Working

\* Every step keeps it: commands end only after their erase has, and a page is
\* followed by a wait for the chip.
LEMMA UnkilledStep == Kind = "nor" /\ KnownChip /\ Inv /\ Inv' /\ UnkilledInv /\ [Next]_vars => UnkilledInv'
  <1> SUFFICES ASSUME Kind = "nor", KnownChip, Inv, Inv', UnkilledInv, [Next]_vars, kills' = 0 PROVE UnkilledInv'
    BY DEF UnkilledInv
  <1>1. CASE \E cmd \in Commands, isValid \in BOOLEAN, length \in FileLengths \cup {0} :
               Start(cmd, isValid, length)
    BY <1>1 DEF Start, protoVars, eraseVars, UnkilledInv
  <1>2. CASE Kill \/ Exit
    BY <1>2
       DEF Kill, Exit, Forget, protoVars, eraseVars, UnkilledInv, Inv, ControlInv, TypeOK,
           HostTypeOK
  <1>3. CASE RequestCount \/ ListDevice \/ ReadChipInfo \/ Abort \/ TargetDevice \/ TargetRefused
    <2>1. pc \in Starting /\ pc' # "idle" /\ UNCHANGED <<jobVars, kills>>
      BY <1>3 DEF RequestCount, ListDevice, ReadChipInfo, Abort, TargetDevice, TargetRefused,
                  Goto, Fail, Release, Starting
    <2>2. quiet /\ ~chip.busy /\ ~eraseActive /\ chip.op = "none"
      BY <2>1 DEF UnkilledInv, Inv, TrustInv, Starting
    <2>3. chip' \in {chip, Deselect(chip), IdentDevice(chip)} /\ ~eraseActive'
      BY <1>3, <2>2, NotNand
         DEF RequestCount, FetchDeviceCount, ListDevice, FetchDeviceListing, ReadChipInfo,
             Abort, HandleAbort, ResetErase, TargetDevice, HandleTargetDevice, TargetRefused,
             RefuseTargetDevice, eraseVars
    <2>4. ~chip'.busy /\ chip'.op = "none"
      BY <2>2, <2>3, InvTypes, QuietIdent
    <2>5. QED
      BY <2>1, <2>2, <2>3, <2>4 DEF UnkilledInv, jobVars
  <1>4. ASSUME pc \in Working, pc' \in Working \cup {"done"}, UNCHANGED <<jobVars, kills>>,
               pc' # "erasePoll" => ~chip'.busy,
               pc' = "done" => ~eraseActive' /\ chip'.op = "none"
        PROVE  UnkilledInv'
    BY <1>4 DEF UnkilledInv, jobVars, Working
  <1>5. CASE Deselected \/ RequestErase \/ RequestRead \/ RequestSfdp \/ RequestWrite \/ VerifyPages
    <2>1. UNCHANGED <<chip, eraseActive, kills>>
          /\ pc \in {"release", "eraseReq", "readReq", "sfdpReq", "writeReq", "verifyPoll"}
      BY <1>5, NotNand
         DEF Deselected, ReleaseTargetDevice, RequestErase, SetupErase, RequestRead, SetupRead,
             RequestSfdp, SetupSFDPRead, RequestWrite, SetupWrite, VerifyPages, FetchStatus,
             Hang, eraseVars
    <2>2. chip.op = "none" /\ ~eraseActive /\ ~chip.busy
      BY <2>1 DEF UnkilledInv, Inv, ControlInv, PhaseInv, NoStream
    <2>3. QED
      BY <1>4, <1>5, <2>1, <2>2, WorkSteps DEF Inv
  <1>6. CASE SendEraseConfig
    BY <1>4, <1>6, WorkSteps DEF SendEraseConfig, Goto, Inv
  <1>7. CASE PollErase
    <2>1. UNCHANGED <<chip, eraseActive, kills>> /\ pc = "erasePoll"
      BY <1>7 DEF PollErase, FetchStatus, Hang, protoVars, eraseVars
    <2>2. chip.op = "none"
      BY <2>1 DEF Inv, ControlInv, PhaseInv, NoStream
    <2>3. pc' # "erasePoll" => status'.eraseComplete # 0
      BY <1>7, Zenon DEF PollErase, Goto
    <2>4. status'.eraseComplete # 0 => ~eraseActive /\ ~chip.busy
      BY <1>7 DEF PollErase, FetchStatus, EraseStatus, Inv, ControlInv, PhaseInv, Working,
                  TypeOK, ProtoTypeOK, EngineTypeOK, Status
    <2>5. QED
      BY <1>4, <1>7, <2>1, <2>2, <2>3, <2>4, WorkSteps DEF Inv
  <1>8. CASE SendReadPage \/ ReadBulk \/ SendSfdpAddress \/ SfdpBulk
    <2>1. pc \in Working \ {"erasePoll"} /\ pc' # "done" /\ UNCHANGED <<jobVars, kills>>
      BY <1>8
         DEF SendReadPage, ReadBulk, SendSfdpAddress, SfdpBulk, Receive, Goto, Release, Working
    <2>2. quiet /\ Trusted /\ ~chip.busy
      BY <2>1 DEF UnkilledInv, Trusted, Working
    <2>3. targetParams = "chip"
      BY <2>1, <2>2, TrustedChip
    <2>4. ~chip'.busy
      BY <1>8, <2>2, <2>3, ReadCells, ReceiveCells, SfdpCells DEF Inv
    <2>5. QED
      BY <1>4, <1>8, <2>1, <2>4, WorkSteps DEF Inv
  <1>9. CASE SendWritePage \/ WriteBulk
    <2>1. /\ pc \in Working /\ UNCHANGED <<jobVars, kills>> /\ Writing
          /\ \/ pc' \in {"writeReq", "writeBulk", "verifyPoll"}
             \/ pc' = "release" /\ result' = "ok"
      BY <1>9
         DEF SendWritePage, WriteBulk, NextBlock, Goto, Release, Working, Inv, ControlInv,
             LoopInv
    <2>2. Trusted' /\ Writing'
      BY <2>1 DEF UnkilledInv, Trusted, Writing, Working, jobVars
    <2>3. ~chip'.busy
      BY <2>1, <2>2 DEF Inv, DataInv, PageOpen, Kept
    <2>4. QED
      BY <1>4, <1>9, <2>1, <2>3, WorkSteps DEF Inv
  <1>10. CASE ChipFinishes
    BY <1>10, InvTypes, FinishChip
       DEF ChipFinishes, Finish, hostVars, jobVars, eraseVars, UnkilledInv, Chip
  <1>11. CASE StartOfFrame
    <2>1. UNCHANGED <<pc, jobVars, kills>> /\ eraseActive
      BY <1>11 DEF StartOfFrame, Tick, hostVars
    <2>2. pc = "erasePoll"
      BY <2>1, TickPoll DEF UnkilledInv
    <2>3. QED
      BY <2>1, <2>2 DEF UnkilledInv, jobVars
  <1>12. CASE UNCHANGED vars
    BY <1>12 DEF vars, protoVars, hostVars, jobVars, eraseVars, UnkilledInv
  <1>13. QED
    BY <1>1, <1>2, <1>3, <1>5, <1>6, <1>7, <1>8, <1>9, <1>10, <1>11, <1>12
       DEF Next, User, Transfer

\* While no host has been killed every read, write and erase that says ok has
\* done what it says, however many commands failed before it: only a kill leaves
\* something running that a later command can stumble over.
THEOREM UnkilledResults ==
    ASSUME Kind = "nor", KnownChip
    PROVE  Spec => [](kills = 0 => ReadDone /\ WriteDone /\ EraseDone)
  <1>1. Init => UnkilledInv
    BY DEF Init, HostInit, ProtoInit, PowerOn, UnkilledInv
  <1>2. Inv /\ Inv' /\ UnkilledInv /\ [Next]_vars => UnkilledInv'
    BY UnkilledStep
  <1>3. ASSUME Inv, UnkilledInv, kills = 0
        PROVE  ReadDone /\ WriteDone /\ EraseDone
    <2>1. pc = "done" => quiet
      BY <1>3 DEF UnkilledInv
    <2>2. quiet => ReadDone /\ WriteDone /\ EraseDone
      BY <1>3, QuietKept
    <2>3. QED
      BY <2>1, <2>2 DEF ReadDone, WriteDone, EraseDone, Exited
  <1>4. Inv /\ UnkilledInv => (kills = 0 => ReadDone /\ WriteDone /\ EraseDone)
    BY <1>3
  <1>5. QED
    BY <1>1, <1>2, <1>4, DataInvariant, PTL DEF Spec

\* Where hosts are never killed, read says ok only with every byte of the chip.
THEOREM UnkilledRead ==
    ASSUME Kind = "nor", KnownChip, MaxKills = 0
    PROVE  Spec => []ReadDone
  <1>1. Inv => kills = 0
    BY DEF Inv, ControlInv, TypeOK, HostTypeOK
  <1>2. Inv /\ (kills = 0 => ReadDone /\ WriteDone /\ EraseDone) => ReadDone
    BY <1>1
  <1>3. QED
    BY <1>2, DataInvariant, UnkilledResults, PTL

(* The cells a trusted transfer changes **********************************)
\* A cell is below the end of its erase page.
LEMMA PageTop ==
    ASSUME NEW a \in Addr, NEW page \in Nat, a \div EraseSize = page
    PROVE  a < (page + 1) * EraseSize
  <1> DEFINE e == EraseSize
  <1>1. e \in Nat \ {0} /\ a \in Int /\ a \div e = page
    BY ChipAssumption DEF Addr
  <1> HIDE DEF e
  <1>2. a = (e * page) + (a % e) /\ a % e \in 0..e - 1
    BY <1>1, ModDef
  <1>3. (page + 1) * e = (e * page) + e
    BY <1>1
  <1>4. QED
    BY <1>1, <1>2, <1>3 DEF e

\* Sending a packet programs its page or nothing.
LEMMA SentMem ==
    ASSUME Kind = "nor", KnownChip, Inv, Trusted, WriteBulk,
           NEW sent, sent = Latch(chip, Packet)
    PROVE  chip'.mem \in {chip.mem, Burn(sent, sent.base)}
  <1>1. pc = "writeBulk" /\ PageOpen /\ ~chip.protected /\ ~Paged /\ ProtoTypeOK
    BY InvTypes, TrustedChip DEF WriteBulk, Inv, DataInv, Working
  <1> DEFINE n == Len(Packet)
  <1>2. /\ Packet \in Seq(Byte) /\ n \in 1..writeCount /\ PerformWrite(Packet) /\ writeCount \in Nat
        /\ chip.pos \in Nat /\ PageSize \in Nat
    BY InvTypes, PacketSent, ChipAssumption DEF Inv
  <1>3. /\ chip.pos + n <= PageSize /\ sent.mem = chip.mem
        /\ (writeTotal - writeCount + n) % PageSize = 0 <=> chip.pos + n = PageSize
    BY SentPage
  <1>4. /\ writeCount > n /\ chip.pos + n < PageSize => chip' = sent
        /\ writeCount > n /\ chip.pos + n = PageSize => chip'.mem = Burn(sent, sent.base)
        /\ writeCount = n => chip'.mem = Burn(sent, sent.base)
    BY <1>1, <1>2, <1>3, PerformWriteCells DEF PageOpen, KnownChip
  <1>5. QED
    BY <1>2, <1>3, <1>4

\* A trusted command erases within the pages of its file and programs the file's
\* bytes into erased cells, and nothing else.
LEMMA StoreStep ==
    ASSUME Kind = "nor", KnownChip, Inv, Trusted, pc \in Working, [Next]_vars
    PROVE  \/ chip'.mem = chip.mem
           \/ /\ pc' \in Working /\ UNCHANGED <<jobVars, received>>
              /\ Writing \/ command = "erase"
              /\ \A a \in Addr : chip'.mem[a] # chip.mem[a] =>
                    (Writing => a < Touched) /\ chip'.mem[a] = Erased
           \/ /\ WriteBulk /\ Writing
              /\ \A a \in Addr : chip'.mem[a] # chip.mem[a] =>
                    a < fileLength /\ chip.mem[a] = Erased /\ chip'.mem[a] = File[a]
  <1>1. chip \in Chip /\ ProtoTypeOK
    BY InvTypes
  <1>2. ASSUME UNCHANGED chip \/ ChipFinishes
        PROVE  chip'.mem = chip.mem
    BY <1>1, <1>2 DEF ChipFinishes, Finish, Chip
  <1>3. ASSUME \/ User \/ Exit \/ RequestCount \/ ListDevice \/ ReadChipInfo \/ Abort \/ TargetDevice
               \/ TargetRefused \/ Deselected \/ RequestErase \/ PollErase \/ RequestRead
               \/ RequestSfdp \/ RequestWrite \/ VerifyPages
        PROVE  UNCHANGED chip
    BY <1>3, NotNand
       DEF Working, User, Start, Kill, Exit, Forget, protoVars, RequestCount, ListDevice,
           ReadChipInfo, Abort, TargetDevice, TargetRefused, Deselected, ReleaseTargetDevice,
           RequestErase, SetupErase, PollErase, FetchStatus, Hang, RequestRead, SetupRead,
           RequestSfdp, SetupSFDPRead, RequestWrite, SetupWrite, VerifyPages
  <1>4. CASE SendReadPage \/ SendSfdpAddress \/ ReadBulk \/ SfdpBulk
    BY <1>4, ReadCells, SfdpCells, ReceiveCells DEF Inv
  <1>5. CASE SendWritePage
    <2>1. block * PagesPerChunk \in Nat /\ chip' \in {chip, WriteAddress(chip, block * PagesPerChunk)}
      BY <1>5, PageNumber DEF SendWritePage, HandleWrite, Hang, Inv
    <2>2. QED
      BY <1>1, <2>1, WriteAddressCells
  <1>6. CASE SendEraseConfig
    <2>1. pc = "eraseData" /\ pc' \in Working /\ UNCHANGED <<jobVars, received>>
          /\ chip.op = "none" /\ ~chip.protected
      BY <1>6 DEF SendEraseConfig, Goto, Working, Inv, ControlInv, PhaseInv, NoStream, TrustInv
    <2>2. CASE Writing
      BY <1>6, <2>1, <2>2 DEF SendEraseConfig, HandleErase, Inv, ProgressInv
    <2>3. CASE ~Writing
      <3>1. ~chip.busy /\ command = "erase" /\ eraseOperation = "all"
        BY <2>1, <2>3 DEF Inv, ProgressInv, DataInv
      <3>2. chip'.mem = [a \in Addr |-> Erased]
        BY <1>1, <1>6, <2>1, <3>1, ErasedAll DEF SendEraseConfig, HandleErase, Ready
      <3>3. QED
        BY <2>1, <2>3, <3>1, <3>2
    <2>4. QED
      BY <2>2, <2>3
  <1>7. CASE StartOfFrame
    <2>1. /\ eraseActive /\ Tick /\ UNCHANGED <<pc, jobVars, received>>
          /\ targetDevice # "none" /\ ~Paged /\ ~chip.protected
      BY <1>7, TrustedChip DEF StartOfFrame, Tick, hostVars, jobVars
    <2>2. pc = "erasePoll" /\ Writing /\ endPage = PageCount /\ chip.op = "none"
      BY <2>1 DEF Inv, ControlInv, PhaseInv, Reading, NoStream, Working, ProgressInv
    <2>3. PageCount * EraseSize = Touched
      BY <2>2, TrustedChip DEF PageCount, Touched, Working, Writing
    <2>4. ASSUME beginPage < endPage, NEW a \in Addr, chip'.mem[a] # chip.mem[a]
          PROVE  a < Touched /\ chip'.mem[a] = Erased
      <3>1. chip'.mem = [x \in Addr |-> IF x \div EraseSize = beginPage THEN Erased ELSE chip.mem[x]]
        BY <1>1, <2>1, <2>2, <2>4, TickCells
      <3>2. a \div EraseSize = beginPage /\ chip'.mem[a] = Erased
        BY <2>4, <3>1
      <3>3. a < (beginPage + 1) * EraseSize
        BY <3>2, InvTypes, PageTop
      <3>4. (beginPage + 1) * EraseSize <= PageCount * EraseSize
        <4>1. beginPage \in Nat /\ endPage \in Nat /\ EraseSize \in Nat
          BY InvTypes, ChipAssumption
        <4>2. beginPage + 1 <= endPage
          BY <2>4, <4>1
        <4>3. (beginPage + 1) * EraseSize <= endPage * EraseSize
          BY <4>1, <4>2
        <4>4. QED
          BY <2>2, <4>3
      <3>5. QED
        BY <2>3, <3>2, <3>3, <3>4, FileInside, InvTypes, <2>2, ChipAssumption DEF Addr
    <2>5. CASE beginPage >= endPage
      BY <1>1, <2>1, <2>2, <2>5, TickCells
    <2>6. QED
      BY <2>1, <2>2, <2>4, <2>5, InvTypes
  <1>8. CASE WriteBulk
    <2> DEFINE sent == Latch(chip, Packet)
    <2>1. /\ chip'.mem \in {chip.mem, Burn(sent, sent.base)}
      BY <1>8, SentMem
    <2>2. \A a \in Addr : Burn(sent, sent.base)[a] # chip.mem[a] =>
             a < fileLength /\ chip.mem[a] = Erased /\ Burn(sent, sent.base)[a] = File[a]
      BY <1>8, SentPage
    <2>3. Writing
      BY <1>8 DEF WriteBulk, Inv, ControlInv, LoopInv
    <2> HIDE DEF sent
    <2>4. QED
      BY <1>8, <2>1, <2>2, <2>3
  <1>9. QED
    BY <1>2, <1>3, <1>4, <1>5, <1>6, <1>7, <1>8 DEF Next, Transfer, vars, protoVars

\* On the soldered chip write and verifiedWrite say ok only when it holds the
\* file, whatever commands were killed before, in the middle of an erase too:
\* the erase it begins with waits until the chip is idle.
THEOREM InternalWriteDone ==
    ASSUME Bus = "internal", KnownChip
    PROVE  Spec => []WriteDone
  <1>1. ASSUME Inv
        PROVE  WriteDone
    <2> SUFFICES ASSUME pc = "done", result = "ok", Writing
                 PROVE  ~chip.busy /\ \A a \in Addr : a < fileLength => chip.mem[a] = File[a]
      BY DEF WriteDone, Exited, Writing
    <2>1. Kept
      BY <1>1 DEF Inv, DataInv, Trusted
    <2>2. QED
      BY <2>1 DEF Kept
  <1>2. Kind = "nor"
    BY ProtoAssumption
  <1>3. QED
    BY <1>1, <1>2, DataInvariant, PTL

\* On the soldered chip, once erasePages has returned, all erase pages of the
\* file are erased but for the bytes written since, whenever earlier commands
\* were killed: no page was skipped, and none was sent to a busy chip.
THEOREM InternalRangeErased ==
    ASSUME Bus = "internal", KnownChip
    PROVE  Spec => []RangeErased
  <1>1. ASSUME Inv
        PROVE  RangeErased
    <2> SUFFICES ASSUME pc \in {"writeReq", "writeData", "writeBulk", "verifyPoll"}, NEW a \in Addr,
                        Written <= a, a < Touched
                 PROVE  chip.mem[a] = Erased
      BY DEF RangeErased
    <2>1. Trusted /\ block * Chunk \in Nat
      BY <1>1, BlockStart DEF Inv, ControlInv, LoopInv, Trusted
    <2>2. CASE pc \in {"writeReq", "writeData"}
      BY <1>1, <2>1, <2>2 DEF Inv, DataInv, Filled, Written
    <2>3. CASE pc = "verifyPoll"
      BY <1>1, <2>1, <2>3 DEF Inv, DataInv, Filled, Written
    <2>4. CASE pc = "writeBulk"
      <3>1. PageOpen /\ Written = block * Chunk + (ByteCount - want)
        BY <1>1, <2>1, <2>4 DEF Inv, DataInv, Written
      <3>2. ByteCount \in Nat /\ want \in Nat /\ chip.base \in Nat /\ chip.pos \in Nat
        BY <1>1, <2>4, InvTypes, ByteCountRange DEF Inv, ControlInv, LoopInv
      <3>3. chip.base + chip.pos = Written
        BY <2>1, <3>1, <3>2 DEF PageOpen, Sent
      <3>4. chip.base <= a
        BY <2>1, <3>1, <3>2, <3>3 DEF Addr
      <3>5. QED
        BY <3>1, <3>4 DEF PageOpen, Filled
    <2>5. QED
      BY <2>2, <2>3, <2>4
  <1>2. Kind = "nor"
    BY ProtoAssumption
  <1>3. QED
    BY <1>1, <1>2, DataInvariant, PTL

\* On the soldered chip a write changes nothing beyond the erase pages of its
\* file, whenever earlier commands were killed; nor does the erase such a command
\* left behind, which stays in its own range.
THEOREM InternalEraseConfined ==
    ASSUME Bus = "internal", KnownChip
    PROVE  Spec => EraseConfined
  <1>1. Kind = "nor"
    BY ProtoAssumption
  <1>2. ASSUME Inv, [Next]_vars, Writing, pc \notin Outside \cup {"target"},
               NEW a \in Addr, ~(a < Touched)
        PROVE  chip'.mem[a] = chip.mem[a]
    <2>1. Trusted /\ pc \in Working
      BY <1>2 DEF Trusted, Writing, Working, Outside, Inv, ProgressInv, ControlInv, TypeOK, HostTypeOK,
                  PCs
    <2>2. ~(a < fileLength)
      BY <1>2, InvTypes, FileInside DEF Addr
    <2>3. QED
      BY <1>1, <1>2, <2>1, <2>2, StoreStep
  <1>3. ASSUME Inv, [Next]_vars, eraseActive, pc \in Outside,
               NEW a \in Addr, chip'.mem[a] # chip.mem[a]
        PROVE  a < endPage * EraseSize
    <2>1. chip.op = "none" /\ targetDevice # "none" /\ ~Paged /\ ~chip.protected
      BY <1>1, <1>3 DEF Inv, ControlInv, BusDiscipline, Paged, TrustInv
    <2>2. Tick
      BY <1>3, <2>1, OutsideChanges DEF Inv, Outside, Working
    <2>3. beginPage < endPage /\ a \div EraseSize = beginPage
      BY <1>1, <1>3, <2>1, <2>2, InvTypes, TickCells
    <2>4. a < (beginPage + 1) * EraseSize
      BY <1>3, <2>3, InvTypes, PageTop
    <2>5. (beginPage + 1) * EraseSize <= endPage * EraseSize
      <3> DEFINE next == beginPage + 1
                 last == endPage
                 size == EraseSize
      <3>1. next \in Nat /\ last \in Nat /\ size \in Nat /\ next <= last
        BY <1>3, <2>3, InvTypes, ChipAssumption
      <3> HIDE DEF next, last, size
      <3>2. last * size = next * size + (last - next) * size /\ (last - next) * size >= 0
        BY <3>1
      <3>3. QED
        BY <3>1, <3>2 DEF next, last, size
    <2>6. QED
      BY <1>3, <2>4, <2>5, InvTypes, ChipAssumption DEF Addr
  <1>4. Inv /\ [Next]_vars =>
          \A a \in Addr : chip'.mem[a] # chip.mem[a] =>
             /\ Writing /\ pc \notin Outside \cup {"target"} => a < Touched
             /\ eraseActive /\ pc \in Outside => a < endPage * EraseSize
    BY <1>2, <1>3
  <1>5. Spec => []Inv
    BY <1>1, DataInvariant
  <1>6. QED
    BY <1>4, <1>5, PTL DEF EraseConfined, Spec

(* Nothing is programmed twice *******************************************)
\* No cell is corrupt, and a byte in the latch is for an erased cell.
Sound(c) ==
    /\ c.op # "skewed"
    /\ \A a \in Addr : c.mem[a] # Corrupt
    /\ c.op = "program" =>
          \A k \in Column : c.buf[k] # Erased =>
              c.buf[k] # Corrupt /\ (c.base + k \in Addr => c.mem[c.base + k] = Erased)

\* An erase that corrupts nothing is sound.
LEMMA SoundModify ==
    ASSUME NEW c \in Chip, Sound(c), c.op = "none",
           NEW m \in [Addr -> Byte], \A a \in Addr : m[a] # Corrupt
    PROVE  Sound(Modify(WriteEnable(c), m))
  BY DEF Sound, Modify, WriteEnable, Ready, Chip

\* Lifting chip select programs sound bytes into erased cells.
LEMMA SoundDeselect ==
    ASSUME NEW c \in Chip, Sound(c)
    PROVE  Sound(Deselect(c))
  <1>1. Deselect(c) \in Chip /\ Deselect(c).op = "none"
    BY DeselectChip
  <1>2. ASSUME NEW a \in Addr
        PROVE  Deselect(c).mem[a] # Corrupt
    <2>1. Deselect(c).mem = c.mem \/ (c.op = "program" /\ Deselect(c).mem = Burn(c, c.base))
      BY DEF Deselect, Modify, Sound, Chip
    <2>2. c.op = "program" => Burn(c, c.base)[a] # Corrupt
      <3> SUFFICES ASSUME c.op = "program" PROVE Burn(c, c.base)[a] # Corrupt
        OBVIOUS
      <3> DEFINE k == a - c.base
      <3>1. a \in Int /\ c.base \in Nat /\ c.base + k = a
        BY DEF Addr, Chip
      <3>2. /\ k \in Column /\ c.mem[a] = Erased => Burn(c, c.base)[a] = c.buf[k]
            /\ k \in Column /\ c.buf[k] = Erased => Burn(c, c.base)[a] = c.mem[a]
            /\ k \notin Column => Burn(c, c.base)[a] = c.mem[a]
        BY <3>1, BurntCell
      <3>3. k \in Column /\ c.buf[k] # Erased => c.buf[k] # Corrupt /\ c.mem[a] = Erased
        BY <3>1 DEF Sound
      <3>4. QED
        BY <3>2, <3>3 DEF Sound
    <2>3. QED
      BY <2>1, <2>2 DEF Sound
  <1>3. QED
    BY <1>1, <1>2 DEF Sound

\* Every step of a programmer of a soldered chip keeps the chip sound.
LEMMA SoundStep ==
    ASSUME Bus = "internal", KnownChip, \A a \in Addr : File[a] # Corrupt,
           Inv, Sound(chip), [Next]_vars, DataInv'
    PROVE  Sound(chip')
  <1> USE DEF NoHang
  <1>1. /\ ProtoTypeOK /\ chip \in Chip /\ beginPage \in Nat /\ Kind = "nor"
        /\ ControlInv /\ NoHang
    BY InvTypes, ProtoAssumption DEF Inv
  <1>2. ASSUME chip' \in {chip, Deselect(chip), IdentDevice(chip), Finish(chip)}
        PROVE  Sound(chip')
    <2>1. Sound(Finish(chip))
      BY <1>1 DEF Sound, Finish, Chip
    <2>2. Sound(Deselect(chip)) /\ IdentDevice(chip) = Deselect(chip)
      BY <1>1, SoundDeselect DEF IdentDevice
    <2>3. QED
      BY <1>2, <2>1, <2>2
  <1>3. ASSUME \/ UNCHANGED chip \/ Abort \/ RequestCount \/ ListDevice \/ ReadChipInfo \/ TargetDevice
               \/ TargetRefused \/ Deselected \/ RequestErase \/ PollErase \/ RequestRead
               \/ RequestSfdp \/ RequestWrite \/ VerifyPages \/ ChipFinishes
        PROVE  Sound(chip')
    <2>1. chip' \in {chip, Deselect(chip), IdentDevice(chip), Finish(chip)}
      BY <1>1, <1>3, NotNand DEF Abort, HandleAbort, RequestCount, FetchDeviceCount, ListDevice,
         ReadChipInfo, FetchDeviceListing, TargetDevice, HandleTargetDevice, TargetRefused,
         RefuseTargetDevice, Deselected, ReleaseTargetDevice, RequestErase, SetupErase,
         PollErase, FetchStatus, Hang, RequestRead, SetupRead, RequestSfdp, SetupSFDPRead,
         RequestWrite, SetupWrite, VerifyPages, ChipFinishes
    <2>2. QED
      BY <1>2, <2>1
  <1>4. ASSUME User \/ Exit
        PROVE  Sound(chip')
    BY <1>4 DEF User, Start, Kill, Exit, Forget, protoVars
  <1>5. ASSUME SendEraseConfig
        PROVE  Sound(chip')
    <2>1. chip' \in {chip, Modify(WriteEnable(chip), [a \in Addr |-> Erased])} /\ chip.op = "none"
      BY <1>1, <1>5 DEF SendEraseConfig, HandleErase, ChipErase, ControlInv, PhaseInv, NoStream
    <2>2. QED
      BY <1>1, <2>1, SoundModify, ChipAssumption
  <1>6. ASSUME StartOfFrame
        PROVE  Sound(chip')
    <2>1. chip' \in {chip, ErasePage(chip, beginPage)} /\ chip.op = "none"
      BY <1>1, <1>6 DEF StartOfFrame, Tick, Hang, EraseNextPage, ControlInv, BusDiscipline
    <2>2. ASSUME NEW x, NEW size
          PROVE  Sound(EraseAround(WriteEnable(chip), x, size))
      <3> DEFINE m == [a \in Addr |-> IF a \div size = x \div size THEN Erased ELSE WriteEnable(chip).mem[a]]
      <3>1. WriteEnable(chip).mem = chip.mem /\ chip.mem \in [Addr -> Byte]
        BY <1>1 DEF WriteEnable, Chip
      <3>2. m \in [Addr -> Byte] /\ \A a \in Addr : m[a] # Corrupt
        BY <3>1, ChipAssumption DEF Sound
      <3> HIDE DEF m
      <3>3. Sound(Modify(WriteEnable(chip), m))
        BY <1>1, <2>1, <3>2, SoundModify
      <3>4. QED
        BY <3>3 DEF EraseAround, m
    <2>3. QED
      BY <1>1, <2>1, <2>2 DEF ErasePage
  <1>7. ASSUME SendReadPage \/ SendSfdpAddress \/ ReadBulk \/ SfdpBulk
        PROVE  Sound(chip')
    <2>1. chip'.mem = chip.mem
      BY <1>1, <1>7, ReadCells, SfdpCells, ReceiveCells
    <2>2. chip'.op \notin {"program", "skewed"}
      <3>1. CASE SendReadPage \/ SendSfdpAddress
        BY <1>1, <3>1, SendReadPageInv, SendSfdpAddressInv
           DEF SendReadPage, SendSfdpAddress, Goto, ControlInv, PhaseInv, Reading,
               BusDiscipline
      <3>2. CASE ReadBulk
        BY <1>1, <3>2, ReadBulkInv
           DEF ReadBulk, Receive, Goto, Release, ControlInv, PhaseInv, Reading, NoStream,
               BusDiscipline
      <3>3. CASE SfdpBulk
        BY <1>1, <3>3, SfdpBulkInv
           DEF SfdpBulk, Receive, Goto, Release, ControlInv, PhaseInv, Reading, NoStream,
               BusDiscipline
      <3>4. QED
        BY <1>7, <3>1, <3>2, <3>3
    <2>3. QED
      BY <2>1, <2>2 DEF Sound
  <1>8. ASSUME SendWritePage \/ WriteBulk
        PROVE  Sound(chip')
    <2>1. Trusted /\ pc \in Working /\ (Trusted' <=> Trusted) /\ UNCHANGED <<jobVars, chipInfo>>
      BY <1>8
         DEF SendWritePage, WriteBulk, Inv, ControlInv, LoopInv, Trusted, Working, Writing,
             jobVars
    <2>2. ASSUME NEW a \in Addr
          PROVE  chip'.mem[a] # Corrupt
      BY <1>1, <2>1, StoreStep, ChipAssumption DEF Sound
    <2>3. CASE pc' # "writeBulk"
      <3>1. chip'.op = "none"
        BY <1>1, <1>8, <2>3, WriteBulkInv
           DEF SendWritePage, WriteBulk, NextBlock, Goto, Release, ControlInv, PhaseInv,
               NoStream
      <3>2. QED
        BY <2>2, <3>1 DEF Sound
    <2>4. CASE pc' = "writeBulk"
      <3>1. PageOpen'
        BY <2>1, <2>4 DEF DataInv
      <3>2. /\ chip' \in Chip /\ fileLength' = fileLength /\ fileLength \in Nat
            /\ Sent' <= fileLength /\ Sent' = chip'.base + chip'.pos
            /\ chip'.base \in Nat /\ chip'.pos \in Nat
        <4>1. block' = block /\ Chunk' = Chunk /\ ByteCount' = ByteCount
          BY <1>8, <2>1, <2>4, SameChunk, SameByteCount
             DEF SendWritePage, WriteBulk, NextBlock, Goto, Release, jobVars
        <4>2. /\ fileLength \in Nat /\ block * Chunk \in Nat /\ ByteCount \in Nat
              /\ block * Chunk + ByteCount <= fileLength
          BY <1>8, InvTypes, BlockStart, ByteCountRange, BlockEnd
             DEF SendWritePage, WriteBulk, Inv, ControlInv, LoopInv
        <4>3. chip' \in Chip /\ want' \in Nat
          BY <1>1, NextInv DEF ControlInv, TypeOK, HostTypeOK, ProtoTypeOK, EngineTypeOK
        <4>4. Sent' <= fileLength
          BY <4>1, <4>2, <4>3 DEF Sent
        <4>5. QED
          BY <2>1, <3>1, <4>2, <4>3, <4>4 DEF PageOpen, jobVars, Chip
      <3>3. ASSUME NEW k \in Column, chip'.buf[k] # Erased
            PROVE  /\ chip'.buf[k] # Corrupt
                   /\ chip'.base + k \in Addr => chip'.mem[chip'.base + k] = Erased
        <4> DEFINE a == chip'.base + k
        <4>1. k < chip'.pos /\ chip'.buf[k] = FileByte(a)
          BY <3>1, <3>3 DEF PageOpen, FileByte
        <4>2. fileLength <= DevSize /\ fileLength <= Touched /\ Touched \in Nat /\ Touched' = Touched
          BY <1>1, <1>8, <2>1, <3>2, TrustedChip, FileInside
             DEF SendWritePage, WriteBulk, Inv, ControlInv, LoopInv, Touched, jobVars
        <4>3. a \in Addr /\ chip'.base <= a /\ a < Touched
          BY <3>2, <4>1, <4>2, ChipAssumption DEF Addr, Column
        <4>4. chip'.mem[a] = Erased
          BY <3>1, <4>2, <4>3 DEF PageOpen, Filled
        <4>5. QED
          BY <4>1, <4>3, <4>4 DEF FileByte
      <3>4. QED
        BY <2>2, <3>1, <3>3 DEF Sound, PageOpen
    <2>5. QED
      BY <2>3, <2>4
  <1>9. QED
    BY <1>3, <1>4, <1>5, <1>6, <1>7, <1>8 DEF Next, Transfer, vars, protoVars

\* On the soldered chip no cell is ever programmed twice without an erase between,
\* whenever hosts are killed, even in the middle of a page, for every file and
\* first contents that hold no corrupt byte.
THEOREM InternalNoOverprogram ==
    ASSUME Bus = "internal", KnownChip, \A a \in Addr : File[a] # Corrupt,
           \A contents \in Contents : \A a \in Addr : contents[a] # Corrupt
    PROVE  Spec => []NoOverprogram
  <1>1. Kind = "nor"
    BY ProtoAssumption
  <1>2. Init => Sound(chip)
    BY DEF Init, ProtoInit, PowerOn, Sound
  <1>3. Inv /\ Inv' /\ Sound(chip) /\ [Next]_vars => Sound(chip)'
    <2> SUFFICES ASSUME Inv, Inv', Sound(chip), [Next]_vars PROVE Sound(chip')
      BY DEF Sound
    <2>1. QED
      BY SoundStep DEF Inv
  <1>4. Sound(chip) => NoOverprogram
    BY DEF Sound, NoOverprogram
  <1>5. QED
    BY <1>1, <1>2, <1>3, <1>4, DataInvariant, PTL DEF Spec

(* The dump of the SFDP area *********************************************)
\* A sequence holds the first n reads of a dump and some bytes of the next one.
Dumped(bytes, n, extra) ==
    /\ Len(bytes) = SfdpStart[n] + extra
    /\ \A k \in 1..n : \A i \in 1..SfdpReads[k][2] :
          bytes[SfdpStart[k - 1] + i] = SfdpByte(SfdpReads[k][1] + (i - 1))
    /\ \A i \in 1..extra : bytes[SfdpStart[n] + i] = SfdpByte(SfdpReads[n + 1][1] + (i - 1))

\* The bytes of the running read the host has.
Extra == SfdpReads[block + 1][2] - want

\* The loaded packet is what comes next, and the chip's address is behind it.
SfdpOpen ==
    LET next == SfdpReads[block + 1][1] + Extra
    IN /\ want <= SfdpReads[block + 1][2]
       /\ \A i \in 1..Len(inPacket) : inPacket[i] = SfdpByte(next + (i - 1))
       /\ readCount > 0 => chip.op = "sfdp" /\ chip.base + chip.pos = next + Len(inPacket)

\* A command that began quietly finds the chip idle until it is targeted, and a
\* dump leaves it so.
SfdpInv ==
    quiet =>
    /\ pc \in Starting => ~chip.busy /\ ~eraseActive /\ chip.op = "none"
    /\ pc \in {"sfdpReq", "sfdpData", "sfdpBulk"} => ~chip.busy
    /\ pc \in {"sfdpReq", "sfdpData"} => Dumped(received, block, 0)
    /\ pc = "sfdpBulk" => SfdpOpen /\ Dumped(received, block, Extra)
    /\ pc \in {"release", "done"} /\ result = "ok" /\ command = "sfdp" => Dumped(received, Len(SfdpReads), 0)

\* A set of numbers has a least one.
LEMMA LeastNumber ==
    ASSUME NEW S, S \subseteq Nat, S # {}
    PROVE  \E n \in S : \A m \in S : n <= m
  <1>1. \E n \in S : \A m \in S : <<m, n>> \notin OpToRel(<, Nat)
    BY NatLessThanWellFounded, WFMin, Zenon
  <1>2. PICK n \in S : \A m \in S : <<m, n>> \notin OpToRel(<, Nat)
    BY <1>1
  <1>3. n \in Nat /\ \A m \in S : m \in Nat
    OBVIOUS
  <1>4. \A m \in S : ~(m < n)
    BY <1>2, <1>3, Zenon DEF OpToRel
  <1>5. QED
    BY <1>3, <1>4

\* Every read has an address and asks for at least one byte.
LEMMA SfdpReadTypes ==
    /\ Len(SfdpReads) \in Nat \ {0}
    /\ \A k \in 1..Len(SfdpReads) : SfdpReads[k][1] \in Nat /\ SfdpReads[k][2] \in Nat \ {0}
  <1>1. SfdpReads \in Seq(Nat \X (1..FlashBufferSize)) /\ SfdpReads # <<>>
    BY HostAssumption
  <1>2. \A k \in 1..Len(SfdpReads) : SfdpReads[k] \in Nat \X (1..FlashBufferSize)
    BY <1>1
  <1>3. Len(SfdpReads) \in Nat \ {0}
    BY <1>1
  <1>4. QED
    BY <1>2, <1>3, ProtoAssumption

\* f says where each of the first n reads begins.
Begins(f, n) ==
    f \in [0..n -> Nat] /\ f[0] = 0 /\ \A k \in 1..n : f[k] = f[k - 1] + SfdpReads[k][2]

\* There is such a function for every number of reads: the shortest dump without
\* one would be an extension of one that has it.
LEMMA BeginsExists == \A n \in 0..Len(SfdpReads) : \E f : Begins(f, n)
  <1> DEFINE without == {n \in 0..Len(SfdpReads) : ~\E f : Begins(f, n)}
  <1> SUFFICES ASSUME without # {} PROVE FALSE
    OBVIOUS
  <1>1. PICK n \in without : \A m \in without : n <= m
    <2>1. without \subseteq Nat
      BY SfdpReadTypes
    <2> HIDE DEF without
    <2>2. QED
      BY <2>1, LeastNumber
  <1>2. Begins([k \in {0} |-> 0], 0)
    BY DEF Begins
  <1>3. n \in 1..Len(SfdpReads) /\ n - 1 \in 0..Len(SfdpReads) /\ n - 1 \notin without
    BY <1>1, <1>2, SfdpReadTypes
  <1>4. PICK f : Begins(f, n - 1)
    BY <1>3
  <1> DEFINE g == [k \in 0..n |-> IF k = n THEN f[n - 1] + SfdpReads[n][2] ELSE f[k]]
  <1>5. Begins(g, n)
    <2>1. /\ f[n - 1] \in Nat /\ SfdpReads[n][2] \in Nat /\ f \in [0..n - 1 -> Nat] /\ f[0] = 0
          /\ \A k \in 1..n - 1 : f[k] = f[k - 1] + SfdpReads[k][2]
      BY <1>3, <1>4, SfdpReadTypes DEF Begins
    <2>2. g \in [0..n -> Nat] /\ g[0] = 0
      BY <1>3, <2>1
    <2>3. \A k \in 0..n : g[k] = IF k = n THEN f[n - 1] + SfdpReads[n][2] ELSE f[k]
      OBVIOUS
    <2> HIDE DEF g
    <2>4. ASSUME NEW k \in 1..n
          PROVE  g[k] = g[k - 1] + SfdpReads[k][2]
      <3>1. k \in 0..n /\ k - 1 \in 0..n /\ k - 1 # n /\ (k # n => k \in 1..n - 1)
        BY <1>3
      <3>2. QED
        BY <2>1, <2>3, <3>1
    <2>5. QED
      BY <2>2, <2>4 DEF Begins
  <1>6. QED
    BY <1>1, <1>5

\* Each read begins where the one before it ends.
LEMMA SfdpStartSteps ==
    /\ SfdpStart[0] = 0
    /\ \A k \in 0..Len(SfdpReads) : SfdpStart[k] \in Nat
    /\ \A k \in 1..Len(SfdpReads) : SfdpStart[k] = SfdpStart[k - 1] + SfdpReads[k][2]
  <1> DEFINE IsStart(f) ==
               f = [k \in 0..Len(SfdpReads) |-> IF k = 0 THEN 0 ELSE f[k - 1] + SfdpReads[k][2]]
  <1>1. PICK f : Begins(f, Len(SfdpReads))
    BY BeginsExists, SfdpReadTypes
  <1>2. IsStart(f)
    BY <1>1, SfdpReadTypes DEF Begins
  <1>3. SfdpStart = CHOOSE h : IsStart(h)
    BY DEF SfdpStart
  <1> HIDE DEF IsStart
  <1>4. IsStart(SfdpStart)
    BY <1>2, <1>3
  <1>5. /\ SfdpStart[0] = 0
        /\ \A k \in 1..Len(SfdpReads) : SfdpStart[k] = SfdpStart[k - 1] + SfdpReads[k][2]
    BY <1>4, SfdpReadTypes DEF IsStart
  <1> DEFINE odd == {k \in 0..Len(SfdpReads) : SfdpStart[k] \notin Nat}
  <1>6. ASSUME odd # {}
        PROVE  FALSE
    <2>1. PICK n \in odd : \A m \in odd : n <= m
      <3>1. odd \subseteq Nat
        BY SfdpReadTypes
      <3> HIDE DEF odd
      <3>2. QED
        BY <1>6, <3>1, LeastNumber
    <2>2. n \in 1..Len(SfdpReads) /\ n - 1 \in 0..Len(SfdpReads) /\ n - 1 \notin odd
      BY <1>5, <2>1, SfdpReadTypes
    <2>3. QED
      BY <1>5, <2>1, <2>2, SfdpReadTypes
  <1>7. QED
    BY <1>5, <1>6

\* And no read begins before an earlier one ends.
LEMMA SfdpStartOrder ==
    ASSUME NEW k \in 1..Len(SfdpReads), NEW n \in k..Len(SfdpReads)
    PROVE  SfdpStart[k - 1] + SfdpReads[k][2] <= SfdpStart[n]
  <1> DEFINE before == {m \in k..Len(SfdpReads) : ~(SfdpStart[k - 1] + SfdpReads[k][2] <= SfdpStart[m])}
  <1> SUFFICES ASSUME before # {} PROVE FALSE
    OBVIOUS
  <1>1. PICK m \in before : \A l \in before : m <= l
    <2>1. before \subseteq Nat
      BY SfdpReadTypes
    <2> HIDE DEF before
    <2>2. QED
      BY <2>1, LeastNumber
  <1>2. /\ SfdpStart[k] = SfdpStart[k - 1] + SfdpReads[k][2] /\ SfdpStart[k] \in Nat
        /\ m \in k..Len(SfdpReads)
    BY <1>1, SfdpStartSteps, SfdpReadTypes
  <1>3. m # k
    BY <1>1, <1>2
  <1>4. m - 1 \in k..Len(SfdpReads) /\ m - 1 \notin before /\ m \in 1..Len(SfdpReads)
    BY <1>1, <1>2, <1>3, SfdpReadTypes
  <1>5. /\ SfdpStart[m] = SfdpStart[m - 1] + SfdpReads[m][2]
        /\ SfdpStart[m - 1] \in Nat /\ SfdpReads[m][2] \in Nat
    BY <1>4, SfdpStartSteps, SfdpReadTypes
  <1>6. QED
    BY <1>1, <1>2, <1>4, <1>5

\* A packet of the running read is appended where it belongs.
LEMMA DumpGrows ==
    ASSUME NEW n \in 0..Len(SfdpReads) - 1, NEW extra \in Nat,
           NEW bytes \in Seq(Byte), Dumped(bytes, n, extra), NEW packet \in Seq(Byte),
           \A i \in 1..Len(packet) : packet[i] = SfdpByte(SfdpReads[n + 1][1] + extra + (i - 1))
    PROVE  Dumped(bytes \o packet, n, extra + Len(packet))
  <1> DEFINE more == bytes \o packet
             start == SfdpStart[n]
             address == SfdpReads[n + 1][1]
             old == Len(bytes)
             new == Len(packet)
  <1>1. /\ start \in Nat /\ old \in Nat /\ new \in Nat /\ old = start + extra
        /\ n + 1 \in 1..Len(SfdpReads) /\ address \in Nat
    BY SfdpStartSteps, SfdpReadTypes DEF Dumped
  <1>2. Len(more) = old + new /\ \A j \in 1..old : more[j] = bytes[j]
    OBVIOUS
  <1>3. \A i \in 1..new : packet[i] = SfdpByte(address + extra + (i - 1))
    OBVIOUS
  <1>4. \A i \in Nat : i > old /\ i <= old + new => more[i] = packet[i - old]
    BY AppendedItem
  <1>5. /\ \A i \in 1..extra : bytes[start + i] = SfdpByte(address + (i - 1))
        /\ \A k \in 1..n : \A i \in 1..SfdpReads[k][2] :
              bytes[SfdpStart[k - 1] + i] = SfdpByte(SfdpReads[k][1] + (i - 1))
    BY DEF Dumped
  <1>6. \A k \in 1..n : /\ SfdpStart[k - 1] \in Nat /\ SfdpReads[k][2] \in Nat
                       /\ SfdpStart[k - 1] + SfdpReads[k][2] <= start
    BY SfdpStartSteps, SfdpStartOrder, SfdpReadTypes
  <1> HIDE DEF more, start, address, old, new
  <1>7. ASSUME NEW k \in 1..n, NEW i \in 1..SfdpReads[k][2]
        PROVE  more[SfdpStart[k - 1] + i] = SfdpByte(SfdpReads[k][1] + (i - 1))
    <2> DEFINE m == SfdpStart[k - 1]
               count == SfdpReads[k][2]
    <2>1. m \in Nat /\ count \in Nat /\ m + count <= start /\ i \in 1..count
      BY <1>6
    <2> HIDE DEF m, count
    <2>2. m + i \in 1..old
      BY <1>1, <2>1
    <2>3. more[m + i] = bytes[m + i]
      BY <1>2, <2>2
    <2>4. QED
      BY <1>5, <2>3 DEF m
  <1>8. ASSUME NEW i \in 1..extra + new
        PROVE  more[start + i] = SfdpByte(address + (i - 1))
    <2>1. CASE i <= extra
      <3>1. i \in 1..extra /\ start + i \in 1..old
        BY <1>1, <2>1
      <3>2. QED
        BY <1>2, <1>5, <3>1
    <2>2. CASE i > extra
      <3>1. /\ i - extra \in 1..new /\ start + i \in Nat /\ start + i > old /\ start + i <= old + new
            /\ (start + i) - old = i - extra
            /\ address + extra + ((i - extra) - 1) = address + (i - 1)
        BY <1>1, <2>2
      <3>2. QED
        BY <1>3, <1>4, <3>1
    <2>3. QED
      BY <1>1, <2>1, <2>2
  <1>9. Len(more) = start + (extra + new)
    BY <1>1, <1>2
  <1>10. QED
    BY <1>7, <1>8, <1>9 DEF Dumped, more, start, address, new

\* A read that is complete counts.
LEMMA DumpedRead ==
    ASSUME NEW n \in 0..Len(SfdpReads) - 1, NEW bytes,
           Dumped(bytes, n, SfdpReads[n + 1][2])
    PROVE  Dumped(bytes, n + 1, 0)
  <1>1. n + 1 \in 1..Len(SfdpReads) /\ (n + 1) - 1 = n /\ n \in 0..Len(SfdpReads)
    BY SfdpReadTypes
  <1>2. /\ SfdpStart[n + 1] = SfdpStart[n] + SfdpReads[n + 1][2]
        /\ SfdpStart[n] \in Nat /\ SfdpStart[n + 1] \in Nat /\ SfdpReads[n + 1][2] \in Nat
    BY <1>1, SfdpStartSteps, SfdpReadTypes
  <1>3. ASSUME NEW k \in 1..n + 1, NEW i \in 1..SfdpReads[k][2]
        PROVE  bytes[SfdpStart[k - 1] + i] = SfdpByte(SfdpReads[k][1] + (i - 1))
    <2>1. k = n + 1 \/ k \in 1..n
      BY <1>1
    <2>2. QED
      BY <1>1, <2>1 DEF Dumped
  <1>4. Len(bytes) = SfdpStart[n + 1] + 0
    BY <1>2 DEF Dumped
  <1>5. QED
    BY <1>3, <1>4 DEF Dumped

\* The request for a read of a dump, and the address that follows it.
LEMMA DumpRequest ==
    ASSUME ControlInv, ProgressInv, SfdpInv, RequestSfdp \/ SendSfdpAddress
    PROVE  SfdpInv'
  <1>1. /\ UNCHANGED <<jobVars, block, received>> /\ command = "sfdp"
        /\ pc \in {"sfdpReq", "sfdpData"}
    BY DEF RequestSfdp, SendSfdpAddress, ProgressInv
  <1> SUFFICES ASSUME quiet PROVE SfdpInv'
    BY <1>1 DEF SfdpInv, jobVars
  <1>2. ~chip.busy /\ Dumped(received, block, 0)
    BY <1>1 DEF SfdpInv
  <1>3. CASE RequestSfdp
    <2>1. UNCHANGED chip /\ (pc' = "sfdpData" \/ (pc' = "done" /\ result' = "fail"))
      BY <1>3 DEF RequestSfdp, SetupSFDPRead, Accepted, Goto, Fail
    <2>2. QED
      BY <1>1, <1>2, <2>1 DEF SfdpInv, Starting
  <1>4. CASE SendSfdpAddress
    <2> DEFINE address == SfdpReads[block + 1][1]
               count == SfdpReads[block + 1][2]
    <2>1. /\ pc = "sfdpData" /\ pc' = "sfdpBulk" /\ want' = count
          /\ HandleSFDPRead(address)
      BY <1>4 DEF SendSfdpAddress, Goto
    <2>2. /\ ProtoTypeOK /\ targetDevice # "none" /\ chip.op = "none" /\ block \in Nat
          /\ block < Len(SfdpReads)
      BY <2>1 DEF ControlInv, PhaseInv, LoopInv, TypeOK, HostTypeOK, Working
    <2>3. block + 1 \in 1..Len(SfdpReads) /\ address \in Nat /\ count \in Nat
      BY <2>2, SfdpReadTypes
    <2>4. /\ \A i \in 1..Len(inPacket') : inPacket'[i] = SfdpByte(address + (i - 1))
          /\ readCount' > 0 =>
                chip'.op = "sfdp" /\ chip'.base + chip'.pos = address + Len(inPacket')
      BY <1>2, <2>1, <2>2, <2>3, HandleSFDPReadBytes DEF Ready
    <2>5. ~chip'.busy
      BY <1>2, <1>4, SfdpCells
    <2>6. Extra' = 0
      BY <1>1, <2>1, <2>3 DEF Extra
    <2>7. SfdpOpen'
      <3>1. SfdpReads[block' + 1][1] + Extra' = address
        BY <1>1, <2>3, <2>6
      <3>2. QED
        BY <1>1, <2>1, <2>3, <2>4, <3>1 DEF SfdpOpen
    <2>8. Dumped(received', block', Extra')
      BY <1>1, <1>2, <2>6
    <2>9. QED
      BY <2>1, <2>5, <2>7, <2>8 DEF SfdpInv, Starting
  <1>5. QED
    BY <1>3, <1>4
\* A packet of a dump; the last one of the last read ends it.
LEMMA DumpReceive ==
    ASSUME ControlInv, ProgressInv, SfdpInv, SfdpBulk
    PROVE  SfdpInv'
  <1>1. /\ UNCHANGED jobVars /\ command = "sfdp" /\ pc = "sfdpBulk" /\ PerformDataOrSFDPRead
        /\ received' = received \o inPacket
    BY DEF SfdpBulk, Receive, ProgressInv
  <1> SUFFICES ASSUME quiet PROVE SfdpInv'
    BY <1>1 DEF SfdpInv, jobVars
  <1> DEFINE address == SfdpReads[block + 1][1]
             count == SfdpReads[block + 1][2]
             size == Len(inPacket)
  <1>2. ~chip.busy /\ SfdpOpen /\ Dumped(received, block, Extra)
    BY <1>1 DEF SfdpInv
  <1>3. /\ Reading /\ readMode = "sfdp" /\ size = Least(want, EpBufferSize) /\ want = readCount + size
        /\ inPacket \in Seq(Byte) /\ received \in Seq(Byte) /\ readCount \in 0..CountModulus - 1
        /\ block \in Nat /\ block < Len(SfdpReads) /\ want \in Nat /\ chip \in Chip
        /\ chip.base \in Nat /\ chip.pos \in Nat /\ EpBufferSize \in Nat \ {0}
    BY <1>1, ProtoAssumption
       DEF ControlInv, PhaseInv, LoopInv, TypeOK, HostTypeOK, ProtoTypeOK, ReadTypeOK,
           EngineTypeOK, Chip
  <1>4. /\ block \in 0..Len(SfdpReads) - 1 /\ address \in Nat /\ count \in Nat
        /\ size \in Nat /\ size > 0 /\ readCount \in Nat
    <2>1. block \in 0..Len(SfdpReads) - 1 /\ block + 1 \in 1..Len(SfdpReads)
      BY <1>3, SfdpReadTypes
    <2>2. size \in Nat /\ size > 0
      BY <1>3 DEF Reading
    <2>3. readCount \in Nat
      BY <1>3, ProtoAssumption
    <2>4. QED
      BY <2>1, <2>2, <2>3, SfdpReadTypes
  <1>5. Extra = count - want /\ Extra \in Nat
    <2>1. Extra = count - want /\ want <= count
      BY <1>2 DEF Extra, SfdpOpen
    <2>2. want \in Nat /\ count \in Nat
      BY <1>3, <1>4
    <2> HIDE DEF count
    <2>3. count - want \in Nat
      BY ONLY <2>1, <2>2, SMT
    <2>4. QED
      BY <2>1, <2>3
  <1>6. Dumped(received', block, Extra + size)
    <2>1. \A i \in 1..size : inPacket[i] = SfdpByte(address + Extra + (i - 1))
      BY <1>2 DEF SfdpOpen
    <2>2. QED
      BY <1>1, <1>2, <1>3, <1>4, <1>5, <2>1, DumpGrows
  <1>7. CASE readCount > 0
    <2>1. /\ pc' = "sfdpBulk" /\ block' = block /\ want' = want - size
      <3>1. ~(want - size = 0) /\ size < want /\ ~(size < EpBufferSize)
        BY <1>3, <1>4, <1>7 DEF Least
      <3>2. QED
        BY <3>1 DEF SfdpBulk, Receive, Goto
    <2>2. /\ chip.op = "sfdp" /\ chip.base + chip.pos = address + Extra + size
          /\ PerformSFDPRead(chip, readCount)
      BY <1>1, <1>2, <1>3, <1>7 DEF SfdpOpen, PerformDataOrSFDPRead
    <2>3. /\ \A i \in 1..Len(inPacket') : inPacket'[i] = SfdpByte(chip.base + chip.pos + (i - 1))
          /\ readCount' > 0 =>
                chip'.op = "sfdp" /\ chip'.base + chip'.pos = chip.base + chip.pos + Len(inPacket')
      BY <1>3, <2>2, PerformSFDPReadBytes
    <2>4. ~chip'.busy
      BY <1>2, <1>3, <2>2, PerformSFDPReadCells
    <2>5. Extra' = Extra + size
      <3>1. Extra' = count - want' /\ want' = want - size
        BY <2>1 DEF Extra
      <3>2. Extra = count - want /\ count \in Nat /\ want \in Nat /\ size \in Nat
        BY <1>3, <1>4, <1>5
      <3> HIDE DEF count, size
      <3>3. QED
        BY <3>1, <3>2
    <2>6. SfdpOpen'
      <3>1. SfdpReads[block' + 1][1] + Extra' = address + Extra + size
        BY <1>4, <1>5, <2>1, <2>5
      <3>2. want' <= SfdpReads[block' + 1][2]
        <4>1. want' = want - size /\ SfdpReads[block' + 1][2] = count /\ want <= count
          BY <1>2, <2>1 DEF SfdpOpen
        <4>2. want \in Nat /\ size \in Nat /\ count \in Nat
          BY <1>3, <1>4
        <4> HIDE DEF count, size
        <4>3. QED
          BY <4>1, <4>2
      <3>3. QED
        BY <2>2, <2>3, <3>1, <3>2 DEF SfdpOpen
    <2>7. Dumped(received', block', Extra')
      BY <1>6, <2>1, <2>5
    <2>8. QED
      BY <2>1, <2>4, <2>6, <2>7 DEF SfdpInv, Starting
  <1>8. CASE readCount = 0
    <2>1. /\ block' = block + 1
          /\ \/ block + 1 < Len(SfdpReads) /\ pc' = "sfdpReq"
             \/ block + 1 >= Len(SfdpReads) /\ pc' = "release"
      BY <1>3, <1>8 DEF SfdpBulk, Receive, Goto, Release
    <2>2. ~chip'.busy
      BY <1>1, <1>2, <1>8 DEF PerformDataOrSFDPRead
    <2>3. Dumped(received', block + 1, 0)
      <3>1. Extra + size = count
        <4> HIDE DEF count, size
        <4>1. QED
          BY <1>3, <1>4, <1>5, <1>8
      <3>2. Dumped(received', block, count)
        BY <1>6, <3>1
      <3>3. QED
        BY <1>4, <3>2, DumpedRead
    <2>4. block + 1 >= Len(SfdpReads) => block + 1 = Len(SfdpReads)
      BY <1>4, SfdpReadTypes
    <2>5. QED
      BY <2>1, <2>2, <2>3, <2>4 DEF SfdpInv, Starting
  <1>9. QED
    BY <1>4, <1>7, <1>8

\* Until the chip is targeted, a command that began quietly leaves it idle.
LEMMA DumpStarts ==
    ASSUME ControlInv, ProgressInv, SfdpInv,
           \/ RequestCount \/ ListDevice \/ ReadChipInfo \/ Abort \/ TargetDevice \/ TargetRefused
    PROVE  SfdpInv'
  <1>1. UNCHANGED <<jobVars, received, eraseActive>> \/ (UNCHANGED <<jobVars, received>> /\ ~eraseActive')
    BY DEF RequestCount, ListDevice, ReadChipInfo, Abort, TargetDevice, TargetRefused,
           FetchDeviceCount, FetchDeviceListing, HandleAbort, ResetErase, HandleTargetDevice,
           RefuseTargetDevice, eraseVars
  <1> SUFFICES ASSUME quiet PROVE SfdpInv'
    BY <1>1 DEF SfdpInv, jobVars
  <1>2. pc \in Starting /\ chip \in Chip /\ ~chip.busy /\ chip.op = "none" /\ ~eraseActive
    BY DEF RequestCount, ListDevice, ReadChipInfo, Abort, TargetDevice, TargetRefused, Starting,
           SfdpInv, ControlInv, TypeOK, ProtoTypeOK, EngineTypeOK
  <1>3. ~chip'.busy /\ chip'.op = "none"
    <2>1. chip' \in {chip, Deselect(chip), IdentDevice(chip), PrepareW25N(IdentDevice(chip)),
                     PrepareW25N(chip)}
      BY DEF RequestCount, ListDevice, ReadChipInfo, Abort, TargetDevice, TargetRefused,
             FetchDeviceCount, FetchDeviceListing, HandleAbort, HandleTargetDevice,
             RefuseTargetDevice
    <2>2. \A c \in Chip : ~c.busy /\ c.op = "none" => ~PrepareW25N(c).busy /\ PrepareW25N(c).op = "none"
      BY DEF PrepareW25N, Chip
    <2>3. IdentDevice(chip) \in Chip
      BY <1>2, IdentDeviceChip
    <2>4. QED
      BY <1>2, <2>1, <2>2, <2>3, QuietIdent
  <1>4. \/ pc' \in Starting \cup {"eraseReq", "readReq"}
        \/ pc' = "sfdpReq" /\ block' = 0 /\ received' = <<>>
        \/ pc' = "done" /\ result' = "fail"
        \/ pc' \in {"release", "done"} /\ command' # "sfdp"
    BY DEF RequestCount, ListDevice, ReadChipInfo, Abort, TargetDevice, TargetRefused, Goto,
           Fail, Release, jobVars, Starting, ProgressInv, ControlInv, LoopInv
  <1>5. Dumped(<<>>, 0, 0)
    BY SfdpStartSteps DEF Dumped
  <1>6. QED
    BY <1>1, <1>2, <1>3, <1>4, <1>5 DEF SfdpInv, Starting

\* Every step keeps the dump right.
LEMMA SfdpStep == ControlInv /\ ProgressInv /\ SfdpInv /\ [Next]_vars => SfdpInv'
  <1> SUFFICES ASSUME ControlInv, ProgressInv, SfdpInv, [Next]_vars PROVE SfdpInv'
    OBVIOUS
  <1>1. CASE User \/ Exit
    BY <1>1 DEF User, Start, Kill, Exit, Forget, protoVars, eraseVars, SfdpInv, Starting
  <1>2. CASE RequestCount \/ ListDevice \/ ReadChipInfo \/ Abort \/ TargetDevice \/ TargetRefused
    BY <1>2, DumpStarts
  <1>3. CASE RequestSfdp \/ SendSfdpAddress
    BY <1>3, DumpRequest
  <1>4. CASE SfdpBulk
    BY <1>4, DumpReceive
  <1>5. CASE Deselected
    BY <1>5 DEF Deselected, Goto, SfdpInv, Starting, jobVars
  <1>6. ASSUME pc \in {"eraseReq", "eraseData", "erasePoll", "readReq", "readData", "readBulk",
                       "writeReq", "writeData", "writeBulk", "verifyPoll"},
               pc' \in Working \cup {"done"}, pc' \notin {"sfdpReq", "sfdpData", "sfdpBulk"},
               UNCHANGED jobVars
        PROVE  SfdpInv'
    <2>1. command # "sfdp"
      BY <1>6 DEF ProgressInv, ControlInv, LoopInv, Writing
    <2>2. QED
      BY <1>6, <2>1 DEF SfdpInv, Starting, Working, jobVars
  <1>7. CASE \/ RequestErase \/ SendEraseConfig \/ PollErase \/ RequestRead \/ SendReadPage
             \/ ReadBulk \/ RequestWrite \/ SendWritePage \/ WriteBulk \/ VerifyPages
    <2>1. pc' \in Working \cup {"done"} /\ UNCHANGED jobVars
      BY <1>7, WorkSteps
    <2>2. /\ pc \in {"eraseReq", "eraseData", "erasePoll", "readReq", "readData", "readBulk",
                      "writeReq", "writeData", "writeBulk", "verifyPoll"}
          /\ pc' \notin {"sfdpReq", "sfdpData", "sfdpBulk"}
      BY <1>7 DEF RequestErase, SendEraseConfig, PollErase, RequestRead, SendReadPage, ReadBulk,
             Receive, RequestWrite, SendWritePage, WriteBulk, VerifyPages, NextBlock, Accepted,
             Goto, Fail, Release
    <2>3. QED
      BY <1>6, <2>1, <2>2
  <1>8. CASE ChipFinishes
    BY <1>8 DEF ChipFinishes, Finish, hostVars, jobVars, eraseVars, SfdpInv, Starting, SfdpOpen, Extra
  <1>9. CASE StartOfFrame
    <2>1. eraseActive /\ UNCHANGED hostVars
      BY <1>9 DEF StartOfFrame, Tick
    <2>2. ~(quiet /\ pc \in Starting \cup {"sfdpReq", "sfdpData", "sfdpBulk"})
      BY <2>1 DEF SfdpInv, Starting, ControlInv, PhaseInv, Reading
    <2>3. QED
      BY <2>1, <2>2 DEF SfdpInv, hostVars, jobVars
  <1>10. CASE UNCHANGED vars
    BY <1>10 DEF vars, protoVars, hostVars, jobVars, eraseVars, readVars, SfdpInv, SfdpOpen, Extra
  <1>11. QED
    BY <1>1, <1>2, <1>3, <1>4, <1>5, <1>7, <1>8, <1>9, <1>10 DEF Next, Transfer

\* A dump that began on an idle chip gets every structure whole and in order, on
\* either kind of chip, however many there are and whatever was killed before.
THEOREM DumpComplete == Spec => []SfdpDone
  <1>1. Init => SfdpInv
    BY DEF Init, HostInit, SfdpInv
  <1>2. SfdpInv => SfdpDone
    <2> SUFFICES ASSUME SfdpInv, quiet, pc = "done", result = "ok", command = "sfdp"
                 PROVE  /\ Len(received) = SfdpStart[Len(SfdpReads)]
                        /\ \A k \in 1..Len(SfdpReads) : \A i \in 1..SfdpReads[k][2] :
                              received[SfdpStart[k - 1] + i] = SfdpByte(SfdpReads[k][1] + (i - 1))
      BY DEF SfdpDone, Exited
    <2>1. Dumped(received, Len(SfdpReads), 0)
      BY DEF SfdpInv
    <2>2. SfdpStart[Len(SfdpReads)] + 0 = SfdpStart[Len(SfdpReads)]
      BY SfdpReadTypes, SfdpStartSteps
    <2>3. QED
      BY <2>1, <2>2 DEF Dumped
  <1>3. ControlInv /\ NoHang /\ ProgressInv /\ SfdpInv /\ [Next]_vars => SfdpInv'
    BY SfdpStep
  <1>4. QED
    BY <1>1, <1>2, <1>3, ProgressInvariant, PTL DEF Spec
=============================================================================
