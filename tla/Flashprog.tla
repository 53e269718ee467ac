----------------------------- MODULE Flashprog -----------------------------
(***************************************************************************)
(* The whole programmer: software/flashprog.cxx on the host, one action    *)
(* per USB transfer it makes, driving the firmware of FlashProto, with the *)
(* start of frame interrupt and the chip running beside them.  The host    *)
(* process can be killed between any two transfers, between the SETUP and  *)
(* the data stage of a control transfer too, and run again: the firmware   *)
(* and the chip keep whatever state they were left in.                     *)
(*                                                                         *)
(* The USB core (dragonUSB, not in the repository) is taken to dispatch    *)
(* events in the order they happen on the wire, and to forget a data stage *)
(* that never came when the next SETUP arrives.                            *)
(***************************************************************************)
EXTENDS FlashProto

CONSTANTS Commands,     \* the operations of flashprog a user may run
          File,         \* the bytes of the file to write, a function on Addr
          FileLengths,  \* the lengths a file may have
          Contents,     \* what the chip may hold at first
          ListedSize,   \* the deviceSize listDevice gives of the chip it identified
          GarbledSizes, \* sizes a garbled identification can stand for
          SfdpReads,    \* the (address, count) reads of one SFDP dump
          MaxKills      \* bound: how often the host process is killed

ASSUME HostAssumption ==
    /\ Commands \subseteq {"listDevices", "erase", "read", "write", "verifiedWrite", "sfdp"}
    /\ File \in [Addr -> Byte] /\ Contents \subseteq [Addr -> Byte]
    /\ FileLengths \subseteq Nat /\ ListedSize \in Nat /\ GarbledSizes \subseteq Nat
    /\ SfdpReads \in Seq(Nat \X (1..FlashBufferSize)) /\ SfdpReads # <<>>
    /\ MaxKills \in Nat

\* Packets tile the buffer and the default count, which is one page on a device
\* small enough to be read page by page.
ASSUME ScaleAssumption ==
    /\ FlashBufferSize % EpBufferSize = 0 /\ DefaultCount % EpBufferSize = 0
    /\ \A size \in {ListedSize} \cup GarbledSizes :
          size \in FlashPageSize..FlashBufferSize - 1 => DefaultCount = FlashPageSize

\* What a chip of the table has: the page size and the capacity of its entry, in
\* units that tile one another.  Nothing makes it true of a chip described by its
\* SFDP table alone: it is listed at twice its size, and where that table is one
\* of the first revision, which has no page size, it is programmed as if a page
\* were one byte.
KnownChip ==
    /\ FlashPageSize = PageSize /\ ListedSize = DevSize
    /\ PageSize % EpBufferSize = 0 /\ FlashBufferSize % PageSize = 0 /\ DevSize % PageSize = 0

VARIABLES
    pc,           \* the transfer the host makes next
    command,      \* the action on its command line
    valid,        \* the --chip argument names a chip that exists
    fileLength,   \* the length of the file to write
    chipInfo,     \* readChipInfo's answer: deviceSize and eraseSize
    block,        \* the loop counter of the running transfer loop
    want,         \* bytes left of the current bulk transfer
    received,     \* the bytes read so far
    currentPage,  \* erasePages' progress
    result,       \* "none", "ok" (exit status 0) or "fail"
    quiet,        \* history: nothing was left running when the command started
    kills         \* how often the host was killed

jobVars  == <<command, valid, fileLength, quiet>>
hostVars == <<pc, jobVars, chipInfo, block, want, received, currentPage, result, kills>>
vars     == <<protoVars, hostVars>>

Writing == command \in {"write", "verifiedWrite"}
NoInfo == [deviceSize |-> 0, eraseSize |-> 0]
Info == [deviceSize: Nat, eraseSize: Nat]

PCs == {"idle", "count", "listing", "info", "abort", "target",
        "eraseReq", "eraseData", "erasePoll",
        "readReq", "readData", "readBulk", "sfdpReq", "sfdpData", "sfdpBulk",
        "writeReq", "writeData", "writeBulk", "verifyPoll", "release", "done"}

HostTypeOK ==
    /\ pc \in PCs
    /\ command \in Commands \cup {"none"}
    /\ valid \in BOOLEAN /\ fileLength \in Nat
    /\ chipInfo \in Info
    /\ block \in Nat /\ want \in Nat /\ currentPage \in Nat
    /\ received \in Seq(Byte)
    /\ result \in {"none", "ok", "fail"}
    /\ quiet \in BOOLEAN /\ kills \in 0..MaxKills

\* The type of every variable of the firmware, the chip and the host.
TypeOK == ProtoTypeOK /\ HostTypeOK

HostInit ==
    /\ pc = "idle" /\ command = "none" /\ valid = FALSE /\ fileLength = 0
    /\ chipInfo = NoInfo /\ block = 0 /\ want = 0 /\ received = <<>>
    /\ currentPage = 0 /\ result = "none" /\ quiet = FALSE /\ kills = 0

Init == HostInit /\ \E contents \in Contents : ProtoInit(contents)

(* How a transfer ends ***************************************************)
Fail == pc' = "done" /\ result' = "fail"
Goto(next) == pc' = next /\ UNCHANGED result
Release == pc' = "release" /\ result' = "ok"

\* A request with a data stage was either accepted or stalled.
Accepted(next) == IF setupCallback' = "none" THEN Fail ELSE Goto(next)

FileByte(i) == IF i \in Addr THEN File[i] ELSE Corrupt

Ceil(a, b) == (a + b - 1) \div b
Least(a, b) == IF a <= b THEN a ELSE b

\* A device smaller than transferBlockSize is moved page by page.
Tiny == chipInfo.deviceSize < FlashBufferSize
Chunk == IF Tiny THEN FlashPageSize ELSE FlashBufferSize
Funky == ~Tiny /\ chipInfo.deviceSize % FlashBufferSize # 0

\* Mutants: the page number counts blocks; it counts buffers, on a tiny device too.
PagesPerChunkOne == 1
PagesPerChunkOfBuffer == FlashBufferSize \div FlashPageSize

PagesPerChunk == Chunk \div FlashPageSize
ReadBlocks == chipInfo.deviceSize \div Chunk
WriteBlocks == Ceil(fileLength, Chunk)
ByteCount == Least(fileLength - block * Chunk, Chunk)
PageCount == IF Writing THEN Ceil(fileLength, chipInfo.eraseSize) ELSE 0

(* Starting, ending and being killed *************************************)
Start(cmd, isValid, length) ==
    /\ pc = "idle"
    /\ cmd \notin {"write", "verifiedWrite"} => length = 0
    /\ cmd = "listDevices" => isValid
    /\ command' = cmd /\ valid' = isValid /\ fileLength' = length
    /\ quiet' = (~chip.busy /\ ~eraseActive /\ chip.op = "none")
    /\ pc' = CASE cmd = "listDevices" -> "count"
               [] cmd \in {"erase", "sfdp"} -> "abort"
               [] OTHER -> "info"
    /\ UNCHANGED <<protoVars, chipInfo, block, want, received, currentPage, result, kills>>

Forget ==
    /\ pc' = "idle" /\ command' = "none" /\ valid' = FALSE /\ fileLength' = 0
    /\ chipInfo' = NoInfo /\ block' = 0 /\ want' = 0 /\ received' = <<>>
    /\ currentPage' = 0 /\ result' = "none" /\ quiet' = FALSE
    /\ UNCHANGED protoVars

Exit == pc = "done" /\ Forget /\ UNCHANGED kills

Kill ==
    /\ pc \notin {"idle", "done"} /\ kills < MaxKills
    /\ kills' = kills + 1
    /\ Forget

(* listDevices ***********************************************************)
RequestCount ==
    /\ pc = "count"
    /\ FetchDeviceCount
    /\ Goto("listing")
    /\ UNCHANGED <<jobVars, chipInfo, block, want, received, currentPage, kills>>

\* The loop over the internal chips and then the external one.
ListDevice ==
    /\ pc = "listing"
    /\ FetchDeviceListing(IF block < 2 THEN "internal" ELSE "external")
    /\ block' = block + 1
    /\ IF block < 2 THEN Goto("listing") ELSE pc' = "done" /\ result' = "ok"
    /\ UNCHANGED <<jobVars, chipInfo, want, received, currentPage, kills>>

(* What every operation on a chip begins and ends with *******************)
\* Parameters fabricated for a chip that did not identify: power2 of a
\* capacity of 0xFF is 0, that of a garbled one is anything.
Listings(id) ==
    CASE id = "chip" -> {[deviceSize |-> ListedSize, eraseSize |-> EraseSize]}
      [] id = "ff"   -> {[deviceSize |-> 0, eraseSize |-> BlockErase]}
      [] OTHER       -> [deviceSize: GarbledSizes, eraseSize: {BlockErase}]

ReadChipInfo ==
    /\ pc = "info"
    /\ IF valid
       THEN /\ FetchDeviceListing(Bus)
            /\ chipInfo' \in Listings(IF Bus = "external" THEN Identified(chip) ELSE "chip")
       ELSE /\ FetchDeviceListing("internal")
            /\ chipInfo' = NoInfo
    /\ IF Writing /\ fileLength > chipInfo'.deviceSize THEN Fail ELSE Goto("abort")
    /\ UNCHANGED <<jobVars, block, want, received, currentPage, kills>>

Abort ==
    /\ pc = "abort"
    /\ HandleAbort
    /\ Goto("target")
    /\ UNCHANGED <<jobVars, chipInfo, block, want, received, currentPage, kills>>

TargetDevice ==
    /\ pc = "target" /\ valid
    /\ HandleTargetDevice
    /\ \/ (command = "erase" \/ Writing) /\ Goto("eraseReq")
       \/ command = "sfdp" /\ Goto("sfdpReq")
       \/ command = "read" /\ Funky /\ Fail
       \/ command = "read" /\ ~Funky /\ ReadBlocks > 0 /\ Goto("readReq")
       \/ command = "read" /\ ~Funky /\ ReadBlocks = 0 /\ Release
    /\ UNCHANGED <<jobVars, chipInfo, block, want, received, currentPage, kills>>

TargetRefused ==
    /\ pc = "target" /\ ~valid
    /\ RefuseTargetDevice
    /\ Fail
    /\ UNCHANGED <<jobVars, chipInfo, block, want, received, currentPage, kills>>

Deselected ==
    /\ pc = "release"
    /\ ReleaseTargetDevice
    /\ Goto("done")
    /\ UNCHANGED <<jobVars, chipInfo, block, want, received, currentPage, kills>>

(* erase, and the erase every write begins with **************************)
RequestErase ==
    /\ pc = "eraseReq"
    /\ SetupErase(IF Writing THEN "pageRange" ELSE "all")
    /\ Accepted("eraseData")
    /\ UNCHANGED <<jobVars, chipInfo, block, want, received, currentPage, kills>>

SendEraseConfig ==
    /\ pc = "eraseData"
    /\ HandleErase(0, PageCount)
    /\ Goto("erasePoll")
    /\ UNCHANGED <<jobVars, chipInfo, block, want, received, currentPage, kills>>

\* Any completion lets erasePages return 0; eraseDevice looks for a good one.
PollErase ==
    /\ pc = "erasePoll"
    /\ FetchStatus
    /\ currentPage' = IF Writing THEN status'.erasePage ELSE currentPage
    /\ \/ status'.eraseComplete = 0 /\ Goto("erasePoll")
       \/ /\ status'.eraseComplete # 0 /\ ~Writing
          /\ pc' = "release" /\ result' = IF status'.eraseComplete = 1 THEN "ok" ELSE "fail"
       \/ status'.eraseComplete # 0 /\ Writing /\ Funky /\ Fail
       \/ status'.eraseComplete # 0 /\ Writing /\ ~Funky /\ WriteBlocks > 0 /\ Goto("writeReq")
       \/ status'.eraseComplete # 0 /\ Writing /\ ~Funky /\ WriteBlocks = 0 /\ Release
    /\ UNCHANGED <<jobVars, chipInfo, block, want, received, kills>>

(* read ******************************************************************)
RequestRead ==
    /\ pc = "readReq"
    /\ SetupRead(IF Tiny THEN 0 ELSE FlashBufferSize)
    /\ Accepted("readData")
    /\ UNCHANGED <<jobVars, chipInfo, block, want, received, currentPage, kills>>

SendReadPage ==
    /\ pc = "readData"
    /\ HandleRead(block * PagesPerChunk)
    /\ Goto("readBulk")
    /\ want' = Chunk
    /\ UNCHANGED <<jobVars, chipInfo, block, received, currentPage, kills>>

\* One packet of a bulk read, which ends when full or with a short packet.
Receive(again, blocks, next) ==
    LET rest == IF Len(inPacket) < want THEN want - Len(inPacket) ELSE 0
        ended == rest = 0 \/ Len(inPacket) < EpBufferSize
    IN /\ inPacket # <<>>
       /\ PerformDataOrSFDPRead
       /\ received' = received \o inPacket
       /\ want' = IF ended THEN 0 ELSE rest
       /\ block' = IF ended THEN block + 1 ELSE block
       /\ \/ ~ended /\ Goto(again)
          \/ ended /\ block + 1 < blocks /\ Goto(next)
          \/ ended /\ block + 1 >= blocks /\ Release
       /\ UNCHANGED <<jobVars, chipInfo, currentPage, kills>>

ReadBulk == pc = "readBulk" /\ Receive("readBulk", ReadBlocks, "readReq")

(* sfdp ******************************************************************)
RequestSfdp ==
    /\ pc = "sfdpReq"
    /\ SetupSFDPRead(SfdpReads[block + 1][2])
    /\ Accepted("sfdpData")
    /\ UNCHANGED <<jobVars, chipInfo, block, want, received, currentPage, kills>>

SendSfdpAddress ==
    /\ pc = "sfdpData"
    /\ HandleSFDPRead(SfdpReads[block + 1][1])
    /\ Goto("sfdpBulk")
    /\ want' = SfdpReads[block + 1][2]
    /\ UNCHANGED <<jobVars, chipInfo, block, received, currentPage, kills>>

SfdpBulk == pc = "sfdpBulk" /\ Receive("sfdpBulk", Len(SfdpReads), "sfdpReq")

(* write and verifiedWrite ***********************************************)
\* A tiny device is never verified.
Verified == command = "verifiedWrite" /\ ~Tiny

RequestWrite ==
    /\ pc = "writeReq"
    /\ SetupWrite(ByteCount, Verified)
    /\ Accepted("writeData")
    /\ UNCHANGED <<jobVars, chipInfo, block, want, received, currentPage, kills>>

SendWritePage ==
    /\ pc = "writeData"
    /\ HandleWrite(block * PagesPerChunk)
    /\ Goto("writeBulk")
    /\ want' = ByteCount
    /\ UNCHANGED <<jobVars, chipInfo, block, received, currentPage, kills>>

NextBlock ==
    /\ block' = block + 1
    /\ IF block + 1 < WriteBlocks THEN Goto("writeReq") ELSE Release

WriteBulk ==
    /\ pc = "writeBulk"
    /\ LET offset == block * Chunk + ByteCount - want
           packet == [i \in 1..Least(want, EpBufferSize) |-> FileByte(offset + i - 1)]
       IN /\ PerformWrite(packet)
          /\ want' = want - Len(packet)
    /\ \/ want' > 0 /\ Goto("writeBulk") /\ UNCHANGED block
       \/ want' = 0 /\ Verified /\ Goto("verifyPoll") /\ UNCHANGED block
       \/ want' = 0 /\ ~Verified /\ NextBlock
    /\ UNCHANGED <<jobVars, chipInfo, received, currentPage, kills>>

VerifyPages ==
    /\ pc = "verifyPoll"
    /\ FetchStatus
    /\ IF status'.writeOK THEN NextBlock ELSE Fail /\ UNCHANGED block
    /\ UNCHANGED <<jobVars, chipInfo, want, received, currentPage, kills>>

(* The rest of the system ************************************************)
\* The chip ends the program or erase it was running.
ChipFinishes ==
    /\ chip.busy
    /\ chip' = Finish(chip)
    /\ UNCHANGED <<targetVars, readVars, eraseVars, writeVars, status, setupCallback,
                   inPacket, hung, hostVars>>

StartOfFrame == Tick /\ UNCHANGED hostVars

\* The transfers of a command that has started.
Transfer ==
    \/ RequestCount \/ ListDevice
    \/ ReadChipInfo \/ Abort \/ TargetDevice \/ TargetRefused \/ Deselected
    \/ RequestErase \/ SendEraseConfig \/ PollErase
    \/ RequestRead \/ SendReadPage \/ ReadBulk
    \/ RequestSfdp \/ SendSfdpAddress \/ SfdpBulk
    \/ RequestWrite \/ SendWritePage \/ WriteBulk \/ VerifyPages
    \/ Exit

User ==
    \/ \E cmd \in Commands, isValid \in BOOLEAN, length \in FileLengths \cup {0} :
          Start(cmd, isValid, length)
    \/ Kill

Next == User \/ Transfer \/ ChipFinishes \/ StartOfFrame

Spec == Init /\ [][Next]_vars

\* A running command makes its transfers (control and bulk transfers have no
\* time limit), frames keep starting and the chip ends what it is doing; no one
\* has to start a command.
FairSpec == Spec /\ WF_vars(Transfer) /\ WF_vars(StartOfFrame) /\ WF_vars(ChipFinishes)

(***************************************************************************)
(* Properties                                                              *)
(***************************************************************************)
Exited(cmds) == pc = "done" /\ result = "ok" /\ command \in cmds

\* No handler ever uses the SPI device of "no chip" (performRead, performWrite,
\* isBusy and tick all dereference it unchecked), whenever the host is killed.
NoHang == ~hung

\* A command finds the engine idle when it targets its chip and before each
\* transfer it requests: chip select is up, no packet of an earlier command is
\* left in the endpoint and no earlier count is pending (handleAbort, and the
\* clean up at the end of performRead and performWrite).
CleanStart ==
    pc \in {"target", "eraseReq", "readReq", "sfdpReq", "writeReq", "release"} =>
        /\ chip.op = "none" /\ inPacket = <<>>
        /\ readCount = 0 /\ writeCount = 0 /\ ~eraseActive

\* Chip select is only held down for a transfer that is under way: a read with
\* a packet loaded and bytes to come, or a write with bytes to come.  tick never
\* addresses the chip inside either.
BusDiscipline ==
    /\ chip.op \in {"read", "sfdp"} => readCount > 0 /\ inPacket # <<>> /\ targetDevice = "chip"
    /\ chip.op \in {"program", "skewed"} => writeCount > 0 /\ targetDevice = "chip"
    /\ eraseActive => chip.op = "none" /\ targetDevice = "chip"

\* erase exits with 0 only when every byte of the chip is erased
\* (flashprog.cxx:186, "if it has the value 1, it was a good completion").
EraseDone ==
    Exited({"erase"}) => ~chip.busy /\ \A a \in Addr : chip.mem[a] = Erased

\* write exits with 0 only when the chip holds the file, whatever earlier
\* commands were killed in the middle of.
WriteDone ==
    Exited({"write", "verifiedWrite"}) =>
        ~chip.busy /\ \A a \in Addr : a < fileLength => chip.mem[a] = File[a]

\* read exits with 0 only when it got every byte of the chip, in order.
ReadDone ==
    Exited({"read"}) => received = [i \in 1..DevSize |-> chip.mem[i - 1]]

\* Where the bytes of each read of a dump begin: behind those of the one before.
SfdpStart[k \in 0..Len(SfdpReads)] ==
    IF k = 0 THEN 0 ELSE SfdpStart[k - 1] + SfdpReads[k][2]

\* A dump that began on an idle chip ends with the bytes of every structure it
\* asked for, in order and no more (performSFDPRead's short last packet included).
SfdpDone ==
    quiet /\ Exited({"sfdp"}) =>
        /\ Len(received) = SfdpStart[Len(SfdpReads)]
        /\ \A k \in 1..Len(SfdpReads) : \A i \in 1..SfdpReads[k][2] :
              received[SfdpStart[k - 1] + i] = SfdpByte(SfdpReads[k][1] + (i - 1))

\* The same when no command before it left something running.
QuietReadDone == quiet => ReadDone
QuietWriteDone == quiet => WriteDone
QuietEraseDone == quiet => EraseDone

\* Where no command works on a chip: it has none, or has not targeted it yet.
Outside == {"idle", "count", "listing", "info", "abort", "done"}

\* The bytes in the erase pages the file touches.
Touched == Ceil(fileLength, EraseSize) * EraseSize

\* Once erasePages has returned, every erase page the file touches is erased,
\* but for the bytes written since: no erase command went to a busy chip and
\* none was skipped when eraseComplete became 1.
Written ==
    block * Chunk + CASE pc = "writeBulk" -> ByteCount - want
                      [] pc = "verifyPoll" -> ByteCount
                      [] OTHER -> 0

RangeErased ==
    pc \in {"writeReq", "writeData", "writeBulk", "verifyPoll"} =>
        \A a \in Addr : Written <= a /\ a < Touched => chip.mem[a] = Erased

\* No write programs a cell that was not erased.
NoOverprogram == \A a \in Addr : chip.mem[a] # Corrupt

\* A write that has targeted its chip leaves the bytes beyond the erase pages of
\* its file alone; so does the erase a killed one left to tick, which goes on by
\* itself until it reaches the end it was given, or a command aborts it.
EraseConfined ==
    [][\A a \in Addr : chip'.mem[a] # chip.mem[a] =>
          /\ Writing /\ pc \notin Outside \cup {"target"} => a < Touched
          /\ eraseActive /\ pc \in Outside => a < endPage * EraseSize]_vars

\* The page erasePages shows never goes back, and is the last one when it ends.
ProgressForward == [][pc' = "erasePoll" => currentPage' >= currentPage]_vars
ProgressExact == pc \in {"writeReq", "writeData", "writeBulk"} => currentPage = PageCount

\* A verified write that stored its file is not reported as a failure.
VerifyTruthful ==
    pc = "done" /\ command = "verifiedWrite" /\ valid /\ result = "fail"
        => \E a \in Addr : a < fileLength /\ chip.mem[a] # File[a]

\* The external chip only changes while the target board is held in reset, so
\* that nothing else drives the bus (identDevice with and without releaseReset,
\* handleTargetDevice, handleAbort).  The one exception is the page erase that a
\* killed command left to tick: a listing releases the board in the middle of it,
\* and it goes on until a command has sent its abort.
ResetHeld ==
    [][Bus = "external" /\ chip'.mem # chip.mem =>
          deviceReset \/ (eraseActive /\ pc \in Outside)]_vars

\* The command, its chip and its verdict as the job of FlashJob, the abstract
\* specification of what flashprog promises.
JobOp ==
    CASE command \in {"none", "erase", "read"} -> command
      [] Writing -> "write"
      [] OTHER -> "other"

JobPhase ==
    CASE pc = "idle" -> "idle"
      [] pc = "done" -> "ended"
      [] pc \in {"count", "listing", "info", "abort", "target"} -> "starting"
      [] OTHER -> "working"

JobVerdict == IF pc = "done" THEN result ELSE "none"

\* A write to an internal chip is trusted even after a kill: the erase it begins
\* with waits for the chip.
Trusted == quiet \/ (Bus = "internal" /\ Writing)

Job == INSTANCE FlashJob WITH
    Cells <- Addr, Content <- Byte, Blank <- Erased, Source <- File, Span <- EraseSize,
    store <- chip.mem, op <- JobOp, length <- fileLength, phase <- JobPhase,
    delivered <- received, verdict <- JobVerdict, trusted <- Trusted

\* Whatever is killed, and wherever, every step of the programmer is a step of
\* the abstract job or none: a trusted command clears only cells its erase
\* covers, fills only erased cells with the file's bytes, returns cells in
\* order, and says ok only when it is done.
ImplementsJob == Job!JobSpec

\* Every command that is started comes to an end, and a page erase ends even
\* when the command that asked for it was killed.
CommandEnds == (pc # "idle") ~> (pc \in {"idle", "done"})
EraseEnds == eraseActive ~> ~eraseActive

(***************************************************************************)
(* The control invariant: what the engine is doing at every point of the   *)
(* host's program, and what may be left of a command that was killed.      *)
(***************************************************************************)
Working == {"eraseReq", "eraseData", "erasePoll", "readReq", "readData", "readBulk",
            "sfdpReq", "sfdpData", "sfdpBulk",
            "writeReq", "writeData", "writeBulk", "verifyPoll", "release"}

NoStream == chip.op = "none" /\ inPacket = <<>> /\ readCount = 0 /\ writeCount = 0
Reading == inPacket # <<>> /\ writeCount = 0 /\ ~eraseActive /\ (readCount > 0 <=> chip.op # "none")

\* The chip is targeted while a command works on it, and the counters of host
\* and firmware agree on how much of a transfer is left.
PhaseInv ==
    /\ pc \in Working => targetDevice = "chip"
    /\ pc \in {"target", "eraseReq", "eraseData", "readReq", "sfdpReq", "writeReq",
               "verifyPoll", "release"} => NoStream /\ ~eraseActive
    /\ pc = "erasePoll" => NoStream
    /\ pc \in {"eraseData", "erasePoll"} => eraseOperation \in {"all", "pageRange"}
    /\ pc \in {"readData", "sfdpData"} =>
          chip.op = "none" /\ inPacket = <<>> /\ writeCount = 0 /\ ~eraseActive
    /\ pc = "readData" => readCount = Chunk
    /\ pc = "sfdpData" => readCount = SfdpReads[block + 1][2]
    /\ pc = "readBulk" =>
          /\ Reading /\ readMode = "data"
          /\ Len(inPacket) = EpBufferSize /\ want = readCount + EpBufferSize
          /\ readCount % EpBufferSize = 0
    /\ pc = "sfdpBulk" =>
          /\ Reading /\ readMode = "sfdp"
          /\ Len(inPacket) = Least(want, EpBufferSize) /\ want = readCount + Len(inPacket)
    /\ pc = "writeData" =>
          /\ chip.op = "none" /\ inPacket = <<>> /\ readCount = 0 /\ ~eraseActive
          /\ writeCount = ByteCount
    /\ pc = "writeBulk" =>
          /\ chip.op # "none" /\ inPacket = <<>> /\ readCount = 0 /\ ~eraseActive
          /\ writeCount = want /\ want \in 1..ByteCount

\* The loops stay within the file, the chip and the SFDP dump.
LoopInv ==
    /\ pc \in {"idle", "info", "abort", "target", "eraseReq", "eraseData", "erasePoll"} => block = 0
    /\ pc \in {"writeReq", "writeData", "writeBulk", "verifyPoll"} =>
          Writing /\ block * Chunk < fileLength
    /\ pc \in {"readReq", "readData", "readBulk"} => chipInfo.deviceSize >= Chunk
    /\ pc \in {"sfdpReq", "sfdpData", "sfdpBulk"} => block < Len(SfdpReads)

\* What the command line and readChipInfo have settled by then.
CommandInv ==
    /\ pc \in {"info", "abort", "target"} \cup Working => command \notin {"none", "listDevices"}
    /\ pc \in Working => valid
    /\ pc \in {"abort", "target"} \cup Working =>
          (command \notin {"erase", "sfdp"} /\ valid => chipInfo.eraseSize > 0)
    /\ chipInfo.deviceSize \in {0, ListedSize} \cup GarbledSizes

ControlInv == TypeOK /\ PhaseInv /\ LoopInv /\ CommandInv /\ BusDiscipline
=============================================================================
