--------------------------- MODULE FlashJobProofs ---------------------------
(***************************************************************************)
(* flashprog implements the job of FlashJob: every step of the programmer, *)
(* wherever the host is killed, is a step of the job or changes nothing it *)
(* sees.  Which step of the job each transfer is does not depend on the    *)
(* chip; it rests on two rules, StoreRule and DeliverRule, which say what  *)
(* a transfer does to the bytes.  They follow from the invariant of        *)
(* FlashprogDataProofs for a byte addressed chip, and from that of         *)
(* FlashNandProofs for one addressed by page.                              *)
(***************************************************************************)
EXTENDS FlashprogDataProofs

(* The mapping **********************************************************)
\* What the mapping maps to.
LEMMA JobTypes ==
    ASSUME ControlInv
    PROVE  /\ chip.mem \in [Addr -> Byte] /\ received \in Seq(Byte) /\ fileLength \in Nat
           /\ Trusted \in BOOLEAN /\ JobOp \in {"none", "erase", "read", "write", "other"}
           /\ pc \in {"idle", "done"} \cup Starting \cup Working
           /\ result \in {"none", "ok", "fail"}
  BY DEF ControlInv, TypeOK, HostTypeOK, ProtoTypeOK, EngineTypeOK, Chip, Trusted, JobOp, PCs,
         Starting, Working

\* The phase of the job at each point of the program.
LEMMA Phases ==
    /\ pc = "idle" => JobPhase = "idle"
    /\ pc = "done" => JobPhase = "ended" /\ JobVerdict = result
    /\ pc \in Starting => JobPhase = "starting"
    /\ pc \in Working => JobPhase = "working"
    /\ pc # "done" => JobVerdict = "none"
  BY DEF JobPhase, JobVerdict, Starting, Working

\* A step that leaves the command and its verdict alone leaves its job.
LEMMA SameJob ==
    ASSUME UNCHANGED <<pc, jobVars, result>>
    PROVE  UNCHANGED <<JobOp, fileLength, JobPhase, JobVerdict, Trusted>>
  BY DEF JobOp, JobPhase, JobVerdict, Trusted, Writing, jobVars

\* The next state of Phases.
LEMMA NextPhases ==
    /\ pc' = "idle" => JobPhase' = "idle"
    /\ pc' = "done" => JobPhase' = "ended" /\ JobVerdict' = result'
    /\ pc' \in Starting => JobPhase' = "starting"
    /\ pc' \in Working => JobPhase' = "working"
    /\ pc' # "done" => JobVerdict' = "none"
  BY DEF JobPhase, JobVerdict, Starting, Working

\* And one that leaves the command alone keeps its operation.
LEMMA SameCommand ==
    ASSUME UNCHANGED jobVars
    PROVE  UNCHANGED <<JobOp, fileLength, Trusted>>
  BY DEF JobOp, Trusted, Writing, jobVars

\* Where what the job promises of the bytes is true at the end of a command.
JobEnds == Trusted /\ pc = "done" /\ result = "ok" => Job!Finished /\ ~eraseActive

\* What the job needs of a state of the programmer.
JobInv == ControlInv /\ ProgressInv /\ JobEnds

\* What a trusted command may do to the chip: erase within the pages of its file,
\* or program the file's bytes into erased cells.
StoreRule ==
    Trusted /\ pc \in Working =>
        \/ chip'.mem = chip.mem
        \/ /\ pc' \in Working /\ UNCHANGED <<jobVars, received>>
           /\ Writing \/ command = "erase"
           /\ \A a \in Addr : chip'.mem[a] # chip.mem[a] =>
                 (Writing => a < Touched) /\ chip'.mem[a] = Erased
        \/ /\ WriteBulk /\ Writing
           /\ \A a \in Addr : chip'.mem[a] # chip.mem[a] =>
                 a < fileLength /\ chip.mem[a] = Erased /\ chip'.mem[a] = File[a]

\* A packet received leaves the chip alone, and what a trusted read has by then
\* are the chip's first bytes.
DeliverRule ==
    ReadBulk \/ SfdpBulk =>
        /\ chip'.mem = chip.mem
        /\ Trusted /\ command = "read" =>
              \A i \in 1..Len(received') : i - 1 \in Addr /\ received'[i] = chip.mem[i - 1]

\* A read that has every byte is finished.
LEMMA ReadFinished ==
    ASSUME received \in Seq(Byte), Delivered(DevSize)
    PROVE  /\ DOMAIN received = {a + 1 : a \in Addr}
           /\ \A a \in Addr : received[a + 1] = chip.mem[a]
  <1>1. Len(received) = DevSize /\ \A i \in 1..DevSize : received[i] = Cell(chip, i - 1)
    BY DEF Delivered
  <1>2. \A a \in Addr : a + 1 \in 1..DevSize /\ (a + 1) - 1 = a
    BY ChipAssumption DEF Addr
  <1>3. \A a \in Addr : received[a + 1] = chip.mem[a]
    BY <1>1, <1>2 DEF Cell
  <1>4. 1..DevSize = {a + 1 : a \in Addr}
    <2>1. ASSUME NEW i \in 1..DevSize
          PROVE  \E a \in Addr : i = a + 1
      <3>1. i - 1 \in Addr /\ i = (i - 1) + 1
        BY ChipAssumption DEF Addr
      <3>2. QED
        BY <3>1
    <2>2. QED
      BY <1>2, <2>1
  <1>5. QED
    BY <1>1, <1>3, <1>4

(* The steps *************************************************************)
\* Starting a command begins a job.
LEMMA BeginJob ==
    ASSUME ControlInv, ControlInv', NEW cmd \in Commands, NEW isValid \in BOOLEAN,
           NEW fileSize \in FileLengths \cup {0}, Start(cmd, isValid, fileSize)
    PROVE  Job!Begin
  <1>1. /\ pc = "idle" /\ pc' \in Starting /\ command' = cmd /\ UNCHANGED <<chip, received>>
    BY DEF Start, protoVars, Starting
  <1>2. JobOp' \in {"erase", "read", "write", "other"}
    BY <1>1, HostAssumption DEF JobOp, Writing
  <1>3. fileLength' \in Nat /\ Trusted' \in BOOLEAN
    BY DEF ControlInv, TypeOK, HostTypeOK, Trusted
  <1>4. JobPhase = "idle" /\ JobPhase' = "starting" /\ UNCHANGED JobVerdict
    BY <1>1, Phases, NextPhases DEF Starting
  <1>5. QED
    BY <1>1, <1>2, <1>3, <1>4 DEF Job!Begin, Job!JobOps

\* Being killed, or exiting, drops it.
LEMMA StopJob ==
    ASSUME Forget, pc # "idle", ControlInv
    PROVE  Job!Stop
  <1>1. /\ pc' = "idle" /\ command' = "none" /\ fileLength' = 0 /\ received' = <<>> /\ quiet' = FALSE
        /\ UNCHANGED chip
    BY DEF Forget, protoVars
  <1>2. JobOp' = "none" /\ ~Trusted'
    BY <1>1 DEF JobOp, Trusted, Writing
  <1>3. Trusted' = FALSE
    BY <1>1, <1>2 DEF Trusted
  <1>4. JobPhase # "idle" /\ JobPhase' = "idle" /\ JobVerdict' = "none"
    BY <1>1, NextPhases DEF JobPhase
  <1>5. QED
    BY <1>1, <1>2, <1>3, <1>4 DEF Job!Stop

\* Until the chip is targeted, what an earlier command left running may go on.
LEMMA StartingJob ==
    ASSUME JobInv, JobInv',
           \/ RequestCount \/ ListDevice \/ ReadChipInfo \/ Abort \/ TargetDevice \/ TargetRefused
    PROVE  Job!Leftover \/ Job!Select \/ Job!Report
  <1>1. /\ pc \in Starting /\ UNCHANGED <<jobVars, received>>
        /\ \/ pc' \in Starting
           \/ pc' \in Working
           \/ pc' = "done" /\ result' = "fail"
           \/ pc' = "done" /\ result' = "ok" /\ command = "listDevices"
    BY DEF RequestCount, ListDevice, ReadChipInfo, Abort, TargetDevice, TargetRefused,
           Goto, Fail, Release, Starting, Working, JobInv, ProgressInv
  <1>2. chip'.mem \in [Addr -> Byte]
    BY JobTypes DEF JobInv, ControlInv, TypeOK, ProtoTypeOK, EngineTypeOK, Chip
  <1>3. UNCHANGED <<JobOp, fileLength, Trusted>> /\ JobPhase = "starting" /\ JobVerdict = "none"
    BY <1>1, SameCommand, Phases DEF Starting
  <1>4. CASE pc' \in Starting
    BY <1>1, <1>2, <1>3, <1>4, NextPhases DEF Starting, Job!Leftover, Job!Unsettled, Job!jobState
  <1>5. CASE pc' \in Working
    BY <1>1, <1>2, <1>3, <1>5, NextPhases DEF Working, Job!Select
  <1>6. CASE pc' = "done" /\ result' = "fail"
    BY <1>1, <1>2, <1>3, <1>6, NextPhases DEF Job!Report, Job!Unsettled
  <1>7. CASE pc' = "done" /\ result' = "ok" /\ command = "listDevices"
    <2>1. JobOp' = "other"
      BY <1>1, <1>7 DEF JobOp, Writing, jobVars
    <2>2. Job!Finished'
      BY <2>1 DEF Job!Finished
    <2>3. QED
      BY <1>1, <1>2, <1>3, <1>7, <2>2, NextPhases DEF Job!Report, Job!Unsettled
  <1>8. QED
    BY <1>1, <1>4, <1>5, <1>6, <1>7

\* The bytes a packet adds to a read are the next cells of the chip.
LEMMA DeliverJob ==
    ASSUME JobInv, JobInv', DeliverRule, ReadBulk \/ SfdpBulk
    PROVE  Job!Deliver
  <1>1. /\ pc \in Working /\ pc' \in Working /\ UNCHANGED <<jobVars, chipInfo>>
        /\ received' = received \o inPacket /\ chip'.mem = chip.mem
    BY DEF ReadBulk, SfdpBulk, Receive, Goto, Release, Working, DeliverRule
  <1>2. received' \in Seq(Byte) /\ Len(received') >= Len(received)
    BY <1>1, ControlTypes DEF JobInv, ProtoTypeOK, EngineTypeOK
  <1>3. UNCHANGED <<JobOp, fileLength, JobPhase, JobVerdict, Trusted>>
    BY <1>1, SameCommand, Phases, NextPhases DEF Working
  <1>4. ASSUME Trusted, JobOp = "read", NEW i \in 1..Len(received')
        PROVE  i - 1 \in Addr /\ received'[i] = chip.mem[i - 1]
    BY <1>4 DEF JobOp, Writing, DeliverRule
  <1>5. QED
    BY <1>1, <1>2, <1>3, <1>4, Phases DEF Job!Deliver

\* What is not settled may change the chip.
LEMMA LeftoverJob ==
    ASSUME JobInv', UNCHANGED <<jobVars, received>>,
           JobPhase \in {"idle", "starting"} \/ JobVerdict = "fail" \/ ~Trusted,
           UNCHANGED <<JobPhase, JobVerdict>>
    PROVE  [Job!JobNext]_(Job!allState)
  <1>1. chip'.mem \in [Addr -> Byte]
    BY DEF JobInv, ControlInv, TypeOK, ProtoTypeOK, EngineTypeOK, Chip
  <1>2. Job!Leftover
    BY <1>1, SameCommand DEF Job!Leftover, Job!Unsettled, Job!jobState
  <1>3. QED
    BY <1>2 DEF Job!JobNext

\* A transfer of a trusted command changes the chip as its job allows.
LEMMA StoreJob ==
    ASSUME JobInv', StoreRule, Trusted, pc \in Working, pc' \in Working,
           UNCHANGED <<jobVars, received>>
    PROVE  [Job!JobNext]_(Job!allState)
  <1>1. chip'.mem \in [Addr -> Byte]
    BY DEF JobInv, ControlInv, TypeOK, ProtoTypeOK, EngineTypeOK, Chip
  <1>2. UNCHANGED <<JobOp, fileLength, JobPhase, JobVerdict, Trusted>> /\ JobPhase = "working"
    BY SameCommand, Phases, NextPhases DEF Working
  <1>3. CASE chip'.mem = chip.mem
    BY <1>2, <1>3 DEF Job!allState, Job!jobState
  <1>4. CASE /\ Writing \/ command = "erase"
             /\ \A a \in Addr : chip'.mem[a] # chip.mem[a] =>
                   (Writing => a < Touched) /\ chip'.mem[a] = Erased
    <2>1. JobOp = "erase" \/ (JobOp = "write" /\ Writing)
      BY <1>4 DEF JobOp, Writing
    <2>2. \A a \in Addr : chip'.mem[a] # chip.mem[a] => Job!MayClear(a) /\ chip'.mem[a] = Erased
      BY <1>4, <2>1 DEF Job!MayClear, Touched, Ceil
    <2>3. Job!Clear
      BY <1>1, <1>2, <2>2 DEF Job!Clear, Job!jobState
    <2>4. QED
      BY <2>3 DEF Job!JobNext
  <1>5. CASE /\ Writing
             /\ \A a \in Addr : chip'.mem[a] # chip.mem[a] =>
                   a < fileLength /\ chip.mem[a] = Erased /\ chip'.mem[a] = File[a]
    <2>1. JobOp = "write"
      BY <1>5 DEF JobOp, Writing
    <2>2. Job!Fill
      BY <1>1, <1>2, <1>5, <2>1 DEF Job!Fill, Job!jobState
    <2>3. QED
      BY <2>2 DEF Job!JobNext
  <1>6. QED
    BY <1>3, <1>4, <1>5 DEF StoreRule

\* A command that ends reports what its job has finished.
LEMMA ReportJob ==
    ASSUME JobInv', StoreRule, pc \in Working, pc' = "done",
           UNCHANGED <<jobVars, received>>
    PROVE  Job!Report
  <1>1. chip'.mem \in [Addr -> Byte] /\ result' \in {"ok", "fail"}
    BY DEF JobInv, ControlInv, TypeOK, HostTypeOK, ProtoTypeOK, EngineTypeOK, Chip, ProgressInv
  <1>2. /\ UNCHANGED <<JobOp, fileLength, Trusted>>
        /\ JobPhase = "working" /\ JobPhase' = "ended" /\ JobVerdict' = result'
    BY SameCommand, Phases, NextPhases
  <1>3. Trusted => chip'.mem = chip.mem
    BY DEF StoreRule, Working, WriteBulk, NextBlock, Goto, Release
  <1>4. result' = "ok" /\ Trusted' => Job!Finished'
    BY DEF JobInv, JobEnds
  <1>5. QED
    BY <1>1, <1>2, <1>3, <1>4 DEF Job!Report, Job!Unsettled

\* The transfers that deliver nothing either store, clear, end, or are not seen.
LEMMA WorkingJob ==
    ASSUME JobInv, JobInv', StoreRule,
           \/ Deselected \/ RequestErase \/ SendEraseConfig \/ PollErase \/ RequestRead \/ SendReadPage
           \/ RequestSfdp \/ SendSfdpAddress \/ RequestWrite \/ SendWritePage \/ WriteBulk \/ VerifyPages
    PROVE  [Job!JobNext]_(Job!allState)
  <1>1. pc \in Working /\ pc' \in Working \cup {"done"} /\ UNCHANGED <<jobVars, chipInfo>>
    BY WorkSteps DEF JobInv
  <1>2. UNCHANGED received
    BY DEF Deselected, RequestErase, SendEraseConfig, PollErase, RequestRead, SendReadPage,
           RequestSfdp, SendSfdpAddress, RequestWrite, SendWritePage, WriteBulk, VerifyPages
  <1>3. CASE pc' = "done"
    BY <1>1, <1>2, <1>3, ReportJob DEF Job!JobNext
  <1>4. CASE pc' \in Working /\ Trusted
    BY <1>1, <1>2, <1>4, StoreJob
  <1>5. CASE pc' \in Working /\ ~Trusted
    BY <1>1, <1>2, <1>5, LeftoverJob, Phases, NextPhases DEF Working
  <1>6. QED
    BY <1>1, <1>3, <1>4, <1>5

\* The chip and the frame interrupt, which no command waits for.
LEMMA BackgroundJob ==
    ASSUME JobInv, JobInv', StoreRule, ChipFinishes \/ StartOfFrame
    PROVE  [Job!JobNext]_(Job!allState)
  <1>1. UNCHANGED <<pc, jobVars, result, received>>
    BY DEF ChipFinishes, StartOfFrame, hostVars, jobVars
  <1>2. UNCHANGED <<JobOp, fileLength, JobPhase, JobVerdict, Trusted>>
    BY <1>1, SameJob
  <1>3. CASE chip'.mem = chip.mem
    BY <1>1, <1>2, <1>3 DEF Job!allState, Job!jobState
  <1>4. CASE Trusted /\ pc \in Working
    BY <1>1, <1>4, StoreJob
  <1>5. CASE ~Trusted \/ pc \in {"idle"} \cup Starting \/ (pc = "done" /\ result = "fail")
    BY <1>1, <1>2, <1>5, LeftoverJob, Phases
  <1>6. CASE Trusted /\ pc = "done" /\ result # "fail"
    <2>1. ~eraseActive
      BY <1>6, JobTypes DEF JobInv, JobEnds, ProgressInv
    <2>2. ChipFinishes
      BY <2>1 DEF StartOfFrame, Tick
    <2>3. chip'.mem = chip.mem
      BY <2>2, ControlTypes DEF JobInv, ChipFinishes, Finish, Chip
    <2>4. QED
      BY <1>3, <2>3
  <1>7. QED
    BY <1>4, <1>5, <1>6, JobTypes DEF JobInv

(* The refinement ********************************************************)
\* Every step of the programmer is a step of the job or none.
LEMMA JobStep ==
    ASSUME JobInv, JobInv', StoreRule, DeliverRule, [Next]_vars
    PROVE  [Job!JobNext]_(Job!allState)
  <1>1. CASE User \/ Exit
    <2>1. Job!Begin \/ Job!Stop
      BY <1>1, BeginJob, StopJob DEF User, Kill, Exit, JobInv
    <2>2. QED
      BY <2>1 DEF Job!JobNext
  <1>2. CASE RequestCount \/ ListDevice \/ ReadChipInfo \/ Abort \/ TargetDevice \/ TargetRefused
    BY <1>2, StartingJob DEF Job!JobNext
  <1>3. CASE ReadBulk \/ SfdpBulk
    BY <1>3, DeliverJob DEF Job!JobNext
  <1>4. CASE ChipFinishes \/ StartOfFrame
    BY <1>4, BackgroundJob
  <1>5. CASE UNCHANGED vars
    BY <1>5, SameJob DEF vars, hostVars, protoVars, Job!allState, Job!jobState
  <1>6. QED
    BY <1>1, <1>2, <1>3, <1>4, <1>5, WorkingJob DEF Next, Transfer

\* Power up is the start of the job.
LEMMA JobStarts == Init => Job!JobInit
  <1> SUFFICES ASSUME Init PROVE Job!JobInit
    OBVIOUS
  <1>1. /\ pc = "idle" /\ command = "none" /\ received = <<>> /\ fileLength = 0 /\ quiet = FALSE
        /\ chip.mem \in [Addr -> Byte]
    BY HostAssumption DEF Init, HostInit, ProtoInit, PowerOn
  <1>2. JobOp = "none" /\ Trusted = FALSE
    BY <1>1 DEF JobOp, Trusted, Writing
  <1>3. QED
    BY <1>1, <1>2, Phases DEF Job!JobInit

(* Byte addressed chips **************************************************)
\* A part of a block inside the device is inside the device.
LEMMA BlockFits ==
    ASSUME NEW b \in Nat, NEW n \in Nat, NEW size \in Nat, b < n, NEW left \in Nat
    PROVE  b * size <= n * size /\ b * size + size - left <= n * size
  <1>1. (b + 1) * size = b * size + size
    OBVIOUS
  <1>2. (b + 1) * size <= n * size
    OBVIOUS
  <1>3. QED
    BY <1>1, <1>2

\* What has been received inside the device are cells of it.
LEMMA CellsReceived ==
    ASSUME ControlInv, ControlInv', ReadBulk, chip'.mem = chip.mem,
           DevSize % Chunk = 0, chipInfo.deviceSize = DevSize,
           pc' \in {"readReq", "readBulk"} => block' < ReadBlocks',
           pc' = "readBulk" => Delivered(block * Chunk + Chunk - want)',
           pc' = "readReq" => Delivered(block * Chunk)',
           pc' = "release" => Delivered(DevSize)'
    PROVE  \A i \in 1..Len(received') : i - 1 \in Addr /\ received'[i] = chip.mem[i - 1]
  <1>1. Chunk' = Chunk /\ ReadBlocks' = ReadBlocks /\ chipInfo \in Info
    BY ControlTypes, SameChunk DEF ReadBulk, Receive, ReadBlocks
  <1>2. ReadBlocks \in Nat /\ ReadBlocks * Chunk = DevSize /\ Chunk \in Nat \ {0}
    BY <1>1, ReadWhole, ChunkSize
  <1>3. /\ block' \in Nat /\ want' \in Nat /\ DevSize \in Nat /\ received' \in Seq(Byte)
    BY ChipAssumption DEF ControlInv, TypeOK, HostTypeOK
  <1>4. Len(received') <= DevSize /\ \A k \in 1..Len(received') : received'[k] = Cell(chip, k - 1)'
    <2>1. CASE pc' = "readBulk"
      <3>1. block' * Chunk + Chunk - want' <= DevSize
        BY <1>1, <1>2, <1>3, <2>1, BlockFits
      <3>2. QED
        BY <1>1, <2>1, <3>1 DEF Delivered
    <2>2. CASE pc' = "readReq"
      <3>1. block' * Chunk <= DevSize
        BY <1>1, <1>2, <1>3, <2>2, BlockFits
      <3>2. QED
        BY <1>1, <2>2, <3>1 DEF Delivered
    <2>3. CASE pc' = "release"
      BY <1>3, <2>3 DEF Delivered
    <2>4. QED
      BY <2>1, <2>2, <2>3 DEF ReadBulk, Receive, Goto, Release
  <1>5. ASSUME NEW i \in 1..Len(received')
        PROVE  i - 1 \in Addr /\ received'[i] = chip.mem[i - 1]
    <2>1. i - 1 \in Addr
      BY <1>3, <1>4 DEF Addr
    <2>2. QED
      BY <1>4, <2>1 DEF Cell
  <1>6. QED
    BY <1>5

\* A byte addressed chip keeps both rules, and a command that says ok has
\* finished its job.
LEMMA NorRules ==
    ASSUME Kind = "nor", KnownChip, Inv, Inv', [Next]_vars
    PROVE  StoreRule /\ DeliverRule
  <1>1. StoreRule
    BY StoreStep DEF StoreRule
  <1>2. ASSUME ReadBulk \/ SfdpBulk
        PROVE  chip'.mem = chip.mem
    BY <1>2, ReceiveCells DEF Inv
  <1>3. ASSUME ReadBulk \/ SfdpBulk, Trusted, command = "read"
        PROVE  \A i \in 1..Len(received') : i - 1 \in Addr /\ received'[i] = chip.mem[i - 1]
    <2>1. ReadBulk /\ pc = "readBulk" /\ UNCHANGED jobVars
      BY <1>3 DEF ReadBulk, Receive, SfdpBulk, Inv, ProgressInv
    <2>2. Trusted' /\ command' = "read" /\ (pc' = "release" => result' = "ok")
      BY <1>3, <2>1 DEF Trusted, Writing, jobVars, ReadBulk, Receive, Goto, Release
    <2>3. DevSize % Chunk = 0 /\ chipInfo.deviceSize = DevSize
      BY <1>3, <2>1, TrustedChip DEF Inv, DataInv, Working
    <2>4. QED
      BY <1>2, <2>1, <2>2, <2>3, CellsReceived DEF Inv, DataInv, Kept
  <1>4. QED
    BY <1>1, <1>2, <1>3 DEF DeliverRule

LEMMA NorJob == Kind = "nor" /\ KnownChip /\ Inv => JobInv
  <1> SUFFICES ASSUME Kind = "nor", KnownChip, Inv, Trusted, pc = "done", result = "ok"
               PROVE  Job!Finished /\ ~eraseActive
    BY DEF Inv, JobInv, JobEnds
  <1>1. Kept /\ received \in Seq(Byte)
    BY InvTypes DEF Inv, DataInv
  <1>2. QED
    BY <1>1, ReadFinished DEF Kept, JobOp, Writing, Job!Finished

\* flashprog implements FlashJob on a byte addressed chip of the table, on both
\* buses: whatever is killed, and wherever, a trusted command clears only what its erase
\* covers, stores only the file's bytes in cleared cells, delivers the cells in
\* order, and says ok only when all of it is done.
THEOREM JobImplemented ==
    ASSUME Kind = "nor", KnownChip
    PROVE  Spec => ImplementsJob
  <1>1. Init => Job!JobInit
    BY JobStarts
  <1>2. Inv => JobInv
    BY NorJob
  <1>3. Inv /\ Inv' /\ JobInv /\ JobInv' /\ [Next]_vars => [Job!JobNext]_(Job!allState)
    BY NorRules, JobStep
  <1>4. QED
    BY <1>1, <1>2, <1>3, DataInvariant, PTL DEF Spec, ImplementsJob, Job!JobSpec
=============================================================================
