-------------------------- MODULE FlashprogProofs --------------------------
(***************************************************************************)
(* For every scale, chip, file and set of commands, and however often the  *)
(* host is killed: the types, that the firmware never uses a null SPI      *)
(* device, that commands find the engine idle, and that chip select is     *)
(* only held for a transfer under way.                                     *)
(*                                                                         *)
(* All four follow from ControlInv, which is inductive: the host's place   *)
(* in its program fixes what the engine is doing, and BusDiscipline says   *)
(* what a killed host may have left.  One lemma per action of the host     *)
(* shows that it preserves ControlInv; each cites what FlashProtoProofs    *)
(* says of the handler it calls.                                           *)
(***************************************************************************)
EXTENDS Flashprog, FlashProtoProofs

(* Arithmetic of the loops ***********************************************)
\* What is left of a whole number of packets after one more is none, or at
\* least one packet: readCount never wraps.
LEMMA ModStep ==
    ASSUME NEW n \in Nat, NEW b \in Nat \ {0}, n % b = 0, n > 0
    PROVE  n >= b /\ (n - b) % b = 0
  <1>1. PICK q \in Int : n = b * q
    BY ModDef
  <1>2. n - b \in Int
    OBVIOUS
  <1>3. PICK p \in Int, r \in 0..b - 1 : (n - b) % b = r /\ n - b = (b * p) + r
    BY <1>2, ModDef
  <1>4. q >= 1
    BY <1>1
  <1>5. n >= b
    BY <1>1, <1>4
  <1>6. b * (q - 1 - p) = (b * q) - b - (b * p)
    OBVIOUS
  <1>7. b * (q - 1 - p) = r
    BY <1>1, <1>3, <1>6
  <1>8. q - 1 - p = 0
    BY <1>7, ModZero
  <1>9. QED
    BY <1>3, <1>5, <1>7, <1>8

\* The same for the endpoint's packets.
LEMMA PacketsLeft ==
    ASSUME NEW n \in Nat, n % EpBufferSize = 0, n > 0
    PROVE  n >= EpBufferSize /\ (n - EpBufferSize) % EpBufferSize = 0
  <1> DEFINE b == EpBufferSize
  <1>1. b \in Nat \ {0} /\ n % b = 0
    BY ProtoAssumption
  <1> HIDE DEF b
  <1>2. n >= b /\ (n - b) % b = 0
    BY <1>1, ModStep
  <1>3. QED
    BY <1>2 DEF b

\* A rounded up division is a number.
LEMMA CeilNat ==
    ASSUME NEW a \in Nat, NEW b \in Nat \ {0}
    PROVE  Ceil(a, b) \in Nat
  BY DEF Ceil

\* A block counted by a rounded up division starts inside what is divided.
LEMMA CeilBound ==
    ASSUME NEW a \in Nat, NEW b \in Nat \ {0}, NEW i \in Nat, i < Ceil(a, b)
    PROVE  i * b < a
  <1> DEFINE q == (a + b - 1) \div b
  <1>1. q \in Int /\ b * q <= a + b - 1
    OBVIOUS
  <1>2. i + 1 <= q
    BY <1>1 DEF Ceil
  <1>3. b * (i + 1) <= b * q
    BY <1>1, <1>2
  <1>4. b * (i + 1) = i * b + b
    OBVIOUS
  <1>5. QED
    BY <1>1, <1>3, <1>4

\* A block is never empty.
LEMMA ChunkSize == Chunk \in Nat \ {0}
  BY ProtoAssumption DEF Chunk

\* A block that is read is a whole number of packets, and at least one: on a
\* device read page by page the page is what a count of 0 stands for.
LEMMA ReadChunkSize ==
    ASSUME chipInfo \in Info, chipInfo.deviceSize \in {0, ListedSize} \cup GarbledSizes,
           chipInfo.deviceSize >= Chunk
    PROVE  /\ Chunk \in 1..FlashBufferSize /\ Chunk \in Nat \ {0} /\ Chunk % EpBufferSize = 0
           /\ Chunk >= EpBufferSize /\ (Chunk - EpBufferSize) % EpBufferSize = 0
  <1>1. Chunk \in {DefaultCount, FlashBufferSize}
    <2>1. CASE Tiny
      <3>1. chipInfo.deviceSize \in FlashPageSize..FlashBufferSize - 1
        BY <2>1, ProtoAssumption DEF Tiny, Chunk, Info
      <3>2. chipInfo.deviceSize \in {ListedSize} \cup GarbledSizes
        BY <3>1, ProtoAssumption
      <3>3. QED
        BY <2>1, <3>1, <3>2, ScaleAssumption DEF Chunk
    <2>2. CASE ~Tiny
      BY <2>2 DEF Chunk
    <2>3. QED
      BY <2>1, <2>2
  <1>2. /\ Chunk \in 1..FlashBufferSize /\ Chunk \in Nat \ {0} /\ Chunk % EpBufferSize = 0
        /\ EpBufferSize \in Nat \ {0}
    BY <1>1, ProtoAssumption, ScaleAssumption
  <1>3. QED
    BY <1>2, PacketsLeft

\* The host's derived sizes only change with what they are derived from.
LEMMA SameChunk == UNCHANGED chipInfo => Chunk' = Chunk
  BY DEF Chunk, Tiny

\* And the length of a block only with the loop.
LEMMA SameByteCount == UNCHANGED <<chipInfo, fileLength, block>> => ByteCount' = ByteCount
  BY SameChunk DEF ByteCount, Least

\* A device with a block to read is at least as large as the block.
LEMMA ReadBlocksSize ==
    ASSUME chipInfo \in Info, ReadBlocks > 0
    PROVE  chipInfo.deviceSize >= Chunk
  <1>1. chipInfo.deviceSize \in Nat
    BY DEF Info
  <1>2. Chunk \in Nat \ {0}
    BY ChunkSize
  <1>3. QED
    BY <1>1, <1>2 DEF ReadBlocks

\* A tiny device is read with the count 0, which stands for a page.
LEMMA RequestedChunk ==
    ASSUME chipInfo \in Info, chipInfo.deviceSize \in {0, ListedSize} \cup GarbledSizes,
           chipInfo.deviceSize >= Chunk
    PROVE  Requested(IF Tiny THEN 0 ELSE FlashBufferSize) = Chunk
  <1>1. CASE Tiny
    <2>1. chipInfo.deviceSize \in FlashPageSize..FlashBufferSize - 1
      BY <1>1, ProtoAssumption DEF Tiny, Chunk, Info
    <2>2. chipInfo.deviceSize \in {ListedSize} \cup GarbledSizes
      BY <2>1, ProtoAssumption
    <2>3. QED
      BY <2>1, <2>2, ScaleAssumption DEF Requested, Chunk
  <1>2. CASE ~Tiny
    BY <1>2, ProtoAssumption DEF Requested, Chunk
  <1>3. QED
    BY <1>1, <1>2

\* A device that answered readChipInfo has an erase page: nothing is divided
\* by zero when erasePages counts them.
LEMMA ListingsInfo ==
    ASSUME NEW id, NEW info \in Listings(id)
    PROVE  info \in Info /\ info.eraseSize > 0 /\ info.deviceSize \in {0, ListedSize} \cup GarbledSizes
  BY ChipAssumption, HostAssumption DEF Listings, Info

\* A block of a file is never empty.
LEMMA ByteCountRange ==
    ASSUME chipInfo \in Info, fileLength \in Nat, block \in Nat, block * Chunk < fileLength
    PROVE  ByteCount \in 1..Chunk /\ ByteCount \in Nat
  <1>1. Chunk \in Nat \ {0}
    BY ChunkSize
  <1>2. QED
    BY <1>1 DEF ByteCount, Least

\* The block after this one, if there is one, begins inside the file.
LEMMA NextBlockInside ==
    ASSUME chipInfo \in Info, fileLength \in Nat, block \in Nat, block + 1 < WriteBlocks
    PROVE  (block + 1) * Chunk < fileLength
  BY CeilBound, ChunkSize DEF WriteBlocks

\* A step of the chip or of the interrupt that opens and closes no transaction.
LEMMA SameEngineControl ==
    ASSUME ControlInv, NoHang, ProtoTypeOK',
           UNCHANGED <<hostVars, targetVars, readVars, eraseOperation, writeVars, inPacket, hung>>,
           chip'.op = chip.op, eraseActive' => eraseActive
    PROVE  ControlInv' /\ NoHang'
  <1> USE DEF ControlInv, hostVars, jobVars, targetVars, readVars, writeVars
  <1>1. UNCHANGED <<Chunk, ByteCount>>
    BY SameChunk, SameByteCount
  <1>2. HostTypeOK'
    BY DEF TypeOK, HostTypeOK
  <1>3. PhaseInv'
    BY <1>1 DEF PhaseInv, NoStream, Reading
  <1>4. LoopInv' /\ CommandInv'
    BY <1>1 DEF LoopInv, CommandInv, Writing
  <1>5. BusDiscipline' /\ NoHang'
    BY DEF BusDiscipline, NoHang
  <1>6. QED
    BY <1>2, <1>3, <1>4, <1>5 DEF TypeOK

(* What every action preserves *******************************************)
\* The steps, one lemma each.  From the abort on nothing is left of earlier
\* transfers, whichever packet they were killed at.
LEMMA AbortInv == ControlInv /\ NoHang /\ Abort => ControlInv' /\ NoHang'
  <1> SUFFICES ASSUME ControlInv, NoHang, Abort PROVE ControlInv' /\ NoHang'
    OBVIOUS
  <1> USE DEF ControlInv, Abort
  <1>1. ProtoTypeOK' /\ chip'.op = "none"
    BY HandleAbortTypes DEF TypeOK
  <1>2. HostTypeOK'
    BY DEF TypeOK, HostTypeOK, Goto, jobVars, PCs
  <1>3. PhaseInv'
    BY <1>1 DEF PhaseInv, Working, NoStream, HandleAbort, ResetTransfers, ResetErase, Goto
  <1>4. LoopInv'
    BY DEF LoopInv, Goto
  <1>5. CommandInv'
    BY DEF CommandInv, Working, Goto, jobVars
  <1>6. BusDiscipline' /\ NoHang'
    BY <1>1 DEF BusDiscipline, NoHang, HandleAbort, ResetErase
  <1>7. QED
    BY <1>1, <1>2, <1>3, <1>4, <1>5, <1>6 DEF TypeOK

\* list: the identification lifts chip select, and nothing of a killed
\* command is relied on before the next abort.
LEMMA RequestCountInv == ControlInv /\ NoHang /\ RequestCount => ControlInv' /\ NoHang'
  <1> SUFFICES ASSUME ControlInv, NoHang, RequestCount PROVE ControlInv' /\ NoHang'
    OBVIOUS
  <1> USE DEF ControlInv, RequestCount
  <1>1. ProtoTypeOK' /\ chip'.op = "none"
    BY FetchDeviceCountTypes DEF TypeOK
  <1>2. HostTypeOK'
    BY DEF TypeOK, HostTypeOK, Goto, jobVars, PCs
  <1>3. PhaseInv'
    BY DEF PhaseInv, Working, Goto
  <1>4. LoopInv'
    BY DEF LoopInv, Goto
  <1>5. CommandInv'
    BY DEF CommandInv, Working, Goto
  <1>6. BusDiscipline' /\ NoHang'
    BY <1>1 DEF BusDiscipline, NoHang, FetchDeviceCount, eraseVars
  <1>7. QED
    BY <1>1, <1>2, <1>3, <1>4, <1>5, <1>6 DEF TypeOK

\* A listing identifies the external chip the same way.
LEMMA ListDeviceInv == ControlInv /\ NoHang /\ ListDevice => ControlInv' /\ NoHang'
  <1> SUFFICES ASSUME ControlInv, NoHang, ListDevice PROVE ControlInv' /\ NoHang'
    OBVIOUS
  <1> USE DEF ControlInv, ListDevice
  <1>1. ProtoTypeOK' /\ chip'.op \in {"none", chip.op}
    BY FetchDeviceListingTypes DEF TypeOK
  <1>2. HostTypeOK'
    BY DEF TypeOK, HostTypeOK, Goto, jobVars, PCs
  <1>3. PhaseInv'
    BY DEF PhaseInv, Working, Goto
  <1>4. LoopInv'
    BY DEF LoopInv, Goto
  <1>5. CommandInv'
    BY DEF CommandInv, Working, Goto
  <1>6. BusDiscipline' /\ NoHang'
    BY <1>1 DEF BusDiscipline, NoHang, FetchDeviceListing, readVars, eraseVars, writeVars
  <1>7. QED
    BY <1>1, <1>2, <1>3, <1>4, <1>5, <1>6 DEF TypeOK

\* The parameters that come back have an erase size.
LEMMA ReadChipInfoInv == ControlInv /\ NoHang /\ ReadChipInfo => ControlInv' /\ NoHang'
  <1> SUFFICES ASSUME ControlInv, NoHang, ReadChipInfo PROVE ControlInv' /\ NoHang'
    OBVIOUS
  <1> USE DEF ControlInv, ReadChipInfo
  <1>1. ProtoTypeOK' /\ chip'.op \in {"none", chip.op}
    BY FetchDeviceListingTypes DEF TypeOK
  <1>2. chipInfo' \in Info /\ (valid => chipInfo'.eraseSize > 0) /\ chipInfo'.deviceSize \in {0, ListedSize} \cup GarbledSizes
    BY ListingsInfo DEF NoInfo, Info
  <1>3. HostTypeOK'
    BY <1>2 DEF TypeOK, HostTypeOK, Goto, Fail, jobVars, PCs
  <1>4. PhaseInv'
    BY DEF PhaseInv, Working, Goto, Fail
  <1>5. LoopInv'
    BY DEF LoopInv, Goto, Fail
  <1>6. CommandInv'
    BY <1>2 DEF CommandInv, Working, Goto, Fail, jobVars
  <1>7. BusDiscipline' /\ NoHang'
    BY <1>1 DEF BusDiscipline, NoHang, FetchDeviceListing, readVars, eraseVars, writeVars
  <1>8. QED
    BY <1>1, <1>3, <1>4, <1>5, <1>6, <1>7 DEF TypeOK

\* From the targeting on a chip is selected.
LEMMA TargetDeviceInv == ControlInv /\ NoHang /\ TargetDevice => ControlInv' /\ NoHang'
  <1> SUFFICES ASSUME ControlInv, NoHang, TargetDevice PROVE ControlInv' /\ NoHang'
    OBVIOUS
  <1> USE DEF ControlInv, TargetDevice
  <1>1. ProtoTypeOK' /\ chip'.op \in {"none", chip.op}
    BY HandleTargetDeviceTypes DEF TypeOK
  <1>2. Chunk' = Chunk
    BY SameChunk
  <1>3. ReadBlocks > 0 => chipInfo.deviceSize >= Chunk
    BY ReadBlocksSize DEF TypeOK, HostTypeOK
  <1>4. Len(SfdpReads) > 0
    BY HostAssumption
  <1>5. HostTypeOK'
    BY DEF TypeOK, HostTypeOK, Goto, Fail, Release, jobVars, PCs
  <1>6. PhaseInv'
    BY <1>1 DEF PhaseInv, NoStream, HandleTargetDevice, Goto, Fail, Release, readVars, eraseVars, writeVars
  <1>7. LoopInv'
    BY <1>2, <1>3, <1>4 DEF LoopInv, Goto, Fail, Release
  <1>8. CommandInv'
    BY DEF CommandInv, jobVars
  <1>9. BusDiscipline' /\ NoHang'
    BY <1>1 DEF BusDiscipline, NoHang, HandleTargetDevice, readVars, eraseVars, writeVars
  <1>10. QED
    BY <1>1, <1>5, <1>6, <1>7, <1>8, <1>9 DEF TypeOK

\* A refused target ends the command.
LEMMA TargetRefusedInv == ControlInv /\ NoHang /\ TargetRefused => ControlInv' /\ NoHang'
  <1> SUFFICES ASSUME ControlInv, NoHang, TargetRefused PROVE ControlInv' /\ NoHang'
    OBVIOUS
  <1> USE DEF ControlInv, TargetRefused
  <1>1. ProtoTypeOK' /\ chip'.op = chip.op
    BY RefuseTargetDeviceTypes DEF TypeOK
  <1>2. HostTypeOK'
    BY DEF TypeOK, HostTypeOK, Fail, jobVars, PCs
  <1>3. PhaseInv'
    BY DEF PhaseInv, Working, Fail
  <1>4. LoopInv'
    BY DEF LoopInv, Fail
  <1>5. CommandInv'
    BY DEF CommandInv, Working, Fail
  <1>6. BusDiscipline' /\ NoHang'
    BY DEF BusDiscipline, NoHang, RefuseTargetDevice, targetVars, readVars, eraseVars, writeVars
  <1>7. QED
    BY <1>1, <1>2, <1>3, <1>4, <1>5, <1>6 DEF TypeOK

\* Deselection comes when no transfer is under way.
LEMMA DeselectedInv == ControlInv /\ NoHang /\ Deselected => ControlInv' /\ NoHang'
  <1> SUFFICES ASSUME ControlInv, NoHang, Deselected PROVE ControlInv' /\ NoHang'
    OBVIOUS
  <1> USE DEF ControlInv, Deselected
  <1>1. ProtoTypeOK' /\ chip'.op = chip.op
    BY ReleaseTargetDeviceTypes DEF TypeOK
  <1>2. HostTypeOK'
    BY DEF TypeOK, HostTypeOK, Goto, jobVars, PCs
  <1>3. PhaseInv'
    BY DEF PhaseInv, Working, Goto
  <1>4. LoopInv'
    BY DEF LoopInv, Goto
  <1>5. CommandInv'
    BY DEF CommandInv, Working, jobVars
  <1>6. BusDiscipline' /\ NoHang'
    BY <1>1 DEF BusDiscipline, NoHang, PhaseInv, NoStream, ReleaseTargetDevice, eraseVars
  <1>7. QED
    BY <1>1, <1>2, <1>3, <1>4, <1>5, <1>6 DEF TypeOK

\* The erase is accepted: a chip is targeted.
LEMMA RequestEraseInv == ControlInv /\ NoHang /\ RequestErase => ControlInv' /\ NoHang'
  <1> SUFFICES ASSUME ControlInv, NoHang, RequestErase PROVE ControlInv' /\ NoHang'
    OBVIOUS
  <1> USE DEF ControlInv, RequestErase
  <1>1. ProtoTypeOK' /\ chip'.op = chip.op
    BY SetupEraseTypes DEF TypeOK, EraseOps
  <1>2. HostTypeOK'
    BY DEF TypeOK, HostTypeOK, Goto, Fail, Accepted, jobVars, PCs
  <1>3. PhaseInv'
    BY DEF PhaseInv, Working, NoStream, SetupErase, Goto, Accepted, readVars, writeVars, targetVars
  <1>4. LoopInv'
    BY DEF LoopInv, Goto, Fail, Accepted
  <1>5. CommandInv'
    BY DEF CommandInv, Working, jobVars
  <1>6. BusDiscipline' /\ NoHang'
    BY DEF BusDiscipline, NoHang, SetupErase, readVars, writeVars, targetVars
  <1>7. QED
    BY <1>1, <1>2, <1>3, <1>4, <1>5, <1>6 DEF TypeOK

\* The erase starts with no transaction open.
LEMMA SendEraseConfigInv == ControlInv /\ NoHang /\ SendEraseConfig => ControlInv' /\ NoHang'
  <1> SUFFICES ASSUME ControlInv, NoHang, SendEraseConfig PROVE ControlInv' /\ NoHang'
    OBVIOUS
  <1> USE DEF ControlInv, SendEraseConfig
  <1>1. PageCount \in Nat
    <2>1. fileLength \in Nat /\ chipInfo.eraseSize \in Nat
      BY DEF TypeOK, HostTypeOK, Info
    <2>2. Writing => chipInfo.eraseSize > 0
      BY DEF CommandInv, Working, Writing
    <2>3. QED
      BY <2>1, <2>2, CeilNat DEF PageCount
  <1>2. ProtoTypeOK' /\ chip'.op = chip.op
    BY <1>1, HandleEraseTypes DEF TypeOK
  <1>3. HostTypeOK'
    BY DEF TypeOK, HostTypeOK, Goto, jobVars, PCs
  <1>4. PhaseInv'
    BY <1>2 DEF PhaseInv, Working, NoStream, HandleErase, Goto, readVars, writeVars, targetVars
  <1>5. LoopInv'
    BY DEF LoopInv, Goto
  <1>6. CommandInv'
    BY DEF CommandInv, Working, jobVars
  <1>7. BusDiscipline' /\ NoHang'
    BY <1>2 DEF BusDiscipline, NoHang, PhaseInv, Working, NoStream, HandleErase, targetVars
  <1>8. QED
    BY <1>2, <1>3, <1>4, <1>5, <1>6, <1>7 DEF TypeOK

\* The transfers start only after tick has let go of the chip.
LEMMA PollEraseInv == ControlInv /\ NoHang /\ PollErase => ControlInv' /\ NoHang'
  <1> SUFFICES ASSUME ControlInv, NoHang, PollErase PROVE ControlInv' /\ NoHang'
    OBVIOUS
  <1> USE DEF ControlInv, PollErase
  <1>1. ProtoTypeOK' /\ chip'.op = chip.op
    BY FetchStatusTypes DEF TypeOK
  <1>2. status'.erasePage \in Nat
    BY <1>1 DEF ProtoTypeOK, EngineTypeOK, Status
  <1>3. /\ ~hung' /\ status' = EraseStatus
        /\ UNCHANGED <<targetVars, readVars, eraseActive, beginPage, endPage, writeVars, inPacket, chip>>
        /\ status'.eraseComplete = 0 => eraseOperation' = eraseOperation
    BY DEF FetchStatus, PhaseInv, Working
  <1>4. status'.eraseComplete # 0 => ~eraseActive
    BY <1>3 DEF EraseStatus, PhaseInv
  <1>5. Chunk' = Chunk
    BY SameChunk
  <1>6. WriteBlocks > 0 => 0 * Chunk < fileLength
    BY CeilBound, ChunkSize DEF WriteBlocks, TypeOK, HostTypeOK
  <1>7. HostTypeOK'
    BY <1>2 DEF TypeOK, HostTypeOK, Goto, Fail, Release, jobVars, PCs
  <1>8. PhaseInv'
    BY <1>3, <1>4 DEF PhaseInv, Working, NoStream, Goto, Fail, Release, readVars, writeVars, targetVars
  <1>9. LoopInv'
    BY <1>5, <1>6 DEF LoopInv, Writing, Goto, Fail, Release, jobVars
  <1>10. CommandInv'
    BY DEF CommandInv, Working, jobVars
  <1>11. BusDiscipline' /\ NoHang'
    BY <1>3 DEF BusDiscipline, NoHang, readVars, writeVars, targetVars
  <1>12. QED
    BY <1>1, <1>7, <1>8, <1>9, <1>10, <1>11 DEF TypeOK

\* A read is accepted with the length of the block.
LEMMA RequestReadInv == ControlInv /\ NoHang /\ RequestRead => ControlInv' /\ NoHang'
  <1> SUFFICES ASSUME ControlInv, NoHang, RequestRead PROVE ControlInv' /\ NoHang'
    OBVIOUS
  <1> USE DEF ControlInv, RequestRead
  <1>1. /\ Chunk \in 1..FlashBufferSize /\ Chunk \in Nat \ {0}
        /\ Chunk >= EpBufferSize /\ (Chunk - EpBufferSize) % EpBufferSize = 0
    BY ReadChunkSize DEF TypeOK, HostTypeOK, LoopInv, CommandInv
  <1>2. (IF Tiny THEN 0 ELSE FlashBufferSize) \in Nat
    BY ProtoAssumption
  <1>3. ProtoTypeOK' /\ chip'.op = chip.op
    BY <1>2, SetupReadTypes DEF TypeOK
  <1>4. Chunk' = Chunk
    BY SameChunk
  <1>5. setupCallback' = "handleRead" /\ readCount' = Chunk
    BY RequestedChunk, ProtoAssumption DEF SetupRead, TypeOK, HostTypeOK, LoopInv, CommandInv
  <1>6. HostTypeOK'
    BY <1>5 DEF TypeOK, HostTypeOK, Goto, Accepted, jobVars, PCs
  <1>7. PhaseInv'
    BY <1>4, <1>5 DEF PhaseInv, Working, NoStream, SetupRead, Goto, Accepted, eraseVars, writeVars, targetVars
  <1>8. LoopInv'
    BY <1>4, <1>5 DEF LoopInv, Goto, Accepted
  <1>9. CommandInv'
    BY DEF CommandInv, Working, jobVars
  <1>10. BusDiscipline' /\ NoHang'
    BY <1>1, <1>5 DEF BusDiscipline, NoHang, SetupRead, eraseVars, writeVars, targetVars
  <1>11. QED
    BY <1>3, <1>6, <1>7, <1>8, <1>9, <1>10 DEF TypeOK

\* The first packet is loaded and the counts of both sides agree.
LEMMA SendReadPageInv == ControlInv /\ NoHang /\ SendReadPage => ControlInv' /\ NoHang'
  <1> SUFFICES ASSUME ControlInv, NoHang, SendReadPage PROVE ControlInv' /\ NoHang'
    OBVIOUS
  <1> USE DEF ControlInv, SendReadPage
  <1>1. /\ Chunk \in 1..FlashBufferSize /\ Chunk \in Nat \ {0}
        /\ Chunk >= EpBufferSize /\ (Chunk - EpBufferSize) % EpBufferSize = 0
    BY ReadChunkSize DEF TypeOK, HostTypeOK, LoopInv, CommandInv
  <1>2. block * PagesPerChunk \in Nat
    BY <1>1, ProtoAssumption DEF PagesPerChunk, TypeOK, HostTypeOK
  <1>3. targetDevice = "chip" /\ readCount = Chunk /\ writeCount = 0 /\ ~eraseActive
    BY DEF PhaseInv, Working
  <1>4. /\ ProtoTypeOK' /\ Len(inPacket') = EpBufferSize
        /\ readCount' = Chunk - EpBufferSize
        /\ chip'.op \in {"none", "read", "ignored"}
        /\ readCount' = 0 <=> chip'.op = "none"
    BY <1>1, <1>2, <1>3, HandleReadFacts DEF TypeOK
  <1>5. readMode' = "data" /\ readCount' \in Nat
    BY <1>3, <1>4 DEF HandleRead, ProtoTypeOK, ReadTypeOK
  <1>6. inPacket' # <<>>
    BY <1>4, ProtoAssumption
  <1>7. Chunk' = Chunk
    BY SameChunk
  <1>8. HostTypeOK'
    BY <1>1 DEF TypeOK, HostTypeOK, Goto, jobVars, PCs
  <1>9. PhaseInv'
    BY <1>1, <1>3, <1>4, <1>5, <1>6 DEF PhaseInv, Reading, HandleRead, Goto, eraseVars, writeVars, targetVars
  <1>10. LoopInv'
    BY <1>7 DEF LoopInv, Goto
  <1>11. CommandInv'
    BY DEF CommandInv, Working, jobVars
  <1>12. BusDiscipline' /\ NoHang'
    BY <1>3, <1>4, <1>5, <1>6 DEF BusDiscipline, NoHang, HandleRead, eraseVars, targetVars
  <1>13. QED
    BY <1>4, <1>8, <1>9, <1>10, <1>11, <1>12 DEF TypeOK

\* An SFDP read is accepted with the length of the structure.
LEMMA RequestSfdpInv == ControlInv /\ NoHang /\ RequestSfdp => ControlInv' /\ NoHang'
  <1> SUFFICES ASSUME ControlInv, NoHang, RequestSfdp PROVE ControlInv' /\ NoHang'
    OBVIOUS
  <1> USE DEF ControlInv, RequestSfdp
  <1>1. SfdpReads[block + 1] \in Nat \X (1..FlashBufferSize)
    BY HostAssumption DEF LoopInv, TypeOK, HostTypeOK
  <1>2. SfdpReads[block + 1][2] \in 1..FlashBufferSize /\ SfdpReads[block + 1][2] \in Nat
    BY <1>1, ProtoAssumption
  <1>3. ProtoTypeOK' /\ chip'.op = chip.op
    BY <1>2, SetupSFDPReadTypes DEF TypeOK
  <1>4. setupCallback' = "handleSFDPRead" /\ readCount' = SfdpReads[block + 1][2]
    BY <1>2, ProtoAssumption DEF SetupSFDPRead, Requested
  <1>5. HostTypeOK'
    BY <1>4 DEF TypeOK, HostTypeOK, Goto, Accepted, jobVars, PCs
  <1>6. PhaseInv'
    BY <1>4 DEF PhaseInv, Working, NoStream, SetupSFDPRead, Goto, Accepted, eraseVars, writeVars, targetVars
  <1>7. LoopInv'
    BY <1>4 DEF LoopInv, Goto, Accepted
  <1>8. CommandInv'
    BY DEF CommandInv, Working, jobVars
  <1>9. BusDiscipline' /\ NoHang'
    BY <1>2, <1>4 DEF BusDiscipline, NoHang, SetupSFDPRead, eraseVars, writeVars, targetVars
  <1>10. QED
    BY <1>3, <1>5, <1>6, <1>7, <1>8, <1>9 DEF TypeOK

\* Its first packet is loaded, a short one if the structure is.
LEMMA SendSfdpAddressInv == ControlInv /\ NoHang /\ SendSfdpAddress => ControlInv' /\ NoHang'
  <1> SUFFICES ASSUME ControlInv, NoHang, SendSfdpAddress PROVE ControlInv' /\ NoHang'
    OBVIOUS
  <1> USE DEF ControlInv
  <1>1. SfdpReads[block + 1] \in Nat \X (1..FlashBufferSize)
    BY HostAssumption DEF SendSfdpAddress, LoopInv, TypeOK, HostTypeOK
  <1>2. SfdpReads[block + 1][1] \in Nat /\ SfdpReads[block + 1][2] \in 1..FlashBufferSize /\ SfdpReads[block + 1][2] \in Nat
    BY <1>1, ProtoAssumption
  <1>3. targetDevice = "chip" /\ readCount = SfdpReads[block + 1][2] /\ writeCount = 0 /\ ~eraseActive
    BY DEF SendSfdpAddress, PhaseInv, Working
  <1>4. /\ ProtoTypeOK'
        /\ Len(inPacket') = IF readCount < EpBufferSize THEN readCount ELSE EpBufferSize
        /\ readCount' = readCount - Len(inPacket')
        /\ chip'.op \in {"none", "sfdp", "ignored"}
        /\ readCount' = 0 <=> chip'.op = "none"
    BY <1>2, <1>3, HandleSFDPReadFacts DEF SendSfdpAddress, TypeOK
  <1>5. Reading' /\ readMode' = "sfdp"
    <2>1. readMode' = "sfdp" /\ UNCHANGED <<eraseVars, writeVars>>
      BY <1>3 DEF SendSfdpAddress, HandleSFDPRead
    <2>2. readCount' \in Nat
      BY <1>4 DEF ProtoTypeOK, ReadTypeOK
    <2>3. inPacket' # <<>>
      BY <1>2, <1>3, <1>4, ProtoAssumption
    <2>4. QED
      BY <1>3, <1>4, <2>1, <2>2, <2>3 DEF Reading, eraseVars, writeVars
  <1>6. Len(inPacket') = Least(want', EpBufferSize) /\ want' = readCount' + Len(inPacket')
    BY <1>2, <1>3, <1>4, ProtoAssumption DEF SendSfdpAddress, Least
  <1>7. UNCHANGED <<targetVars, eraseVars, writeVars>> /\ ~hung'
    BY <1>3 DEF SendSfdpAddress, HandleSFDPRead
  <1>8. pc = "sfdpData" /\ pc' = "sfdpBulk" /\ UNCHANGED <<jobVars, chipInfo, block, received, currentPage, kills, result>> /\ want' \in Nat
    BY <1>2 DEF SendSfdpAddress, Goto
  <1>9. HostTypeOK'
    BY <1>8 DEF TypeOK, HostTypeOK, jobVars, PCs
  <1>10. PhaseInv'
    BY <1>3, <1>5, <1>6, <1>7, <1>8 DEF PhaseInv, targetVars
  <1>11. LoopInv'
    BY <1>8 DEF LoopInv
  <1>12. CommandInv'
    BY <1>8 DEF CommandInv, Working, jobVars
  <1>13. BusDiscipline' /\ NoHang'
    BY <1>3, <1>4, <1>5, <1>7 DEF BusDiscipline, NoHang, Reading, targetVars
  <1>14. QED
    BY <1>4, <1>9, <1>10, <1>11, <1>12, <1>13 DEF TypeOK

\* A packet taken leaves a whole number of packets, and none with chip select up.
LEMMA ReadBulkInv == ControlInv /\ NoHang /\ ReadBulk => ControlInv' /\ NoHang'
  <1> SUFFICES ASSUME ControlInv, NoHang, ReadBulk PROVE ControlInv' /\ NoHang'
    OBVIOUS
  <1> USE DEF ControlInv
  <1>1. /\ pc = "readBulk" /\ targetDevice = "chip" /\ readMode = "data"
        /\ writeCount = 0 /\ ~eraseActive
        /\ readCount \in Nat /\ (readCount > 0 <=> chip.op # "none")
        /\ Len(inPacket) = EpBufferSize /\ inPacket \in Seq(Byte)
        /\ want = readCount + EpBufferSize /\ readCount % EpBufferSize = 0
    BY DEF ReadBulk, PhaseInv, Working, Reading, TypeOK, ProtoTypeOK, EngineTypeOK, ReadTypeOK
  <1>2. EpBufferSize \in Nat \ {0}
    BY ProtoAssumption
  <1>3. readCount > 0 => readCount >= EpBufferSize /\ (readCount - EpBufferSize) % EpBufferSize = 0
    BY <1>1, PacketsLeft
  <1>4. /\ ProtoTypeOK' /\ ~hung' /\ UNCHANGED <<targetVars, readMode, eraseVars, writeVars>>
        /\ (readCount' = 0 <=> chip'.op = "none")
        /\ chip'.op \in {"none", "read", "ignored", chip.op}
        /\ (readCount = 0 => inPacket' = <<>> /\ readCount' = 0)
        /\ (readCount > 0 => /\ Len(inPacket') = EpBufferSize
                             /\ readCount' = readCount - EpBufferSize)
    <2>1. PerformDataOrSFDPRead /\ ProtoTypeOK
      BY DEF TypeOK, ReadBulk, Receive
    <2>2. QED
      BY <1>1, <2>1, PerformDataOrSFDPReadFacts
  <1>5. readCount' \in Nat /\ (readCount > 0 => inPacket' # <<>>)
    BY <1>2, <1>4 DEF ProtoTypeOK, ReadTypeOK
  <1>6. UNCHANGED <<jobVars, chipInfo, currentPage, kills>>
    BY DEF ReadBulk, Receive
  <1>7. received' \in Seq(Byte)
    BY <1>1 DEF ReadBulk, Receive, TypeOK, HostTypeOK
  <1>8. want' = readCount
    BY <1>1 DEF ReadBulk, Receive
  <1>9. readCount > 0 => pc' = "readBulk" /\ block' = block /\ result' = result
    BY <1>1 DEF ReadBulk, Receive, Goto
  <1>10. readCount = 0 => /\ block' = block + 1
                         /\ \/ pc' = "readReq" /\ result' = result
                            \/ pc' = "release" /\ result' = "ok"
    BY <1>1 DEF ReadBulk, Receive, Goto, Release
  <1>11. Chunk' = Chunk
    BY <1>6, SameChunk
  <1>12. HostTypeOK'
    BY <1>1, <1>6, <1>7, <1>8, <1>9, <1>10 DEF TypeOK, HostTypeOK, jobVars, PCs
  <1>13. PhaseInv'
    <2>1. CASE readCount > 0
      <3>1. Reading' /\ readMode' = "data"
        BY <1>1, <1>4, <1>5, <2>1 DEF Reading, eraseVars, writeVars
      <3>2. /\ pc' = "readBulk" /\ targetDevice' = "chip" /\ Len(inPacket') = EpBufferSize
            /\ want' = readCount' + EpBufferSize /\ readCount' % EpBufferSize = 0
        BY <1>1, <1>3, <1>4, <1>8, <1>9, <2>1 DEF targetVars
      <3>3. QED
        BY <3>1, <3>2 DEF PhaseInv
    <2>2. CASE readCount = 0
      <3>1. NoStream' /\ ~eraseActive' /\ targetDevice' = "chip"
        BY <1>1, <1>4, <2>2 DEF NoStream, targetVars, eraseVars, writeVars
      <3>2. QED
        BY <3>1, <1>10, <2>2 DEF PhaseInv
    <2>3. QED
      BY <1>1, <2>1, <2>2
  <1>14. LoopInv'
    BY <1>1, <1>6, <1>9, <1>10, <1>11 DEF LoopInv
  <1>15. CommandInv'
    BY <1>1, <1>6 DEF CommandInv, Working, jobVars
  <1>16. BusDiscipline' /\ NoHang'
    BY <1>1, <1>4, <1>5 DEF BusDiscipline, NoHang, eraseVars, targetVars
  <1>17. QED
    BY <1>4, <1>12, <1>13, <1>14, <1>15, <1>16 DEF TypeOK

\* The last packet of a structure is as short as what is left of it.
LEMMA SfdpBulkInv == ControlInv /\ NoHang /\ SfdpBulk => ControlInv' /\ NoHang'
  <1> SUFFICES ASSUME ControlInv, NoHang, SfdpBulk PROVE ControlInv' /\ NoHang'
    OBVIOUS
  <1> USE DEF ControlInv
  <1>1. /\ pc = "sfdpBulk" /\ targetDevice = "chip" /\ readMode = "sfdp"
        /\ writeCount = 0 /\ ~eraseActive
        /\ readCount \in Nat /\ (readCount > 0 <=> chip.op # "none")
        /\ Len(inPacket) = Least(want, EpBufferSize) /\ inPacket \in Seq(Byte)
        /\ want = readCount + Len(inPacket) /\ want \in Nat /\ block < Len(SfdpReads)
    BY DEF SfdpBulk, PhaseInv, LoopInv, Working, Reading, TypeOK, ProtoTypeOK, EngineTypeOK, ReadTypeOK
  <1>2. EpBufferSize \in Nat \ {0}
    BY ProtoAssumption
  <1>3. Len(inPacket) < EpBufferSize => readCount = 0
    BY <1>1, <1>2 DEF Least
  <1>4. /\ ProtoTypeOK' /\ ~hung' /\ UNCHANGED <<targetVars, readMode, eraseVars, writeVars>>
        /\ (readCount' = 0 <=> chip'.op = "none")
        /\ chip'.op \in {"none", "read", "ignored", chip.op}
        /\ (readCount = 0 => inPacket' = <<>> /\ readCount' = 0)
        /\ (readCount > 0 => /\ Len(inPacket') = IF readCount < EpBufferSize THEN readCount ELSE EpBufferSize
                             /\ readCount' = readCount - Len(inPacket'))
    <2>1. PerformDataOrSFDPRead /\ ProtoTypeOK
      BY DEF TypeOK, SfdpBulk, Receive
    <2>2. QED
      BY <1>1, <2>1, PerformDataOrSFDPReadFacts
  <1>5. readCount' \in Nat /\ inPacket' \in Seq(Byte)
        /\ (readCount > 0 => inPacket' # <<>>)
    BY <1>1, <1>2, <1>4 DEF ProtoTypeOK, EngineTypeOK
  <1>6. UNCHANGED <<jobVars, chipInfo, currentPage, kills>>
    BY DEF SfdpBulk, Receive
  <1>7. received' \in Seq(Byte)
    BY <1>1 DEF SfdpBulk, Receive, TypeOK, HostTypeOK
  <1>8. want' = readCount
    BY <1>1, <1>3 DEF SfdpBulk, Receive
  <1>9. readCount > 0 => pc' = "sfdpBulk" /\ block' = block /\ result' = result
    BY <1>1, <1>3 DEF SfdpBulk, Receive, Goto
  <1>10. readCount = 0 => /\ block' = block + 1
                         /\ \/ pc' = "sfdpReq" /\ result' = result /\ block' < Len(SfdpReads)
                            \/ pc' = "release" /\ result' = "ok"
    BY <1>1 DEF SfdpBulk, Receive, Goto, Release
  <1>11. HostTypeOK'
    <2>1. pc' \in PCs /\ result' \in {"none", "ok", "fail"} /\ block' \in Nat
      BY <1>1, <1>9, <1>10 DEF TypeOK, HostTypeOK, PCs
    <2>2. QED
      BY <1>1, <1>6, <1>7, <1>8, <2>1 DEF TypeOK, HostTypeOK, jobVars
  <1>12. PhaseInv'
    <2>1. CASE readCount > 0
      <3>1. Reading' /\ readMode' = "sfdp"
        BY <1>1, <1>4, <1>5, <2>1 DEF Reading, eraseVars, writeVars
      <3>2. /\ pc' = "sfdpBulk" /\ targetDevice' = "chip"
            /\ Len(inPacket') = Least(want', EpBufferSize) /\ want' = readCount' + Len(inPacket')
        BY <1>1, <1>4, <1>8, <1>9, <2>1 DEF targetVars, Least
      <3>3. QED
        BY <3>1, <3>2 DEF PhaseInv
    <2>2. CASE readCount = 0
      <3>1. NoStream' /\ ~eraseActive' /\ targetDevice' = "chip"
        BY <1>1, <1>4, <2>2 DEF NoStream, targetVars, eraseVars, writeVars
      <3>2. QED
        BY <3>1, <1>10, <2>2 DEF PhaseInv
    <2>3. QED
      BY <1>1, <2>1, <2>2
  <1>13. LoopInv'
    BY <1>1, <1>9, <1>10 DEF LoopInv
  <1>14. CommandInv'
    BY <1>1, <1>6 DEF CommandInv, Working, jobVars
  <1>15. BusDiscipline' /\ NoHang'
    BY <1>1, <1>4, <1>5 DEF BusDiscipline, NoHang, eraseVars, targetVars
  <1>16. QED
    BY <1>4, <1>11, <1>12, <1>13, <1>14, <1>15 DEF TypeOK

\* A write is accepted with the length of the block.
LEMMA RequestWriteInv == ControlInv /\ NoHang /\ RequestWrite => ControlInv' /\ NoHang'
  <1> SUFFICES ASSUME ControlInv, NoHang, RequestWrite PROVE ControlInv' /\ NoHang'
    OBVIOUS
  <1> USE DEF ControlInv
  <1>1. ByteCount \in 1..Chunk /\ ByteCount \in Nat
    BY ByteCountRange, ChunkSize DEF RequestWrite, TypeOK, HostTypeOK, LoopInv
  <1>2. Verified \in BOOLEAN
    BY DEF Verified
  <1>3. ProtoTypeOK' /\ chip'.op = chip.op
    BY <1>1, <1>2, SetupWriteTypes DEF RequestWrite, TypeOK
  <1>4. UNCHANGED <<jobVars, chipInfo, block, want, received, currentPage, kills>> /\ pc = "writeReq"
    BY DEF RequestWrite
  <1>5. /\ UNCHANGED <<targetVars, readVars, eraseVars, inPacket, chip, hung>>
        /\ \/ setupCallback' = "handleWrite" /\ writeCount' = ByteCount
           \/ setupCallback' = "none" /\ writeCount' = writeCount
    BY <1>1, ProtoAssumption DEF RequestWrite, SetupWrite, Requested
  <1>6. \/ pc' = "writeData" /\ result' = result /\ writeCount' = ByteCount
        \/ pc' = "done" /\ result' = "fail" /\ writeCount' = writeCount
    BY <1>5 DEF RequestWrite, Accepted, Goto, Fail
  <1>7. Chunk' = Chunk /\ ByteCount' = ByteCount
    BY <1>4, SameChunk, SameByteCount DEF jobVars
  <1>8. HostTypeOK'
    BY <1>4, <1>6 DEF TypeOK, HostTypeOK, jobVars, PCs
  <1>9. PhaseInv'
    BY <1>4, <1>5, <1>6, <1>7 DEF PhaseInv, Working, NoStream, readVars, eraseVars, targetVars
  <1>10. LoopInv'
    BY <1>4, <1>6, <1>7 DEF LoopInv, Writing, jobVars
  <1>11. CommandInv'
    BY <1>4 DEF CommandInv, Working, jobVars
  <1>12. BusDiscipline' /\ NoHang'
    BY <1>1, <1>5 DEF BusDiscipline, NoHang, readVars, eraseVars, targetVars
  <1>13. QED
    BY <1>3, <1>8, <1>9, <1>10, <1>11, <1>12 DEF TypeOK

\* The page program is open and both sides count the same bytes.
LEMMA SendWritePageInv == ControlInv /\ NoHang /\ SendWritePage => ControlInv' /\ NoHang'
  <1> SUFFICES ASSUME ControlInv, NoHang, SendWritePage PROVE ControlInv' /\ NoHang'
    OBVIOUS
  <1> USE DEF ControlInv
  <1>1. ByteCount \in 1..Chunk /\ ByteCount \in Nat
    BY ByteCountRange DEF SendWritePage, TypeOK, HostTypeOK, LoopInv
  <1>2. block * PagesPerChunk \in Nat
    BY ChunkSize, ProtoAssumption DEF PagesPerChunk, TypeOK, HostTypeOK
  <1>3. pc = "writeData" /\ targetDevice = "chip" /\ writeCount = ByteCount /\ inPacket = <<>> /\ readCount = 0 /\ ~eraseActive
    BY DEF SendWritePage, PhaseInv, Working
  <1>4. /\ ProtoTypeOK' /\ ~hung'
        /\ UNCHANGED <<targetVars, readVars, eraseVars, writeCount, writeTotal, verifyWrite, status, inPacket>>
        /\ chip'.op \in {"program", "skewed", "ignored"}
    BY <1>2, <1>3, HandleWriteFacts DEF SendWritePage, TypeOK
  <1>5. UNCHANGED <<jobVars, chipInfo, block, received, currentPage, kills, result>> /\ want' = ByteCount /\ pc' = "writeBulk"
    BY DEF SendWritePage, Goto
  <1>6. Chunk' = Chunk /\ ByteCount' = ByteCount
    BY <1>5, SameChunk, SameByteCount DEF jobVars
  <1>7. HostTypeOK'
    BY <1>1, <1>5 DEF TypeOK, HostTypeOK, jobVars, PCs
  <1>8. PhaseInv'
    BY <1>1, <1>3, <1>4, <1>5, <1>6 DEF PhaseInv, readVars, eraseVars, targetVars
  <1>9. LoopInv'
    BY <1>3, <1>5, <1>6 DEF LoopInv, Writing, jobVars
  <1>10. CommandInv'
    BY <1>3, <1>5 DEF CommandInv, Working, jobVars
  <1>11. BusDiscipline' /\ NoHang'
    BY <1>1, <1>3, <1>4 DEF BusDiscipline, NoHang, eraseVars, targetVars
  <1>12. QED
    BY <1>4, <1>7, <1>8, <1>9, <1>10, <1>11 DEF TypeOK

\* A packet sent leaves a page open exactly when bytes are still to come.
LEMMA WriteBulkInv == ControlInv /\ NoHang /\ WriteBulk => ControlInv' /\ NoHang'
  <1> SUFFICES ASSUME ControlInv, NoHang, WriteBulk PROVE ControlInv' /\ NoHang'
    OBVIOUS
  <1> USE DEF ControlInv
  <1>1. ByteCount \in 1..Chunk /\ ByteCount \in Nat
    BY ByteCountRange DEF WriteBulk, TypeOK, HostTypeOK, LoopInv
  <1>2. /\ pc = "writeBulk" /\ targetDevice = "chip" /\ writeCount = want /\ want \in 1..ByteCount
        /\ want \in Nat /\ want > 0
        /\ inPacket = <<>> /\ readCount = 0 /\ ~eraseActive /\ chip.op # "none"
    BY DEF WriteBulk, PhaseInv, Working
  <1>3. \E packet \in Seq(Byte) :
            /\ Len(packet) \in 1..want /\ PerformWrite(packet) /\ want' = want - Len(packet)
    <2> DEFINE n == Least(want, EpBufferSize)
               offset == block * Chunk + ByteCount - want
               packet == [i \in 1..n |-> FileByte(offset + i - 1)]
    <2>1. n \in 1..want
      BY <1>2, ProtoAssumption DEF Least
    <2>2. ASSUME NEW i
          PROVE  FileByte(i) \in Byte
      BY ChipAssumption, HostAssumption DEF FileByte
    <2>3. packet \in Seq(Byte) /\ Len(packet) = n
      BY <1>2, <2>1, <2>2
    <2>4. PerformWrite(packet) /\ want' = want - Len(packet)
      BY DEF WriteBulk
    <2>5. QED
      BY <2>1, <2>3, <2>4
  <1>4. /\ ProtoTypeOK' /\ ~hung'
        /\ UNCHANGED <<targetVars, readVars, eraseVars, inPacket>>
        /\ writeCount' = want' /\ want' \in 0..want - 1
        /\ (writeCount' = 0 <=> chip'.op = "none")
        /\ chip'.op \in {"none", "program", "skewed", "ignored", chip.op}
    BY <1>2, <1>3, PerformWriteFacts DEF TypeOK
  <1>5. UNCHANGED <<jobVars, chipInfo, received, currentPage, kills>>
    BY DEF WriteBulk
  <1>6. \/ want' > 0 /\ pc' = "writeBulk" /\ UNCHANGED <<block, result>>
        \/ want' = 0 /\ pc' = "verifyPoll" /\ UNCHANGED <<block, result>>
        \/ /\ want' = 0 /\ block' = block + 1
           /\ \/ pc' = "writeReq" /\ UNCHANGED result /\ block + 1 < WriteBlocks
              \/ pc' = "release" /\ result' = "ok"
    BY DEF WriteBulk, NextBlock, Goto, Release
  <1>7. Chunk' = Chunk /\ (block' = block => ByteCount' = ByteCount)
    BY <1>5, SameChunk, SameByteCount DEF jobVars
  <1>8. block + 1 < WriteBlocks => (block + 1) * Chunk < fileLength
    BY NextBlockInside DEF TypeOK, HostTypeOK
  <1>9. HostTypeOK'
    BY <1>4, <1>5, <1>6 DEF TypeOK, HostTypeOK, jobVars, PCs
  <1>10. PhaseInv'
    BY <1>1, <1>2, <1>4, <1>6, <1>7 DEF PhaseInv, NoStream, readVars, eraseVars, targetVars
  <1>11. LoopInv'
    BY <1>2, <1>5, <1>6, <1>7, <1>8 DEF LoopInv, Writing, jobVars
  <1>12. CommandInv'
    BY <1>2, <1>5 DEF CommandInv, Working, jobVars
  <1>13. BusDiscipline' /\ NoHang'
    BY <1>2, <1>4 DEF BusDiscipline, NoHang, eraseVars, targetVars
  <1>14. QED
    BY <1>4, <1>9, <1>10, <1>11, <1>12, <1>13 DEF TypeOK

\* The answer to a verify finds the engine idle.
LEMMA VerifyPagesInv == ControlInv /\ NoHang /\ VerifyPages => ControlInv' /\ NoHang'
  <1> SUFFICES ASSUME ControlInv, NoHang, VerifyPages PROVE ControlInv' /\ NoHang'
    OBVIOUS
  <1> USE DEF ControlInv
  <1>1. ProtoTypeOK' /\ chip'.op = chip.op
    BY FetchStatusTypes DEF VerifyPages, TypeOK
  <1>2. /\ pc = "verifyPoll" /\ ~hung'
        /\ UNCHANGED <<targetVars, readVars, eraseActive, beginPage, endPage, writeVars, inPacket, chip>>
    BY DEF VerifyPages, FetchStatus, PhaseInv, Working
  <1>3. UNCHANGED <<jobVars, chipInfo, want, received, currentPage, kills>>
    BY DEF VerifyPages
  <1>4. \/ pc' = "done" /\ result' = "fail" /\ UNCHANGED block
        \/ /\ block' = block + 1
           /\ \/ pc' = "writeReq" /\ UNCHANGED result /\ block + 1 < WriteBlocks
              \/ pc' = "release" /\ result' = "ok"
    BY DEF VerifyPages, NextBlock, Goto, Release, Fail
  <1>5. Chunk' = Chunk
    BY <1>3, SameChunk
  <1>6. block + 1 < WriteBlocks => (block + 1) * Chunk < fileLength
    BY NextBlockInside DEF TypeOK, HostTypeOK
  <1>7. HostTypeOK'
    BY <1>3, <1>4 DEF TypeOK, HostTypeOK, jobVars, PCs
  <1>8. PhaseInv'
    BY <1>2, <1>4 DEF PhaseInv, Working, NoStream, readVars, writeVars, targetVars
  <1>9. LoopInv'
    BY <1>2, <1>3, <1>4, <1>5, <1>6 DEF LoopInv, Writing, jobVars
  <1>10. CommandInv'
    BY <1>2, <1>3 DEF CommandInv, Working, jobVars
  <1>11. BusDiscipline' /\ NoHang'
    BY <1>2 DEF BusDiscipline, NoHang, readVars, writeVars, targetVars
  <1>12. QED
    BY <1>1, <1>7, <1>8, <1>9, <1>10, <1>11 DEF TypeOK

(* Commands that start and end *******************************************)
\* A command starts in whatever state the last one left, and relies on none of it.
LEMMA StartInv ==
    ASSUME NEW cmd \in Commands, NEW isValid \in BOOLEAN, NEW length \in FileLengths \cup {0},
           ControlInv, NoHang, Start(cmd, isValid, length)
    PROVE  ControlInv' /\ NoHang'
  <1> USE DEF ControlInv, Start
  <1>1. length \in Nat /\ cmd # "none"
    <2>1. FileLengths \subseteq Nat /\ "none" \notin Commands
      BY HostAssumption
    <2>2. QED
      BY <2>1
  <1>2. pc' \in {"count", "abort", "info"} /\ (cmd = "listDevices" <=> pc' = "count")
    BY HostAssumption
  <1>3. ProtoTypeOK'
    BY SameTarget, SameRead, SameErase, SameWrite DEF protoVars, TypeOK, ProtoTypeOK, EngineTypeOK
  <1>4. HostTypeOK'
    BY <1>1 DEF TypeOK, HostTypeOK, PCs
  <1>5. PhaseInv'
    BY <1>2 DEF PhaseInv, Working
  <1>6. LoopInv' /\ CommandInv'
    BY <1>1 DEF LoopInv, CommandInv, Working
  <1>7. BusDiscipline' /\ NoHang'
    BY DEF BusDiscipline, NoHang, protoVars, targetVars, readVars, eraseVars, writeVars
  <1>8. QED
    BY <1>3, <1>4, <1>5, <1>6, <1>7 DEF TypeOK

\* What a killed command leaves in the engine is within ControlInv: the next
\* one starts from there.
LEMMA ForgetInv ==
    ASSUME ControlInv, NoHang, Forget, kills' \in 0..MaxKills
    PROVE  ControlInv' /\ NoHang'
  <1> USE DEF ControlInv, Forget
  <1>1. ProtoTypeOK'
    BY SameTarget, SameRead, SameErase, SameWrite DEF protoVars, TypeOK, ProtoTypeOK, EngineTypeOK
  <1>2. HostTypeOK'
    <2>1. chipInfo' \in Info /\ pc' \in PCs
      BY DEF NoInfo, Info, PCs
    <2>2. quiet' \in BOOLEAN /\ valid' \in BOOLEAN
      OBVIOUS
    <2>3. QED
      BY <2>1, <2>2 DEF HostTypeOK
  <1>3. PhaseInv' /\ LoopInv' /\ CommandInv'
    BY DEF PhaseInv, LoopInv, CommandInv, Working, NoInfo
  <1>4. BusDiscipline' /\ NoHang'
    BY DEF BusDiscipline, NoHang, protoVars, targetVars, readVars, eraseVars, writeVars
  <1>5. QED
    BY <1>1, <1>2, <1>3, <1>4 DEF TypeOK

(* The chip and the start of frame interrupt *****************************)
\* The chip ends an operation by itself, at any point of the host's program.
LEMMA ChipFinishesInv == ControlInv /\ NoHang /\ ChipFinishes => ControlInv' /\ NoHang'
  <1> SUFFICES ASSUME ControlInv, NoHang, ChipFinishes PROVE ControlInv' /\ NoHang'
    OBVIOUS
  <1> USE DEF ControlInv
  <1>1. /\ UNCHANGED <<targetVars, readVars, eraseVars, writeVars, status, setupCallback, inPacket,
                       hung, hostVars>>
        /\ chip' = Finish(chip)
    BY DEF ChipFinishes
  <1>2. chip' \in Chip /\ chip'.op = chip.op
    BY <1>1, FinishChip DEF TypeOK, ProtoTypeOK, EngineTypeOK
  <1>3. ProtoTypeOK'
    BY <1>1, <1>2, SameTarget, SameRead, SameErase, SameWrite DEF TypeOK, ProtoTypeOK, EngineTypeOK
  <1>4. QED
    BY <1>1, <1>2, <1>3, SameEngineControl DEF eraseVars

\* tick only runs while an erase is polled, or for a killed command, with its
\* chip still targeted and no transaction open.
LEMMA StartOfFrameInv == ControlInv /\ NoHang /\ StartOfFrame => ControlInv' /\ NoHang'
  <1> SUFFICES ASSUME ControlInv, NoHang, StartOfFrame PROVE ControlInv' /\ NoHang'
    OBVIOUS
  <1> USE DEF ControlInv
  <1>1. ProtoTypeOK' /\ chip'.op = chip.op
    BY TickTypes DEF StartOfFrame, TypeOK
  <1>2. UNCHANGED <<hostVars, targetVars, readVars, eraseOperation, writeVars, inPacket, hung>>
        /\ (eraseActive' => eraseActive)
    BY DEF StartOfFrame, Tick, BusDiscipline
  <1>3. QED
    BY <1>1, <1>2, SameEngineControl

(* The theorems **********************************************************)
\* At power up the engine is idle.
LEMMA InitInv == Init => ControlInv /\ NoHang
  <1> SUFFICES ASSUME Init PROVE ControlInv /\ NoHang
    OBVIOUS
  <1> USE DEF Init, HostInit
  <1>1. PICK contents \in Contents : ProtoInit(contents)
    OBVIOUS
  <1>2. contents \in [Addr -> Byte]
    BY HostAssumption
  <1>3. PowerOn(contents) \in Chip /\ PowerOn(contents).op = "none"
    BY <1>2, ChipAssumption DEF PowerOn, Chip, Blank, Ops
  <1>4. EngineTypeOK
    <2>1. status \in Status
      BY DEF ProtoInit, NoStatus, Status
    <2>2. inPacket \in Seq(Byte)
      BY <1>1 DEF ProtoInit
    <2>3. hung \in BOOLEAN
      BY <1>1 DEF ProtoInit
    <2>4. setupCallback = "none" /\ chip \in Chip
      BY <1>1, <1>3 DEF ProtoInit
    <2>5. QED
      BY <2>1, <2>2, <2>3, <2>4 DEF EngineTypeOK
  <1>5. TargetTypeOK /\ ReadTypeOK /\ EraseTypeOK /\ WriteTypeOK
    <2>1. TargetTypeOK /\ EraseTypeOK
      BY <1>1 DEF ProtoInit, TargetTypeOK, EraseTypeOK, EraseOps
    <2>2. ReadTypeOK
      BY Zeros DEF ProtoInit, ReadTypeOK
    <2>3. verifyWrite \in BOOLEAN
      BY <1>1 DEF ProtoInit
    <2>4. WriteTypeOK
      BY <2>3, Zeros DEF ProtoInit, WriteTypeOK
    <2>5. QED
      BY <2>1, <2>2, <2>4
  <1>6. HostTypeOK
    <2>1. chipInfo \in Info /\ pc \in PCs
      BY DEF NoInfo, Info, PCs
    <2>2. quiet \in BOOLEAN /\ valid \in BOOLEAN
      OBVIOUS
    <2>3. MaxKills \in Nat
      BY HostAssumption
    <2>4. QED
      BY <2>1, <2>2, <2>3 DEF HostTypeOK
  <1>7. PhaseInv /\ LoopInv /\ CommandInv
    BY DEF PhaseInv, LoopInv, CommandInv, Working, NoInfo
  <1>8. BusDiscipline /\ NoHang
    BY <1>1, <1>3 DEF ProtoInit, BusDiscipline, NoHang
  <1>9. QED
    BY <1>4, <1>5, <1>6, <1>7, <1>8 DEF ControlInv, TypeOK, ProtoTypeOK

\* Every step of the programmer keeps the control invariant.
LEMMA NextInv == ControlInv /\ NoHang /\ [Next]_vars => ControlInv' /\ NoHang'
  <1> SUFFICES ASSUME ControlInv, NoHang, [Next]_vars PROVE ControlInv' /\ NoHang'
    OBVIOUS
  <1>1. CASE User
    <2>1. ASSUME NEW cmd \in Commands, NEW isValid \in BOOLEAN, NEW length \in FileLengths \cup {0},
                 Start(cmd, isValid, length)
          PROVE  ControlInv' /\ NoHang'
      BY <2>1, StartInv
    <2>2. CASE Kill
      <3>1. kills' \in 0..MaxKills
        BY <2>2, HostAssumption DEF Kill, ControlInv, TypeOK, HostTypeOK
      <3>2. QED
        BY <2>2, <3>1, ForgetInv DEF Kill
    <2>3. QED
      BY <1>1, <2>1, <2>2 DEF User
  <1>2. CASE Transfer
    <2>1. CASE RequestCount \/ ListDevice
      BY <2>1, RequestCountInv, ListDeviceInv
    <2>2. CASE ReadChipInfo \/ Abort \/ TargetDevice \/ TargetRefused \/ Deselected
      BY <2>2, ReadChipInfoInv, AbortInv, TargetDeviceInv, TargetRefusedInv, DeselectedInv
    <2>3. CASE RequestErase \/ SendEraseConfig \/ PollErase
      BY <2>3, RequestEraseInv, SendEraseConfigInv, PollEraseInv
    <2>4. CASE RequestRead \/ SendReadPage \/ ReadBulk
      BY <2>4, RequestReadInv, SendReadPageInv, ReadBulkInv
    <2>5. CASE RequestSfdp \/ SendSfdpAddress \/ SfdpBulk
      BY <2>5, RequestSfdpInv, SendSfdpAddressInv, SfdpBulkInv
    <2>6. CASE RequestWrite \/ SendWritePage \/ WriteBulk \/ VerifyPages
      BY <2>6, RequestWriteInv, SendWritePageInv, WriteBulkInv, VerifyPagesInv
    <2>7. CASE Exit
      <3>1. kills' \in 0..MaxKills
        BY <2>7 DEF Exit, ControlInv, TypeOK, HostTypeOK
      <3>2. QED
        BY <2>7, <3>1, ForgetInv DEF Exit
    <2>8. QED
      BY <1>2, <2>1, <2>2, <2>3, <2>4, <2>5, <2>6, <2>7 DEF Transfer
  <1>3. CASE ChipFinishes \/ StartOfFrame
    BY <1>3, ChipFinishesInv, StartOfFrameInv
  <1>4. CASE UNCHANGED vars
    <2>1. UNCHANGED <<protoVars, hostVars>>
      BY <1>4 DEF vars
    <2>2. UNCHANGED <<targetVars, readVars, eraseVars, writeVars, status, setupCallback, inPacket,
                      chip, hung, hostVars>>
      BY <2>1 DEF protoVars
    <2>3. ProtoTypeOK'
      BY <2>2, SameTarget, SameRead, SameErase, SameWrite DEF ControlInv, TypeOK, ProtoTypeOK, EngineTypeOK
    <2>4. QED
      BY <2>2, <2>3, SameEngineControl DEF eraseVars
  <1>5. QED
    BY <1>1, <1>2, <1>3, <1>4 DEF Next

\* The control invariant, for every value of the constants: the place the host
\* has reached in its program fixes what the engine is doing, and the counters
\* of host and firmware agree (flashprog.cxx with flashProto.cxx).
THEOREM ControlInvariant == Spec => [](ControlInv /\ NoHang)
  <1>1. Init => ControlInv /\ NoHang
    BY InitInv
  <1>2. ControlInv /\ NoHang /\ [Next]_vars => (ControlInv /\ NoHang)'
    BY NextInv
  <1>3. QED
    BY <1>1, <1>2, PTL DEF Spec

\* Every variable of chip, firmware and host keeps its type: in particular no
\* counter of a transfer wraps (readCount is a uint16_t).
THEOREM TypeCorrect == Spec => []TypeOK
  <1>1. ControlInv => TypeOK
    BY DEF ControlInv
  <1>2. QED
    BY <1>1, ControlInvariant, PTL

\* The firmware never dereferences the SPI device of "no chip": performRead,
\* performWrite, isBusy and tick do not check it.
THEOREM NeverHangs == Spec => []NoHang
  BY ControlInvariant, PTL

\* Chip select is only held down for a transfer that is under way, and tick
\* never addresses the chip inside one, even after the host was killed.
THEOREM BusIsDisciplined == Spec => []BusDiscipline
  <1>1. ControlInv => BusDiscipline
    BY DEF ControlInv
  <1>2. QED
    BY <1>1, ControlInvariant, PTL

\* Whatever a killed command left behind, the next one finds the engine idle
\* when it targets its chip and before each transfer it requests.
THEOREM StartsClean == Spec => []CleanStart
  <1>1. ControlInv => CleanStart
    BY DEF ControlInv, PhaseInv, NoStream, CleanStart
  <1>2. QED
    BY <1>1, ControlInvariant, PTL
=============================================================================
