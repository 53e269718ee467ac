-------------------------- MODULE FlashProtoProofs --------------------------
(***************************************************************************)
(* What each handler of the firmware keeps and what it leaves in the       *)
(* engine, whatever state it is called in.  The proofs about the whole     *)
(* programmer cite these lemmas; they expand a handler only for what it    *)
(* leaves unchanged.                                                       *)
(***************************************************************************)
EXTENDS FlashProto, FlashChipProofs

HIDE DEF Chip

\* The counts start in range.
LEMMA Zeros == 0 \in 0..CountModulus - 1 /\ 0 \in 0..FlashBufferSize
  BY ProtoAssumption

(* The parts a handler leaves alone **************************************)
\* A handler that leaves the target alone keeps its type.
LEMMA SameTarget == TargetTypeOK /\ UNCHANGED targetVars => TargetTypeOK'
  BY DEF TargetTypeOK, targetVars

\* A handler that leaves the read state alone keeps its type.
LEMMA SameRead == ReadTypeOK /\ UNCHANGED readVars => ReadTypeOK'
  BY DEF ReadTypeOK, readVars

\* The same of the erase state.
LEMMA SameErase == EraseTypeOK /\ UNCHANGED eraseVars => EraseTypeOK'
  BY DEF EraseTypeOK, eraseVars

\* The same of the write state.
LEMMA SameWrite == WriteTypeOK /\ UNCHANGED writeVars => WriteTypeOK'
  BY DEF WriteTypeOK, writeVars

(* What the operators of the engine make of the chip *********************)
\* Identification lifts chip select.
LEMMA IdentDeviceChip ==
    ASSUME NEW c \in Chip
    PROVE  IdentDevice(c) \in Chip /\ IdentDevice(c).op = "none"
  <1>1. <<Corrupt>> \in Seq(Byte)
    BY ChipAssumption
  <1>2. Latch(c, <<Corrupt>>) \in Chip
    BY <1>1, LatchChip
  <1>3. QED
    BY <1>2, DeselectChip DEF IdentDevice

\* Clearing a W25N's protection opens no transaction.
LEMMA PrepareW25NChip ==
    ASSUME NEW c \in Chip
    PROVE  PrepareW25N(c) \in Chip /\ PrepareW25N(c).op = c.op
  BY DEF PrepareW25N, Chip

\* Nor does restoring its configuration.
LEMMA RestoreW25NChip ==
    ASSUME NEW c \in Chip
    PROVE  RestoreW25N(c) \in Chip /\ RestoreW25N(c).op = c.op
  BY DEF RestoreW25N, Chip, Finish

\* Nor does the erase tick sends.
LEMMA ErasePageChip ==
    ASSUME NEW c \in Chip, NEW page \in Nat
    PROVE  ErasePage(c, page) \in Chip /\ ErasePage(c, page).op = c.op
  BY WriteEnableChip, EraseAroundChip DEF ErasePage

\* A read that begins holds chip select down.
LEMMA BeginPageReadChip ==
    ASSUME NEW c \in Chip, NEW page \in Nat
    PROVE  /\ BeginPageRead(c, page) \in Chip
           /\ BeginPageRead(c, page).op \in {"read", "ignored"}
  <1>1. page * FlashPageSize \in Nat
    BY ProtoAssumption
  <1>2. Finish(LoadPage(c, page)) \in Chip
    BY LoadPageChip, FinishChip
  <1>3. QED
    BY <1>1, <1>2, OpenChip DEF BeginPageRead, OpenRead, Ops

\* So does a page program that is addressed.
LEMMA WriteAddressChip ==
    ASSUME NEW c \in Chip, NEW page \in Nat
    PROVE  /\ WriteAddress(c, page) \in Chip
           /\ WriteAddress(c, page).op \in {"program", "skewed", "ignored"}
  <1>1. page * FlashPageSize \in Nat
    BY ProtoAssumption
  <1>2. WriteEnable(c) \in Chip
    BY WriteEnableChip
  <1>3. QED
    BY <1>1, <1>2, OpenLoadChip, OpenProgramChip DEF WriteAddress

\* The end of a page lifts chip select.
LEMMA FinishPageChip ==
    ASSUME NEW c \in Chip, NEW page
    PROVE  FinishPage(c, page) \in Chip /\ FinishPage(c, page).op = "none"
  <1>1. Deselect(c) \in Chip /\ Deselect(c).op = "none"
    BY DeselectChip
  <1>2. ExecuteProgram(Deselect(c), page) \in Chip /\ ExecuteProgram(Deselect(c), page).op = "none"
    BY <1>1, ExecuteProgramChip
  <1>3. QED
    BY <1>1, <1>2, FinishChip DEF FinishPage

\* What the engine makes of the chip keeps its settings.
LEMMA EngineSettings ==
    ASSUME NEW c \in Chip, NEW page \in Nat
    PROVE  /\ SameSettings(IdentDevice(c), c)
           /\ SameSettings(BeginPageRead(c, page), c)
           /\ SameSettings(WriteAddress(c, page), c)
           /\ SameSettings(FinishPage(c, page), c)
           /\ SameSettings(ErasePage(c, page), c)
  <1>1. SameSettings(IdentDevice(c), c)
    <2>1. <<Corrupt>> \in Seq(Byte)
      BY ChipAssumption
    <2>2. Latch(c, <<Corrupt>>) \in Chip
      BY <2>1, LatchChip
    <2>3. SameSettings(Latch(c, <<Corrupt>>), c)
      BY KeepsSettings
    <2>4. QED
      BY <2>2, <2>3, KeepsSettings DEF SameSettings, IdentDevice
  <1>2. SameSettings(BeginPageRead(c, page), c)
    <2>1. LoadPage(c, page) \in Chip /\ Finish(LoadPage(c, page)) \in Chip
      BY LoadPageChip, FinishChip
    <2>2. SameSettings(Finish(LoadPage(c, page)), c)
      BY <2>1, KeepsSettings DEF SameSettings
    <2>3. CASE Paged
      BY <2>1, <2>2, <2>3, KeepsSettings DEF SameSettings, BeginPageRead, OpenRead
    <2>4. CASE ~Paged
      BY <2>4, KeepsSettings DEF BeginPageRead, OpenRead
    <2>5. QED
      BY <2>3, <2>4
  <1>3. WriteEnable(c) \in Chip /\ SameSettings(WriteEnable(c), c)
    BY WriteEnableChip, KeepsSettings
  <1>4. SameSettings(WriteAddress(c, page), c)
    BY <1>3, KeepsSettings DEF SameSettings, WriteAddress
  <1>5. SameSettings(FinishPage(c, page), c)
    <2>1. /\ Deselect(c) \in Chip /\ ExecuteProgram(Deselect(c), page) \in Chip
      BY DeselectChip, ExecuteProgramChip
    <2>2. QED
      BY <2>1, KeepsSettings DEF SameSettings, FinishPage
  <1>6. SameSettings(ErasePage(c, page), c)
    BY <1>3, KeepsSettings DEF SameSettings, ErasePage
  <1>7. QED
    BY <1>1, <1>2, <1>4, <1>5, <1>6

\* A packet of a read: it is loaded full, and the transaction closes exactly
\* when no bytes are left.
LEMMA PerformReadFacts ==
    ASSUME NEW c \in Chip, c.op # "none", NEW page \in Nat, NEW count \in 0..CountModulus - 1,
           PerformRead(c, page, count)
    PROVE  /\ inPacket' \in Seq(Byte) /\ Len(inPacket') = EpBufferSize
           /\ readCount' \in 0..CountModulus - 1 /\ readPage' \in Nat
           /\ count >= EpBufferSize => readCount' = count - EpBufferSize
           /\ chip' \in Chip /\ chip'.op \in {"none", "read", "ignored", c.op}
           /\ readCount' = 0 <=> chip'.op = "none"
           /\ SameSettings(chip', c)
  <1> DEFINE left == IF count >= EpBufferSize THEN count - EpBufferSize
                     ELSE CountModulus + count - EpBufferSize
             rest == Advance(c, EpBufferSize)
  <1>1. /\ inPacket' \in Seq(Byte) /\ Len(inPacket') = EpBufferSize
    BY ProtoAssumption, TakeBytes DEF PerformRead
  <1>2. left \in 0..CountModulus - 1
    BY ProtoAssumption
  <1>3. readCount' = left /\ readPage' \in {page, page + 1}
    BY DEF PerformRead
  <1>4. rest \in Chip /\ rest.op = c.op
    BY ProtoAssumption, AdvanceChip
  <1>5. /\ Deselect(rest) \in Chip /\ Deselect(rest).op = "none"
        /\ BeginPageRead(Deselect(rest), page + 1) \in Chip
        /\ BeginPageRead(Deselect(rest), page + 1).op \in {"read", "ignored"}
    <2> HIDE DEF rest
    <2>1. Deselect(rest) \in Chip /\ Deselect(rest).op = "none"
      BY <1>4, DeselectChip
    <2>2. page + 1 \in Nat
      OBVIOUS
    <2>3. QED
      BY <2>1, <2>2, BeginPageReadChip
  <1>6. /\ chip' \in {Deselect(rest), BeginPageRead(Deselect(rest), page + 1), rest}
        /\ left = 0 => chip' = Deselect(rest)
        /\ left # 0 => chip' \in {BeginPageRead(Deselect(rest), page + 1), rest}
    BY DEF PerformRead
  <1> HIDE DEF left, rest
  <1>7. chip' \in Chip /\ chip'.op \in {"none", "read", "ignored", c.op}
    BY <1>4, <1>5, <1>6
  <1>8. readCount' = 0 <=> chip'.op = "none"
    BY <1>3, <1>4, <1>5, <1>6
  <1>9. count >= EpBufferSize => readCount' = count - EpBufferSize
    BY <1>3 DEF left
  <1>10. SameSettings(chip', c)
    <2>1. SameSettings(rest, c) /\ SameSettings(Deselect(rest), rest)
      BY <1>4, KeepsSettings DEF rest
    <2>2. SameSettings(BeginPageRead(Deselect(rest), page + 1), Deselect(rest))
      BY <1>5, EngineSettings
    <2>3. QED
      BY <1>6, <2>1, <2>2 DEF SameSettings
  <1>11. QED
    BY <1>1, <1>2, <1>3, <1>7, <1>8, <1>9, <1>10

\* An SFDP packet is as long as what is left, up to a full one, and the count
\* ends at exactly 0, with chip select up.
LEMMA PerformSFDPReadFacts ==
    ASSUME NEW c \in Chip, c.op # "none", NEW count \in 0..CountModulus - 1,
           PerformSFDPRead(c, count)
    PROVE  /\ inPacket' \in Seq(Byte)
           /\ Len(inPacket') = IF count < EpBufferSize THEN count ELSE EpBufferSize
           /\ readCount' \in 0..CountModulus - 1 /\ readCount' = count - Len(inPacket')
           /\ chip' \in Chip /\ chip'.op \in {"none", c.op}
           /\ readCount' = 0 <=> chip'.op = "none"
           /\ SameSettings(chip', c)
  <1> DEFINE amount == IF count < EpBufferSize THEN count ELSE EpBufferSize
             rest == Advance(c, amount)
  <1>1. amount \in Nat /\ count - amount \in 0..CountModulus - 1
    BY ProtoAssumption
  <1>2. rest \in Chip /\ rest.op = c.op
    BY <1>1, AdvanceChip
  <1>3. Deselect(rest) \in Chip /\ Deselect(rest).op = "none"
    BY <1>2, DeselectChip
  <1>4. Take(c, amount) \in Seq(Byte) /\ Len(Take(c, amount)) = amount
    BY <1>1, TakeBytes
  <1>5. /\ inPacket' = Take(c, amount) /\ readCount' = count - amount
        /\ chip' = IF count = amount THEN Deselect(rest) ELSE rest
    BY DEF PerformSFDPRead
  <1>6. SameSettings(chip', c)
    <2> HIDE DEF amount
    <2>1. SameSettings(rest, c)
      BY KeepsSettings
    <2> HIDE DEF rest
    <2>2. SameSettings(Deselect(rest), rest)
      BY <1>2, KeepsSettings
    <2>3. QED
      BY <1>5, <2>1, <2>2 DEF SameSettings
  <1> HIDE DEF amount, rest
  <1>7. count = amount <=> readCount' = 0
    BY <1>1, <1>5
  <1>8. chip' \in Chip /\ chip'.op \in {"none", c.op} /\ (readCount' = 0 <=> chip'.op = "none")
    BY <1>2, <1>3, <1>5, <1>7
  <1>9. QED
    BY <1>1, <1>4, <1>5, <1>8, <1>6 DEF amount

(* The types, handler by handler, and whether chip select stays down *****)
\* The count identifies the external chip, which lifts chip select.
LEMMA FetchDeviceCountTypes ==
    ASSUME ProtoTypeOK, FetchDeviceCount
    PROVE  ProtoTypeOK' /\ chip'.op \in {"none"}
  <1> USE DEF ProtoTypeOK, FetchDeviceCount
  <1>1. chip' \in Chip /\ chip'.op \in {"none"}
    BY IdentDeviceChip DEF EngineTypeOK
  <1>2. EngineTypeOK'
    BY <1>1 DEF EngineTypeOK
  <1>3. TargetTypeOK'
    BY DEF TargetTypeOK
  <1>4. QED
    BY <1>1, <1>2, <1>3, SameRead, SameErase, SameWrite

\* A listing keeps the types; it lifts chip select or leaves it.
LEMMA FetchDeviceListingTypes ==
    ASSUME NEW bus, ProtoTypeOK, FetchDeviceListing(bus)
    PROVE  ProtoTypeOK' /\ chip'.op \in {"none", chip.op}
  <1> USE DEF ProtoTypeOK, FetchDeviceListing
  <1>1. chip' \in Chip /\ chip'.op \in {"none", chip.op}
    BY IdentDeviceChip DEF EngineTypeOK
  <1>2. EngineTypeOK'
    BY <1>1 DEF EngineTypeOK
  <1>3. TargetTypeOK'
    BY DEF TargetTypeOK
  <1>4. QED
    BY <1>1, <1>2, <1>3, SameRead, SameErase, SameWrite

\* Targeting identifies the external chip, which lifts chip select.
LEMMA HandleTargetDeviceTypes ==
    ASSUME ProtoTypeOK, HandleTargetDevice
    PROVE  ProtoTypeOK' /\ chip'.op \in {"none", chip.op}
  <1> USE DEF ProtoTypeOK, HandleTargetDevice, HoldReset
  <1>1. chip' \in Chip /\ chip'.op \in {"none", chip.op}
    BY IdentDeviceChip, PrepareW25NChip DEF EngineTypeOK
  <1>2. EngineTypeOK'
    BY <1>1 DEF EngineTypeOK
  <1>3. TargetTypeOK'
    BY DEF TargetTypeOK, Identified
  <1>4. QED
    BY <1>1, <1>2, <1>3, SameRead, SameErase, SameWrite

\* A refused target leaves chip select as it is.
LEMMA RefuseTargetDeviceTypes ==
    ASSUME ProtoTypeOK, RefuseTargetDevice
    PROVE  ProtoTypeOK' /\ chip'.op \in {chip.op}
  <1> USE DEF ProtoTypeOK, RefuseTargetDevice
  <1>1. chip' \in Chip /\ chip'.op \in {chip.op}
    BY DEF EngineTypeOK
  <1>2. EngineTypeOK'
    BY <1>1 DEF EngineTypeOK
  <1>3. QED
    BY <1>2, SameTarget, SameRead, SameErase, SameWrite

\* So does the end of a command.
LEMMA ReleaseTargetDeviceTypes ==
    ASSUME ProtoTypeOK, ReleaseTargetDevice
    PROVE  ProtoTypeOK' /\ chip'.op \in {chip.op}
  <1> USE DEF ProtoTypeOK, ReleaseTargetDevice
  <1>1. chip' \in Chip /\ chip'.op \in {chip.op}
    BY RestoreW25NChip DEF EngineTypeOK
  <1>2. EngineTypeOK'
    BY <1>1 DEF EngineTypeOK
  <1>3. TargetTypeOK'
    BY DEF TargetTypeOK
  <1>4. QED
    BY <1>1, <1>2, <1>3, SameRead, SameErase, SameWrite

\* An abort always lifts chip select.
LEMMA HandleAbortTypes ==
    ASSUME ProtoTypeOK, HandleAbort
    PROVE  ProtoTypeOK' /\ chip'.op \in {"none"}
  <1> USE DEF ProtoTypeOK, HandleAbort, ResetTransfers, ResetErase
  <1>1. chip' \in Chip /\ chip'.op \in {"none"}
    BY DeselectChip DEF EngineTypeOK
  <1>2. EngineTypeOK'
    BY <1>1 DEF EngineTypeOK, NoStatus, Status
  <1>3. TargetTypeOK'
    BY DEF TargetTypeOK
  <1>4. ReadTypeOK'
    BY Zeros DEF ReadTypeOK
  <1>5. EraseTypeOK'
    BY DEF EraseTypeOK, EraseOps
  <1>6. WriteTypeOK'
    BY Zeros DEF WriteTypeOK
  <1>7. QED
    BY <1>1, <1>2, <1>3, <1>4, <1>5, <1>6

\* A status request leaves it as it is.
LEMMA FetchStatusTypes ==
    ASSUME ProtoTypeOK, FetchStatus
    PROVE  ProtoTypeOK' /\ chip'.op \in {chip.op}
  <1> USE DEF ProtoTypeOK, FetchStatus
  <1>1. EraseStatus \in Status
    BY DEF EngineTypeOK, EraseStatus, Status
  <1>2. EngineTypeOK'
    BY <1>1 DEF EngineTypeOK, Hang
  <1>3. EraseTypeOK'
    BY DEF EraseTypeOK, EraseOps, Hang, eraseVars
  <1>4. QED
    BY <1>2, <1>3, SameTarget, SameRead, SameWrite DEF Hang

\* So does the request of an erase.
LEMMA SetupEraseTypes ==
    ASSUME NEW operation \in EraseOps, ProtoTypeOK, SetupErase(operation)
    PROVE  ProtoTypeOK' /\ chip'.op \in {chip.op}
  <1> USE DEF ProtoTypeOK, SetupErase
  <1>1. chip' \in Chip /\ chip'.op \in {chip.op}
    BY DEF EngineTypeOK
  <1>2. EngineTypeOK'
    BY <1>1 DEF EngineTypeOK, Status
  <1>3. EraseTypeOK'
    BY DEF EraseTypeOK, EraseOps
  <1>4. QED
    BY <1>2, <1>3, SameTarget, SameRead, SameWrite

\* So does its data stage, the chip erase included.
LEMMA HandleEraseTypes ==
    ASSUME NEW begin \in Nat, NEW end \in Nat, ProtoTypeOK, HandleErase(begin, end)
    PROVE  ProtoTypeOK' /\ chip'.op \in {chip.op}
  <1> USE DEF ProtoTypeOK, HandleErase
  <1>1. chip' \in Chip /\ chip'.op \in {chip.op}
    BY WriteEnableChip, ChipEraseChip DEF EngineTypeOK
  <1>2. status' \in Status
    <2>1. ASSUME NEW e \in 0..3, NEW p \in Nat
          PROVE  [status EXCEPT !.eraseComplete = e, !.erasePage = p] \in Status
      BY DEF EngineTypeOK, Status
    <2>2. status.erasePage \in Nat
      BY DEF EngineTypeOK, Status
    <2> DEFINE complete == IF eraseOperation = "idle" THEN 3 ELSE 0
               page == IF eraseOperation \in {"page", "pageRange"} THEN begin ELSE status.erasePage
    <2>3. complete \in 0..3 /\ page \in Nat
      BY <2>2
    <2>4. status' = [status EXCEPT !.eraseComplete = complete, !.erasePage = page]
      OBVIOUS
    <2> HIDE DEF complete, page, HandleErase
    <2>5. [status EXCEPT !.eraseComplete = complete, !.erasePage = page] \in Status
      BY <2>1, <2>3
    <2>6. QED
      BY <2>4, <2>5
  <1>3. EngineTypeOK'
    BY <1>1, <1>2 DEF EngineTypeOK
  <1>4. EraseTypeOK'
    BY DEF EraseTypeOK
  <1>5. QED
    BY <1>1, <1>3, <1>4, SameTarget, SameRead, SameWrite

\* A start of frame leaves chip select as it is.
LEMMA TickTypes ==
    ASSUME ProtoTypeOK, Tick
    PROVE  ProtoTypeOK' /\ chip'.op \in {chip.op}
  <1> USE DEF ProtoTypeOK, Tick, EraseNextPage
  <1>1. chip' \in Chip /\ chip'.op \in {chip.op}
    BY ErasePageChip DEF EngineTypeOK, EraseTypeOK, Hang
  <1>2. [status EXCEPT !.erasePage = beginPage] \in Status
    BY DEF EngineTypeOK, EraseTypeOK, Status
  <1>3. EngineTypeOK'
    BY <1>1, <1>2 DEF EngineTypeOK, Hang
  <1>4. EraseTypeOK'
    <2>1. CASE targetDevice = "none"
      BY <2>1 DEF EraseTypeOK, Hang, eraseVars
    <2>2. CASE targetDevice # "none"
      <3>1. eraseActive' \in BOOLEAN
        BY <2>2 DEF EraseTypeOK
      <3>2. beginPage' \in {beginPage, beginPage + 1}
        BY <2>2
      <3>3. endPage' = endPage /\ eraseOperation' = eraseOperation
        BY <2>2
      <3> HIDE DEF Tick, EraseNextPage
      <3>4. QED
        BY <3>1, <3>2, <3>3 DEF EraseTypeOK
    <2>3. QED
      BY <2>1, <2>2
  <1>5. QED
    BY <1>1, <1>3, <1>4, SameTarget, SameRead, SameWrite DEF Hang

\* The count of an accepted request fits the buffer and is not 0.
LEMMA RequestedCount ==
    ASSUME NEW count \in Nat, count <= FlashBufferSize
    PROVE  Requested(count) \in 1..FlashBufferSize /\ Requested(count) \in 0..CountModulus - 1
  BY ProtoAssumption DEF Requested

\* The request of a read keeps the types and leaves chip select.
LEMMA SetupReadTypes ==
    ASSUME NEW count \in Nat, ProtoTypeOK, SetupRead(count)
    PROVE  ProtoTypeOK' /\ chip'.op \in {chip.op}
  <1> USE DEF ProtoTypeOK, SetupRead
  <1>1. chip' \in Chip /\ chip'.op \in {chip.op}
    BY DEF EngineTypeOK
  <1>2. EngineTypeOK'
    BY <1>1 DEF EngineTypeOK
  <1>3. ReadTypeOK'
    BY RequestedCount, ProtoAssumption DEF ReadTypeOK
  <1>4. QED
    BY <1>2, <1>3, SameTarget, SameErase, SameWrite

\* So does that of an SFDP read.
LEMMA SetupSFDPReadTypes ==
    ASSUME NEW count \in Nat, ProtoTypeOK, SetupSFDPRead(count)
    PROVE  ProtoTypeOK' /\ chip'.op \in {chip.op}
  <1> USE DEF ProtoTypeOK, SetupSFDPRead
  <1>1. chip' \in Chip /\ chip'.op \in {chip.op}
    BY DEF EngineTypeOK
  <1>2. EngineTypeOK'
    BY <1>1 DEF EngineTypeOK
  <1>3. ReadTypeOK'
    BY RequestedCount, ProtoAssumption DEF ReadTypeOK
  <1>4. QED
    BY <1>2, <1>3, SameTarget, SameErase, SameWrite

\* So does that of a write.
LEMMA SetupWriteTypes ==
    ASSUME NEW count \in Nat, NEW verify \in BOOLEAN, ProtoTypeOK, SetupWrite(count, verify)
    PROVE  ProtoTypeOK' /\ chip'.op \in {chip.op}
  <1> USE DEF ProtoTypeOK, SetupWrite
  <1>1. chip' \in Chip /\ chip'.op \in {chip.op}
    BY DEF EngineTypeOK
  <1>2. EngineTypeOK'
    BY <1>1 DEF EngineTypeOK, Status
  <1>3. WriteTypeOK'
    BY RequestedCount, ProtoAssumption DEF WriteTypeOK
  <1>4. QED
    BY <1>2, <1>3, SameTarget, SameRead, SameErase

(* The transfers *********************************************************)
\* The data stage of a read loads a whole packet and leaves chip select down
\* exactly when bytes are still to come.
LEMMA HandleReadFacts ==
    ASSUME NEW page \in Nat, ProtoTypeOK, targetDevice # "none", HandleRead(page)
    PROVE  /\ ProtoTypeOK'
           /\ Len(inPacket') = EpBufferSize
           /\ readCount >= EpBufferSize => readCount' = readCount - EpBufferSize
           /\ chip'.op \in {"none", "read", "ignored"}
           /\ readCount' = 0 <=> chip'.op = "none"
           /\ SameSettings(chip', chip)
  <1> DEFINE opened == BeginPageRead(chip, page)
  <1>1. opened \in Chip /\ opened.op \in {"read", "ignored"}
    BY BeginPageReadChip DEF ProtoTypeOK, EngineTypeOK
  <1>2. readCount \in 0..CountModulus - 1
    BY DEF ProtoTypeOK, ReadTypeOK
  <1>3. PerformRead(opened, page, readCount) /\ readMode' = "data" /\ SameSettings(opened, chip)
    BY EngineSettings DEF HandleRead, ProtoTypeOK, EngineTypeOK
  <1> HIDE DEF opened
  <1>4. /\ inPacket' \in Seq(Byte) /\ Len(inPacket') = EpBufferSize
        /\ readCount' \in 0..CountModulus - 1 /\ readPage' \in Nat
        /\ readCount >= EpBufferSize => readCount' = readCount - EpBufferSize
        /\ chip' \in Chip /\ chip'.op \in {"none", "read", "ignored", opened.op}
        /\ readCount' = 0 <=> chip'.op = "none"
        /\ SameSettings(chip', opened)
    BY <1>1, <1>2, <1>3, PerformReadFacts
  <1>5. ReadTypeOK'
    BY <1>3, <1>4 DEF ReadTypeOK
  <1>6. EngineTypeOK'
    BY <1>4 DEF EngineTypeOK, HandleRead, ProtoTypeOK
  <1>7. TargetTypeOK' /\ EraseTypeOK' /\ WriteTypeOK'
    BY SameTarget, SameErase, SameWrite DEF HandleRead, ProtoTypeOK
  <1>8. SameSettings(chip', chip)
    BY <1>3, <1>4 DEF SameSettings
  <1>9. QED
    BY <1>1, <1>4, <1>5, <1>6, <1>7, <1>8 DEF ProtoTypeOK

\* The data stage of an SFDP read loads the first packet.
LEMMA HandleSFDPReadFacts ==
    ASSUME NEW address \in Nat, ProtoTypeOK, targetDevice # "none", HandleSFDPRead(address)
    PROVE  /\ ProtoTypeOK'
           /\ Len(inPacket') = IF readCount < EpBufferSize THEN readCount ELSE EpBufferSize
           /\ readCount' = readCount - Len(inPacket')
           /\ chip'.op \in {"none", "sfdp", "ignored"}
           /\ readCount' = 0 <=> chip'.op = "none"
           /\ SameSettings(chip', chip)
  <1> DEFINE opened == OpenSfdp(chip, address)
  <1>1. opened \in Chip /\ opened.op \in {"sfdp", "ignored"}
    BY OpenChip DEF ProtoTypeOK, EngineTypeOK, OpenSfdp, Ops
  <1>2. readCount \in 0..CountModulus - 1
    BY DEF ProtoTypeOK, ReadTypeOK
  <1>3. /\ PerformSFDPRead(opened, readCount) /\ readMode' = "sfdp" /\ readPage' = readPage
        /\ SameSettings(opened, chip)
    BY KeepsSettings DEF HandleSFDPRead, OpenSfdp, ProtoTypeOK, EngineTypeOK
  <1> HIDE DEF opened
  <1>4. /\ inPacket' \in Seq(Byte)
        /\ Len(inPacket') = IF readCount < EpBufferSize THEN readCount ELSE EpBufferSize
        /\ readCount' \in 0..CountModulus - 1 /\ readCount' = readCount - Len(inPacket')
        /\ chip' \in Chip /\ chip'.op \in {"none", opened.op}
        /\ readCount' = 0 <=> chip'.op = "none"
        /\ SameSettings(chip', opened)
    BY <1>1, <1>2, <1>3, PerformSFDPReadFacts
  <1>5. ReadTypeOK'
    BY <1>3, <1>4 DEF ReadTypeOK, ProtoTypeOK
  <1>6. EngineTypeOK'
    BY <1>4 DEF EngineTypeOK, HandleSFDPRead, ProtoTypeOK
  <1>7. TargetTypeOK' /\ EraseTypeOK' /\ WriteTypeOK'
    BY SameTarget, SameErase, SameWrite DEF HandleSFDPRead, ProtoTypeOK
  <1>8. SameSettings(chip', chip)
    BY <1>3, <1>4 DEF SameSettings
  <1>9. QED
    BY <1>1, <1>4, <1>5, <1>6, <1>7, <1>8 DEF ProtoTypeOK

\* The endpoint's completion, while bytes are left exactly when a transaction
\* is open: no null device, and the same again afterwards.
LEMMA PerformDataOrSFDPReadFacts ==
    ASSUME ProtoTypeOK, readCount > 0 <=> chip.op # "none", PerformDataOrSFDPRead
    PROVE  /\ ProtoTypeOK' /\ ~hung' /\ UNCHANGED <<targetVars, readMode, eraseVars, writeVars>>
           /\ readCount' = 0 <=> chip'.op = "none"
           /\ chip'.op \in {"none", "read", "ignored", chip.op}
           /\ readCount = 0 => inPacket' = <<>> /\ readCount' = 0
           /\ readCount > 0 /\ readMode = "data" =>
                 /\ Len(inPacket') = EpBufferSize
                 /\ readCount >= EpBufferSize => readCount' = readCount - EpBufferSize
           /\ readCount > 0 /\ readMode = "sfdp" =>
                 /\ Len(inPacket') = IF readCount < EpBufferSize THEN readCount ELSE EpBufferSize
                 /\ readCount' = readCount - Len(inPacket')
           /\ SameSettings(chip', chip)
  <1>1. /\ chip \in Chip /\ readCount \in 0..CountModulus - 1 /\ readPage \in Nat
        /\ readMode \in {"data", "sfdp"}
    BY DEF ProtoTypeOK, EngineTypeOK, ReadTypeOK
  <1>2. /\ UNCHANGED <<targetVars, readMode, eraseVars, writeVars, status, setupCallback, hung>>
        /\ ~hung
    BY DEF PerformDataOrSFDPRead
  <1>3. TargetTypeOK' /\ EraseTypeOK' /\ WriteTypeOK'
    BY <1>2, SameTarget, SameErase, SameWrite DEF ProtoTypeOK
  <1>4. ASSUME inPacket' \in Seq(Byte), readPage' \in Nat, readCount' \in 0..CountModulus - 1,
               chip' \in Chip
        PROVE  ProtoTypeOK'
    <2>1. ReadTypeOK'
      BY <1>1, <1>2, <1>4 DEF ReadTypeOK
    <2>2. EngineTypeOK'
      BY <1>2, <1>4 DEF EngineTypeOK, ProtoTypeOK
    <2>3. QED
      BY <2>1, <2>2, <1>3 DEF ProtoTypeOK
  <1>5. CASE readCount = 0
    <2>1. inPacket' = <<>> /\ readPage' = readPage /\ readCount' = readCount /\ chip' = chip
      BY <1>5 DEF PerformDataOrSFDPRead
    <2>2. QED
      BY <2>1, <1>1, <1>2, <1>4, <1>5 DEF SameSettings
  <1>6. CASE readCount > 0 /\ readMode = "data"
    <2>1. PerformRead(chip, readPage, readCount)
      BY <1>6 DEF PerformDataOrSFDPRead
    <2>2. QED
      BY <2>1, <1>1, <1>2, <1>4, <1>6, PerformReadFacts
  <1>7. CASE readCount > 0 /\ readMode = "sfdp"
    <2>1. PerformSFDPRead(chip, readCount) /\ readPage' = readPage
      BY <1>7 DEF PerformDataOrSFDPRead
    <2>2. QED
      BY <2>1, <1>1, <1>2, <1>4, <1>7, PerformSFDPReadFacts
  <1>8. QED
    BY <1>1, <1>5, <1>6, <1>7

\* The data stage of a write opens a page program.
LEMMA HandleWriteFacts ==
    ASSUME NEW page \in Nat, ProtoTypeOK, targetDevice # "none", HandleWrite(page)
    PROVE  /\ ProtoTypeOK' /\ ~hung'
           /\ UNCHANGED <<targetVars, readVars, eraseVars, writeCount, writeTotal, verifyWrite,
                          status, inPacket>>
           /\ chip'.op \in {"program", "skewed", "ignored"}
  <1>1. /\ UNCHANGED <<targetVars, readVars, eraseVars, writeCount, writeTotal, verifyWrite,
                       status, inPacket, hung>>
        /\ ~hung /\ setupCallback' = "none"
        /\ verifyPage' = page /\ chip' = WriteAddress(chip, page)
        /\ writePage' \in {page, page + 1} /\ flashBuffer' = <<>>
    BY DEF HandleWrite, AfterAddress
  <1>2. chip' \in Chip /\ chip'.op \in {"program", "skewed", "ignored"}
    BY <1>1, WriteAddressChip DEF ProtoTypeOK, EngineTypeOK
  <1>3. WriteTypeOK'
    BY <1>1 DEF WriteTypeOK, ProtoTypeOK
  <1>4. EngineTypeOK'
    BY <1>1, <1>2 DEF EngineTypeOK, ProtoTypeOK
  <1>5. TargetTypeOK' /\ ReadTypeOK' /\ EraseTypeOK'
    BY <1>1, SameTarget, SameRead, SameErase DEF ProtoTypeOK
  <1>6. QED
    BY <1>1, <1>2, <1>3, <1>4, <1>5 DEF ProtoTypeOK

\* The page a verify reads is a number.
LEMMA VerifyReadsNat ==
    ASSUME NEW page \in Nat, NEW idx \in Nat
    PROVE  VerifyReads(page, idx) \in Nat
  <1>1. ASSUME idx # 0
        PROVE  (idx - 1) \div FlashPageSize \in Nat
    BY <1>1, ProtoAssumption
  <1>2. QED
    BY <1>1 DEF VerifyReads

\* A packet of a write: a transaction is open afterwards exactly when bytes are
\* still to come.
LEMMA PerformWriteFacts ==
    ASSUME NEW packet \in Seq(Byte), Len(packet) \in 1..writeCount,
           ProtoTypeOK, chip.op # "none", PerformWrite(packet)
    PROVE  /\ ProtoTypeOK' /\ ~hung'
           /\ UNCHANGED <<targetVars, readVars, eraseVars, writeTotal, verifyWrite, inPacket>>
           /\ writeCount' = writeCount - Len(packet)
           /\ writeCount' = 0 <=> chip'.op = "none"
           /\ chip'.op \in {"none", "program", "skewed", "ignored", chip.op}
           /\ SameSettings(chip', chip)
  <1> DEFINE left == writeCount - Len(packet)
             sent == Latch(chip, packet)
             done == FinishPage(sent, writePage)
             donePage == IF Paged THEN writePage + 1 ELSE writePage
             verified == VerifyReads(verifyPage, writeTotal)
             opened == WriteAddress(done, donePage)
             checked == Deselect(BeginPageRead(done, verified))
  <1>1. /\ chip \in Chip /\ status \in Status /\ writePage \in Nat /\ verifyPage \in Nat
        /\ writeCount \in 0..FlashBufferSize /\ writeTotal \in 0..FlashBufferSize
        /\ flashBuffer \in Seq(Byte) /\ verifyWrite \in BOOLEAN /\ writeCount > 0
        /\ FlashBufferSize \in Nat
    BY ProtoAssumption DEF ProtoTypeOK, EngineTypeOK, WriteTypeOK
  <1>2. sent \in Chip /\ sent.op = chip.op
    BY <1>1, LatchChip
  <1>3. done \in Chip /\ done.op = "none" /\ donePage \in Nat /\ verified \in Nat
    <2>1. done \in Chip /\ done.op = "none"
      BY <1>2, FinishPageChip
    <2>2. donePage \in Nat
      BY <1>1
    <2>3. writeTotal \in Nat
      BY <1>1
    <2>4. verified \in Nat
      BY <1>1, <2>3, VerifyReadsNat
    <2>5. QED
      BY <2>1, <2>2, <2>4
  <1>4. opened \in Chip /\ opened.op \in {"program", "skewed", "ignored"}
    BY <1>3, WriteAddressChip
  <1>5. checked \in Chip /\ checked.op = "none"
    BY <1>3, BeginPageReadChip, DeselectChip
  <1>6. /\ UNCHANGED <<targetVars, readVars, eraseVars, writeTotal, verifyWrite, inPacket,
                       setupCallback, hung>>
        /\ ~hung /\ writeCount' = left /\ flashBuffer' = flashBuffer \o packet
    BY <1>1 DEF PerformWrite
  <1>7. /\ left > 0 => chip' \in {sent, opened}
        /\ left = 0 => chip' \in {done, checked}
        /\ writePage' \in {writePage, donePage, donePage + 1}
        /\ verifyPage' \in {verifyPage, verified}
        /\ \/ status' = status
           \/ status' = [status EXCEPT !.writeOK =
                            @ /\ VerifyOK(done, flashBuffer \o packet, verifyPage)]
    <2> DEFINE end == writeTotal - writeCount + Len(packet)
               judged == [status EXCEPT !.writeOK = @ /\ VerifyOK(done, flashBuffer \o packet, verifyPage)]
    <2>1. CASE left > 0 /\ end % FlashPageSize # 0
      <3>1. chip' = sent /\ writePage' = writePage /\ verifyPage' = verifyPage /\ status' = status
        BY <2>1, <1>1 DEF PerformWrite
      <3>2. QED
        BY <3>1, <2>1
    <2>2. CASE left > 0 /\ end % FlashPageSize = 0
      <3>1. chip' = opened /\ writePage' = AfterAddress(donePage) /\ verifyPage' = verifyPage
            /\ status' = status
        BY <2>2, <1>1 DEF PerformWrite
      <3>2. QED
        BY <3>1, <2>2 DEF AfterAddress
    <2>3. CASE left = 0 /\ ~verifyWrite
      <3>1. chip' = done /\ writePage' = donePage /\ verifyPage' = verifyPage /\ status' = status
        BY <2>3, <1>1 DEF PerformWrite
      <3>2. QED
        BY <3>1, <2>3
    <2>4. CASE left = 0 /\ verifyWrite
      <3>1. chip' = checked /\ writePage' = donePage /\ verifyPage' = verified /\ status' = judged
        BY <2>4, <1>1 DEF PerformWrite
      <3>2. QED
        BY <3>1, <2>4
    <2>5. QED
      BY <2>1, <2>2, <2>3, <2>4, <1>1
  <1>8. left \in 0..FlashBufferSize
    BY <1>1
  <1> HIDE DEF left, sent, done, donePage, verified, opened, checked
  <1>9. status' \in Status
    BY <1>1, <1>7 DEF Status
  <1>10. chip' \in Chip /\ (left = 0 <=> chip'.op = "none")
         /\ chip'.op \in {"none", "program", "skewed", "ignored", chip.op}
    BY <1>2, <1>3, <1>4, <1>5, <1>7, <1>8
  <1>11. WriteTypeOK'
    BY <1>1, <1>3, <1>6, <1>7, <1>8 DEF WriteTypeOK
  <1>12. EngineTypeOK'
    BY <1>6, <1>9, <1>10 DEF EngineTypeOK, ProtoTypeOK
  <1>13. TargetTypeOK' /\ ReadTypeOK' /\ EraseTypeOK'
    BY <1>6, SameTarget, SameRead, SameErase DEF ProtoTypeOK
  <1>14. writeCount' = writeCount - Len(packet)
    BY <1>6 DEF left
  <1>15. SameSettings(chip', chip)
    <2>1. SameSettings(sent, chip)
      BY <1>1, KeepsSettings DEF sent
    <2>2. SameSettings(done, chip)
      BY <1>1, <1>2, <2>1, EngineSettings DEF SameSettings, done
    <2>3. SameSettings(opened, chip)
      BY <1>3, <2>2, EngineSettings DEF SameSettings, opened
    <2>4. SameSettings(checked, chip)
      <3>1. BeginPageRead(done, verified) \in Chip /\ SameSettings(BeginPageRead(done, verified), chip)
        BY <1>3, <2>2, BeginPageReadChip, EngineSettings DEF SameSettings
      <3>2. QED
        BY <3>1, KeepsSettings DEF SameSettings, checked
    <2>5. QED
      BY <1>7, <1>8, <2>1, <2>2, <2>3, <2>4
  <1>16. QED
    BY <1>6, <1>10, <1>11, <1>12, <1>13, <1>14, <1>15 DEF ProtoTypeOK

(* What the handlers do to the cells of a byte addressed chip ************)
\* The commands a W25N gets are not sent to another chip.
LEMMA NotNand ==
    ASSUME Kind = "nor", NEW c
    PROVE  PrepareW25N(c) = c /\ RestoreW25N(c) = c
  BY DEF PrepareW25N, RestoreW25N

\* An identified chip is byte addressed.
LEMMA NotPaged == Kind = "nor" /\ targetParams = "chip" => ~Paged
  BY DEF Paged

\* A packet of a read leaves the array alone and holds the next cells, in order.
LEMMA PerformReadCells ==
    ASSUME Kind = "nor", NEW c \in Chip, c.op \notin {"program", "skewed"}, NEW page \in Nat,
           NEW count \in 0..CountModulus - 1, PerformRead(c, page, count)
    PROVE  /\ chip'.mem = c.mem /\ chip'.busy = c.busy /\ chip'.protected = c.protected
           /\ c.op = "read" =>
                 \A i \in 1..EpBufferSize : inPacket'[i] = Cell(c, c.base + c.pos + (i - 1))
           /\ c.op = "read" /\ readCount' > 0 =>
                 chip'.op = "read" /\ chip'.base + chip'.pos = c.base + c.pos + EpBufferSize
  <1> DEFINE rest == Advance(c, EpBufferSize)
  <1>1. EpBufferSize \in Nat /\ c.pos \in Nat /\ c.base \in Nat
    BY ProtoAssumption DEF Chip
  <1>2. /\ rest \in Chip /\ rest.op = c.op /\ rest.mem = c.mem /\ rest.busy = c.busy
        /\ rest.protected = c.protected /\ rest.base = c.base /\ rest.pos = c.pos + EpBufferSize
    BY <1>1, AdvanceChip DEF Advance, Chip
  <1>3. chip' = IF readCount' = 0 THEN Deselect(rest) ELSE rest
    BY DEF PerformRead
  <1>4. inPacket' = Take(c, EpBufferSize)
    BY DEF PerformRead
  <1> HIDE DEF rest
  <1>5. /\ Deselect(rest).mem = c.mem /\ Deselect(rest).busy = c.busy
        /\ Deselect(rest).protected = c.protected
    BY <1>2, DeselectQuiet DEF Chip
  <1>6. ASSUME c.op = "read", NEW i \in 1..EpBufferSize
        PROVE  inPacket'[i] = Cell(c, c.base + c.pos + (i - 1))
    BY <1>1, <1>4, <1>6 DEF Take, Out
  <1>7. QED
    BY <1>1, <1>2, <1>3, <1>5, <1>6

\* So does a packet of an SFDP read leave the array alone.
LEMMA PerformSFDPReadCells ==
    ASSUME NEW c \in Chip, c.op \notin {"program", "skewed"},
           NEW count \in 0..CountModulus - 1, PerformSFDPRead(c, count)
    PROVE  chip'.mem = c.mem /\ chip'.busy = c.busy /\ chip'.protected = c.protected
  <1> DEFINE amount == IF count < EpBufferSize THEN count ELSE EpBufferSize
             rest == Advance(c, amount)
  <1>1. amount \in Nat
    BY ProtoAssumption
  <1>2. chip' \in {Deselect(rest), rest}
    BY DEF PerformSFDPRead
  <1> HIDE DEF amount
  <1>3. /\ rest \in Chip /\ rest.op = c.op /\ rest.mem = c.mem /\ rest.busy = c.busy
        /\ rest.protected = c.protected
    BY <1>1, AdvanceChip DEF Advance, Chip
  <1> HIDE DEF rest
  <1>4. /\ Deselect(rest).mem = rest.mem /\ Deselect(rest).busy = rest.busy
        /\ Deselect(rest).protected = rest.protected
    BY <1>3, DeselectQuiet DEF Chip
  <1>5. QED
    BY <1>2, <1>3, <1>4

\* And its bytes are those of the area, from where the transaction is.
LEMMA PerformSFDPReadBytes ==
    ASSUME NEW c \in Chip, c.op = "sfdp", NEW count \in 0..CountModulus - 1,
           PerformSFDPRead(c, count)
    PROVE  /\ \A i \in 1..Len(inPacket') : inPacket'[i] = SfdpByte(c.base + c.pos + (i - 1))
           /\ readCount' > 0 =>
                 chip'.op = "sfdp" /\ chip'.base + chip'.pos = c.base + c.pos + Len(inPacket')
  <1> DEFINE amount == IF count < EpBufferSize THEN count ELSE EpBufferSize
             rest == Advance(c, amount)
  <1>1. amount \in Nat /\ c.base \in Nat /\ c.pos \in Nat
    BY ProtoAssumption DEF Chip
  <1>2. /\ inPacket' = Take(c, amount) /\ readCount' = count - amount
        /\ chip' = IF count = amount THEN Deselect(rest) ELSE rest
    BY DEF PerformSFDPRead
  <1>3. rest.op = "sfdp" /\ rest.base = c.base /\ rest.pos = c.pos + amount
    BY <1>1 DEF Advance, Chip
  <1> HIDE DEF amount, rest
  <1>4. Len(inPacket') = amount
    BY <1>1, <1>2, TakeBytes
  <1>5. ASSUME NEW i \in 1..amount
        PROVE  inPacket'[i] = SfdpByte(c.base + c.pos + (i - 1))
    <2>1. inPacket'[i] = Out(c, i - 1)
      BY <1>1, <1>2 DEF Take
    <2>2. Out(c, i - 1) = SfdpByte(c.base + c.pos + (i - 1))
      BY DEF Out
    <2>3. QED
      BY <2>1, <2>2
  <1>6. readCount' > 0 => chip' = rest
    BY <1>1, <1>2
  <1>7. QED
    BY <1>1, <1>3, <1>4, <1>5, <1>6

\* The data stage of a read leaves the array alone, and a ready chip that is
\* addressed right answers with the cells of the page.
LEMMA HandleReadCells ==
    ASSUME Kind = "nor", ProtoTypeOK, targetDevice # "none", chip.op = "none",
           NEW page \in Nat, HandleRead(page)
    PROVE  /\ chip'.mem = chip.mem /\ chip'.protected = chip.protected
           /\ ~Paged /\ ~chip.busy =>
                 /\ ~chip'.busy
                 /\ \A i \in 1..EpBufferSize : inPacket'[i] = Cell(chip, page * FlashPageSize + (i - 1))
                 /\ readCount' > 0 => /\ chip'.op = "read"
                                      /\ chip'.base + chip'.pos = page * FlashPageSize + EpBufferSize
  <1> DEFINE opened == BeginPageRead(chip, page)
  <1>1. chip \in Chip /\ readCount \in 0..CountModulus - 1
    BY DEF ProtoTypeOK, EngineTypeOK, ReadTypeOK
  <1>2. opened \in Chip /\ opened.op \in {"read", "ignored"} /\ opened.protected = chip.protected
    BY <1>1, BeginPageReadChip, EngineSettings DEF SameSettings
  <1>3. opened.mem = chip.mem
    BY <1>1 DEF BeginPageRead, OpenRead, Open, LoadPage, Finish, Chip
  <1>4. PerformRead(opened, page, readCount)
    BY DEF HandleRead
  <1>5. ASSUME ~Paged, ~chip.busy
        PROVE  opened = [chip EXCEPT !.op = "read", !.base = page * FlashPageSize, !.pos = 0]
    <2>1. page * FlashPageSize \in Nat
      BY ProtoAssumption
    <2>2. QED
      BY <1>1, <1>5, <2>1, ReadOpened DEF BeginPageRead, Ready
  <1> HIDE DEF opened
  <1>6. /\ chip'.mem = opened.mem /\ chip'.busy = opened.busy /\ chip'.protected = opened.protected
        /\ opened.op = "read" =>
              \A i \in 1..EpBufferSize : inPacket'[i] = Cell(opened, opened.base + opened.pos + (i - 1))
        /\ opened.op = "read" /\ readCount' > 0 =>
              chip'.op = "read" /\ chip'.base + chip'.pos = opened.base + opened.pos + EpBufferSize
    BY <1>1, <1>2, <1>4, PerformReadCells
  <1>7. ASSUME ~Paged, ~chip.busy
        PROVE  /\ opened.op = "read" /\ ~opened.busy
               /\ opened.base = page * FlashPageSize /\ opened.pos = 0
    BY <1>1, <1>5, <1>7 DEF Chip
  <1>8. page * FlashPageSize \in Nat /\ EpBufferSize \in Nat
    BY ChipAssumption, ProtoAssumption
  <1>9. ASSUME NEW x
        PROVE  Cell(opened, x) = Cell(chip, x)
    BY <1>3 DEF Cell
  <1>10. QED
    BY <1>2, <1>3, <1>6, <1>7, <1>8, <1>9

\* The data stage of an SFDP read leaves the array alone.
LEMMA HandleSFDPReadCells ==
    ASSUME ProtoTypeOK, targetDevice # "none", NEW address \in Nat, HandleSFDPRead(address)
    PROVE  chip'.mem = chip.mem /\ chip'.busy = chip.busy /\ chip'.protected = chip.protected
  <1> DEFINE opened == OpenSfdp(chip, address)
  <1>1. chip \in Chip /\ readCount \in 0..CountModulus - 1
    BY DEF ProtoTypeOK, EngineTypeOK, ReadTypeOK
  <1>2. opened \in Chip /\ opened.op \in {"sfdp", "ignored"}
    BY <1>1, OpenChip DEF OpenSfdp, Ops
  <1>3. /\ opened.mem = chip.mem /\ opened.busy = chip.busy /\ opened.protected = chip.protected
    BY <1>1 DEF OpenSfdp, Open, Chip
  <1>4. PerformSFDPRead(opened, readCount)
    BY DEF HandleSFDPRead
  <1> HIDE DEF opened
  <1>5. QED
    BY <1>1, <1>2, <1>3, <1>4, PerformSFDPReadCells

\* An idle chip answers it with the bytes of the area from the address on.
LEMMA HandleSFDPReadBytes ==
    ASSUME ProtoTypeOK, targetDevice # "none", Ready(chip),
           NEW address \in Nat, HandleSFDPRead(address)
    PROVE  /\ \A i \in 1..Len(inPacket') : inPacket'[i] = SfdpByte(address + (i - 1))
           /\ readCount' > 0 =>
                 chip'.op = "sfdp" /\ chip'.base + chip'.pos = address + Len(inPacket')
  <1> DEFINE opened == OpenSfdp(chip, address)
  <1>1. chip \in Chip /\ readCount \in 0..CountModulus - 1
    BY DEF ProtoTypeOK, EngineTypeOK, ReadTypeOK
  <1>2. opened \in Chip
    BY <1>1, OpenChip DEF OpenSfdp, Ops
  <1>3. opened.op = "sfdp" /\ opened.base = address /\ opened.pos = 0
    BY <1>1 DEF OpenSfdp, Open, Chip
  <1>4. PerformSFDPRead(opened, readCount)
    BY DEF HandleSFDPRead
  <1> HIDE DEF opened
  <1>5. /\ \A i \in 1..Len(inPacket') :
              inPacket'[i] = SfdpByte(opened.base + opened.pos + (i - 1))
        /\ readCount' > 0 => /\ chip'.op = "sfdp"
                             /\ chip'.base + chip'.pos = opened.base + opened.pos + Len(inPacket')
    BY <1>1, <1>2, <1>3, <1>4, PerformSFDPReadBytes
  <1>6. QED
    BY <1>3, <1>5

\* So does every packet after the first, and a data packet of a transaction
\* the chip answers holds the next cells.
LEMMA PerformDataOrSFDPReadCells ==
    ASSUME Kind = "nor", ProtoTypeOK, chip.op \notin {"program", "skewed"}, PerformDataOrSFDPRead
    PROVE  /\ chip'.mem = chip.mem /\ chip'.busy = chip.busy /\ chip'.protected = chip.protected
           /\ readCount > 0 /\ readMode = "data" /\ chip.op = "read" =>
                 /\ \A i \in 1..EpBufferSize :
                       inPacket'[i] = Cell(chip, chip.base + chip.pos + (i - 1))
                 /\ readCount' > 0 =>
                       /\ chip'.op = "read"
                       /\ chip'.base + chip'.pos = chip.base + chip.pos + EpBufferSize
  <1>1. /\ chip \in Chip /\ readCount \in 0..CountModulus - 1 /\ readPage \in Nat
        /\ readMode \in {"data", "sfdp"}
    BY DEF ProtoTypeOK, EngineTypeOK, ReadTypeOK
  <1>2. CASE readCount = 0 \/ chip.op = "none"
    BY <1>1, <1>2 DEF PerformDataOrSFDPRead, Hang
  <1>3. CASE readCount > 0 /\ chip.op # "none" /\ readMode = "data"
    <2>1. PerformRead(chip, readPage, readCount)
      BY <1>3 DEF PerformDataOrSFDPRead
    <2>2. QED
      BY <1>1, <1>3, <2>1, PerformReadCells
  <1>4. CASE readCount > 0 /\ chip.op # "none" /\ readMode = "sfdp"
    <2>1. PerformSFDPRead(chip, readCount)
      BY <1>4 DEF PerformDataOrSFDPRead
    <2>2. QED
      BY <1>1, <1>4, <2>1, PerformSFDPReadCells
  <1>5. QED
    BY <1>1, <1>2, <1>3, <1>4

\* Addressing a page program changes no cell; a ready, byte addressed chip has
\* its latch open at the first byte of the page.
LEMMA WriteAddressCells ==
    ASSUME NEW c \in Chip, NEW page \in Nat
    PROVE  /\ WriteAddress(c, page).mem = c.mem /\ WriteAddress(c, page).busy = c.busy
           /\ ~Paged /\ Ready(c) =>
                 WriteAddress(c, page) = [c EXCEPT !.op = "program", !.wel = TRUE,
                                            !.base = page * FlashPageSize, !.pos = 0, !.buf = Blank]
  <1>1. page * FlashPageSize \in Nat
    BY ProtoAssumption
  <1>2. WriteEnable(c).mem = c.mem /\ WriteEnable(c).busy = c.busy
    BY DEF WriteEnable, Chip
  <1>3. WriteAddress(c, page).mem = c.mem /\ WriteAddress(c, page).busy = c.busy
    BY <1>2, WriteEnableChip DEF WriteAddress, OpenLoad, OpenProgram, Open, Chip
  <1>4. QED
    BY <1>1, <1>3, ProgramOpened DEF WriteAddress

\* A packet that stays within the page: it goes into the latch; when it fills
\* the page or ends the block, the page is burnt and the chip waited for.
LEMMA PerformWriteCells ==
    ASSUME Kind = "nor", ~Paged, ProtoTypeOK,
           chip.op = "program", chip.wel, ~chip.busy, ~chip.protected,
           NEW packet \in Seq(Byte), Len(packet) \in 1..writeCount,
           chip.pos + Len(packet) <= PageSize,
           (writeTotal - writeCount + Len(packet)) % FlashPageSize = 0 <=> chip.pos + Len(packet) = PageSize,
           PerformWrite(packet),
           NEW sent, sent = Latch(chip, packet)
    PROVE  /\ writeCount > Len(packet) /\ chip.pos + Len(packet) < PageSize =>
                 chip' = sent /\ writePage' = writePage
           /\ writeCount > Len(packet) /\ chip.pos + Len(packet) = PageSize =>
                 /\ chip'.mem = Burn(sent, sent.base) /\ chip'.base = writePage * FlashPageSize
                 /\ chip'.op = "program" /\ chip'.wel /\ ~chip'.busy /\ chip'.pos = 0
                 /\ chip'.buf = Blank /\ writePage' = writePage + 1
           /\ writeCount = Len(packet) =>
                 chip'.mem = Burn(sent, sent.base) /\ ~chip'.busy
  <1> DEFINE done == FinishPage(sent, writePage)
             end == writeTotal - writeCount + Len(packet)
             left == writeCount - Len(packet)
  <1>1. /\ chip \in Chip /\ writePage \in Nat /\ verifyPage \in Nat
        /\ writeCount \in Nat /\ writeTotal \in Nat /\ Len(packet) \in Nat \ {0}
        /\ chip.pos \in Nat /\ PageSize \in Nat
    BY ProtoAssumption, ChipAssumption DEF ProtoTypeOK, EngineTypeOK, WriteTypeOK, Chip
  <1>2. /\ sent \in Chip /\ sent.op = "program" /\ sent.pos > 0
        /\ sent.wel /\ ~sent.busy /\ ~sent.protected
    <2>1. sent \in Chip /\ sent.op = "program"
      BY <1>1, LatchChip
    <2>2. ~sent.protected
      BY <1>1, KeepsSettings DEF SameSettings
    <2>3. sent.pos = chip.pos + Len(packet) /\ sent.wel = chip.wel /\ sent.busy = chip.busy
      <3> DEFINE buf == [k \in Column |-> IF chip.pos <= k /\ k < chip.pos + Len(packet)
                                          THEN packet[k - chip.pos + 1] ELSE chip.buf[k]]
      <3>1. sent = [chip EXCEPT !.pos = chip.pos + Len(packet), !.buf = buf]
        BY <1>1, LatchInPage
      <3> HIDE DEF buf
      <3>2. QED
        BY <1>1, <3>1 DEF Chip
    <2>4. QED
      BY <1>1, <2>1, <2>2, <2>3
  <1>3. done = [sent EXCEPT !.op = "none", !.base = 0, !.pos = 0,
                            !.mem = Burn(sent, sent.base), !.wel = FALSE]
    <2>1. Deselect(sent) = [sent EXCEPT !.op = "none", !.base = 0, !.pos = 0,
                                !.mem = Burn(sent, sent.base), !.busy = TRUE, !.wel = FALSE]
      BY <1>2, PageBurnt
    <2>2. QED
      BY <1>2, <2>1 DEF FinishPage, Finish, Chip
  <1>4. done \in Chip /\ done.op = "none"
    BY <1>2, FinishPageChip
  <1>5. ~done.busy /\ done.mem = Burn(sent, sent.base) /\ Ready(done)
    BY <1>2, <1>3, <1>4 DEF Ready, Chip
  <1>6. CASE left > 0 /\ end % FlashPageSize # 0
    <2>1. chip' = sent /\ writePage' = writePage
      BY <1>1, <1>6 DEF PerformWrite
    <2>2. QED
      BY <1>1, <1>6, <2>1
  <1>7. CASE left > 0 /\ end % FlashPageSize = 0
    <2>1. chip' = WriteAddress(done, writePage) /\ writePage' = writePage + 1
      BY <1>1, <1>7 DEF PerformWrite, AfterAddress
    <2>2. WriteAddress(done, writePage) = [done EXCEPT !.op = "program", !.wel = TRUE,
                                             !.base = writePage * FlashPageSize, !.pos = 0, !.buf = Blank]
      BY <1>1, <1>4, <1>5, WriteAddressCells
    <2> HIDE DEF done
    <2>3. /\ chip'.op = "program" /\ chip'.wel /\ chip'.base = writePage * FlashPageSize
          /\ chip'.pos = 0 /\ chip'.buf = Blank
          /\ chip'.mem = done.mem /\ chip'.busy = done.busy
      BY <1>4, <2>1, <2>2 DEF Chip
    <2>4. QED
      BY <1>1, <1>5, <1>7, <2>1, <2>3
  <1>8. CASE left = 0
    <2>1. chip' \in {done, Deselect(BeginPageRead(done, VerifyReads(verifyPage, writeTotal)))}
      BY <1>1, <1>8 DEF PerformWrite
    <2>2. ASSUME NEW page \in Nat
          PROVE  /\ Deselect(BeginPageRead(done, page)).mem = done.mem
                 /\ Deselect(BeginPageRead(done, page)).busy = done.busy
      <3>1. /\ BeginPageRead(done, page) \in Chip
            /\ BeginPageRead(done, page).op \in {"read", "ignored"}
        BY <1>4, BeginPageReadChip
      <3>2. /\ BeginPageRead(done, page).mem = done.mem /\ BeginPageRead(done, page).busy = done.busy
        BY <1>4 DEF BeginPageRead, OpenRead, Open, Chip
      <3>3. QED
        BY <3>1, <3>2, DeselectQuiet DEF Chip
    <2>3. VerifyReads(verifyPage, writeTotal) \in Nat
      BY <1>1, VerifyReadsNat
    <2>4. chip'.mem = done.mem /\ ~chip'.busy
      BY <1>5, <2>1, <2>2, <2>3
    <2>5. QED
      BY <1>1, <1>5, <1>8, <2>4
  <1>9. QED
    BY <1>1, <1>6, <1>7, <1>8

\* tick erases the page it has reached, on a chip that is not busy, and moves on.
LEMMA TickCells ==
    ASSUME Kind = "nor", ~Paged, ProtoTypeOK, targetDevice # "none",
           chip.op = "none", ~chip.protected, Tick
    PROVE  /\ beginPage >= endPage => ~eraseActive' /\ UNCHANGED <<chip, beginPage>>
           /\ beginPage < endPage =>
                 /\ beginPage' = beginPage + 1
                 /\ chip'.mem = [a \in Addr |-> IF a \div EraseSize = beginPage THEN Erased
                                                                               ELSE chip.mem[a]]
  <1>1. chip \in Chip /\ beginPage \in Nat /\ endPage \in Nat /\ EraseSize \in Nat \ {0}
    BY ChipAssumption DEF ProtoTypeOK, EngineTypeOK, EraseTypeOK
  <1>2. ~chip.busy
    BY DEF Tick
  <1>3. beginPage >= endPage => eraseActive' = FALSE /\ UNCHANGED <<chip, beginPage>>
    BY DEF Tick
  <1>4. ASSUME beginPage < endPage
        PROVE  chip' = ErasePage(chip, beginPage) /\ beginPage' = beginPage + 1
    <2>1. ~(beginPage >= endPage)
      BY <1>1, <1>4
    <2>2. QED
      BY <2>1 DEF Tick, EraseNextPage
  <1>5. ErasePage(chip, beginPage) = EraseAround(WriteEnable(chip), beginPage * EraseSize, EraseSize)
    BY DEF ErasePage
  <1>6. (beginPage * EraseSize) \div EraseSize = beginPage
    <2>1. /\ 0 \in 0..EraseSize - 1 /\ beginPage * EraseSize \in Int
          /\ beginPage * EraseSize = (EraseSize * beginPage) + 0
      BY <1>1
    <2>2. QED
      BY <1>1, <2>1, ModUnique
  <1>7. ErasePage(chip, beginPage).mem =
          [a \in Addr |-> IF a \div EraseSize = beginPage THEN Erased ELSE chip.mem[a]]
    <2> DEFINE erased(x) == [a \in Addr |-> IF a \div EraseSize = x THEN Erased ELSE chip.mem[a]]
    <2>1. Ready(chip)
      BY <1>2 DEF Ready
    <2>2. EraseAround(WriteEnable(chip), beginPage * EraseSize, EraseSize).mem =
            erased((beginPage * EraseSize) \div EraseSize)
      BY <1>1, <2>1, ErasedAround
    <2> HIDE DEF erased
    <2>3. ErasePage(chip, beginPage).mem = erased(beginPage)
      BY <1>5, <1>6, <2>2
    <2>4. QED
      BY <2>3 DEF erased
  <1>8. QED
    BY <1>1, <1>3, <1>4, <1>7
=============================================================================
