----------------------------- MODULE FlashProto -----------------------------
(***************************************************************************)
(* The firmware's protocol engine, firmware/usb/flashProto.cxx, with the   *)
(* parts of firmware/spi.cxx it calls.  Everything runs in the USB         *)
(* interrupt, so each handler is one atomic step; between two handlers     *)
(* only the host, the chip and the next interrupt move.  An operator below *)
(* is the whole handler.  The control endpoint calls a request handler at  *)
(* SETUP (Setup...), and, when the request has a data stage, the callback  *)
(* it left in setupCallback once the data has arrived (Handle...).         *)
(*                                                                         *)
(* The constants scale the firmware's 64 byte endpoint, 256 byte page and  *)
(* 4 KiB buffer down; page_t's 24 bits are not reached.  The LED is output *)
(* only and left out.                                                      *)
(***************************************************************************)
EXTENDS FlashChip

CONSTANTS Bus,             \* the bus of the chip under test: "internal" or "external"
          EpBufferSize,    \* epBufferSize, 64
          FlashBufferSize, \* flashBuffer.size(), 4096
          DefaultCount,    \* what a count of 0 stands for, 256
          FlashPageSize,   \* targetParams.flashPageSize: the program page the firmware goes by
          CountModulus     \* 2^16, where readCount wraps

ASSUME ProtoAssumption ==
    /\ Bus \in {"internal", "external"} /\ (Bus = "internal" => Kind = "nor")
    /\ EpBufferSize \in Nat \ {0} /\ FlashBufferSize \in Nat \ {0}
    /\ DefaultCount \in 1..FlashBufferSize /\ FlashPageSize \in Nat \ {0}
    /\ CountModulus \in Nat /\ FlashBufferSize < CountModulus
    /\ EpBufferSize < CountModulus

VARIABLES
    targetDevice,    \* "none" or "chip"
    targetID,        \* what identification returned: see Identified
    targetParams,    \* "none", "chip" (findChip knew it) or "fallback"
    deviceReset,     \* the target board is held in reset (gpioA bit 7)
    readMode, readPage, readCount,
    eraseOperation, eraseActive, beginPage, endPage,
    writePage, writeCount, writeTotal, verifyWrite, verifyPage, flashBuffer,
    status,          \* responses::status_t, what a status request returns
    setupCallback,   \* the handler that waits for a data stage, or "none"
    inPacket,        \* the packet loaded in the bulk IN endpoint, or <<>>
    chip,            \* the chip; chip.op = "none" iff spi.cxx has nothing selected
    hung             \* the firmware used a null SPI device and is lost

targetVars == <<targetDevice, targetID, targetParams, deviceReset>>
readVars   == <<readMode, readPage, readCount>>
eraseVars  == <<eraseOperation, eraseActive, beginPage, endPage>>
writeVars  == <<writePage, writeCount, writeTotal, verifyWrite, verifyPage, flashBuffer>>
protoVars  == <<targetVars, readVars, eraseVars, writeVars, status,
                setupCallback, inPacket, chip, hung>>

EraseOps == {"all", "page", "pageRange", "idle"}
Status == [eraseComplete: 0..3, erasePage: Nat, writeOK: BOOLEAN]
NoStatus == [eraseComplete |-> 0, erasePage |-> 0, writeOK |-> FALSE]

TargetTypeOK ==
    /\ targetDevice \in {"none", "chip"}
    /\ targetID \in {"none", "chip", "ff", "garbled"}
    /\ targetParams \in {"none", "chip", "fallback"}
    /\ deviceReset \in BOOLEAN

ReadTypeOK ==
    readMode \in {"data", "sfdp"} /\ readPage \in Nat /\ readCount \in 0..CountModulus - 1

EraseTypeOK ==
    /\ eraseOperation \in EraseOps /\ eraseActive \in BOOLEAN
    /\ beginPage \in Nat /\ endPage \in Nat

WriteTypeOK ==
    /\ writePage \in Nat /\ verifyPage \in Nat /\ verifyWrite \in BOOLEAN
    /\ writeCount \in 0..FlashBufferSize /\ writeTotal \in 0..FlashBufferSize
    /\ flashBuffer \in Seq(Byte)

EngineTypeOK ==
    /\ status \in Status
    /\ setupCallback \in {"none", "handleErase", "handleRead", "handleWrite", "handleSFDPRead"}
    /\ inPacket \in Seq(Byte)
    /\ chip \in Chip
    /\ hung \in BOOLEAN

ProtoTypeOK == TargetTypeOK /\ ReadTypeOK /\ EraseTypeOK /\ WriteTypeOK /\ EngineTypeOK

\* spiInit drives the reset line high: the target board is held from power up
\* until an external chip is listed or released.
ProtoInit(contents) ==
    /\ targetDevice = "none" /\ targetID = "none" /\ targetParams = "none"
    /\ deviceReset = TRUE
    /\ readMode = "data" /\ readPage = 0 /\ readCount = 0
    /\ eraseOperation = "idle" /\ eraseActive = FALSE /\ beginPage = 0 /\ endPage = 0
    /\ writePage = 0 /\ writeCount = 0 /\ writeTotal = 0
    /\ verifyWrite = FALSE /\ verifyPage = 0 /\ flashBuffer = <<>>
    /\ status = NoStatus
    /\ setupCallback = "none" /\ inPacket = <<>>
    /\ chip = PowerOn(contents)
    /\ hung = FALSE

\* The firmware dereferences spiDevice(none) and goes no further.
Hang == hung' = TRUE /\ UNCHANGED <<targetVars, readVars, eraseVars, writeVars, status, inPacket, chip>>

(* Identification ********************************************************)
\* What readID and the retry of identDevice find on the external bus.  Without
\* a fresh edge the chip clocks the open transaction on instead of answering;
\* a chip that is busy leaves the line high.
Identified(c) ==
    CASE c.op \in {"read", "sfdp"} ->
            IF \A i \in 1..3 : Out(c, i) = Erased THEN "chip" ELSE "garbled"
      [] c.op \in {"program", "skewed"} -> IF Kind = "nor" THEN "ff" ELSE "chip"
      [] OTHER -> IF c.busy THEN "ff" ELSE "chip"

\* What identification does to the chip: the bytes of the command spoil an open
\* program (one byte stands for its four or five).  On the internal bus the
\* select lines of the external connector deselect the local chip.
IdentDevice(c) == Deselect(IF Bus = "external" THEN Latch(c, <<Corrupt>>) ELSE c)

PrepareW25N(c) ==
    IF Kind = "nand" /\ Ready(c) THEN [c EXCEPT !.protected = FALSE, !.bufMode = TRUE] ELSE c

\* The configuration is restored and the chip reset, which ends what it was doing.
RestoreW25N(c) ==
    IF Kind = "nand" /\ Ready(c) THEN [Finish(c) EXCEPT !.bufMode = FALSE, !.wel = FALSE] ELSE c

\* actualCapacity > 0x18: a NAND chip, and a chip that answered 0xFF.  Of the
\* fallback's parameters the addressing and the erase opcode are followed; its
\* 256 byte page, and isBusy without the address of a W25N's status, are not.
Paged == Kind = "nand" \/ targetParams = "fallback"

(* Requests without a data stage *****************************************)
FetchDeviceCount ==
    /\ ~hung
    /\ chip' = IdentDevice(chip)
    /\ deviceReset' = FALSE
    /\ setupCallback' = "none"
    /\ UNCHANGED <<targetDevice, targetID, targetParams, readVars, eraseVars, writeVars,
                   status, inPacket, hung>>

\* The internal chips were identified at power up, the external one is asked.
FetchDeviceListing(bus) ==
    /\ ~hung
    /\ IF bus = "external"
       THEN chip' = IdentDevice(chip) /\ deviceReset' = FALSE
       ELSE UNCHANGED <<chip, deviceReset>>
    /\ setupCallback' = "none"
    /\ UNCHANGED <<targetDevice, targetID, targetParams, readVars, eraseVars, writeVars,
                   status, inPacket, hung>>

\* Mutant: the target board is left running.
HoldResetNever == deviceReset

\* The target board is held in reset from here on: its own controller must
\* not drive the bus.
HoldReset == deviceReset \/ Bus = "external"

HandleTargetDevice ==
    LET id == IF Bus = "external" THEN Identified(chip) ELSE "chip"
        seen == IF Bus = "external" THEN IdentDevice(chip) ELSE chip
    IN /\ ~hung
       /\ targetDevice' = "chip"
       /\ targetID' = id
       /\ targetParams' = IF id = "chip" THEN "chip" ELSE "fallback"
       /\ deviceReset' = HoldReset
       /\ chip' = IF id = "chip" THEN PrepareW25N(seen) ELSE seen
       /\ setupCallback' = "none"
       /\ UNCHANGED <<readVars, eraseVars, writeVars, status, inPacket, hung>>

\* An address no chip has, answered with a stall.
RefuseTargetDevice ==
    /\ ~hung
    /\ setupCallback' = "none"
    /\ UNCHANGED <<targetVars, readVars, eraseVars, writeVars, status, inPacket, chip, hung>>

\* targetDevice with the bus "unknown" deselects; targetParams stays behind.
ReleaseTargetDevice ==
    /\ ~hung
    /\ targetDevice' = "none" /\ targetID' = "none"
    /\ deviceReset' = (deviceReset /\ ~(Bus = "external" /\ targetDevice = "chip"))
    /\ chip' = IF targetDevice = "chip" /\ targetID = "chip" THEN RestoreW25N(chip) ELSE chip
    /\ setupCallback' = "none"
    /\ UNCHANGED <<targetParams, readVars, eraseVars, writeVars, status, inPacket, hung>>

\* Mutant: the packet of the broken off read stays in the endpoint.
ResetTransfersKeepsPacket ==
    /\ readCount' = 0 /\ readMode' = "data"
    /\ writeCount' = 0 /\ writeTotal' = 0 /\ verifyWrite' = FALSE
    /\ UNCHANGED inPacket

\* The counters of a transfer and the packet that waits in the IN endpoint.
ResetTransfers ==
    /\ readCount' = 0 /\ readMode' = "data"
    /\ writeCount' = 0 /\ writeTotal' = 0 /\ verifyWrite' = FALSE
    /\ inPacket' = <<>>

\* Mutant: tick goes on with the erase of the command that was killed.
ResetEraseForgotten == UNCHANGED <<eraseActive, eraseOperation>>

ResetErase == eraseActive' = FALSE /\ eraseOperation' = "idle"

HandleAbort ==
    /\ ~hung
    /\ chip' = Deselect(chip)
    /\ targetDevice' = "none" /\ targetID' = "none" /\ targetParams' = "none"
    /\ ResetTransfers /\ ResetErase
    /\ status' = NoStatus
    /\ setupCallback' = "none"
    /\ UNCHANGED <<deviceReset, readPage, beginPage, endPage, writePage, verifyPage, flashBuffer, hung>>

\* Mutants: the erase is complete as soon as tick is done with it; whenever the
\* chip is idle; when the chip is not idle.
EraseStatusIgnoresChip ==
    IF eraseOperation = "idle" THEN status
    ELSE [status EXCEPT !.eraseComplete = IF eraseActive THEN 0 ELSE 1]
EraseStatusIgnoresTick ==
    IF eraseOperation = "idle" THEN status
    ELSE [status EXCEPT !.eraseComplete = IF chip.busy THEN 0 ELSE 1]
EraseStatusInverted ==
    IF eraseOperation = "idle" THEN status
    ELSE [status EXCEPT !.eraseComplete = IF eraseActive \/ ~chip.busy THEN 0 ELSE 1]

\* checkEraseStatus runs while an erase was asked for and not yet reported.
EraseStatus ==
    IF eraseOperation = "idle" THEN status
    ELSE [status EXCEPT !.eraseComplete = IF eraseActive \/ chip.busy THEN 0 ELSE 1]

FetchStatus ==
    /\ ~hung
    /\ setupCallback' = "none"
    /\ IF eraseOperation # "idle" /\ ~eraseActive /\ targetDevice = "none"
       THEN Hang
       ELSE /\ status' = EraseStatus
            /\ eraseOperation' = IF EraseStatus.eraseComplete # 0 THEN "idle" ELSE eraseOperation
            /\ UNCHANGED <<targetVars, readVars, eraseActive, beginPage, endPage, writeVars,
                           inPacket, chip, hung>>

(* Erase *****************************************************************)
\* Stalled, and reported as an error, when no device is targeted.
SetupErase(operation) ==
    /\ ~hung
    /\ IF targetDevice = "none"
       THEN /\ eraseOperation' = "idle"
            /\ status' = [status EXCEPT !.eraseComplete = 2]
            /\ setupCallback' = "none"
       ELSE /\ eraseOperation' = operation
            /\ setupCallback' = "handleErase"
            /\ UNCHANGED status
    /\ UNCHANGED <<targetVars, readVars, eraseActive, beginPage, endPage, writeVars,
                   inPacket, chip, hung>>

HandleErase(begin, end) ==
    /\ ~hung
    /\ beginPage' = begin
    /\ endPage' = IF eraseOperation = "page" THEN begin + 1 ELSE end
    /\ status' = [status EXCEPT
         !.eraseComplete = IF eraseOperation = "idle" THEN 3 ELSE 0,
         !.erasePage = IF eraseOperation \in {"page", "pageRange"} THEN begin ELSE @]
    /\ eraseActive' = (eraseActive \/ eraseOperation \in {"page", "pageRange"})
    /\ chip' = IF eraseOperation = "all" THEN ChipErase(WriteEnable(chip)) ELSE chip
    /\ setupCallback' = "none"
    /\ UNCHANGED <<targetVars, readVars, eraseOperation, writeVars, inPacket, hung>>

\* Mutants: the number of a program page is sent for that of an erase page; the
\* block erase opcode is used for every chip.
ErasePageByProgramPage(c, page) == EraseAround(WriteEnable(c), page * PageSize, EraseSize)
ErasePageByBlock(c, page) == EraseAround(WriteEnable(c), page * EraseSize, BlockErase)

\* The command tick sends for an erase page.  Page addressing sends the number
\* as it is: a NAND chip takes it for the number of a program page, a NOR chip
\* (parameters fabricated, 0xD8) for a byte address.
ErasePage(c, page) ==
    LET enabled == WriteEnable(c)
    IN CASE Kind = "nand" -> EraseAround(enabled, page * PageSize, EraseSize)
         [] Kind = "nor" /\ Paged -> EraseAround(enabled, page, BlockErase)
         [] OTHER -> EraseAround(enabled, page * EraseSize, EraseSize)

\* Mutant: the page number wraps before it reaches the end.
EraseNextPageWraps ==
    /\ chip' = ErasePage(chip, beginPage)
    /\ beginPage' = (beginPage + 1) % endPage
    /\ UNCHANGED eraseActive

EraseNextPage ==
    /\ chip' = ErasePage(chip, beginPage)
    /\ beginPage' = beginPage + 1
    /\ UNCHANGED eraseActive

\* The start of frame interrupt moves a page erase on by one page.
Tick ==
    /\ ~hung
    /\ eraseActive
    /\ IF targetDevice = "none"
       THEN Hang /\ UNCHANGED setupCallback
       ELSE /\ ~chip.busy
            /\ status' = [status EXCEPT !.erasePage = beginPage]
            /\ IF beginPage >= endPage
               THEN eraseActive' = FALSE /\ UNCHANGED <<chip, beginPage>>
               ELSE EraseNextPage
            /\ UNCHANGED <<targetVars, readVars, eraseOperation, endPage, writeVars,
                           setupCallback, inPacket, hung>>

(* Read ******************************************************************)
\* Mutants: a count of 0 is taken as it is; the test is the wrong way round.
RequestedAsIs(count) == count
RequestedSwapped(count) == IF count # 0 THEN DefaultCount ELSE count

\* A count of 0 is the default; one larger than the buffer is stalled.
Requested(count) == IF count = 0 THEN DefaultCount ELSE count

SetupRead(count) ==
    /\ ~hung
    /\ IF count > FlashBufferSize
       THEN setupCallback' = "none" /\ UNCHANGED readCount
       ELSE setupCallback' = "handleRead" /\ readCount' = Requested(count)
    /\ UNCHANGED <<targetVars, readMode, readPage, eraseVars, writeVars, status,
                   inPacket, chip, hung>>

SetupSFDPRead(count) ==
    /\ ~hung
    /\ IF count > FlashBufferSize
       THEN setupCallback' = "none" /\ UNCHANGED readCount
       ELSE setupCallback' = "handleSFDPRead" /\ readCount' = Requested(count)
    /\ UNCHANGED <<targetVars, readMode, readPage, eraseVars, writeVars, status,
                   inPacket, chip, hung>>

\* Mutant: the page is never loaded into the chip's buffer.
BeginPageReadUnloaded(c, page) == OpenRead(c, IF Paged THEN 0 ELSE page * FlashPageSize)

\* Page addressing loads the page into the chip's buffer and waits for that,
\* then reads from column 0; a byte address is simply sent.
BeginPageRead(c, page) ==
    IF Paged THEN OpenRead(Finish(LoadPage(c, page)), 0)
    ELSE OpenRead(c, page * FlashPageSize)

\* Loads one packet from transaction c, with count bytes still to deliver.
\* Every packet is a full one: a count that is no multiple wraps.
PerformRead(c, page, count) ==
    LET left == IF count >= EpBufferSize THEN count - EpBufferSize
                ELSE CountModulus + count - EpBufferSize
        rest == Advance(c, EpBufferSize)
        next == left # 0 /\ Kind = "nand" /\ targetID = "chip" /\ left % FlashPageSize = 0
    IN /\ inPacket' = Take(c, EpBufferSize)
       /\ readCount' = left
       /\ readPage' = IF next THEN page + 1 ELSE page
       /\ chip' = IF left = 0 THEN Deselect(rest)
                  ELSE IF next THEN BeginPageRead(Deselect(rest), page + 1) ELSE rest

\* Mutants: the last packet is a full one, as in performRead; the transaction is
\* left open at the end.
PerformSFDPReadFull(c, count) ==
    LET rest == Advance(c, EpBufferSize)
    IN /\ inPacket' = Take(c, EpBufferSize)
       /\ readCount' = count - EpBufferSize
       /\ chip' = IF count = EpBufferSize THEN Deselect(rest) ELSE rest
PerformSFDPReadOpen(c, count) ==
    LET amount == IF count < EpBufferSize THEN count ELSE EpBufferSize
    IN /\ inPacket' = Take(c, amount)
       /\ readCount' = count - amount
       /\ chip' = Advance(c, amount)

PerformSFDPRead(c, count) ==
    LET amount == IF count < EpBufferSize THEN count ELSE EpBufferSize
        rest == Advance(c, amount)
    IN /\ inPacket' = Take(c, amount)
       /\ readCount' = count - amount
       /\ chip' = IF count = amount THEN Deselect(rest) ELSE rest

HandleRead(page) ==
    /\ ~hung
    /\ setupCallback' = "none"
    /\ IF targetDevice = "none"
       THEN readPage' = page /\ UNCHANGED <<readMode, readCount, inPacket, chip>>
       ELSE readMode' = "data" /\ PerformRead(BeginPageRead(chip, page), page, readCount)
    /\ UNCHANGED <<targetVars, eraseVars, writeVars, status, hung>>

HandleSFDPRead(address) ==
    /\ ~hung
    /\ setupCallback' = "none"
    /\ IF targetDevice = "none"
       THEN UNCHANGED <<readMode, readCount, inPacket, chip>>
       ELSE readMode' = "sfdp" /\ PerformSFDPRead(OpenSfdp(chip, address), readCount)
    /\ UNCHANGED <<targetVars, readPage, eraseVars, writeVars, status, hung>>

\* The IN endpoint's completion: the host has taken inPacket.
PerformDataOrSFDPRead ==
    /\ ~hung
    /\ UNCHANGED setupCallback
    /\ IF readCount > 0 /\ chip.op = "none"
       THEN Hang
       ELSE /\ CASE readCount = 0 -> inPacket' = <<>> /\ UNCHANGED <<readPage, readCount, chip>>
                 [] readCount > 0 /\ readMode = "data" -> PerformRead(chip, readPage, readCount)
                 [] OTHER -> PerformSFDPRead(chip, readCount) /\ UNCHANGED readPage
            /\ UNCHANGED <<targetVars, readMode, eraseVars, writeVars, status, hung>>

(* Write *****************************************************************)
SetupWrite(count, verify) ==
    /\ ~hung
    /\ IF count > FlashBufferSize
       THEN /\ setupCallback' = "none"
            /\ UNCHANGED <<writeCount, writeTotal, verifyWrite, status>>
       ELSE /\ setupCallback' = "handleWrite"
            /\ writeCount' = Requested(count) /\ writeTotal' = Requested(count)
            /\ verifyWrite' = verify
            /\ status' = [status EXCEPT !.writeOK = TRUE]
    /\ UNCHANGED <<targetVars, readVars, eraseVars, writePage, verifyPage, flashBuffer,
                   inPacket, chip, hung>>

\* writeAddress: a page program is opened on a write enabled chip.  With byte
\* addressing the page number moves on here, otherwise in writePageAddress.
WriteAddress(c, page) ==
    IF Paged THEN OpenLoad(WriteEnable(c)) ELSE OpenProgram(WriteEnable(c), page * FlashPageSize)

\* Mutant: the page number never moves on.
AfterAddressSame(page) == page

AfterAddress(page) == IF Paged THEN page ELSE page + 1

\* Mutant: writePageAddress is forgotten.
FinishPageUnexecuted(c, page) == Finish(Deselect(c))

\* The end of a page: chip select rises, writePageAddress executes a page
\* addressed program, and the handler waits for the chip.
FinishPage(c, page) ==
    Finish(IF Paged THEN ExecuteProgram(Deselect(c), page) ELSE Deselect(c))

\* targetDevice is not checked: without one, writeAddress has no SPI device.
HandleWrite(page) ==
    /\ ~hung
    /\ setupCallback' = "none"
    /\ IF targetDevice = "none"
       THEN Hang
       ELSE /\ verifyPage' = page
            /\ chip' = WriteAddress(chip, page)
            /\ writePage' = AfterAddress(page)
            /\ flashBuffer' = <<>>
            /\ UNCHANGED <<targetVars, readVars, eraseVars, writeCount, writeTotal, verifyWrite,
                           status, inPacket, hung>>

\* The verify loop re-addresses after every index that is a multiple of the
\* page size, index 0 included: byte 0 comes from page, the bytes that follow
\* from the pages after it.
VerifyReads(page, idx) == IF idx = 0 THEN page ELSE page + ((idx - 1) \div FlashPageSize) + 1
VerifyColumn(idx) == IF idx = 0 THEN 0 ELSE (idx - 1) % FlashPageSize

VerifyOK(c, buffer, page) ==
    \A idx \in 0..Len(buffer) - 1 :
        buffer[idx + 1] = Out(BeginPageRead(c, VerifyReads(page, idx)), VerifyColumn(idx))

\* A bulk OUT packet.  flashBuffer collects the bytes of the current write.
PerformWrite(packet) ==
    LET end == writeTotal - writeCount + Len(packet)
        left == writeCount - Len(packet)
        sent == Latch(chip, packet)
        buffer == flashBuffer \o packet
        done == FinishPage(sent, writePage)
        donePage == IF Paged THEN writePage + 1 ELSE writePage
        verified == VerifyReads(verifyPage, writeTotal)
    IN /\ ~hung
       /\ UNCHANGED setupCallback
       /\ IF writeCount > 0 /\ chip.op = "none"
          THEN Hang
          ELSE /\ \/ /\ writeCount = 0
                     /\ UNCHANGED <<writeCount, flashBuffer, chip, writePage, verifyPage, status>>
                  \/ /\ writeCount > 0
                     /\ writeCount' = left /\ flashBuffer' = buffer
                     /\ \/ /\ left > 0 /\ end % FlashPageSize # 0
                           /\ chip' = sent
                           /\ UNCHANGED <<writePage, verifyPage, status>>
                        \/ /\ left > 0 /\ end % FlashPageSize = 0
                           /\ chip' = WriteAddress(done, donePage)
                           /\ writePage' = AfterAddress(donePage)
                           /\ UNCHANGED <<verifyPage, status>>
                        \/ /\ left = 0 /\ ~verifyWrite
                           /\ chip' = done /\ writePage' = donePage
                           /\ UNCHANGED <<verifyPage, status>>
                        \/ /\ left = 0 /\ verifyWrite
                           /\ chip' = Deselect(BeginPageRead(done, verified))
                           /\ writePage' = donePage /\ verifyPage' = verified
                           /\ status' = [status EXCEPT !.writeOK =
                                            @ /\ VerifyOK(done, buffer, verifyPage)]
               /\ UNCHANGED <<targetVars, readVars, eraseVars, writeTotal, verifyWrite, inPacket, hung>>
=============================================================================
