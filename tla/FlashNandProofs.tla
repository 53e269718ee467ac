-------------------------- MODULE FlashNandProofs --------------------------
(***************************************************************************)
(* The bytes of a W25N, which is addressed by page: a read goes through    *)
(* the chip's page buffer, a program through the same buffer and a second  *)
(* command.  The chip is on the external bus, so that everything here is   *)
(* about commands that started quietly; hosts are killed as they may.      *)
(*                                                                         *)
(*   NandTrust   the chip is identified, unprotected and in buffer mode    *)
(*   NandReads   the bytes of the chip the host has, and the page loaded   *)
(*   NandWrites  the cells that hold the file, and the page being sent;    *)
(*               for files within one erase block, since tick erases no    *)
(*               other                                                     *)
(***************************************************************************)
EXTENDS FlashJobProofs

(* What the handlers make of a page addressed chip ***********************)
\* Only the external bus takes a W25N, and its parameters always page.
LEMMA NandSetting ==
    ASSUME Kind = "nand", KnownChip
    PROVE  Bus = "external" /\ Paged /\ (Trusted <=> quiet)
  BY ProtoAssumption DEF Paged, Trusted

\* Transaction c of a read clocks out page from the chip's buffer, byte next of
\* the array is the next one, and count more bytes end with a page.
Paging(c, page, count, next) ==
    /\ c.op = "read" /\ c.base = 0 /\ ~c.busy /\ c.bufMode
    /\ c.pos \in Column /\ c.pos % EpBufferSize = 0
    /\ page * PageSize + c.pos = next
    /\ (count + c.pos) % PageSize = 0
    /\ \A k \in Column : c.buf[k] = Cell(c, page * PageSize + k)

\* A ready chip loads the page that is asked for and offers it from its first
\* byte.
LEMMA NandLoaded ==
    ASSUME Kind = "nand", KnownChip, NEW c \in Chip, Ready(c), c.bufMode, NEW page \in Nat,
           NEW count, count % PageSize = 0, count \in Nat
    PROVE  /\ BeginPageRead(c, page) \in Chip /\ BeginPageRead(c, page).mem = c.mem
           /\ Paging(BeginPageRead(c, page), page, count, page * PageSize)
  <1> DEFINE cells == [k \in Column |-> Cell(c, page * PageSize + k)]
             d == BeginPageRead(c, page)
  <1>1. d = [c EXCEPT !.op = "read", !.base = 0, !.pos = 0, !.buf = cells]
    <2>1. Finish(LoadPage(c, page)) = [c EXCEPT !.buf = cells]
      BY DEF LoadPage, Finish, Ready, Chip
    <2> HIDE DEF cells
    <2>2. [c EXCEPT !.buf = cells].op = c.op /\ [c EXCEPT !.buf = cells].busy = c.busy
      BY DEF Chip
    <2>3. QED
      BY <2>1, <2>2, NandSetting DEF BeginPageRead, OpenRead, Open, Ready, Chip
  <1>2. d \in Chip
    BY BeginPageReadChip
  <1> HIDE DEF d
  <1>3. /\ d.op = "read" /\ d.base = 0 /\ d.pos = 0 /\ d.mem = c.mem /\ d.busy = c.busy
        /\ d.bufMode = c.bufMode /\ d.buf = cells
    <2> HIDE DEF cells
    <2>1. QED
      BY <1>1 DEF Chip
  <1>4. 0 \in Column /\ 0 % EpBufferSize = 0 /\ page * PageSize \in Nat
    BY ChipAssumption, ProtoAssumption DEF Column
  <1>5. \A k \in Column : d.buf[k] = Cell(d, page * PageSize + k)
    BY <1>3 DEF Cell
  <1>6. QED
    BY <1>2, <1>3, <1>4, <1>5 DEF Paging, Ready, d

\* A count that ends with a page ends here exactly when the page does.
LEMMA CountEnd ==
    ASSUME NEW left \in Nat, NEW pos \in 1..PageSize, (left + pos) % PageSize = 0
    PROVE  left % PageSize = 0 <=> pos = PageSize
  <1> DEFINE p == PageSize
             q == (left + pos) \div p
             r == left \div p
             s == left % p
  <1>1. p \in Nat \ {0} /\ left \in Int /\ pos \in 1..p
    BY ChipAssumption
  <1>2. (left + pos) % p = 0
    OBVIOUS
  <1> HIDE DEF p
  <1>3. q \in Int /\ left + pos = (p * q) + 0
    <2> DEFINE a == left + pos
    <2>1. a \in Int /\ a % p = 0
      BY <1>1, <1>2
    <2> HIDE DEF a
    <2>2. a \div p \in Int /\ a = (p * (a \div p)) + 0
      BY <1>1, <2>1, ModDef
    <2>3. QED
      BY <2>2 DEF a
  <1>4. r \in Int /\ left = (p * r) + s /\ s \in 0..p - 1
    BY <1>1, ModDef
  <1> HIDE DEF q, r, s
  <1>5. p * (q - r) = s + pos
    <2>1. p * (q - r) = (p * q) - (p * r)
      BY <1>1, <1>3, <1>4
    <2>2. QED
      BY <1>1, <1>3, <1>4, <2>1
  <1>6. q - r <= 0 => p * (q - r) <= 0
    BY <1>1, <1>3, <1>4
  <1>7. q - r >= 2 => p * (q - r) >= p + p
    BY <1>1, <1>3, <1>4
  <1>8. q - r = 1
    BY <1>1, <1>3, <1>4, <1>5, <1>6, <1>7
  <1>9. s + pos = p
    BY <1>1, <1>4, <1>5, <1>8
  <1>10. QED
    BY <1>1, <1>4, <1>9 DEF p, s

\* A packet of a read holds the next cells; at the end of a page the next page
\* is loaded, and the read goes on behind it.
LEMMA NandPacket ==
    ASSUME Kind = "nand", KnownChip, targetID = "chip", NEW c \in Chip, NEW page \in Nat, NEW next \in Nat,
           NEW count \in 0..CountModulus - 1, count >= EpBufferSize, Paging(c, page, count, next),
           PerformRead(c, page, count)
    PROVE  /\ chip'.mem = c.mem /\ ~chip'.busy
           /\ \A i \in 1..EpBufferSize : inPacket'[i] = Cell(c, next + (i - 1))
           /\ readCount' > 0 => Paging(chip', readPage', readCount', next + EpBufferSize)
  <1> DEFINE left == count - EpBufferSize
             rest == Advance(c, EpBufferSize)
             lifted == Deselect(rest)
             pos == c.pos + EpBufferSize
  <1>1. /\ EpBufferSize \in Nat \ {0} /\ PageSize \in Nat \ {0} /\ c.pos \in Nat /\ c.pos < PageSize
        /\ page * PageSize \in Nat /\ left \in Nat /\ page + 1 \in Nat /\ count \in Nat
        /\ c.op = "read" /\ c.base = 0 /\ ~c.busy /\ c.bufMode /\ c.pos \in Column
        /\ c.pos % EpBufferSize = 0
    BY ProtoAssumption, ChipAssumption DEF Paging, Column
  <1>2. pos \in 1..PageSize /\ pos % EpBufferSize = 0
    <2>1. c.pos + EpBufferSize <= PageSize /\ (c.pos + EpBufferSize) % EpBufferSize = 0
      BY <1>1, PacketInPage
    <2>2. QED
      BY <1>1, <2>1
  <1>3. (left + pos) % PageSize = 0
    <2>1. left + pos = count + c.pos
      BY <1>1
    <2>2. QED
      BY <2>1 DEF Paging
  <1>4. left % PageSize = 0 <=> pos = PageSize
    <2> HIDE DEF left, pos
    <2>1. QED
      BY <1>1, <1>2, <1>3, CountEnd
  <1>5. /\ rest \in Chip /\ rest.op = "read" /\ rest.mem = c.mem /\ ~rest.busy /\ rest.bufMode
        /\ rest.base = 0 /\ rest.pos = pos /\ rest.buf = c.buf
    BY <1>1, AdvanceChip DEF Advance, Chip
  <1>6. /\ inPacket' = Take(c, EpBufferSize) /\ readCount' = left
        /\ left # 0 /\ left % PageSize = 0 =>
              chip' = BeginPageRead(lifted, page + 1) /\ readPage' = page + 1
        /\ left # 0 /\ left % PageSize # 0 => chip' = rest /\ readPage' = page
        /\ left = 0 => chip' = lifted
    BY DEF PerformRead, KnownChip
  <1> HIDE DEF rest
  <1>7. lifted \in Chip /\ Ready(lifted) /\ lifted.bufMode /\ lifted.mem = c.mem
    <2>1. lifted = [rest EXCEPT !.op = "none", !.base = 0, !.pos = 0] /\ lifted \in Chip
      BY <1>5, DeselectQuiet, DeselectChip
    <2> HIDE DEF lifted
    <2>2. /\ lifted.op = "none" /\ lifted.busy = rest.busy /\ lifted.bufMode = rest.bufMode
          /\ lifted.mem = rest.mem
      BY <1>5, <2>1 DEF Chip
    <2>3. QED
      BY <1>5, <2>1, <2>2 DEF Ready
  <1>8. ASSUME NEW i \in 1..EpBufferSize
        PROVE  inPacket'[i] = Cell(c, next + (i - 1))
    <2> DEFINE at == c.pos
               x == at + (i - 1)
               first == page * PageSize
    <2>1. /\ at \in Nat /\ i \in Nat \ {0} /\ i <= EpBufferSize /\ first \in Nat
          /\ at + EpBufferSize <= PageSize /\ first + at = next
      BY <1>1, <1>2 DEF Paging
    <2>2. inPacket'[i] = Out(c, i - 1) /\ c.base + c.pos + (i - 1) = x
      BY <1>1, <1>6 DEF Take
    <2> HIDE DEF at, first
    <2>3. x \in Column /\ next + (i - 1) = first + x
      BY <1>1, <2>1 DEF Column
    <2> HIDE DEF x
    <2>4. Out(c, i - 1) = c.buf[x]
      BY <1>1, <2>2, <2>3 DEF Out
    <2>5. QED
      BY <2>2, <2>3, <2>4 DEF Paging, first
  <1> HIDE DEF left, lifted
  <1>9. CASE left # 0 /\ left % PageSize = 0
    <2>1. /\ chip' = BeginPageRead(lifted, page + 1) /\ readPage' = page + 1
      BY <1>6, <1>9
    <2>2. /\ chip'.mem = c.mem
          /\ Paging(chip', page + 1, left, (page + 1) * PageSize)
      BY <1>1, <1>7, <1>9, <2>1, NandLoaded
    <2>3. (page + 1) * PageSize = next + EpBufferSize
      <3>1. (page + 1) * PageSize = page * PageSize + PageSize
        BY <1>1
      <3>2. page * PageSize + c.pos = next
        BY DEF Paging
      <3>3. QED
        BY <1>1, <1>2, <1>4, <1>9, <3>1, <3>2
    <2>4. QED
      BY <1>6, <1>8, <2>1, <2>2, <2>3 DEF Paging
  <1>10. CASE left # 0 /\ left % PageSize # 0
    <2>1. chip' = rest /\ readPage' = page
      BY <1>6, <1>10
    <2>2. pos \in Column
      BY <1>1, <1>2, <1>4, <1>10 DEF Column
    <2>3. page * PageSize + pos = next + EpBufferSize
      BY <1>1 DEF Paging
    <2>4. \A k \in Column : rest.buf[k] = Cell(rest, page * PageSize + k)
      BY <1>5 DEF Paging, Cell
    <2> HIDE DEF pos
    <2>5. Paging(rest, page, left, next + EpBufferSize)
      BY <1>2, <1>3, <1>5, <2>2, <2>3, <2>4 DEF Paging
    <2>6. QED
      BY <1>5, <1>6, <1>8, <2>1, <2>5
  <1>11. CASE left = 0
    BY <1>6, <1>7, <1>8, <1>11 DEF Ready
  <1>12. QED
    BY <1>9, <1>10, <1>11

\* Chip select rising ends a transaction and starts nothing.
LEMMA NandDeselect ==
    ASSUME Kind = "nand", KnownChip, NEW c \in Chip
    PROVE  /\ Deselect(c) \in Chip /\ Deselect(c).op = "none" /\ Deselect(c).mem = c.mem
           /\ Deselect(c).busy = c.busy /\ Deselect(c).wel = c.wel /\ Deselect(c).buf = c.buf
           /\ Deselect(c).protected = c.protected
  <1>1. Deselect(c) = [c EXCEPT !.op = "none", !.base = 0, !.pos = 0]
    BY DEF Deselect
  <1>2. Deselect(c) \in Chip
    BY DeselectChip
  <1>3. QED
    BY <1>1, <1>2 DEF Chip

\* Reading, on a chip in any state, neither changes the array nor makes it busy.
LEMMA NandReadKeeps ==
    ASSUME Kind = "nand", KnownChip, NEW c \in Chip, NEW page \in Nat
    PROVE  BeginPageRead(c, page).mem = c.mem /\ (~c.busy => ~BeginPageRead(c, page).busy)
  <1>1. LoadPage(c, page).mem = c.mem /\ LoadPage(c, page) \in Chip
    BY LoadPageChip DEF LoadPage, Chip
  <1>2. Finish(LoadPage(c, page)).mem = c.mem /\ ~Finish(LoadPage(c, page)).busy
    BY <1>1 DEF Finish, Chip
  <1>3. Finish(LoadPage(c, page)) \in Chip
    BY <1>1, FinishChip
  <1>4. QED
    BY <1>2, <1>3, NandSetting DEF BeginPageRead, OpenRead, Open, Chip

\* Nor does a packet of a read.
LEMMA NandTransferKeeps ==
    ASSUME Kind = "nand", KnownChip, NEW c \in Chip, NEW page \in Nat, NEW count \in 0..CountModulus - 1,
           PerformRead(c, page, count) \/ PerformSFDPRead(c, count)
    PROVE  chip'.mem = c.mem /\ (~c.busy => ~chip'.busy)
  <1>1. ASSUME NEW n \in Nat
        PROVE  /\ Advance(c, n) \in Chip /\ Advance(c, n).mem = c.mem /\ Advance(c, n).busy = c.busy
               /\ Deselect(Advance(c, n)) \in Chip
               /\ Deselect(Advance(c, n)).mem = c.mem /\ Deselect(Advance(c, n)).busy = c.busy
    <2>1. Advance(c, n) \in Chip
      BY AdvanceChip
    <2>2. Advance(c, n).mem = c.mem /\ Advance(c, n).busy = c.busy
      BY DEF Advance, Chip
    <2>3. QED
      BY <2>1, <2>2, NandDeselect
  <1>2. CASE PerformRead(c, page, count)
    <2> DEFINE rest == Advance(c, EpBufferSize)
    <2>1. chip' \in {rest, Deselect(rest), BeginPageRead(Deselect(rest), page + 1)}
      BY <1>2 DEF PerformRead
    <2>2. EpBufferSize \in Nat /\ page + 1 \in Nat
      BY ProtoAssumption
    <2>3. QED
      BY <1>1, <2>1, <2>2, NandReadKeeps
  <1>3. CASE PerformSFDPRead(c, count)
    <2> DEFINE amount == IF count < EpBufferSize THEN count ELSE EpBufferSize
    <2>1. amount \in Nat /\ chip' \in {Advance(c, amount), Deselect(Advance(c, amount))}
      BY <1>3, ProtoAssumption DEF PerformSFDPRead
    <2>2. QED
      BY <1>1, <2>1
  <1>4. QED
    BY <1>2, <1>3

\* The requests and packets of reads and dumps.
LEMMA NandStreamKeeps ==
    ASSUME Kind = "nand", KnownChip, ControlInv, SendReadPage \/ ReadBulk \/ SendSfdpAddress \/ SfdpBulk
    PROVE  chip'.mem = chip.mem /\ (~chip.busy => ~chip'.busy)
  <1>1. /\ ProtoTypeOK /\ chip \in Chip /\ readPage \in Nat /\ readCount \in 0..CountModulus - 1
        /\ readMode \in {"data", "sfdp"} /\ block * PagesPerChunk \in Nat
    BY BlockPages DEF ControlInv, TypeOK, ProtoTypeOK, EngineTypeOK, ReadTypeOK
  <1>2. CASE SendReadPage
    <2> DEFINE page == block * PagesPerChunk
               opened == BeginPageRead(chip, page)
    <2>1. PerformRead(opened, page, readCount)
      BY <1>2 DEF SendReadPage, HandleRead, ControlInv, PhaseInv, Working
    <2>2. opened \in Chip /\ opened.mem = chip.mem /\ (~chip.busy => ~opened.busy)
      BY <1>1, BeginPageReadChip, NandReadKeeps
    <2> HIDE DEF opened, page
    <2>3. page \in Nat
      BY <1>1 DEF page
    <2>4. QED
      BY <1>1, <2>1, <2>2, <2>3, NandTransferKeeps
  <1>3. CASE ReadBulk \/ SfdpBulk
    <2>1. PerformDataOrSFDPRead
      BY <1>3 DEF ReadBulk, SfdpBulk, Receive
    <2>2. CASE readCount = 0 \/ chip.op = "none"
      BY <1>1, <2>1, <2>2 DEF PerformDataOrSFDPRead, Hang
    <2>3. CASE readCount > 0 /\ chip.op # "none"
      <3>1. PerformRead(chip, readPage, readCount) \/ PerformSFDPRead(chip, readCount)
        BY <2>1, <2>3 DEF PerformDataOrSFDPRead
      <3>2. QED
        BY <1>1, <3>1, NandTransferKeeps
    <2>4. QED
      BY <1>1, <2>2, <2>3
  <1>4. CASE SendSfdpAddress
    BY <1>4, SfdpCells
  <1>5. QED
    BY <1>2, <1>3, <1>4

\* A ready chip opens its buffer for a page; the array stays.
LEMMA NandAddressed ==
    ASSUME Kind = "nand", KnownChip, NEW c \in Chip, Ready(c), NEW page
    PROVE  LET d == WriteAddress(c, page)
           IN /\ d.op = "program" /\ d.wel /\ ~d.busy /\ d.pos = 0 /\ d.buf = Blank /\ d.mem = c.mem
  <1>1. WriteEnable(c) = [c EXCEPT !.wel = TRUE]
    BY DEF WriteEnable
  <1>2. WriteEnable(c) \in Chip /\ Ready(WriteEnable(c)) /\ WriteEnable(c).wel /\ WriteEnable(c).mem = c.mem
    BY <1>1, WriteEnableChip DEF Ready, Chip
  <1>3. WriteAddress(c, page) =
          [WriteEnable(c) EXCEPT !.op = "program", !.base = 0, !.pos = 0, !.buf = Blank]
    BY <1>2, NandSetting DEF WriteAddress, OpenLoad, Open
  <1>4. QED
    BY <1>2, <1>3 DEF Ready, Chip

\* The end of a page executes the program and waits for it.
LEMMA NandFinished ==
    ASSUME Kind = "nand", KnownChip, NEW c \in Chip, NEW page
    PROVE  /\ FinishPage(c, page) \in Chip /\ Ready(FinishPage(c, page))
           /\ c.wel /\ ~c.busy /\ ~c.protected => FinishPage(c, page).mem = Burn(c, page * PageSize)
  <1> DEFINE d == Deselect(c)
             cells == Burn(d, page * PageSize)
  <1>1. /\ d \in Chip /\ d.op = "none" /\ d.mem = c.mem /\ d.busy = c.busy /\ d.wel = c.wel
        /\ d.buf = c.buf /\ d.protected = c.protected
    BY NandDeselect
  <1>2. cells = Burn(c, page * PageSize)
    BY <1>1 DEF Burn
  <1>3. ExecuteProgram(d, page) \in Chip
    BY <1>1, ExecuteProgramChip
  <1>4. FinishPage(c, page) = Finish(ExecuteProgram(d, page)) /\ ExecuteProgram(d, page) = Modify(d, cells)
    BY NandSetting DEF FinishPage, ExecuteProgram
  <1> HIDE DEF d, cells
  <1>5. ASSUME c.wel, ~c.busy, ~c.protected
        PROVE  FinishPage(c, page).mem = cells
    BY <1>1, <1>4, <1>5 DEF Modify, Ready, Finish, Chip
  <1>6. ~FinishPage(c, page).busy
    BY <1>3, <1>4 DEF Finish, Chip
  <1>7. QED
    BY <1>2, <1>5, <1>6, FinishPageChip DEF Ready

\* A packet goes into the chip's buffer or nowhere.
LEMMA NandLatch ==
    ASSUME NEW c \in Chip, NEW bytes \in Seq(Byte)
    PROVE  LET d == Latch(c, bytes)
           IN /\ d \in Chip /\ d.wel = c.wel /\ d.busy = c.busy /\ d.mem = c.mem
              /\ d.protected = c.protected
  <1> DEFINE d == Latch(c, bytes)
             wrapped == [k \in Column |-> LET i == ((k - c.pos) % PageSize) + 1
                                          IN IF i <= Len(bytes) THEN bytes[i] ELSE c.buf[k]]
             corrupt == [k \in Column |-> Corrupt]
             pos == c.pos + Len(bytes)
  <1>1. d \in Chip
    BY LatchChip
  <1>2. \/ d = [c EXCEPT !.pos = pos, !.buf = wrapped]
        \/ d = [c EXCEPT !.pos = pos, !.buf = corrupt]
        \/ d = c
    BY DEF Latch
  <1> HIDE DEF d, wrapped, corrupt, pos
  <1>3. d.wel = c.wel /\ d.busy = c.busy /\ d.mem = c.mem /\ d.protected = c.protected
    BY <1>1, <1>2 DEF Chip
  <1>4. QED
    BY <1>1, <1>3 DEF d

\* A packet of a write: a page that is full, or ends the block, is programmed
\* where it belongs, and the next one opened on a chip that is ready.
LEMMA NandWritten ==
    ASSUME Kind = "nand", KnownChip, ProtoTypeOK, chip.op # "none",
           NEW packet \in Seq(Byte), Len(packet) \in 1..writeCount, PerformWrite(packet),
           NEW sent, sent = Latch(chip, packet),
           NEW cells, cells = Burn(sent, writePage * PageSize),
           NEW full \in BOOLEAN, full <=> (writeTotal - writeCount + Len(packet)) % PageSize = 0
    PROVE  /\ ~chip.busy => ~chip'.busy
           /\ writeCount > Len(packet) /\ ~full => chip' = sent /\ writePage' = writePage
           /\ writeCount > Len(packet) /\ full =>
                 /\ chip'.op = "program" /\ chip'.wel /\ ~chip'.busy /\ chip'.pos = 0
                 /\ chip'.buf = Blank /\ writePage' = writePage + 1
           /\ chip.wel /\ ~chip.busy /\ ~chip.protected /\ (writeCount = Len(packet) \/ full) =>
                 chip'.mem = cells /\ ~chip'.busy
  <1> DEFINE done == FinishPage(sent, writePage)
             n == Len(packet)
             verified == VerifyReads(verifyPage, writeTotal)
  <1>1. /\ chip \in Chip /\ writePage \in Nat /\ verified \in Nat
        /\ writeCount \in Nat /\ writeTotal \in Nat /\ n \in 1..writeCount
    <2>1. /\ chip \in Chip /\ writePage \in Nat /\ verifyPage \in Nat
          /\ writeCount \in Nat /\ writeTotal \in Nat /\ n \in 1..writeCount
      BY ProtoAssumption DEF ProtoTypeOK, EngineTypeOK, WriteTypeOK
    <2>2. QED
      BY <2>1, VerifyReadsNat
  <1>2. /\ sent \in Chip /\ sent.wel = chip.wel /\ sent.busy = chip.busy
        /\ sent.protected = chip.protected
    BY <1>1, NandLatch
  <1>3. /\ done \in Chip /\ Ready(done)
        /\ chip.wel /\ ~chip.busy /\ ~chip.protected => done.mem = cells
    BY <1>2, NandFinished
  <1>4. \/ writeCount > n /\ ~full /\ chip' = sent /\ writePage' = writePage
        \/ /\ writeCount > n /\ full /\ chip' = WriteAddress(done, writePage + 1)
           /\ writePage' = writePage + 1
        \/ writeCount = n /\ chip' \in {done, Deselect(BeginPageRead(done, verified))}
    <2> DEFINE end == writeTotal - writeCount + n
    <2>1. end % PageSize = 0 <=> full
      OBVIOUS
    <2> HIDE DEF end
    <2>2. \/ writeCount - n > 0 /\ end % PageSize # 0 /\ chip' = sent /\ writePage' = writePage
          \/ /\ writeCount - n > 0 /\ end % PageSize = 0 /\ chip' = WriteAddress(done, writePage + 1)
             /\ writePage' = writePage + 1
          \/ writeCount - n = 0 /\ chip' \in {done, Deselect(BeginPageRead(done, verified))}
      BY <1>1, NandSetting DEF PerformWrite, AfterAddress, end, KnownChip
    <2>3. QED
      BY <1>1, <2>1, <2>2
  <1> HIDE DEF done, n, verified
  <1>5. /\ WriteAddress(done, writePage + 1).op = "program" /\ WriteAddress(done, writePage + 1).wel
        /\ ~WriteAddress(done, writePage + 1).busy /\ WriteAddress(done, writePage + 1).pos = 0
        /\ WriteAddress(done, writePage + 1).buf = Blank
        /\ WriteAddress(done, writePage + 1).mem = done.mem
    BY <1>3, NandAddressed
  <1>6. /\ Deselect(BeginPageRead(done, verified)).mem = done.mem
        /\ ~Deselect(BeginPageRead(done, verified)).busy /\ ~done.busy
    <2> DEFINE read == BeginPageRead(done, verified)
    <2>1. read \in Chip /\ read.mem = done.mem /\ ~read.busy /\ ~done.busy
      BY <1>1, <1>3, BeginPageReadChip, NandReadKeeps DEF Ready
    <2> HIDE DEF read
    <2>2. Deselect(read).mem = done.mem /\ ~Deselect(read).busy
      BY <2>1, NandDeselect
    <2>3. QED
      BY <2>1, <2>2 DEF read
  <1>7. writeCount > n => writeCount # n
    BY <1>1
  <1>8. QED
    BY <1>1, <1>2, <1>3, <1>4, <1>5, <1>6, <1>7 DEF n

\* The first frame of an erase clears the erase page at the start of the array,
\* and none makes a chip that is not busy so but by erasing.
LEMMA NandTick ==
    ASSUME Kind = "nand", KnownChip, ProtoTypeOK, targetDevice # "none", chip.op = "none", ~chip.protected, Tick
    PROVE  /\ ~chip.busy
           /\ beginPage >= endPage => ~eraseActive' /\ UNCHANGED <<chip, beginPage>>
           /\ beginPage < endPage => beginPage' = beginPage + 1
           /\ beginPage = 0 /\ beginPage < endPage =>
                 chip'.mem = [a \in Addr |-> IF a \div EraseSize = 0 THEN Erased ELSE chip.mem[a]]
  <1>1. chip \in Chip /\ beginPage \in Nat /\ endPage \in Nat /\ EraseSize \in Nat \ {0}
    BY ChipAssumption DEF ProtoTypeOK, EngineTypeOK, EraseTypeOK
  <1>2. Ready(chip)
    BY DEF Tick, Ready
  <1>3. beginPage >= endPage => eraseActive' = FALSE /\ UNCHANGED <<chip, beginPage>>
    BY DEF Tick
  <1>4. ASSUME beginPage < endPage
        PROVE  chip' = ErasePage(chip, beginPage) /\ beginPage' = beginPage + 1
    <2>1. ~(beginPage >= endPage)
      BY <1>1, <1>4
    <2>2. QED
      BY <2>1 DEF Tick, EraseNextPage
  <1>5. ErasePage(chip, 0).mem = [a \in Addr |-> IF a \div EraseSize = 0 THEN Erased ELSE chip.mem[a]]
    <2> DEFINE erased(x) == [a \in Addr |-> IF a \div EraseSize = x THEN Erased ELSE chip.mem[a]]
    <2>1. ErasePage(chip, 0) = EraseAround(WriteEnable(chip), 0 * PageSize, EraseSize)
      BY DEF ErasePage
    <2>2. EraseAround(WriteEnable(chip), 0 * PageSize, EraseSize).mem = erased((0 * PageSize) \div EraseSize)
      BY <1>1, <1>2, ErasedAround
    <2>3. (0 * PageSize) \div EraseSize = 0
      <3>1. 0 * PageSize = 0 /\ 0 \in 0..EraseSize - 1 /\ 0 = (EraseSize * 0) + 0
        BY <1>1, ChipAssumption
      <3>2. QED
        BY <1>1, <3>1, ModUnique
    <2> HIDE DEF erased
    <2>4. ErasePage(chip, 0).mem = erased(0)
      BY <2>1, <2>2, <2>3
    <2>5. QED
      BY <2>4 DEF erased
  <1>6. QED
    BY <1>1, <1>2, <1>3, <1>4, <1>5 DEF Ready

(* The invariant *********************************************************)
\* A command that began quietly meets its chip idle, so that it identifies, is
\* unprotected and put in buffer mode; from then on the sizes the host has and
\* the parameters the firmware uses are the chip's.
NandTrust ==
    /\ fileLength \in FileLengths \cup {0}
    /\ quiet /\ pc \in Working =>
          targetParams = "chip" /\ targetID = "chip" /\ ~chip.protected /\ chip.bufMode
    /\ quiet /\ pc \in {"abort", "target"} \cup Working /\ valid /\ command \notin {"erase", "sfdp"}
          => chipInfo = [deviceSize |-> DevSize, eraseSize |-> EraseSize]
    /\ Writing /\ pc \in {"abort", "target"} \cup Working => fileLength <= chipInfo.deviceSize
    /\ quiet /\ pc = "done" /\ result = "ok" => ~eraseActive

\* A read has the chip's bytes so far, and the page they continue on is loaded.
NandReads ==
    quiet =>
    /\ pc \in {"readReq", "readData", "readBulk"} =>
          ~chip.busy /\ DevSize % Chunk = 0 /\ block < ReadBlocks
    /\ pc \in {"readReq", "readData"} => Delivered(block * Chunk)
    /\ pc = "readBulk" =>
          /\ \A i \in 1..EpBufferSize : inPacket[i] = Cell(chip, Len(received) + (i - 1))
          /\ readCount > 0 => Paging(chip, readPage, readCount, Len(received) + EpBufferSize)
          /\ Delivered(block * Chunk + Chunk - want)
    /\ pc \in {"release", "done"} /\ result = "ok" /\ command = "read" => Delivered(DevSize)

\* A page is being sent: the chip's buffer holds the file's bytes since the start
\* of the page, and nothing behind them.
BufferOpen ==
    /\ chip.op = "program" /\ chip.wel /\ ~chip.busy
    /\ chip.pos \in Column /\ chip.pos % EpBufferSize = 0
    /\ writePage * PageSize + chip.pos = Sent /\ writeTotal = ByteCount
    /\ \A k \in Column :
          chip.buf[k] = IF k < chip.pos THEN FileByte(writePage * PageSize + k) ELSE Erased
    /\ Filled(writePage * PageSize)

\* A write that starts quietly and stays within the first erase block.
Short == quiet /\ Writing /\ fileLength <= EraseSize

\* Such a write has stored the file so far.
NandWrites ==
    Short =>
    /\ pc = "erasePoll" /\ beginPage > 0 => \A a \in Addr : a < Touched => chip.mem[a] = Erased
    /\ pc \in {"writeReq", "writeData"} => ~chip.busy /\ Filled(block * Chunk)
    /\ pc = "writeData" => writeTotal = ByteCount
    /\ pc = "writeBulk" => BufferOpen
    /\ pc = "verifyPoll" => ~chip.busy /\ Filled(block * Chunk + ByteCount)
    /\ pc \in {"release", "done"} /\ result = "ok" =>
          ~chip.busy /\ \A a \in Addr : a < fileLength => chip.mem[a] = File[a]

\* The invariant of a page addressed chip.
NandInv == ControlInv /\ NoHang /\ ProgressInv /\ SfdpInv /\ NandTrust /\ NandReads /\ NandWrites

(* The chip is the one that was targeted *********************************)
\* What a command does with its chip changes neither its protection nor its
\* mode, and targets no other.
LEMMA SettingsStep ==
    ASSUME ControlInv,
           \/ RequestErase \/ SendEraseConfig \/ PollErase \/ RequestRead \/ SendReadPage
           \/ ReadBulk \/ RequestSfdp \/ SendSfdpAddress \/ SfdpBulk
           \/ RequestWrite \/ SendWritePage \/ WriteBulk \/ VerifyPages
    PROVE  SameSettings(chip', chip) /\ targetID' = targetID
  <1>1. block * PagesPerChunk \in Nat
    BY PageNumber
  <1>2. ProtoTypeOK /\ chip \in Chip
    BY ControlTypes
  <1>3. pc \in Working => targetDevice # "none"
    BY DEF ControlInv, PhaseInv
  <1>4. CASE RequestErase \/ PollErase \/ RequestRead \/ RequestSfdp \/ RequestWrite \/ VerifyPages
    BY <1>4 DEF RequestErase, SetupErase, PollErase, FetchStatus, Hang, RequestRead, SetupRead,
       RequestSfdp, SetupSFDPRead, RequestWrite, SetupWrite, VerifyPages, targetVars, SameSettings
  <1>5. CASE SendEraseConfig
    BY <1>2, <1>5, WriteEnableChip, KeepsSettings
       DEF SendEraseConfig, HandleErase, targetVars, SameSettings
  <1>6. CASE SendReadPage
    <2>1. HandleRead(block * PagesPerChunk) /\ targetDevice # "none"
      BY <1>3, <1>6 DEF SendReadPage, Working
    <2>2. SameSettings(chip', chip)
      BY <1>1, <1>2, <2>1, HandleReadFacts
    <2>3. QED
      BY <2>1, <2>2 DEF HandleRead, targetVars
  <1>7. CASE SendSfdpAddress
    <2>1. HandleSFDPRead(SfdpReads[block + 1][1]) /\ targetDevice # "none"
      BY <1>3, <1>7 DEF SendSfdpAddress, Working
    <2>2. SfdpReads[block + 1] \in Nat \X (1..FlashBufferSize)
      BY <1>7, HostAssumption DEF SendSfdpAddress, ControlInv, LoopInv, TypeOK, HostTypeOK
    <2>3. SfdpReads[block + 1][1] \in Nat
      BY <2>2
    <2>4. SameSettings(chip', chip)
      BY <1>2, <2>1, <2>3, HandleSFDPReadFacts
    <2>5. QED
      BY <2>1, <2>4 DEF HandleSFDPRead, targetVars
  <1>8. CASE ReadBulk \/ SfdpBulk
    <2>1. PerformDataOrSFDPRead
      BY <1>8 DEF ReadBulk, SfdpBulk, Receive
    <2>2. readCount > 0 <=> chip.op # "none"
      BY <1>8 DEF ReadBulk, SfdpBulk, ControlInv, PhaseInv, Reading
    <2>3. SameSettings(chip', chip)
      BY <1>2, <2>1, <2>2, PerformDataOrSFDPReadFacts DEF SameSettings
    <2>4. QED
      BY <2>1, <2>3 DEF PerformDataOrSFDPRead, Hang, targetVars
  <1>9. CASE SendWritePage
    <2>1. chip' \in {chip, WriteAddress(chip, block * PagesPerChunk)} /\ targetID' = targetID
      BY <1>9 DEF SendWritePage, HandleWrite, Hang, targetVars
    <2>2. QED
      BY <1>1, <1>2, <2>1, EngineSettings DEF SameSettings
  <1>10. CASE WriteBulk
    BY <1>2, <1>10, PacketSent, PerformWriteFacts DEF SameSettings, targetVars
  <1>11. QED
    BY <1>4, <1>5, <1>6, <1>7, <1>8, <1>9, <1>10

\* Targeting an idle W25N identifies it, lifts its protection and selects its
\* buffer mode.
LEMMA NandTargeted ==
    ASSUME Kind = "nand", KnownChip, ControlInv, SfdpInv, quiet, TargetDevice
    PROVE  /\ targetParams' = "chip" /\ targetID' = "chip" /\ ~chip'.protected /\ chip'.bufMode
           /\ ~chip'.busy
  <1>1. chip \in Chip /\ chip.op = "none" /\ ~chip.busy
    BY ControlTypes DEF SfdpInv, Starting, TargetDevice
  <1> DEFINE seen == IdentDevice(chip)
  <1>2. /\ seen \in Chip /\ ~seen.busy /\ seen.op = "none" /\ Identified(chip) = "chip"
    BY <1>1, IdentDeviceChip, QuietIdent
  <1>3. targetParams' = "chip" /\ targetID' = "chip" /\ chip' = PrepareW25N(seen)
    BY <1>2, NandSetting DEF TargetDevice, HandleTargetDevice
  <1> HIDE DEF seen
  <1>4. chip' = [seen EXCEPT !.protected = FALSE, !.bufMode = TRUE]
    BY <1>2, <1>3 DEF PrepareW25N, Ready
  <1>5. QED
    BY <1>2, <1>3, <1>4 DEF Chip

\* Every step keeps the parameters right.
LEMMA NandTrustStep ==
    ASSUME Kind = "nand", KnownChip, ControlInv, NoHang, ProgressInv, SfdpInv, NandTrust, [Next]_vars
    PROVE  NandTrust'
  <1> USE DEF NandTrust, Starting, Writing, Working
  <1>1. chip \in Chip /\ beginPage \in Nat
    BY ControlTypes
  <1>2. ASSUME NEW cmd \in Commands, NEW isValid \in BOOLEAN, NEW length \in FileLengths \cup {0},
               Start(cmd, isValid, length)
        PROVE  NandTrust'
    BY <1>2 DEF Start
  <1>3. ASSUME Forget
        PROVE  NandTrust'
    BY <1>3 DEF Forget
  <1>4. ASSUME RequestCount \/ ListDevice
        PROVE  NandTrust'
    <2>1. /\ pc \in {"count", "listing"} /\ pc' \in {"listing", "done"}
          /\ UNCHANGED <<jobVars, eraseActive>>
      BY <1>4 DEF RequestCount, ListDevice, FetchDeviceCount, FetchDeviceListing, Goto, eraseVars
    <2>2. QED
      BY <2>1 DEF SfdpInv, jobVars
  <1>5. ASSUME ReadChipInfo
        PROVE  NandTrust'
    <2>1. /\ pc = "info" /\ UNCHANGED jobVars
          /\ pc' = "abort" \/ (pc' = "done" /\ result' = "fail")
          /\ pc' = "abort" /\ Writing => ~(fileLength > chipInfo'.deviceSize)
          /\ valid => chipInfo' \in Listings(IF Bus = "external" THEN Identified(chip) ELSE "chip")
      BY <1>5 DEF ReadChipInfo, Goto, Fail
    <2>2. fileLength \in Nat /\ chipInfo'.deviceSize \in Nat
      BY <1>5, ReadChipInfoInv DEF ControlInv, TypeOK, HostTypeOK, Info
    <2>3. quiet => Identified(chip) = "chip"
      BY <1>1, <2>1, QuietIdent DEF SfdpInv
    <2>4. quiet /\ valid => chipInfo' = [deviceSize |-> DevSize, eraseSize |-> EraseSize]
      BY <2>1, <2>3 DEF Listings, KnownChip
    <2>5. QED
      BY <2>1, <2>2, <2>4 DEF jobVars
  <1>6. ASSUME Abort
        PROVE  NandTrust'
    BY <1>6 DEF Abort, Goto, jobVars
  <1>7. ASSUME TargetDevice
        PROVE  NandTrust'
    <2>1. /\ pc = "target" /\ valid /\ UNCHANGED <<jobVars, chipInfo>>
          /\ pc' \in Working \/ (pc' = "done" /\ result' = "fail")
      BY <1>7 DEF TargetDevice, Goto, Fail, Release
    <2>2. QED
      BY <1>7, <2>1, NandTargeted DEF jobVars
  <1>8. ASSUME TargetRefused
        PROVE  NandTrust'
    BY <1>8 DEF TargetRefused, Fail, jobVars
  <1>9. ASSUME Deselected
        PROVE  NandTrust'
    BY <1>9 DEF Deselected, ReleaseTargetDevice, Goto, jobVars, eraseVars, ControlInv, PhaseInv
  <1>10. ASSUME \/ RequestErase \/ SendEraseConfig \/ PollErase \/ RequestRead \/ SendReadPage
                \/ ReadBulk \/ RequestSfdp \/ SendSfdpAddress \/ SfdpBulk
                \/ RequestWrite \/ SendWritePage \/ WriteBulk \/ VerifyPages
         PROVE  NandTrust'
    <2>1. /\ pc \in Working /\ pc' \in Working \cup {"done"}
          /\ UNCHANGED <<targetParams, jobVars, chipInfo>>
          /\ SameSettings(chip', chip) /\ targetID' = targetID
      BY <1>10, WorkSteps, SettingsStep
    <2>2. pc' = "done" => result' = "fail"
      BY <1>10 DEF RequestErase, SendEraseConfig, PollErase, RequestRead, SendReadPage, ReadBulk,
             Receive, RequestSfdp, SendSfdpAddress, SfdpBulk, RequestWrite, SendWritePage,
             WriteBulk, VerifyPages, NextBlock, Accepted, Goto, Fail, Release
    <2>3. QED
      BY <2>1, <2>2 DEF SameSettings, jobVars
  <1>11. ASSUME ChipFinishes
         PROVE  NandTrust'
    BY <1>1, <1>11, KeepsSettings DEF ChipFinishes, SameSettings, hostVars, jobVars, targetVars, eraseVars
  <1>12. ASSUME StartOfFrame
         PROVE  NandTrust'
    <2>1. /\ UNCHANGED <<hostVars, targetID, targetParams>> /\ eraseActive
          /\ chip' \in {chip, ErasePage(chip, beginPage)}
      BY <1>12 DEF StartOfFrame, Tick, Hang, EraseNextPage, targetVars
    <2>2. SameSettings(chip', chip)
      BY <1>1, <2>1, EngineSettings DEF SameSettings
    <2>3. QED
      BY <2>1, <2>2 DEF SameSettings, hostVars, jobVars
  <1>13. ASSUME UNCHANGED vars
         PROVE  NandTrust'
    BY <1>13 DEF vars, protoVars, hostVars, jobVars, targetVars, eraseVars
  <1>14. QED
    BY <1>2, <1>3, <1>4, <1>5, <1>6, <1>7, <1>8, <1>9, <1>10, <1>11, <1>12, <1>13
       DEF Next, User, Transfer, Kill, Exit

(* Reads *****************************************************************)
\* A read is for whole pages.
LEMMA ChunkIsPages ==
    ASSUME KnownChip, ControlInv, chipInfo.deviceSize >= Chunk
    PROVE  Chunk % PageSize = 0 /\ Chunk \in Nat /\ Chunk >= EpBufferSize
  <1>1. Chunk \in Nat /\ Chunk >= EpBufferSize
    BY ControlTypes, ReadChunkSize DEF ControlInv, CommandInv
  <1>2. PagesPerChunk \in Nat /\ Chunk = PagesPerChunk * PageSize /\ PageSize \in Nat \ {0}
    BY ControlTypes, ChunkPages, ChipAssumption
  <1> DEFINE n == Chunk
             p == PageSize
             q == PagesPerChunk
  <1>3. n \in Int /\ p \in Nat \ {0} /\ q \in Int /\ n = q * p
    BY <1>1, <1>2
  <1> HIDE DEF n, p, q
  <1>4. 0 \in 0..p - 1 /\ n = (p * q) + 0
    BY <1>3
  <1>5. n % p = 0
    BY <1>3, <1>4, ModUnique
  <1>6. QED
    BY <1>1, <1>5 DEF n, p

\* The first packet of a block is the chip's, and the page behind it is loaded.
LEMMA NandReadBegins ==
    ASSUME Kind = "nand", KnownChip, ControlInv, ProgressInv, NandTrust, NandReads, quiet, SendReadPage
    PROVE  /\ chip'.mem = chip.mem /\ ~chip'.busy
           /\ \A i \in 1..EpBufferSize : inPacket'[i] = Cell(chip, block * Chunk + (i - 1))
           /\ readCount' > 0 => Paging(chip', readPage', readCount', block * Chunk + EpBufferSize)
  <1> DEFINE page == block * PagesPerChunk
             first == block * Chunk
             opened == BeginPageRead(chip, page)
  <1>1. /\ pc = "readData" /\ readCount = Chunk /\ targetID = "chip" /\ chip.bufMode /\ Ready(chip)
        /\ HandleRead(page) /\ targetDevice # "none" /\ chipInfo.deviceSize >= Chunk
    BY DEF SendReadPage, ControlInv, PhaseInv, LoopInv, Working, NandTrust, NandReads, Ready
  <1>2. /\ page \in Nat /\ first \in Nat /\ page * PageSize = first
        /\ readCount \in 0..CountModulus - 1 /\ chip \in Chip
        /\ readCount >= EpBufferSize /\ readCount % PageSize = 0
    BY <1>1, BlockPages, ControlTypes, ChunkIsPages DEF ProtoTypeOK, ReadTypeOK
  <1>3. PerformRead(opened, page, readCount)
    BY <1>1 DEF HandleRead
  <1> HIDE DEF page, first
  <1>4. opened \in Chip /\ opened.mem = chip.mem /\ Paging(opened, page, readCount, first)
    BY <1>1, <1>2, NandLoaded
  <1> HIDE DEF opened
  <1>5. /\ chip'.mem = opened.mem /\ ~chip'.busy
        /\ \A i \in 1..EpBufferSize : inPacket'[i] = Cell(opened, first + (i - 1))
        /\ readCount' > 0 => Paging(chip', readPage', readCount', first + EpBufferSize)
    BY <1>1, <1>2, <1>3, <1>4, NandPacket
  <1>6. \A x : Cell(opened, x) = Cell(chip, x)
    BY <1>4 DEF Cell
  <1>7. QED
    BY <1>4, <1>5, <1>6 DEF first

\* The request for a block of a read.
LEMMA NandReadRequest ==
    ASSUME Kind = "nand", KnownChip, ControlInv, ProgressInv, NandTrust, NandReads, RequestRead \/ SendReadPage
    PROVE  NandReads'
  <1>1. /\ UNCHANGED <<jobVars, chipInfo, block, received>>
        /\ Chunk' = Chunk /\ ReadBlocks' = ReadBlocks
        /\ command = "read" /\ pc \in {"readReq", "readData"}
    BY SameChunk DEF RequestRead, SendReadPage, ReadBlocks, ProgressInv
  <1> SUFFICES ASSUME quiet PROVE NandReads'
    BY <1>1 DEF NandReads, jobVars
  <1>3. ~chip.busy /\ DevSize % Chunk = 0 /\ block < ReadBlocks /\ Delivered(block * Chunk)
    BY <1>1 DEF NandReads
  <1>4. CASE RequestRead
    <2>1. /\ UNCHANGED chip
          /\ pc' = "readData" \/ (pc' = "done" /\ result' = "fail")
      BY <1>4 DEF RequestRead, SetupRead, Accepted, Goto, Fail
    <2>2. Delivered(block * Chunk)'
      BY <1>1, <1>3, <2>1 DEF Delivered, Cell
    <2>3. QED
      BY <1>1, <1>3, <2>1, <2>2 DEF NandReads
  <1>5. CASE SendReadPage
    <2>1. pc' = "readBulk" /\ want' = Chunk
      BY <1>5 DEF SendReadPage, Goto
    <2> DEFINE first == block * Chunk
    <2>2. first \in Nat /\ Chunk \in Nat
      BY BlockPages
    <2>3. /\ chip'.mem = chip.mem /\ ~chip'.busy
          /\ \A i \in 1..EpBufferSize : inPacket'[i] = Cell(chip, first + (i - 1))
          /\ readCount' > 0 => Paging(chip', readPage', readCount', first + EpBufferSize)
      BY <1>5, NandReadBegins
    <2>4. (block * Chunk + Chunk - want)' = first
      BY <1>1, <2>1, <2>2
    <2>5. Len(received') = first /\ \A i \in 1..first : received'[i] = Cell(chip, i - 1)
      BY <1>1, <1>3 DEF Delivered
    <2>6. \A x : Cell(chip, x)' = Cell(chip', x) /\ Cell(chip', x) = Cell(chip, x)
      BY <2>3 DEF Cell
    <2> HIDE DEF first
    <2>7. Delivered(block * Chunk + Chunk - want)'
      BY <2>4, <2>5, <2>6 DEF Delivered
    <2>8. QED
      BY <1>1, <1>3, <2>1, <2>3, <2>5, <2>6, <2>7 DEF NandReads
  <1>6. QED
    BY <1>4, <1>5

\* A packet of a read is appended where it belongs; the last one ends the device.
LEMMA NandReceive ==
    ASSUME Kind = "nand", KnownChip, ControlInv, ProgressInv, NandTrust, NandReads, ReadBulk
    PROVE  NandReads'
  <1>1. /\ UNCHANGED <<jobVars, chipInfo>> /\ Chunk' = Chunk /\ ReadBlocks' = ReadBlocks
        /\ command = "read" /\ pc = "readBulk" /\ PerformDataOrSFDPRead
    BY SameChunk DEF ReadBulk, Receive, ReadBlocks, ProgressInv
  <1> SUFFICES ASSUME quiet PROVE NandReads'
    BY <1>1 DEF NandReads, jobVars
  <1>3. /\ ~chip.busy /\ DevSize % Chunk = 0 /\ block < ReadBlocks
        /\ Delivered(block * Chunk + Chunk - want)
        /\ \A i \in 1..EpBufferSize : inPacket[i] = Cell(chip, Len(received) + (i - 1))
        /\ readCount > 0 => Paging(chip, readPage, readCount, Len(received) + EpBufferSize)
    BY <1>1 DEF NandReads
  <1>4. /\ Reading /\ readMode = "data" /\ Len(inPacket) = EpBufferSize
        /\ want = readCount + EpBufferSize /\ EpBufferSize \in Nat \ {0}
        /\ ProtoTypeOK /\ inPacket \in Seq(Byte) /\ received \in Seq(Byte)
        /\ readCount \in 0..CountModulus - 1 /\ readCount \in Nat /\ readCount % EpBufferSize = 0
        /\ block \in Nat /\ Chunk \in Nat /\ block * Chunk \in Nat
        /\ chip \in Chip /\ readPage \in Nat /\ targetID = "chip"
    BY <1>1, ControlTypes, BlockPages, ProtoAssumption
       DEF ControlInv, PhaseInv, EngineTypeOK, ReadTypeOK, ProtoTypeOK, NandTrust, Working
  <1> DEFINE first == block * Chunk
             have == first + Chunk - want
  <1>5. have \in Nat /\ Len(received) = have /\ \A i \in 1..have : received[i] = Cell(chip, i - 1)
    BY <1>3, <1>4 DEF Delivered
  <1>6. /\ received' = received \o inPacket
        /\ readCount > 0 => want' = readCount /\ block' = block /\ pc' = "readBulk"
        /\ readCount = 0 => /\ want' = 0 /\ block' = block + 1
                            /\ \/ block + 1 < ReadBlocks /\ pc' = "readReq"
                               \/ block + 1 >= ReadBlocks /\ pc' = "release"
    BY <1>4 DEF ReadBulk, Receive, Goto, Release
  <1>7. first + Chunk = (block + 1) * Chunk /\ first \in Nat
    BY <1>4
  <1> HIDE DEF first
  <1>8. chip'.mem = chip.mem /\ ~chip'.busy
    BY <1>3, NandStreamKeeps
  <1>9. \A x : Cell(chip, x)' = Cell(chip', x) /\ Cell(chip', x) = Cell(chip, x)
    BY <1>8 DEF Cell
  <1>10. /\ Len(received') = have + EpBufferSize
         /\ \A i \in 1..have + EpBufferSize : received'[i] = Cell(chip, i - 1)
    <2> HIDE DEF have
    <2>1. /\ received \in Seq(Byte) /\ inPacket \in Seq(Byte)
          /\ \A i \in 1..Len(received) : received[i] = Cell(chip, i - 1)
          /\ \A i \in 1..Len(inPacket) : inPacket[i] = Cell(chip, Len(received) + (i - 1))
      BY <1>3, <1>4, <1>5
    <2>2. /\ Len(received \o inPacket) = Len(received) + Len(inPacket)
          /\ \A i \in 1..Len(received) + Len(inPacket) : (received \o inPacket)[i] = Cell(chip, i - 1)
      BY <2>1, AppendedCells
    <2>3. QED
      BY <1>4, <1>5, <1>6, <2>2
  <1> HIDE DEF have
  <1>11. CASE readCount > 0
    <2>1. readCount >= EpBufferSize /\ chip.op = "read"
      BY <1>3, <1>4, <1>11, PacketsLeft DEF Paging
    <2>2. PerformRead(chip, readPage, readCount)
      BY <1>1, <1>4, <1>11, <2>1 DEF PerformDataOrSFDPRead
    <2>3. have + EpBufferSize \in Nat /\ Paging(chip, readPage, readCount, have + EpBufferSize)
      BY <1>3, <1>4, <1>5, <1>11
    <2> DEFINE next == have + EpBufferSize
    <2>4. next \in Nat /\ Paging(chip, readPage, readCount, next) /\ Len(received') = next
      BY <1>10, <2>3
    <2> HIDE DEF next
    <2>5. /\ \A i \in 1..EpBufferSize : inPacket'[i] = Cell(chip, next + (i - 1))
          /\ readCount' > 0 => Paging(chip', readPage', readCount', next + EpBufferSize)
      BY <1>4, <2>1, <2>2, <2>4, NandPacket
    <2>6. (block * Chunk + Chunk - want)' = have + EpBufferSize
      BY <1>1, <1>4, <1>6, <1>11 DEF have, first
    <2>7. Delivered(block * Chunk + Chunk - want)'
      BY <1>9, <1>10, <2>6 DEF Delivered
    <2>8. QED
      BY <1>1, <1>3, <1>6, <1>8, <1>9, <1>11, <2>4, <2>5, <2>7 DEF NandReads
  <1>12. CASE readCount = 0
    <2>1. have + EpBufferSize = (block + 1) * Chunk
      BY <1>4, <1>7, <1>12 DEF have
    <2>2. CASE block + 1 < ReadBlocks /\ pc' = "readReq"
      <3>1. (block * Chunk)' = have + EpBufferSize
        BY <1>1, <1>6, <1>12, <2>1
      <3>2. Delivered(block * Chunk)'
        BY <1>9, <1>10, <3>1 DEF Delivered
      <3>3. QED
        BY <1>1, <1>3, <1>6, <1>8, <1>12, <2>2, <3>2 DEF NandReads
    <2>3. CASE block + 1 >= ReadBlocks /\ pc' = "release"
      <3>1. chipInfo \in Info /\ chipInfo.deviceSize = DevSize
        BY <1>1, ControlTypes DEF Working, NandTrust, ControlInv, CommandInv
      <3>2. block + 1 = ReadBlocks /\ ReadBlocks * Chunk = DevSize
        BY <1>3, <1>4, <2>3, <3>1, ReadWhole
      <3>3. Delivered(DevSize)'
        BY <1>9, <1>10, <2>1, <3>2 DEF Delivered
      <3>4. QED
        BY <2>3, <3>3 DEF NandReads
    <2>4. QED
      BY <1>6, <1>12, <2>2, <2>3
  <1>13. QED
    BY <1>4, <1>11, <1>12

\* Targeting: a read starts with nothing received.
LEMMA NandTargetReads ==
    ASSUME Kind = "nand", KnownChip, ControlInv, ProgressInv, SfdpInv, NandTrust, TargetDevice
    PROVE  NandReads'
  <1>1. /\ pc = "target" /\ valid /\ UNCHANGED <<jobVars, chipInfo, block, received>>
        /\ block = 0 /\ received = <<>> /\ Chunk' = Chunk
        /\ \/ pc' \in {"eraseReq", "sfdpReq"}
           \/ pc' = "done" /\ result' = "fail"
           \/ command = "read" /\ ~Funky /\ ReadBlocks > 0 /\ pc' = "readReq"
           \/ command = "read" /\ ~Funky /\ ReadBlocks = 0 /\ pc' = "release"
    BY SameChunk DEF TargetDevice, Goto, Fail, Release, ProgressInv, ControlInv, LoopInv
  <1> SUFFICES ASSUME quiet PROVE NandReads'
    BY <1>1 DEF NandReads, jobVars
  <1>2. ~chip'.busy
    BY NandTargeted
  <1>3. ASSUME command = "read", ~Funky
        PROVE  DevSize % Chunk = 0 /\ ReadBlocks > 0
    <2>1. chipInfo.deviceSize = DevSize
      BY <1>1, <1>3 DEF NandTrust
    <2>2. DevSize % Chunk = 0 /\ ReadBlocks \in Nat /\ ReadBlocks * Chunk = DevSize
      BY <1>3, <2>1, ControlTypes, NotFunky, ReadWhole
    <2>3. Chunk \in Nat /\ DevSize # 0
      BY ControlTypes, ChunkSize, ChipAssumption
    <2>4. QED
      BY <2>2, <2>3
  <1>4. (block * Chunk)' = 0 /\ ReadBlocks' = ReadBlocks
    BY <1>1, ControlTypes, ChunkSize DEF ReadBlocks
  <1>5. Delivered(block * Chunk)'
    BY <1>1, <1>4 DEF Delivered
  <1>6. QED
    BY <1>1, <1>2, <1>3, <1>4, <1>5 DEF NandReads

\* Every step keeps the reads right.
LEMMA NandReadStep ==
    ASSUME Kind = "nand", KnownChip, ControlInv, ProgressInv, SfdpInv, NandTrust, NandReads, [Next]_vars
    PROVE  NandReads'
  <1>1. CASE User \/ Exit
    BY <1>1 DEF User, Start, Kill, Exit, Forget, NandReads
  <1>2. CASE RequestCount \/ ListDevice \/ ReadChipInfo \/ Abort \/ TargetRefused
    <2>1. \/ pc' \in {"listing", "abort", "target"}
          \/ pc' = "done" /\ result' = "fail"
          \/ pc' = "done" /\ command' = "listDevices"
      BY <1>2 DEF RequestCount, ListDevice, ReadChipInfo, Abort, TargetRefused, Goto, Fail,
             ProgressInv, jobVars
    <2>2. QED
      BY <2>1 DEF NandReads
  <1>3. CASE TargetDevice
    BY <1>3, NandTargetReads
  <1>4. CASE RequestRead \/ SendReadPage
    BY <1>4, NandReadRequest
  <1>5. CASE ReadBulk
    BY <1>5, NandReceive
  <1>6. CASE \/ RequestErase \/ SendEraseConfig \/ PollErase \/ RequestSfdp \/ SendSfdpAddress
             \/ SfdpBulk \/ RequestWrite \/ SendWritePage \/ WriteBulk \/ VerifyPages
    <2>1. /\ pc \in {"eraseReq", "eraseData", "erasePoll", "sfdpReq", "sfdpData", "sfdpBulk",
                      "writeReq", "writeData", "writeBulk", "verifyPoll"}
          /\ pc' \notin {"readReq", "readData", "readBulk"} /\ command' = command
      BY <1>6 DEF RequestErase, SendEraseConfig, PollErase, RequestSfdp, SendSfdpAddress, SfdpBulk,
             Receive, RequestWrite, SendWritePage, WriteBulk, VerifyPages, NextBlock, Accepted,
             Goto, Fail, Release, jobVars
    <2>2. command # "read"
      BY <2>1 DEF ProgressInv, ControlInv, LoopInv, Writing
    <2>3. QED
      BY <2>1, <2>2 DEF NandReads
  <1>7. CASE Deselected
    <2>1. /\ pc = "release" /\ pc' = "done" /\ UNCHANGED <<jobVars, received, result>>
          /\ chip' \in {chip, RestoreW25N(chip)}
      BY <1>7 DEF Deselected, ReleaseTargetDevice, Goto
    <2>2. chip'.mem = chip.mem
      BY <2>1, ControlTypes DEF RestoreW25N, Finish, Chip
    <2>3. QED
      BY <2>1, <2>2 DEF NandReads, Delivered, Cell, jobVars
  <1>8. CASE ChipFinishes
    <2>1. chip'.mem = chip.mem /\ chip.busy /\ UNCHANGED <<hostVars, readVars, inPacket>>
      BY <1>8, ControlTypes DEF ChipFinishes, Finish, Chip
    <2>2. QED
      BY <2>1 DEF NandReads, Delivered, Cell, hostVars, jobVars
  <1>9. CASE StartOfFrame
    <2>1. eraseActive /\ UNCHANGED hostVars
      BY <1>9 DEF StartOfFrame, Tick
    <2>2. quiet => pc \notin {"readReq", "readData", "readBulk", "release"} /\ ~(pc = "done" /\ result = "ok")
      BY <2>1 DEF NandTrust, ControlInv, PhaseInv, Reading
    <2>3. QED
      BY <2>1, <2>2 DEF NandReads, hostVars, jobVars
  <1>10. CASE UNCHANGED vars
    <2>1. UNCHANGED <<hostVars, readVars, inPacket, chip>>
      BY <1>10 DEF vars, protoVars
    <2>2. Chunk' = Chunk /\ ReadBlocks' = ReadBlocks
      BY <2>1, SameChunk DEF hostVars, ReadBlocks
    <2>3. QED
      BY <2>1, <2>2 DEF NandReads, Delivered, Cell, Paging, hostVars, jobVars, readVars
  <1>11. QED
    BY <1>1, <1>2, <1>3, <1>4, <1>5, <1>6, <1>7, <1>8, <1>9, <1>10 DEF Next, Transfer

(* Writes ****************************************************************)
\* A file within the first erase block touches that block or none.
LEMMA ShortTouched ==
    ASSUME NEW n \in 0..EraseSize
    PROVE  Ceil(n, EraseSize) \in {0, 1} /\ (Ceil(n, EraseSize) = 0 => n = 0)
  <1> DEFINE e == EraseSize
             x == n + e - 1
             q == x \div e
  <1>1. e \in Nat \ {0} /\ n \in 0..e /\ x = n + e - 1 /\ x \in Int
    BY ChipAssumption
  <1> HIDE DEF e, x
  <1>2. q \in Int /\ x = (e * q) + (x % e) /\ x % e \in 0..e - 1
    BY <1>1, ModDef
  <1>3. Ceil(n, EraseSize) = q
    BY DEF Ceil, q, x, e
  <1> HIDE DEF q
  <1>4. q >= 2 => e * q >= e + e
    BY <1>1, <1>2
  <1>5. q <= -1 => e * q <= -e
    BY <1>1, <1>2
  <1>6. q = 0 => e * q = 0
    BY <1>1
  <1>7. QED
    BY <1>1, <1>2, <1>3, <1>4, <1>5, <1>6

\* The chip of a short write, and its file.
LEMMA ShortChip ==
    ASSUME Kind = "nand", KnownChip, ControlInv, NandTrust, Short, pc \in Working
    PROVE  /\ targetDevice = "chip" /\ ~chip.protected /\ fileLength <= DevSize
           /\ chipInfo.eraseSize = EraseSize /\ PageCount * EraseSize = Touched
           /\ fileLength \in 0..EraseSize /\ PageCount = Ceil(fileLength, EraseSize)
  <1>1. /\ targetDevice = "chip" /\ ~chip.protected /\ valid /\ fileLength \in Nat
        /\ fileLength <= chipInfo.deviceSize /\ Writing
    BY ControlTypes DEF Short, NandTrust, ControlInv, PhaseInv, CommandInv
  <1>2. chipInfo = [deviceSize |-> DevSize, eraseSize |-> EraseSize]
    BY <1>1 DEF Short, NandTrust, Writing
  <1>3. PageCount = Ceil(fileLength, EraseSize)
    BY <1>1, <1>2 DEF PageCount
  <1>4. QED
    BY <1>1, <1>2, <1>3 DEF Touched, Short

\* NandWrites asks nothing while a command starts or reads, or has failed.
LEMMA NoWrites ==
    ASSUME \/ pc' \in Starting \cup {"idle", "eraseReq", "eraseData", "readReq", "readData", "readBulk",
                                     "sfdpReq", "sfdpData", "sfdpBulk"}
           \/ pc' \in {"release", "done"} /\ (result' = "fail" \/ ~Writing')
    PROVE  NandWrites'
  BY DEF NandWrites, Starting, Short

\* The file's erase block is erased when the erase of a short write ends.
LEMMA NandPolled ==
    ASSUME Kind = "nand", KnownChip, ControlInv, ProgressInv, NandTrust, NandWrites, PollErase
    PROVE  NandWrites'
  <1>1. /\ pc = "erasePoll" /\ UNCHANGED <<jobVars, chipInfo, block>> /\ block = 0 /\ Chunk' = Chunk
        /\ targetDevice = "chip" /\ eraseOperation # "idle"
    BY SameChunk DEF PollErase, ControlInv, LoopInv, PhaseInv, Working
  <1>2. /\ UNCHANGED <<chip, beginPage, eraseActive>>
        /\ status'.eraseComplete # 0 => ~eraseActive /\ ~chip.busy
    BY <1>1
       DEF PollErase, FetchStatus, EraseStatus, ControlInv, TypeOK, ProtoTypeOK,
           EngineTypeOK, Status
  <1>3. (Short' <=> Short) /\ Touched' = Touched /\ (Writing' <=> Writing) /\ fileLength' = fileLength
    BY <1>1 DEF Short, Touched, Writing, jobVars
  <1>4. \/ pc' = "erasePoll"
        \/ pc' = "done" /\ result' = "fail"
        \/ status'.eraseComplete # 0 /\ pc' = "release" /\ ~Writing
        \/ status'.eraseComplete # 0 /\ pc' = "writeReq" /\ Writing
        \/ status'.eraseComplete # 0 /\ pc' = "release" /\ Writing /\ WriteBlocks = 0
    BY DEF PollErase, Goto, Fail, Release, ControlInv, TypeOK, HostTypeOK, Ceil, WriteBlocks
  <1>5. CASE pc' = "erasePoll"
    BY <1>1, <1>2, <1>3, <1>5 DEF NandWrites
  <1>6. CASE pc' = "done" /\ result' = "fail"
    BY <1>6, NoWrites
  <1>7. CASE status'.eraseComplete # 0 /\ pc' = "release" /\ ~Writing
    BY <1>3, <1>7, NoWrites
  <1>8. CASE status'.eraseComplete # 0 /\ pc' = "writeReq" /\ Writing
    <2>1. ASSUME Short
          PROVE  \A a \in Addr : a < Touched => chip.mem[a] = Erased
      <3>1. beginPage = PageCount
        BY <1>1, <1>2, <1>8, ControlTypes DEF ProgressInv
      <3>2. fileLength \in 0..EraseSize /\ PageCount = Ceil(fileLength, EraseSize)
            /\ PageCount * EraseSize = Touched
        BY <1>1, <2>1, ShortChip DEF Working
      <3>3. PageCount \in {0, 1}
        BY <3>2, ShortTouched
      <3>4. CASE PageCount = 0
        <4>1. Touched = 0
          BY <3>2, <3>4, ChipAssumption
        <4>2. QED
          BY <4>1 DEF Addr
      <3>5. CASE PageCount = 1
        BY <1>1, <2>1, <3>1, <3>5 DEF NandWrites
      <3>6. QED
        BY <3>3, <3>4, <3>5
    <2>2. block' * Chunk' = 0
      BY <1>1, ControlTypes, ChunkSize
    <2>3. ASSUME Short
          PROVE  Filled(block * Chunk)'
      BY <1>2, <1>3, <2>1, <2>2, <2>3 DEF Filled, Addr
    <2>4. QED
      BY <1>2, <1>3, <1>8, <2>3 DEF NandWrites
  <1>9. CASE status'.eraseComplete # 0 /\ pc' = "release" /\ Writing /\ WriteBlocks = 0
    <2>1. fileLength <= 0 * Chunk
      BY <1>9, ControlTypes, ChunkSize, CeilCovers DEF WriteBlocks
    <2>2. ASSUME NEW a \in Addr
          PROVE  ~(a < fileLength)
      BY <2>1, ControlTypes, ChunkSize DEF Addr
    <2>3. QED
      BY <1>2, <1>3, <1>9, <2>2 DEF NandWrites
  <1>10. QED
    BY <1>4, <1>5, <1>6, <1>7, <1>8, <1>9

\* The request for a block of a write opens the buffer for its first page.
LEMMA NandRequest ==
    ASSUME Kind = "nand", KnownChip, ControlInv, ProgressInv, NandTrust, NandWrites, RequestWrite \/ SendWritePage
    PROVE  NandWrites'
  <1>1. /\ UNCHANGED <<jobVars, chipInfo, block>>
        /\ pc \in {"writeReq", "writeData"} /\ Writing
    BY DEF RequestWrite, SendWritePage, ControlInv, LoopInv
  <1>2. /\ Chunk' = Chunk /\ ByteCount' = ByteCount /\ Touched' = Touched
        /\ (Short' <=> Short)
    BY <1>1, SameChunk, SameByteCount DEF Short, Writing, Touched, jobVars
  <1> SUFFICES ASSUME Short PROVE NandWrites'
    BY <1>2 DEF NandWrites
  <1>3. ~chip.busy /\ Filled(block * Chunk) /\ chip.op = "none" /\ chip \in Chip /\ targetDevice = "chip"
    BY <1>1, ControlTypes DEF NandWrites, ControlInv, PhaseInv, NoStream, Working
  <1>4. ByteCount \in Nat \ {0}
    BY <1>1, ControlTypes, ByteCountRange DEF ControlInv, LoopInv
  <1>5. CASE RequestWrite
    <2>1. /\ UNCHANGED chip
          /\ \/ pc' = "writeData" /\ writeTotal' = Requested(ByteCount)
             \/ pc' = "done" /\ result' = "fail"
      BY <1>5 DEF RequestWrite, SetupWrite, Accepted, Goto, Fail
    <2>2. Requested(ByteCount) = ByteCount
      BY <1>4 DEF Requested
    <2>3. Filled(block * Chunk)'
      BY <1>1, <1>2, <1>3, <2>1 DEF Filled
    <2>4. QED
      BY <1>2, <1>3, <2>1, <2>2, <2>3 DEF NandWrites
  <1>6. CASE SendWritePage
    <2> DEFINE page == block * PagesPerChunk
               first == block * Chunk
    <2>1. /\ pc = "writeData" /\ pc' = "writeBulk" /\ want' = ByteCount /\ writeTotal' = writeTotal
          /\ chip' = WriteAddress(chip, page) /\ writePage' = page
      BY <1>3, <1>6, NandSetting DEF SendWritePage, HandleWrite, Goto, AfterAddress
    <2>2. writeTotal = ByteCount
      BY <1>1, <2>1 DEF NandWrites
    <2>3. page \in Nat /\ first \in Nat /\ page * PageSize = first
      BY BlockPages
    <2>4. Sent' = first
      BY <1>1, <1>2, <1>4, <2>1, <2>3 DEF Sent
    <2> HIDE DEF page, first
    <2>5. /\ chip'.op = "program" /\ chip'.wel /\ ~chip'.busy /\ chip'.pos = 0
          /\ chip'.buf = Blank /\ chip'.mem = chip.mem
      BY <1>3, <2>1, NandAddressed DEF Ready
    <2>6. 0 \in Column /\ 0 % EpBufferSize = 0
      BY ChipAssumption, ProtoAssumption DEF Column
    <2>7. \A k \in Column : chip'.buf[k] = Erased /\ ~(k < 0)
      BY <2>5, ChipAssumption DEF Blank, Column
    <2>8. (writePage * PageSize)' = first
      BY <2>1, <2>3
    <2>9. Filled(writePage * PageSize)'
      BY <1>2, <1>3, <2>5, <2>8 DEF Filled, first
    <2>10. BufferOpen'
      BY <1>2, <2>1, <2>2, <2>3, <2>4, <2>5, <2>6, <2>7, <2>8, <2>9 DEF BufferOpen
    <2>11. QED
      BY <2>1, <2>10 DEF NandWrites
  <1>7. QED
    BY <1>5, <1>6

\* The next block begins where the file has been stored up to, or the file is
\* stored.
LEMMA NandNextBlock ==
    ASSUME ControlInv, Short, pc \in {"writeBulk", "verifyPoll"},
           NextBlock, UNCHANGED <<jobVars, chipInfo>>, ~chip'.busy,
           NEW upTo, upTo = block * Chunk + ByteCount,
           \A a \in Addr : /\ a < upTo => chip'.mem[a] = File[a]
                           /\ upTo <= a /\ a < Touched => chip'.mem[a] = Erased
    PROVE  NandWrites'
  <1>1. Writing /\ chipInfo \in Info /\ fileLength \in Nat /\ block \in Nat /\ block * Chunk < fileLength
    BY ControlTypes DEF ControlInv, LoopInv
  <1>2. Chunk' = Chunk /\ Touched' = Touched /\ block' = block + 1 /\ fileLength' = fileLength
    BY SameChunk DEF Touched, NextBlock, jobVars
  <1>3. CASE block + 1 < WriteBlocks
    <2>1. (block * Chunk)' = upTo
      BY <1>1, <1>2, <1>3, BlockEnd
    <2>2. Filled(block * Chunk)'
      BY <1>2, <2>1 DEF Filled
    <2>3. pc' = "writeReq"
      BY <1>3 DEF NextBlock, Goto
    <2>4. QED
      BY <2>2, <2>3 DEF NandWrites
  <1>4. CASE ~(block + 1 < WriteBlocks)
    <2>1. pc' = "release"
      BY <1>4 DEF NextBlock, Release
    <2>2. block + 1 >= WriteBlocks
      <3>1. WriteBlocks \in Nat
        BY <1>1, ChunkSize, CeilNat DEF WriteBlocks
      <3>2. QED
        BY <1>1, <1>4, <3>1
    <2>3. upTo = fileLength
      BY <1>1, <2>2, BlockEnd
    <2>4. QED
      BY <1>2, <2>1, <2>3 DEF NandWrites
  <1>5. QED
    BY <1>3, <1>4

\* A packet of a short write: the page it fills programs the file's bytes into
\* erased cells, and the buffer is opened for the next one.
LEMMA NandSentPage ==
    ASSUME Kind = "nand", KnownChip, ControlInv, NandTrust, NandWrites, Short, WriteBulk,
           NEW n, n = Len(Packet), NEW sent, sent = Latch(chip, Packet),
           NEW start, start = writePage * PageSize, NEW cells, cells = Burn(sent, start)
    PROVE  /\ n \in Nat \ {0} /\ chip.pos + n <= PageSize /\ (n < want => (chip.pos + n) % EpBufferSize = 0)
           /\ sent.op = "program" /\ sent.wel /\ ~sent.busy /\ sent.mem = chip.mem
           /\ sent.pos = chip.pos + n /\ start + sent.pos = Sent + n
           /\ \A k \in Column : sent.buf[k] = IF k < sent.pos THEN FileByte(start + k) ELSE Erased
           /\ \A a \in Addr :
                 /\ a < Sent + n => cells[a] = File[a]
                 /\ Sent + n <= a /\ a < Touched => cells[a] = Erased
                 /\ cells[a] # chip.mem[a] =>
                       a < fileLength /\ chip.mem[a] = Erased /\ cells[a] = File[a]
           /\ writeCount > n /\ chip.pos + n # PageSize => chip' = sent /\ writePage' = writePage
           /\ writeCount > n /\ chip.pos + n = PageSize =>
                 /\ chip'.op = "program" /\ chip'.wel /\ ~chip'.busy /\ chip'.pos = 0
                 /\ chip'.buf = Blank /\ writePage' = writePage + 1 /\ chip'.mem = cells
           /\ writeCount = n => chip'.mem = cells /\ ~chip'.busy
  <1> DEFINE full == (writeTotal - writeCount + n) % PageSize = 0
             atEnd == chip.pos + n = PageSize
  <1>1. pc = "writeBulk" /\ BufferOpen
    BY DEF WriteBulk, NandWrites
  <1>2. ProtoTypeOK /\ ~chip.protected /\ fileLength <= DevSize /\ writePage \in Nat
    BY <1>1, ControlTypes, ShortChip DEF Working
  <1>3. /\ Packet \in Seq(Byte) /\ Len(Packet) \in 1..writeCount /\ PerformWrite(Packet)
        /\ chip.op # "none"
    BY ControlTypes, PacketSent
  <1>4. /\ Filled(start) /\ chip.op = "program" /\ chip.wel /\ ~chip.busy
        /\ writeTotal = ByteCount /\ chip.pos \in Column /\ chip.pos % EpBufferSize = 0
        /\ start + chip.pos = Sent
        /\ \A k \in Column : chip.buf[k] = IF k < chip.pos THEN FileByte(start + k) ELSE Erased
    BY <1>1 DEF BufferOpen
  <1>5. /\ n \in Nat \ {0} /\ chip.pos + n <= PageSize /\ (n < want => (chip.pos + n) % EpBufferSize = 0)
        /\ full <=> atEnd
        /\ sent.op = "program" /\ sent.wel /\ ~sent.busy /\ sent.mem = chip.mem
        /\ sent.pos = chip.pos + n /\ start + sent.pos = Sent + n
        /\ \A k \in Column : sent.buf[k] = IF k < sent.pos THEN FileByte(start + k) ELSE Erased
        /\ \A a \in Addr :
              /\ a < Sent + n => cells[a] = File[a]
              /\ Sent + n <= a /\ a < Touched => cells[a] = Erased
              /\ cells[a] # chip.mem[a] =>
                    a < fileLength /\ chip.mem[a] = Erased /\ cells[a] = File[a]
    BY <1>2, <1>4, LatchedPage
  <1>6. /\ writeCount > n /\ ~atEnd => chip' = sent /\ writePage' = writePage
        /\ writeCount > n /\ atEnd =>
              /\ chip'.op = "program" /\ chip'.wel /\ ~chip'.busy /\ chip'.pos = 0
              /\ chip'.buf = Blank /\ writePage' = writePage + 1
        /\ writeCount = n \/ atEnd => chip'.mem = cells /\ ~chip'.busy
    <2>1. atEnd \in BOOLEAN /\ (atEnd <=> (writeTotal - writeCount + Len(Packet)) % PageSize = 0)
      BY <1>5
    <2> HIDE DEF atEnd
    <2>2. QED
      BY <1>2, <1>3, <1>4, <2>1, NandWritten
  <1>7. QED
    BY <1>5, <1>6

\* A packet of a short write: the page is programmed when it is full or the
\* block ends, and the buffer opened for the next one.
LEMMA NandSend ==
    ASSUME Kind = "nand", KnownChip, ControlInv, ProgressInv, NandTrust, NandWrites, WriteBulk
    PROVE  NandWrites'
  <1>1. /\ UNCHANGED <<jobVars, chipInfo>> /\ pc = "writeBulk"
        /\ Chunk' = Chunk /\ Touched' = Touched /\ (Short' <=> Short)
    BY SameChunk DEF WriteBulk, Short, Touched, Writing, jobVars
  <1> SUFFICES ASSUME Short PROVE NandWrites'
    BY <1>1 DEF NandWrites
  <1> DEFINE n == Len(Packet)
             sent == Latch(chip, Packet)
             upTo == block * Chunk + ByteCount
             start == writePage * PageSize
             cells == Burn(sent, start)
  <1>2. BufferOpen
    BY <1>1 DEF NandWrites
  <1>3. /\ ProtoTypeOK /\ writePage \in Nat /\ start \in Nat /\ PageSize \in Nat \ {0}
    BY <1>1, ControlTypes, ChipAssumption
  <1>4. /\ Packet \in Seq(Byte) /\ n \in 1..want /\ want = writeCount /\ PerformWrite(Packet)
        /\ want' = want - n /\ want \in Nat /\ chip.op # "none"
    BY ControlTypes, PacketSent
  <1>5. /\ n \in Nat \ {0} /\ chip.pos + n <= PageSize /\ (n < want => (chip.pos + n) % EpBufferSize = 0)
        /\ sent.op = "program" /\ sent.wel /\ ~sent.busy /\ sent.mem = chip.mem
        /\ sent.pos = chip.pos + n /\ start + sent.pos = Sent + n
        /\ \A k \in Column : sent.buf[k] = IF k < sent.pos THEN FileByte(start + k) ELSE Erased
        /\ \A a \in Addr : /\ a < Sent + n => cells[a] = File[a]
                           /\ Sent + n <= a /\ a < Touched => cells[a] = Erased
    BY NandSentPage
  <1>6. writeTotal' = writeTotal
    BY <1>3, <1>4, PerformWriteFacts
  <1>7. block * Chunk \in Nat /\ ByteCount \in Nat /\ Sent = upTo - want /\ chip.pos \in Nat
    BY <1>1, ControlTypes, BlockPages, ByteCountRange DEF Sent, ControlInv, LoopInv
  <1>8. /\ writeCount > n /\ chip.pos + n # PageSize => chip' = sent /\ writePage' = writePage
        /\ writeCount > n /\ chip.pos + n = PageSize =>
              /\ chip'.op = "program" /\ chip'.wel /\ ~chip'.busy /\ chip'.pos = 0
              /\ chip'.buf = Blank /\ writePage' = writePage + 1 /\ chip'.mem = cells
        /\ writeCount = n => chip'.mem = cells /\ ~chip'.busy
    BY NandSentPage
  <1> HIDE DEF n, upTo, sent, start, cells
  <1>9. CASE want > n
    <2>1. want' > 0 /\ want' # 0
      BY <1>4, <1>5, <1>9
    <2>2. pc' = "writeBulk" /\ block' = block
      BY <2>1 DEF WriteBulk, Goto
    <2>3. ByteCount' = ByteCount
      BY <1>1, <2>2, SameByteCount DEF jobVars
    <2>4. Sent' = Sent + n
      BY <1>1, <1>4, <1>5, <1>7, <2>2, <2>3 DEF Sent, upTo
    <2>5. CASE chip.pos + n # PageSize
      <3>1. chip' = sent /\ writePage' = writePage /\ start' = start
        BY <1>4, <1>8, <1>9, <2>5 DEF start
      <3>2. chip.pos + n \in Column
        BY <1>3, <1>5, <1>7, <2>5 DEF Column
      <3>3. Filled(start)'
        BY <1>1, <1>2, <1>5, <3>1 DEF Filled, BufferOpen, start
      <3>4. BufferOpen'
        BY <1>2, <1>4, <1>5, <1>6, <1>9, <2>3, <2>4, <3>1, <3>2, <3>3 DEF BufferOpen, start
      <3>5. QED
        BY <2>2, <3>4 DEF NandWrites
    <2>6. CASE chip.pos + n = PageSize
      <3>1. /\ chip'.mem = cells /\ writePage' = writePage + 1
            /\ chip'.op = "program" /\ chip'.wel /\ ~chip'.busy /\ chip'.pos = 0
            /\ chip'.buf = Blank
        BY <1>4, <1>8, <1>9, <2>6
      <3>2. start' = Sent + n
        <4>1. (writePage + 1) * PageSize = writePage * PageSize + PageSize
          BY <1>3
        <4>2. start + PageSize = Sent + n
          BY <1>5, <2>6
        <4>3. start' = (writePage + 1) * PageSize /\ start = writePage * PageSize
          BY <3>1 DEF start
        <4>4. QED
          BY <4>1, <4>2, <4>3
      <3>3. 0 \in Column /\ 0 % EpBufferSize = 0
        BY <1>3, ProtoAssumption DEF Column
      <3>4. \A k \in Column : chip'.buf[k] = Erased /\ ~(k < 0)
        BY <1>3, <3>1 DEF Blank, Column
      <3>5. Filled(start)'
        BY <1>1, <1>5, <3>1, <3>2 DEF Filled
      <3>6. (start + chip.pos)' = Sent + n
        <4>1. start' \in Nat
          BY <1>3, <3>1 DEF start
        <4>2. QED
          BY <3>1, <3>2, <4>1
      <3>7. BufferOpen'
        BY <1>2, <1>6, <2>3, <2>4, <3>1, <3>3, <3>4, <3>5, <3>6 DEF BufferOpen, start
      <3>8. QED
        BY <2>2, <3>7 DEF NandWrites
    <2>7. QED
      BY <2>5, <2>6
  <1>10. CASE want = n
    <2>1. chip'.mem = cells /\ ~chip'.busy
      BY <1>4, <1>8, <1>10
    <2>2. want' = 0
      BY <1>4, <1>10
    <2>3. upTo \in Nat /\ Sent + n = upTo
      <3>1. upTo \in Nat
        BY <1>7 DEF upTo
      <3>2. QED
        BY <1>4, <1>7, <1>10, <3>1
    <2>4. \A a \in Addr : /\ a < upTo => chip'.mem[a] = File[a]
                          /\ upTo <= a /\ a < Touched => chip'.mem[a] = Erased
      BY <1>5, <2>1, <2>3
    <2>5. CASE Verified
      <3>1. pc' = "verifyPoll" /\ block' = block
        BY <2>2, <2>5, BlockSent
      <3>2. (block * Chunk + ByteCount)' = upTo
        BY <1>1, <3>1, SameByteCount DEF jobVars, upTo
      <3>3. Filled(block * Chunk + ByteCount)'
        BY <1>1, <2>4, <3>2 DEF Filled
      <3>4. QED
        BY <2>1, <3>1, <3>3 DEF NandWrites
    <2>6. CASE ~Verified
      <3>1. NextBlock
        BY <2>2, <2>6, BlockSent
      <3>2. QED
        BY <1>1, <2>1, <2>4, <3>1, NandNextBlock DEF upTo
    <2>7. QED
      BY <2>5, <2>6
  <1>11. QED
    BY <1>4, <1>9, <1>10

\* A verify that agrees leads to the next block.
LEMMA NandVerified ==
    ASSUME Kind = "nand", KnownChip, ControlInv, ProgressInv, NandTrust, NandWrites, VerifyPages
    PROVE  NandWrites'
  <1>1. /\ UNCHANGED <<jobVars, chipInfo>> /\ pc = "verifyPoll"
        /\ (NextBlock \/ (pc' = "done" /\ result' = "fail"))
    BY DEF VerifyPages, Fail
  <1>2. CASE pc' = "done" /\ result' = "fail"
    BY <1>2, NoWrites
  <1>3. CASE NextBlock
    <2>1. (Short' <=> Short) /\ UNCHANGED chip
      BY <1>1 DEF Short, Writing, jobVars, VerifyPages, FetchStatus, Hang
    <2>2. Short => ~chip.busy /\ Filled(block * Chunk + ByteCount)
      BY <1>1 DEF NandWrites
    <2>3. Short => NandWrites'
      BY <1>1, <1>3, <2>1, <2>2, NandNextBlock DEF Filled
    <2>4. QED
      BY <2>1, <2>3 DEF NandWrites
  <1>4. QED
    BY <1>1, <1>2, <1>3

\* Deselecting restores the chip's protection and leaves the file alone.
LEMMA NandReleased ==
    ASSUME Kind = "nand", KnownChip, ControlInv, NandWrites, Deselected
    PROVE  NandWrites'
  <1>1. /\ pc = "release" /\ pc' = "done" /\ UNCHANGED <<jobVars, result>>
        /\ chip' \in {chip, RestoreW25N(chip)}
    BY DEF Deselected, ReleaseTargetDevice, Goto
  <1>2. chip'.mem = chip.mem /\ (~chip.busy => ~chip'.busy)
    BY <1>1, ControlTypes DEF RestoreW25N, Finish, Chip
  <1>3. (Short' <=> Short) /\ fileLength' = fileLength
    BY <1>1 DEF Short, Writing, jobVars
  <1>4. QED
    BY <1>1, <1>2, <1>3 DEF NandWrites

\* Erasing begins with the only block a short write touches.
LEMMA NandErasing ==
    ASSUME Kind = "nand", KnownChip, ControlInv, NoHang, ProgressInv, NandTrust, NandWrites, StartOfFrame
    PROVE  NandWrites'
  <1>1. /\ eraseActive /\ UNCHANGED <<pc, jobVars, result>>
        /\ Tick /\ (Short' <=> Short) /\ Touched' = Touched
    BY DEF StartOfFrame, Tick, hostVars, jobVars, Short, Touched, Writing
  <1>2. CASE pc # "erasePoll"
    <2>1. quiet => pc \notin {"writeReq", "writeData", "writeBulk", "verifyPoll", "release"}
                   /\ ~(pc = "done" /\ result = "ok")
      BY <1>1 DEF NandTrust, ControlInv, PhaseInv
    <2>2. QED
      BY <1>1, <1>2, <2>1 DEF NandWrites, Short, jobVars
  <1>3. CASE pc = "erasePoll"
    <2> SUFFICES ASSUME Short PROVE NandWrites'
      BY <1>1 DEF NandWrites
    <2>1. /\ targetDevice = "chip" /\ chip.op = "none" /\ ~chip.protected /\ ProtoTypeOK
          /\ beginPage \in Nat /\ endPage = PageCount /\ fileLength \in 0..EraseSize
          /\ PageCount = Ceil(fileLength, EraseSize) /\ chip.mem \in [Addr -> Byte]
      BY <1>3, ControlTypes, ShortChip DEF Working, Short, ProgressInv, ControlInv, PhaseInv, NoStream
    <2>2. endPage \in {0, 1}
      BY <2>1, ShortTouched
    <2>3. /\ beginPage >= endPage => UNCHANGED <<chip, beginPage>>
          /\ beginPage < endPage => beginPage' = beginPage + 1
          /\ beginPage = 0 /\ beginPage < endPage =>
                chip'.mem = [a \in Addr |-> IF a \div EraseSize = 0 THEN Erased ELSE chip.mem[a]]
      BY <1>1, <2>1, NandTick
    <2>4. CASE beginPage >= endPage
      <3>1. UNCHANGED <<chip, beginPage>>
        BY <2>3, <2>4
      <3>2. QED
        BY <1>1, <1>3, <3>1 DEF NandWrites
    <2>5. CASE beginPage < endPage
      <3>1. beginPage = 0 /\ endPage = 1
        BY <2>1, <2>2, <2>5
      <3>2. chip'.mem = [a \in Addr |-> IF a \div EraseSize = 0 THEN Erased ELSE chip.mem[a]]
        BY <2>3, <2>5, <3>1
      <3>3. Touched = EraseSize /\ EraseSize \in Nat \ {0}
        BY <2>1, <3>1, ChipAssumption DEF Touched
      <3>4. ASSUME NEW a \in Addr, a < Touched
            PROVE  chip'.mem[a] = Erased
        <4>1. a \in 0..EraseSize - 1
          BY <3>3, <3>4, ChipAssumption DEF Addr
        <4>2. a = (EraseSize * 0) + a
          BY <3>3, <4>1
        <4>3. a \div EraseSize = 0
          BY <3>3, <4>1, <4>2, ModUnique
        <4>4. QED
          BY <3>2, <4>3
      <3>5. QED
        BY <1>1, <1>3, <3>4 DEF NandWrites
    <2>6. QED
      BY <2>1, <2>2, <2>4, <2>5
  <1>4. QED
    BY <1>2, <1>3

\* Every step keeps the short writes right.
LEMMA NandWriteStep ==
    ASSUME Kind = "nand", KnownChip, ControlInv, NoHang, ProgressInv, NandTrust, NandWrites, [Next]_vars
    PROVE  NandWrites'
  <1>1. CASE User \/ Exit
    BY <1>1, NoWrites DEF User, Start, Kill, Exit, Forget, Starting
  <1>2. CASE RequestCount \/ ListDevice \/ ReadChipInfo \/ Abort \/ TargetRefused
    <2>1. \/ pc' \in {"listing", "abort", "target"}
          \/ pc' = "done" /\ result' = "fail"
          \/ pc' = "done" /\ command' = "listDevices"
      BY <1>2 DEF RequestCount, ListDevice, ReadChipInfo, Abort, TargetRefused, Goto, Fail,
             ProgressInv, jobVars
    <2>2. QED
      BY <2>1, NoWrites DEF Starting, Writing
  <1>3. CASE TargetDevice
    <2>1. \/ pc' \in {"eraseReq", "sfdpReq", "readReq"}
          \/ pc' = "done" /\ result' = "fail"
          \/ pc' = "release" /\ command' = "read"
      BY <1>3 DEF TargetDevice, Goto, Fail, Release, jobVars
    <2>2. QED
      BY <2>1, NoWrites DEF Writing
  <1>4. CASE RequestErase
    BY <1>4, NoWrites DEF RequestErase, Accepted, Goto, Fail
  <1>5. CASE SendEraseConfig
    <2>1. pc' = "erasePoll" /\ ~(beginPage' > 0)
      BY <1>5 DEF SendEraseConfig, HandleErase, Goto, ControlInv, PhaseInv, Working
    <2>2. QED
      BY <2>1 DEF NandWrites
  <1>6. CASE PollErase
    BY <1>6, NandPolled
  <1>7. CASE RequestRead \/ SendReadPage \/ ReadBulk \/ RequestSfdp \/ SendSfdpAddress \/ SfdpBulk
    <2>1. /\ pc \in {"readReq", "readData", "readBulk", "sfdpReq", "sfdpData", "sfdpBulk"}
          /\ pc' \in {"readReq", "readData", "readBulk", "sfdpReq", "sfdpData", "sfdpBulk",
                      "release", "done"} /\ command' = command
      BY <1>7 DEF RequestRead, SendReadPage, ReadBulk, RequestSfdp, SendSfdpAddress, SfdpBulk,
             Receive, Accepted, Goto, Fail, Release, jobVars
    <2>2. ~Writing'
      BY <2>1 DEF ProgressInv, Writing
    <2>3. QED
      BY <2>1, <2>2 DEF NandWrites, Short
  <1>8. CASE RequestWrite \/ SendWritePage
    BY <1>8, NandRequest
  <1>9. CASE WriteBulk
    BY <1>9, NandSend
  <1>10. CASE VerifyPages
    BY <1>10, NandVerified
  <1>11. CASE Deselected
    BY <1>11, NandReleased
  <1>12. CASE ChipFinishes
    <2>1. /\ chip'.mem = chip.mem /\ chip.busy
          /\ UNCHANGED <<pc, jobVars, result, beginPage>>
      BY <1>12, ControlTypes DEF ChipFinishes, Finish, Chip, hostVars, eraseVars
    <2>2. QED
      BY <2>1 DEF NandWrites, BufferOpen, Short, Touched, Writing, jobVars
  <1>13. CASE StartOfFrame
    BY <1>13, NandErasing
  <1>14. CASE UNCHANGED vars
    <2>1. UNCHANGED <<pc, jobVars, chipInfo, block, want, result, chip, writePage, writeTotal, beginPage>>
      BY <1>14 DEF vars, protoVars, hostVars, eraseVars, writeVars
    <2>2. /\ Chunk' = Chunk /\ ByteCount' = ByteCount /\ Touched' = Touched /\ (Short' <=> Short)
          /\ Sent' = Sent
      BY <2>1, SameChunk, SameByteCount DEF Touched, Short, Writing, Sent, jobVars
    <2>3. QED
      BY <2>1, <2>2 DEF NandWrites, BufferOpen, Filled, jobVars
  <1>15. QED
    BY <1>1, <1>2, <1>3, <1>4, <1>5, <1>6, <1>7, <1>8, <1>9, <1>10, <1>11, <1>12, <1>13, <1>14
       DEF Next, Transfer

(* What follows **********************************************************)
\* The invariant of a W25N holds, whenever the host is killed.
THEOREM NandInvariant ==
    ASSUME Kind = "nand", KnownChip
    PROVE  Spec => []NandInv
  <1>1. Init => NandInv
    <2> SUFFICES ASSUME Init PROVE NandInv
      OBVIOUS
    <2>1. pc = "idle" /\ command = "none" /\ fileLength = 0 /\ quiet = FALSE /\ received = <<>>
      BY DEF Init, HostInit
    <2>2. ControlInv /\ NoHang /\ ProgressInv
      BY InitInv, StartsRight
    <2>3. SfdpInv
      BY <2>1 DEF SfdpInv, Starting
    <2>4. NandTrust /\ NandReads /\ NandWrites
      BY <2>1 DEF NandTrust, NandReads, NandWrites, Short, Writing
    <2>5. QED
      BY <2>2, <2>3, <2>4 DEF NandInv
  <1>2. NandInv /\ [Next]_vars => NandInv'
    <2> SUFFICES ASSUME NandInv, [Next]_vars PROVE NandInv'
      OBVIOUS
    <2>1. /\ ControlInv /\ NoHang /\ ProgressInv /\ SfdpInv /\ NandTrust /\ NandReads /\ NandWrites
      BY DEF NandInv
    <2>2. ControlInv' /\ NoHang' /\ ProgressInv' /\ SfdpInv'
      BY <2>1, NextInv, ProgressStep, SfdpStep
    <2>3. NandTrust' /\ NandReads' /\ NandWrites'
      BY <2>1, NandTrustStep, NandReadStep, NandWriteStep
    <2>4. QED
      BY <2>2, <2>3 DEF NandInv
  <1>3. QED
    BY <1>1, <1>2, PTL DEF Spec

\* On a W25N, a read that began quietly got every byte of the chip in order, the
\* packets on both sides of each page it loads included.
THEOREM NandQuietRead ==
    ASSUME Kind = "nand", KnownChip
    PROVE  Spec => []QuietReadDone
  <1>1. NandInv => QuietReadDone
    <2> SUFFICES ASSUME NandInv, quiet, Exited({"read"})
                 PROVE  received = [i \in 1..DevSize |-> chip.mem[i - 1]]
      BY DEF QuietReadDone, ReadDone
    <2>1. Delivered(DevSize) /\ received \in Seq(Byte) /\ DevSize \in Nat
      BY ControlTypes, ChipAssumption DEF Exited, NandInv, NandReads
    <2>2. \A i \in 1..DevSize : received[i] = chip.mem[i - 1]
      BY <2>1 DEF Delivered, Cell, Addr
    <2>3. QED
      BY <2>1, <2>2 DEF Delivered
  <1>2. QED
    BY <1>1, NandInvariant, PTL

\* On a W25N, a write of a file within the first erase block that began quietly
\* and says ok has stored its file; tick erases no other block.
THEOREM NandQuietWrite ==
    ASSUME Kind = "nand", KnownChip
    PROVE  Spec => [](fileLength <= EraseSize => QuietWriteDone)
  <1>1. NandInv => (fileLength <= EraseSize => QuietWriteDone)
    BY DEF QuietWriteDone, WriteDone, Exited, NandInv, NandWrites, Short, Writing
  <1>2. QED
    BY <1>1, NandInvariant, PTL

\* On a W25N, a write within the first erase block that began quietly sends its
\* bytes to erased cells only: erasePages had the whole block erased.
THEOREM NandRangeErased ==
    ASSUME Kind = "nand", KnownChip
    PROVE  Spec => [](quiet /\ fileLength <= EraseSize => RangeErased)
  <1>1. ASSUME NandInv
        PROVE  quiet /\ fileLength <= EraseSize => RangeErased
    <2> SUFFICES ASSUME quiet, fileLength <= EraseSize,
                        pc \in {"writeReq", "writeData", "writeBulk", "verifyPoll"}, NEW a \in Addr,
                        Written <= a, a < Touched
                 PROVE  chip.mem[a] = Erased
      BY DEF RangeErased
    <2>1. ControlInv /\ NandWrites /\ Short /\ block * Chunk \in Nat
      BY <1>1, BlockPages DEF NandInv, ControlInv, LoopInv, Short
    <2>2. CASE pc \in {"writeReq", "writeData"}
      BY <2>1, <2>2 DEF NandWrites, Filled, Written
    <2>3. CASE pc = "verifyPoll"
      BY <2>1, <2>3 DEF NandWrites, Filled, Written
    <2>4. CASE pc = "writeBulk"
      <3> DEFINE start == writePage * PageSize
      <3>1. BufferOpen /\ Written = block * Chunk + (ByteCount - want)
        BY <2>1, <2>4 DEF NandWrites, Written
      <3>2. ByteCount \in Nat /\ want \in Nat /\ start \in Nat /\ chip.pos \in Nat
        BY <2>1, <2>4, ControlTypes, ByteCountRange, ChipAssumption DEF ControlInv, LoopInv
      <3>3. start + chip.pos = Written
        BY <2>1, <3>1, <3>2 DEF BufferOpen, Sent
      <3>4. start <= a
        BY <2>1, <3>1, <3>2, <3>3 DEF Addr
      <3>5. QED
        BY <3>1, <3>4 DEF BufferOpen, Filled
    <2>5. QED
      BY <2>2, <2>3, <2>4
  <1>2. NandInv => (quiet /\ fileLength <= EraseSize => RangeErased)
    BY <1>1
  <1>3. QED
    BY <1>2, NandInvariant, PTL

(* Results when no host was killed ***************************************)
\* Targeting and naming an idle chip leave it idle.
LEMMA NandIdleStart ==
    ASSUME Kind = "nand", KnownChip, ControlInv, chip.op = "none", ~chip.busy, ~eraseActive,
           RequestCount \/ ListDevice \/ ReadChipInfo \/ Abort \/ TargetDevice \/ TargetRefused
    PROVE  chip'.op = "none" /\ ~chip'.busy /\ ~eraseActive'
  <1>1. chip \in Chip /\ IdentDevice(chip) \in Chip
    BY ControlTypes, IdentDeviceChip
  <1>2. /\ chip' \in {chip, Deselect(chip), IdentDevice(chip), PrepareW25N(IdentDevice(chip))}
        /\ ~eraseActive'
    BY NandSetting
       DEF RequestCount, FetchDeviceCount, ListDevice, FetchDeviceListing, ReadChipInfo,
           Abort, HandleAbort, ResetErase, TargetDevice, HandleTargetDevice, TargetRefused,
           RefuseTargetDevice, eraseVars
  <1>3. ASSUME NEW c \in Chip
        PROVE  PrepareW25N(c).op = c.op /\ PrepareW25N(c).busy = c.busy
    BY DEF PrepareW25N, Chip
  <1>4. QED
    BY <1>1, <1>2, <1>3, QuietIdent

\* Without a kill, tick only runs while its command polls.
LEMMA NandTickPoll ==
    ASSUME ControlInv, SfdpInv, UnkilledInv, kills = 0, eraseActive
    PROVE  pc = "erasePoll"
  <1>1. pc \notin {"idle", "done"}
    BY DEF UnkilledInv
  <1>2. pc \notin Starting
    BY <1>1 DEF UnkilledInv, SfdpInv, Starting
  <1>3. pc \in Working => pc = "erasePoll"
    BY DEF ControlInv, PhaseInv, Working, Reading
  <1>4. QED
    BY <1>1, <1>2, <1>3 DEF ControlInv, TypeOK, HostTypeOK, PCs, Starting, Working

\* Every step keeps UnkilledInv.
LEMMA NandUnkilledStep ==
    ASSUME Kind = "nand", KnownChip, ControlInv, SfdpInv, UnkilledInv, [Next]_vars
    PROVE  UnkilledInv'
  <1> SUFFICES ASSUME kills' = 0 PROVE UnkilledInv'
    BY DEF UnkilledInv
  <1>1. CASE \E cmd \in Commands, isValid \in BOOLEAN, length \in FileLengths \cup {0} :
               Start(cmd, isValid, length)
    BY <1>1 DEF Start, protoVars, eraseVars, UnkilledInv
  <1>2. CASE Kill \/ Exit
    BY <1>2
       DEF Kill, Exit, Forget, protoVars, eraseVars, UnkilledInv, ControlInv, TypeOK, HostTypeOK
  <1>3. CASE RequestCount \/ ListDevice \/ ReadChipInfo \/ Abort \/ TargetDevice \/ TargetRefused
    <2>1. pc \in Starting /\ pc' # "idle" /\ UNCHANGED <<jobVars, kills>>
      BY <1>3 DEF RequestCount, ListDevice, ReadChipInfo, Abort, TargetDevice, TargetRefused,
                  Goto, Fail, Release, Starting
    <2>2. quiet /\ ~chip.busy /\ ~eraseActive /\ chip.op = "none"
      BY <2>1 DEF UnkilledInv, SfdpInv, Starting
    <2>3. ~chip'.busy /\ chip'.op = "none" /\ ~eraseActive'
      BY <1>3, <2>2, NandIdleStart
    <2>4. QED
      BY <2>1, <2>2, <2>3 DEF UnkilledInv, jobVars
  <1>4. ASSUME pc \in Working, pc' \in Working \cup {"done"}, UNCHANGED <<jobVars, kills>>,
               pc' # "erasePoll" => ~chip'.busy,
               pc' = "done" => ~eraseActive' /\ chip'.op = "none"
        PROVE  UnkilledInv'
    BY <1>4 DEF UnkilledInv, jobVars, Working
  <1>5. CASE Deselected \/ RequestErase \/ RequestRead \/ RequestSfdp \/ RequestWrite \/ VerifyPages
    <2>1. /\ UNCHANGED <<eraseActive, kills>> /\ chip' \in {chip, RestoreW25N(chip)}
          /\ pc \in {"release", "eraseReq", "readReq", "sfdpReq", "writeReq", "verifyPoll"}
      BY <1>5
         DEF Deselected, ReleaseTargetDevice, RequestErase, SetupErase, RequestRead, SetupRead,
             RequestSfdp, SetupSFDPRead, RequestWrite, SetupWrite, VerifyPages, FetchStatus,
             Hang, eraseVars
    <2>2. chip.op = "none" /\ ~eraseActive /\ ~chip.busy
      BY <2>1 DEF UnkilledInv, ControlInv, PhaseInv, NoStream
    <2>3. chip'.op = "none" /\ ~chip'.busy
      BY <2>1, <2>2, ControlTypes DEF RestoreW25N, Finish, Chip
    <2>4. QED
      BY <1>4, <1>5, <2>1, <2>2, <2>3, WorkSteps
  <1>6. CASE SendEraseConfig
    BY <1>4, <1>6, WorkSteps DEF SendEraseConfig, Goto
  <1>7. CASE PollErase
    <2>1. UNCHANGED <<chip, eraseActive, kills>> /\ pc = "erasePoll"
      BY <1>7 DEF PollErase, FetchStatus, Hang, protoVars, eraseVars
    <2>2. chip.op = "none"
      BY <2>1 DEF ControlInv, PhaseInv, NoStream
    <2>3. pc' # "erasePoll" => status'.eraseComplete # 0
      BY <1>7, Zenon DEF PollErase, Goto
    <2>4. status'.eraseComplete # 0 => ~eraseActive /\ ~chip.busy
      BY <1>7 DEF PollErase, FetchStatus, EraseStatus, ControlInv, PhaseInv, Working,
                  TypeOK, ProtoTypeOK, EngineTypeOK, Status
    <2>5. QED
      BY <1>4, <1>7, <2>1, <2>2, <2>3, <2>4, WorkSteps
  <1>8. CASE SendReadPage \/ ReadBulk \/ SendSfdpAddress \/ SfdpBulk \/ SendWritePage \/ WriteBulk
    <2>1. pc \in Working \ {"erasePoll"} /\ pc' # "done" /\ UNCHANGED <<jobVars, kills>>
      BY <1>8
         DEF SendReadPage, ReadBulk, SendSfdpAddress, SfdpBulk, Receive, SendWritePage, WriteBulk,
             NextBlock, Goto, Release, Working
    <2>2. ~chip.busy /\ chip \in Chip
      BY <2>1, ControlTypes DEF UnkilledInv
    <2>3. CASE SendReadPage \/ ReadBulk \/ SendSfdpAddress \/ SfdpBulk
      <3>1. ~chip'.busy
        BY <2>2, <2>3, NandStreamKeeps
      <3>2. QED
        BY <1>4, <2>1, <2>3, <3>1, WorkSteps
    <2>4. CASE SendWritePage
      <3>1. chip.op = "none" /\ targetDevice = "chip"
        BY <2>4 DEF SendWritePage, ControlInv, PhaseInv, Working
      <3>2. chip' = WriteAddress(chip, block * PagesPerChunk)
        BY <2>4, <3>1 DEF SendWritePage, HandleWrite
      <3>3. block * PagesPerChunk \in Nat
        BY BlockPages
      <3>4. ~chip'.busy
        BY <2>2, <3>1, <3>2, <3>3, NandAddressed DEF Ready
      <3>5. QED
        BY <1>4, <2>1, <2>4, <3>4, WorkSteps
    <2>5. CASE WriteBulk
      <3> DEFINE sent == Latch(chip, Packet)
                 cells == Burn(sent, writePage * PageSize)
                 full == (writeTotal - writeCount + Len(Packet)) % PageSize = 0
      <3>1. /\ Packet \in Seq(Byte) /\ Len(Packet) \in 1..writeCount /\ PerformWrite(Packet)
            /\ chip.op # "none" /\ ProtoTypeOK /\ full \in BOOLEAN
        BY <2>5, PacketSent, ControlTypes
      <3>2. ~chip'.busy
        BY <2>2, <3>1, NandWritten
      <3>3. QED
        BY <1>4, <2>1, <2>5, <3>2, WorkSteps
    <2>6. QED
      BY <1>8, <2>3, <2>4, <2>5
  <1>9. CASE ChipFinishes
    BY <1>9, ControlTypes, FinishChip
       DEF ChipFinishes, Finish, hostVars, jobVars, eraseVars, UnkilledInv, Chip
  <1>10. CASE StartOfFrame
    <2>1. UNCHANGED <<pc, jobVars, kills>> /\ eraseActive
      BY <1>10 DEF StartOfFrame, Tick, hostVars
    <2>2. pc = "erasePoll"
      BY <2>1, NandTickPoll DEF UnkilledInv
    <2>3. QED
      BY <2>1, <2>2 DEF UnkilledInv, jobVars
  <1>11. CASE UNCHANGED vars
    BY <1>11 DEF vars, protoVars, hostVars, jobVars, eraseVars, UnkilledInv
  <1>12. QED
    BY <1>1, <1>2, <1>3, <1>5, <1>6, <1>7, <1>8, <1>9, <1>10, <1>11
       DEF Next, User, Transfer

\* On a W25N too, while no host has been killed every read that says ok has the
\* whole chip, and every write within the first erase block has stored its file.
THEOREM NandUnkilledResults ==
    ASSUME Kind = "nand", KnownChip
    PROVE  Spec => [](kills = 0 => ReadDone /\ (fileLength <= EraseSize => WriteDone))
  <1>1. Init => UnkilledInv
    BY DEF Init, HostInit, ProtoInit, PowerOn, UnkilledInv
  <1>2. NandInv /\ UnkilledInv /\ [Next]_vars => UnkilledInv'
    BY NandUnkilledStep DEF NandInv
  <1>3. ASSUME UnkilledInv, QuietReadDone, fileLength <= EraseSize => QuietWriteDone, kills = 0
        PROVE  ReadDone /\ (fileLength <= EraseSize => WriteDone)
    <2>1. pc = "done" => quiet
      BY <1>3 DEF UnkilledInv
    <2>2. QED
      BY <1>3, <2>1 DEF QuietReadDone, QuietWriteDone, ReadDone, WriteDone, Exited
  <1>4. UnkilledInv /\ QuietReadDone /\ (fileLength <= EraseSize => QuietWriteDone) =>
           (kills = 0 => ReadDone /\ (fileLength <= EraseSize => WriteDone))
    BY <1>3
  <1>5. QED
    BY <1>1, <1>2, <1>4, NandInvariant, NandQuietRead, NandQuietWrite, PTL DEF Spec


(* The refinement ********************************************************)
\* tick clears only the block of a short write, and only erases.
LEMMA NandClears ==
    ASSUME Kind = "nand", KnownChip, ControlInv, NoHang, ProgressInv, NandTrust, Short,
           pc \in Working, StartOfFrame
    PROVE  \/ chip'.mem = chip.mem
           \/ /\ pc' \in Working /\ UNCHANGED <<jobVars, received>>
              /\ \A a \in Addr : chip'.mem[a] # chip.mem[a] => a < Touched /\ chip'.mem[a] = Erased
  <1>1. eraseActive /\ Tick /\ UNCHANGED <<pc, jobVars, received>>
    BY DEF StartOfFrame, Tick, hostVars
  <1>2. pc = "erasePoll"
    BY <1>1 DEF ControlInv, PhaseInv, Working, Reading
  <1>3. /\ targetDevice = "chip" /\ chip.op = "none" /\ ~chip.protected /\ ProtoTypeOK
        /\ beginPage \in Nat /\ endPage = PageCount /\ fileLength \in 0..EraseSize
        /\ PageCount = Ceil(fileLength, EraseSize) /\ EraseSize \in Nat \ {0}
    BY <1>2, ControlTypes, ShortChip, ChipAssumption
       DEF Short, ProgressInv, ControlInv, PhaseInv, NoStream
  <1>4. endPage \in {0, 1}
    BY <1>3, ShortTouched
  <1>5. /\ beginPage >= endPage => UNCHANGED chip
        /\ beginPage = 0 /\ beginPage < endPage =>
              chip'.mem = [a \in Addr |-> IF a \div EraseSize = 0 THEN Erased ELSE chip.mem[a]]
    BY <1>1, <1>3, NandTick
  <1>6. CASE beginPage >= endPage
    BY <1>5, <1>6
  <1>7. CASE beginPage < endPage
    <2>1. beginPage = 0 /\ endPage = 1
      BY <1>3, <1>4, <1>7
    <2>2. chip'.mem = [a \in Addr |-> IF a \div EraseSize = 0 THEN Erased ELSE chip.mem[a]]
      BY <1>5, <1>7, <2>1
    <2>3. Touched = (0 + 1) * EraseSize
      BY <1>3, <2>1 DEF Touched
    <2>4. ASSUME NEW a \in Addr, chip'.mem[a] # chip.mem[a]
          PROVE  a < Touched /\ chip'.mem[a] = Erased
      <3>1. a \div EraseSize = 0 /\ chip'.mem[a] = Erased
        BY <2>2, <2>4
      <3>2. a < (0 + 1) * EraseSize
        BY <3>1, PageTop
      <3>3. QED
        BY <2>3, <3>1, <3>2
    <2>5. QED
      BY <1>1, <2>4
  <1>8. QED
    BY <1>3, <1>4, <1>6, <1>7

\* What a command does to a W25N's array, when no file goes beyond the first erase
\* block and no one asks for the erase of the whole chip, which it ignores.
LEMMA NandStore ==
    ASSUME Kind = "nand", KnownChip, "erase" \notin Commands, \A l \in FileLengths : l <= EraseSize,
           NandInv, [Next]_vars
    PROVE  StoreRule
  <1> SUFFICES ASSUME Trusted, pc \in Working
               PROVE  \/ chip'.mem = chip.mem
                      \/ /\ pc' \in Working /\ UNCHANGED <<jobVars, received>>
                         /\ Writing \/ command = "erase"
                         /\ \A a \in Addr : chip'.mem[a] # chip.mem[a] =>
                               (Writing => a < Touched) /\ chip'.mem[a] = Erased
                      \/ /\ WriteBulk /\ Writing
                         /\ \A a \in Addr : chip'.mem[a] # chip.mem[a] =>
                               a < fileLength /\ chip.mem[a] = Erased /\ chip'.mem[a] = File[a]
    BY DEF StoreRule
  <1>1. /\ ControlInv /\ NoHang /\ ProgressInv /\ NandTrust /\ NandWrites
        /\ quiet /\ chip \in Chip /\ command # "erase"
    BY ControlTypes, NandSetting DEF NandInv, ControlInv, TypeOK, HostTypeOK, CommandInv, Working
  <1>2. Writing => Short
    BY <1>1, ChipAssumption DEF Short, NandTrust
  <1>3. ASSUME UNCHANGED chip \/ ChipFinishes \/ Deselected
        PROVE  chip'.mem = chip.mem
    BY <1>1, <1>3 DEF ChipFinishes, Finish, Deselected, ReleaseTargetDevice, RestoreW25N, Chip
  <1>4. ASSUME \/ User \/ Exit \/ RequestCount \/ ListDevice \/ ReadChipInfo \/ Abort \/ TargetDevice
               \/ TargetRefused \/ RequestErase \/ PollErase \/ RequestRead
               \/ RequestSfdp \/ RequestWrite \/ VerifyPages
        PROVE  UNCHANGED chip
    BY <1>4
       DEF Working, User, Start, Kill, Exit, Forget, protoVars, RequestCount, ListDevice,
           ReadChipInfo, Abort, TargetDevice, TargetRefused, RequestErase, SetupErase, PollErase,
           FetchStatus, Hang, RequestRead, SetupRead, RequestSfdp, SetupSFDPRead, RequestWrite,
           SetupWrite, VerifyPages
  <1>5. CASE SendReadPage \/ SendSfdpAddress \/ ReadBulk \/ SfdpBulk
    BY <1>1, <1>5, NandStreamKeeps
  <1>6. CASE SendWritePage
    <2>1. /\ pc = "writeData" /\ chip.op = "none" /\ targetDevice = "chip" /\ Short
          /\ chip' = WriteAddress(chip, block * PagesPerChunk) /\ block * PagesPerChunk \in Nat
      BY <1>1, <1>2, <1>6, BlockPages
         DEF SendWritePage, HandleWrite, ControlInv, PhaseInv, LoopInv, Working
    <2>2. Ready(chip)
      BY <1>1, <2>1 DEF NandWrites, Ready
    <2>3. QED
      BY <1>1, <2>1, <2>2, NandAddressed
  <1>7. CASE SendEraseConfig
    <2>1. eraseOperation = "pageRange" /\ UNCHANGED chip
      BY <1>1, <1>7 DEF SendEraseConfig, HandleErase, ProgressInv
    <2>2. QED
      BY <1>3, <2>1
  <1>8. CASE StartOfFrame
    <2>1. Short
      BY <1>1, <1>2, <1>8
         DEF StartOfFrame, Tick, ControlInv, PhaseInv, Working, Reading, ProgressInv
    <2>2. QED
      BY <1>1, <1>8, <2>1, NandClears DEF Short
  <1>9. CASE WriteBulk
    <2> DEFINE n == Len(Packet)
               sent == Latch(chip, Packet)
               start == writePage * PageSize
               cells == Burn(sent, start)
    <2>1. Writing /\ Short /\ n \in 1..writeCount /\ writeCount \in Nat
      BY <1>1, <1>2, <1>9, ControlTypes, PacketSent DEF WriteBulk, ControlInv, LoopInv
    <2>2. /\ sent.mem = chip.mem
          /\ \A a \in Addr : cells[a] # chip.mem[a] =>
                a < fileLength /\ chip.mem[a] = Erased /\ cells[a] = File[a]
          /\ writeCount > n /\ chip.pos + n # PageSize => chip' = sent
          /\ writeCount > n /\ chip.pos + n = PageSize => chip'.mem = cells
          /\ writeCount = n => chip'.mem = cells
      BY <1>1, <1>9, <2>1, NandSentPage
    <2> HIDE DEF n, sent, cells
    <2>3. chip'.mem \in {chip.mem, cells}
      BY <2>1, <2>2
    <2>4. QED
      BY <1>9, <2>1, <2>2, <2>3
  <1>10. QED
    BY <1>3, <1>4, <1>5, <1>6, <1>7, <1>8, <1>9 DEF Next, Transfer, vars, protoVars

\* What a read receives from a W25N.
LEMMA NandDeliver ==
    ASSUME Kind = "nand", KnownChip, NandInv, NandInv'
    PROVE  DeliverRule
  <1>1. ASSUME ReadBulk \/ SfdpBulk
        PROVE  chip'.mem = chip.mem
    BY <1>1, NandStreamKeeps DEF NandInv
  <1>2. ASSUME ReadBulk \/ SfdpBulk, Trusted, command = "read"
        PROVE  \A i \in 1..Len(received') : i - 1 \in Addr /\ received'[i] = chip.mem[i - 1]
    <2>1. ReadBulk /\ pc = "readBulk" /\ UNCHANGED jobVars
      BY <1>2 DEF ReadBulk, Receive, SfdpBulk, NandInv, ProgressInv
    <2>2. quiet /\ quiet' /\ command' = "read" /\ (pc' = "release" => result' = "ok")
      BY <1>2, <2>1, NandSetting DEF jobVars, ReadBulk, Receive, Goto, Release
    <2>3. DevSize % Chunk = 0 /\ chipInfo.deviceSize = DevSize
      BY <1>2, <2>1, <2>2 DEF NandInv, NandTrust, NandReads, Working, ControlInv, CommandInv
    <2>4. /\ pc' \in {"readReq", "readBulk"} => block' < ReadBlocks'
          /\ pc' = "readBulk" => Delivered(block * Chunk + Chunk - want)'
          /\ pc' = "readReq" => Delivered(block * Chunk)'
          /\ pc' = "release" => Delivered(DevSize)'
      BY <2>2 DEF NandInv, NandReads
    <2>5. QED
      BY <1>1, <2>1, <2>3, <2>4, CellsReceived DEF NandInv
  <1>3. QED
    BY <1>1, <1>2 DEF DeliverRule

\* A command on a W25N that says ok has finished its job.
LEMMA NandJob ==
    Kind = "nand" /\ KnownChip /\ "erase" \notin Commands /\ (\A l \in FileLengths : l <= EraseSize) /\ NandInv
        => JobInv
  <1> SUFFICES ASSUME Kind = "nand", KnownChip, "erase" \notin Commands, \A l \in FileLengths : l <= EraseSize,
                      NandInv, Trusted, pc = "done", result = "ok"
               PROVE  Job!Finished /\ ~eraseActive
    BY DEF NandInv, JobInv, JobEnds
  <1>1. quiet /\ ~eraseActive /\ received \in Seq(Byte) /\ command \in Commands \cup {"none"}
    BY ControlTypes, NandSetting DEF NandInv, NandTrust, ControlInv, TypeOK, HostTypeOK
  <1>2. command # "erase"
    BY <1>1
  <1>3. CASE command = "read"
    <2>1. Delivered(DevSize)
      BY <1>1, <1>3 DEF NandInv, NandReads
    <2>2. JobOp = "read"
      BY <1>3 DEF JobOp, Writing
    <2>3. QED
      BY <1>1, <2>1, <2>2, ReadFinished DEF Job!Finished
  <1>4. CASE Writing
    <2>1. Short
      BY <1>1, <1>4, ChipAssumption DEF NandInv, NandTrust, Short
    <2>2. \A a \in Addr : a < fileLength => chip.mem[a] = File[a]
      BY <1>1, <1>4, <2>1 DEF NandInv, NandWrites
    <2>3. JobOp = "write"
      BY <1>4 DEF JobOp, Writing
    <2>4. QED
      BY <1>1, <2>2, <2>3 DEF Job!Finished
  <1>5. CASE command # "read" /\ ~Writing
    BY <1>1, <1>2, <1>5 DEF JobOp, Job!Finished
  <1>6. QED
    BY <1>3, <1>4, <1>5

\* flashprog implements FlashJob on a W25N too, whatever is killed, as long as no
\* file goes beyond the first erase block and the chip is not erased whole.
THEOREM NandJobImplemented ==
    ASSUME Kind = "nand", KnownChip, "erase" \notin Commands, \A l \in FileLengths : l <= EraseSize
    PROVE  Spec => ImplementsJob
  <1>1. Init => Job!JobInit
    BY JobStarts
  <1>2. NandInv => JobInv
    BY NandJob
  <1>3. NandInv /\ NandInv' /\ JobInv /\ JobInv' /\ [Next]_vars => [Job!JobNext]_(Job!allState)
    BY NandStore, NandDeliver, JobStep
  <1>4. QED
    BY <1>1, <1>2, <1>3, NandInvariant, PTL DEF Spec, ImplementsJob, Job!JobSpec
=============================================================================
