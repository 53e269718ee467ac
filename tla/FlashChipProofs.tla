-------------------------- MODULE FlashChipProofs --------------------------
(***************************************************************************)
(* What the chip's operators return: a chip again, and, where the firmware *)
(* relies on it, whether a transaction is open afterwards.  The protocol   *)
(* proofs cite these lemmas and never expand the operators.                *)
(***************************************************************************)
EXTENDS FlashChip, TLAPS

USE ChipAssumption DEF Chip

(* Division **************************************************************)
\* Division with remainder.
LEMMA ModDef ==
    ASSUME NEW a \in Int, NEW b \in Nat \ {0}
    PROVE  /\ a \div b \in Int
           /\ a = (b * (a \div b)) + (a % b)
           /\ (a % b) \in 0..b-1
  BY SMT

\* A multiple of b between 0 and b - 1 is 0.
LEMMA ModZero ==
    ASSUME NEW b \in Nat \ {0}, NEW d \in Int, b * d \in 0..b - 1
    PROVE  d = 0
  <1>1. d >= 1 => b * d >= b
    OBVIOUS
  <1>2. d <= -1 => b * d <= -b
    OBVIOUS
  <1>3. QED
    BY <1>1, <1>2

\* Quotient and remainder are the only ones.
LEMMA ModUnique ==
    ASSUME NEW a \in Int, NEW b \in Nat \ {0}, NEW q \in Int, NEW r \in 0..b - 1, a = (b * q) + r
    PROVE  a % b = r /\ a \div b = q
  <1> DEFINE p == a \div b
             s == a % b
  <1>1. p \in Int /\ a = (b * p) + s /\ s \in 0..b - 1
    BY ModDef
  <1> HIDE DEF p, s
  <1>2. b * (p - q) = (b * p) - (b * q)
    BY <1>1
  <1>3. b * (p - q) = r - s
    BY <1>1, <1>2
  <1>4. p - q >= 1 => b * (p - q) >= b
    BY <1>1
  <1>5. p - q <= -1 => b * (p - q) <= -b
    BY <1>1
  <1>6. p = q
    BY <1>1, <1>3, <1>4, <1>5
  <1>7. QED
    BY <1>1, <1>6 DEF p, s

(* What the operators return *********************************************)
\* Ending an operation changes nothing but the busy bit.
LEMMA FinishChip ==
    ASSUME NEW c \in Chip
    PROVE  Finish(c) \in Chip /\ Finish(c).op = c.op
  BY DEF Finish

\* Write enable opens no transaction.
LEMMA WriteEnableChip ==
    ASSUME NEW c \in Chip
    PROVE  WriteEnable(c) \in Chip /\ WriteEnable(c).op = c.op
  BY DEF WriteEnable

\* Programming and erasing neither open nor close a transaction.
LEMMA ModifyChip ==
    ASSUME NEW c \in Chip, NEW m \in [Addr -> Byte]
    PROVE  Modify(c, m) \in Chip /\ Modify(c, m).op = c.op
  BY DEF Modify

\* A chip erase leaves a chip with no new transaction.
LEMMA ChipEraseChip ==
    ASSUME NEW c \in Chip
    PROVE  ChipErase(c) \in Chip /\ ChipErase(c).op = c.op
  <1>1. [a \in Addr |-> Erased] \in [Addr -> Byte]
    OBVIOUS
  <1>2. QED
    BY <1>1, ModifyChip DEF ChipErase

\* So does the erase of a sector or block, wherever it is.
LEMMA EraseAroundChip ==
    ASSUME NEW c \in Chip, NEW x, NEW size
    PROVE  EraseAround(c, x, size) \in Chip /\ EraseAround(c, x, size).op = c.op
  <1>1. [a \in Addr |-> IF a \div size = x \div size THEN Erased ELSE c.mem[a]] \in [Addr -> Byte]
    OBVIOUS
  <1>2. QED
    BY <1>1, ModifyChip DEF EraseAround

\* A transaction that is opened holds chip select down even when a busy chip
\* ignores it.
LEMMA OpenChip ==
    ASSUME NEW c \in Chip, NEW op \in Ops \ {"none"}, NEW base \in Nat
    PROVE  /\ Open(c, op, base) \in Chip
           /\ Open(c, op, base).op \in {op, "ignored"}
  BY DEF Open, Ops

\* And the load of a page into the buffer.
LEMMA LoadPageChip ==
    ASSUME NEW c \in Chip, NEW page
    PROVE  LoadPage(c, page) \in Chip /\ LoadPage(c, page).op = c.op
  BY DEF LoadPage, Cell

\* Whatever is clocked out is a byte.
LEMMA OutByte ==
    ASSUME NEW c \in Chip, NEW i
    PROVE  Out(c, i) \in Byte
  BY DEF Out, Cell, SfdpByte

\* A packet taken from the chip has the length that was asked for.
LEMMA TakeBytes ==
    ASSUME NEW c \in Chip, NEW n \in Nat
    PROVE  Take(c, n) \in Seq(Byte) /\ Len(Take(c, n)) = n
  BY OutByte DEF Take

\* Clocking bytes out does not end the transaction.
LEMMA AdvanceChip ==
    ASSUME NEW c \in Chip, NEW n \in Nat
    PROVE  Advance(c, n) \in Chip /\ Advance(c, n).op = c.op
  BY DEF Advance

\* A page program is open, or was ignored, and holds chip select down.
LEMMA OpenProgramChip ==
    ASSUME NEW c \in Chip, NEW base \in Nat
    PROVE  /\ OpenProgram(c, base) \in Chip
           /\ OpenProgram(c, base).op \in {"program", "ignored"}
  <1>1. Blank \in [Column -> Byte]
    BY DEF Blank
  <1>2. QED
    BY <1>1 DEF OpenProgram, Open, Ops

\* So is a page load, which a byte addressed chip misreads.
LEMMA OpenLoadChip ==
    ASSUME NEW c \in Chip
    PROVE  /\ OpenLoad(c) \in Chip
           /\ OpenLoad(c).op \in {"program", "skewed", "ignored"}
  <1>1. Blank \in [Column -> Byte]
    BY DEF Blank
  <1>2. QED
    BY <1>1 DEF OpenLoad, Open, Ops

\* Data bytes go into the latch, whichever way the page wraps.
LEMMA LatchChip ==
    ASSUME NEW c \in Chip, NEW bytes \in Seq(Byte)
    PROVE  Latch(c, bytes) \in Chip /\ Latch(c, bytes).op = c.op
  <1> DEFINE Index(k) == ((k - c.pos) % PageSize) + 1
             Loaded == [k \in Column |-> IF Index(k) <= Len(bytes) THEN bytes[Index(k)] ELSE c.buf[k]]
  <1>1. ASSUME NEW k \in Column
        PROVE  Index(k) \in Nat \ {0}
    BY DEF Column
  <1>2. Loaded \in [Column -> Byte]
    BY <1>1
  <1>3. c.pos + Len(bytes) \in Nat
    OBVIOUS
  <1>4. CASE c.op = "program"
    <2>1. Latch(c, bytes) = [c EXCEPT !.pos = c.pos + Len(bytes), !.buf = Loaded]
      BY <1>4 DEF Latch
    <2> HIDE DEF Loaded
    <2>2. QED
      BY <2>1, <1>2, <1>3
  <1>5. CASE c.op = "skewed"
    <2>1. Latch(c, bytes) = [c EXCEPT !.pos = c.pos + Len(bytes), !.buf = [k \in Column |-> Corrupt]]
      BY <1>5 DEF Latch
    <2>2. [k \in Column |-> Corrupt] \in [Column -> Byte]
      OBVIOUS
    <2>3. QED
      BY <2>1, <2>2, <1>3
  <1>6. QED
    BY <1>4, <1>5 DEF Latch

\* Programming gives every address a byte.
LEMMA BurnArray ==
    ASSUME NEW c \in Chip, NEW base
    PROVE  Burn(c, base) \in [Addr -> Byte]
  BY DEF Burn, Programmed

\* Deselecting always closes the transaction.
LEMMA DeselectChip ==
    ASSUME NEW c \in Chip
    PROVE  Deselect(c) \in Chip /\ Deselect(c).op = "none"
  <1> DEFINE idle == [c EXCEPT !.op = "none", !.base = 0, !.pos = 0]
  <1>1. idle \in Chip /\ idle.op = "none"
    BY DEF Ops
  <1>2. Modify(idle, Burn(c, c.base)) \in Chip /\ Modify(idle, Burn(c, c.base)).op = "none"
    BY <1>1, BurnArray, ModifyChip
  <1>3. QED
    BY <1>1, <1>2 DEF Deselect

\* Executing a loaded page opens no transaction.
LEMMA ExecuteProgramChip ==
    ASSUME NEW c \in Chip, NEW page
    PROVE  ExecuteProgram(c, page) \in Chip /\ ExecuteProgram(c, page).op = c.op
  BY BurnArray, ModifyChip DEF ExecuteProgram

(* The chip's settings ***************************************************)
\* The protection bits and the buffer mode, registers of a W25N.
SameSettings(d, c) == d.protected = c.protected /\ d.bufMode = c.bufMode

\* Only the commands for these registers and a power cycle change them.
LEMMA KeepsSettings ==
    ASSUME NEW c \in Chip, NEW x, NEW y
    PROVE  /\ SameSettings(Finish(c), c)
           /\ SameSettings(WriteEnable(c), c)
           /\ SameSettings(ChipErase(c), c)
           /\ SameSettings(EraseAround(c, x, y), c)
           /\ SameSettings(Open(c, x, y), c)
           /\ SameSettings(LoadPage(c, x), c)
           /\ SameSettings(Advance(c, x), c)
           /\ SameSettings(OpenProgram(c, x), c)
           /\ SameSettings(OpenLoad(c), c)
           /\ SameSettings(Latch(c, x), c)
           /\ SameSettings(Deselect(c), c)
           /\ SameSettings(ExecuteProgram(c, x), c)
  <1>1. ASSUME NEW m
        PROVE  SameSettings(Modify(c, m), c)
    BY DEF SameSettings, Modify
  <1>2. /\ SameSettings(Finish(c), c) /\ SameSettings(WriteEnable(c), c)
        /\ SameSettings(Open(c, x, y), c) /\ SameSettings(LoadPage(c, x), c)
        /\ SameSettings(Advance(c, x), c)
    BY DEF SameSettings, Finish, WriteEnable, Open, LoadPage, Advance
  <1>3. SameSettings(OpenProgram(c, x), c) /\ SameSettings(OpenLoad(c), c)
    BY DEF SameSettings, OpenProgram, OpenLoad, Open
  <1>4. SameSettings(Latch(c, x), c)
    BY DEF SameSettings, Latch
  <1>5. SameSettings(Deselect(c), c)
    BY DEF SameSettings, Deselect, Modify
  <1>6. /\ SameSettings(ChipErase(c), c) /\ SameSettings(EraseAround(c, x, y), c)
        /\ SameSettings(ExecuteProgram(c, x), c)
    BY <1>1 DEF SameSettings, ChipErase, EraseAround, ExecuteProgram
  <1>7. QED
    BY <1>2, <1>3, <1>4, <1>5, <1>6

(* A chip that is ready **************************************************)
\* A ready chip accepts a read.
LEMMA ReadOpened ==
    ASSUME NEW c \in Chip, Ready(c), NEW base \in Nat
    PROVE  OpenRead(c, base) = [c EXCEPT !.op = "read", !.base = base, !.pos = 0]
  BY DEF OpenRead, Open

\* A write enabled one accepts a page program and starts with a blank latch.
LEMMA ProgramOpened ==
    ASSUME NEW c \in Chip, Ready(c), NEW base \in Nat
    PROVE  OpenProgram(WriteEnable(c), base) =
             [c EXCEPT !.op = "program", !.wel = TRUE, !.base = base, !.pos = 0, !.buf = Blank]
  BY DEF OpenProgram, Open, WriteEnable, Ready

\* And an erase, when it is not protected.
LEMMA ErasedAround ==
    ASSUME NEW c \in Chip, Ready(c), ~c.protected, NEW x, NEW size
    PROVE  EraseAround(WriteEnable(c), x, size).mem =
             [a \in Addr |-> IF a \div size = x \div size THEN Erased ELSE c.mem[a]]
  <1> DEFINE enabled == WriteEnable(c)
             erased == [a \in Addr |-> IF a \div size = x \div size THEN Erased ELSE c.mem[a]]
  <1>1. enabled = [c EXCEPT !.wel = TRUE]
    BY DEF WriteEnable
  <1>2. Ready(enabled) /\ enabled.wel /\ ~enabled.protected /\ enabled.mem = c.mem /\ enabled \in Chip
    BY <1>1 DEF Ready
  <1> HIDE DEF enabled
  <1>3. EraseAround(enabled, x, size) = Modify(enabled, erased)
    BY <1>2 DEF EraseAround
  <1> HIDE DEF erased
  <1>4. EraseAround(enabled, x, size).mem = erased
    BY <1>2, <1>3 DEF Modify
  <1>5. QED
    BY <1>4 DEF enabled, erased

\* The chip erase of a byte addressed chip clears all of it.
LEMMA ErasedAll ==
    ASSUME NEW c \in Chip, Ready(c), ~c.protected, Kind = "nor"
    PROVE  ChipErase(WriteEnable(c)).mem = [a \in Addr |-> Erased]
  <1>1. WriteEnable(c) = [c EXCEPT !.wel = TRUE]
    BY DEF WriteEnable
  <1>2. Ready(WriteEnable(c)) /\ WriteEnable(c).wel /\ ~WriteEnable(c).protected
    BY <1>1 DEF Ready, Chip
  <1>3. ChipErase(WriteEnable(c)) =
          [WriteEnable(c) EXCEPT !.mem = [a \in Addr |-> Erased], !.busy = TRUE, !.wel = FALSE]
    BY <1>2 DEF ChipErase, Modify
  <1>4. QED
    BY <1>3, WriteEnableChip DEF Chip

(* The transactions that stay open ***************************************)
\* The end of a transaction that programs nothing leaves the array alone.
LEMMA DeselectQuiet ==
    ASSUME NEW c \in Chip, c.op \notin {"program", "skewed"}
    PROVE  Deselect(c) = [c EXCEPT !.op = "none", !.base = 0, !.pos = 0]
  BY DEF Deselect

\* Bytes that stay within the page go to the columns from pos on.
LEMMA LatchInPage ==
    ASSUME NEW c \in Chip, c.op = "program",
           NEW bytes \in Seq(Byte), c.pos + Len(bytes) <= PageSize
    PROVE  Latch(c, bytes) =
             [c EXCEPT !.pos = c.pos + Len(bytes),
                       !.buf = [k \in Column |->
                                  IF c.pos <= k /\ k < c.pos + Len(bytes)
                                  THEN bytes[k - c.pos + 1] ELSE c.buf[k]]]
  <1> DEFINE n == Len(bytes)
             index(k) == ((k - c.pos) % PageSize) + 1
             wrapped == [k \in Column |-> IF index(k) <= n THEN bytes[index(k)] ELSE c.buf[k]]
             straight == [k \in Column |-> IF c.pos <= k /\ k < c.pos + n
                                           THEN bytes[k - c.pos + 1] ELSE c.buf[k]]
  <1>1. n \in Nat /\ c.pos \in Nat
    OBVIOUS
  <1>2. ASSUME NEW k \in Column
        PROVE  /\ index(k) \in Int
               /\ c.pos <= k => index(k) = k - c.pos + 1
               /\ k < c.pos => index(k) > n
    <2>1. k \in 0..PageSize - 1
      BY DEF Column
    <2>2. ASSUME c.pos <= k
          PROVE  (k - c.pos) % PageSize = k - c.pos
      <3>1. k - c.pos \in 0..PageSize - 1 /\ k - c.pos = (PageSize * 0) + (k - c.pos)
        BY <1>1, <2>1, <2>2
      <3>2. QED
        BY <3>1, ModUnique
    <2>3. ASSUME k < c.pos
          PROVE  (k - c.pos) % PageSize = k - c.pos + PageSize
      <3> DEFINE q == -1
      <3>1. /\ k - c.pos \in Int /\ k - c.pos + PageSize \in 0..PageSize - 1
            /\ q \in Int /\ k - c.pos = (PageSize * q) + (k - c.pos + PageSize)
        BY <1>1, <2>1, <2>3
      <3> HIDE DEF q
      <3>2. QED
        BY <3>1, ModUnique
    <2>4. QED
      BY <1>1, <2>1, <2>2, <2>3
  <1> HIDE DEF index
  <1>3. ASSUME NEW k \in Column
        PROVE  wrapped[k] = straight[k]
    <2>1. k \in Int
      BY DEF Column
    <2>2. wrapped[k] = IF index(k) <= n THEN bytes[index(k)] ELSE c.buf[k]
      OBVIOUS
    <2>3. straight[k] = IF c.pos <= k /\ k < c.pos + n THEN bytes[k - c.pos + 1] ELSE c.buf[k]
      OBVIOUS
    <2> HIDE DEF wrapped, straight
    <2>4. CASE c.pos <= k
      <3>1. index(k) = k - c.pos + 1 /\ (index(k) <= n <=> k < c.pos + n)
        BY <1>1, <1>2, <2>1, <2>4
      <3>2. QED
        BY <2>2, <2>3, <2>4, <3>1
    <2>5. CASE k < c.pos
      <3>1. ~(index(k) <= n)
        BY <1>1, <1>2, <2>1, <2>5
      <3>2. QED
        BY <1>1, <2>1, <2>2, <2>3, <2>5, <3>1
    <2>6. QED
      BY <1>1, <2>1, <2>4, <2>5
  <1>4. wrapped = straight
    BY <1>3
  <1>5. Latch(c, bytes) = [c EXCEPT !.pos = c.pos + n, !.buf = wrapped]
    BY DEF Latch, index
  <1>6. QED
    BY <1>4, <1>5

\* The end of a page program burns the latch into the page.
LEMMA PageBurnt ==
    ASSUME NEW c \in Chip, Kind = "nor", c.op = "program", c.pos > 0,
           c.wel, ~c.busy, ~c.protected
    PROVE  Deselect(c) = [c EXCEPT !.op = "none", !.base = 0, !.pos = 0,
                                   !.mem = Burn(c, c.base), !.busy = TRUE, !.wel = FALSE]
  BY DEF Deselect, Modify, Ready

\* Programming an erased page stores the latch; the rest of the array keeps
\* what it held.
LEMMA BurntCell ==
    ASSUME NEW c \in Chip, NEW base \in Nat, NEW a \in Addr
    PROVE  /\ a - base \in Column /\ c.mem[a] = Erased => Burn(c, base)[a] = c.buf[a - base]
           /\ a - base \in Column /\ c.buf[a - base] = Erased => Burn(c, base)[a] = c.mem[a]
           /\ a - base \notin Column => Burn(c, base)[a] = c.mem[a]
  BY DEF Burn, Programmed
=============================================================================
