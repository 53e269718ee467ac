----------------------------- MODULE FlashChip -----------------------------
(***************************************************************************)
(* The SPI flash chip on the other end of the programmer's bus.  The chip  *)
(* is hardware: nothing under src/ implements it.  It is modelled from how *)
(* firmware/usb/flashProto.cxx drives it (the opcodes of spiOpcodes, the   *)
(* order of its transactions and the datasheet facts its comments quote),  *)
(* as pure operators on a record that the firmware model composes.         *)
(*                                                                         *)
(* A transaction is framed by chip select.  Everything that fits between   *)
(* two edges is one operator here; the two transactions that stay open     *)
(* over several USB packets (a read and a page program) are the field op.  *)
(*                                                                         *)
(*  mem        contents of the array once the running operation has ended: *)
(*             a busy chip answers nothing, so the difference is invisible *)
(*  busy       a program or erase is running (status register, bit 0)      *)
(*  wel        write enable latch                                          *)
(*  protected  block protection bits are set (NAND only)                   *)
(*  bufMode    the BUF bit: reads come from the page buffer (NAND only)    *)
(*  buf        the page buffer / program latch                             *)
(*  op         the open transaction; base and pos say which byte is next   *)
(***************************************************************************)
EXTENDS Integers, Sequences

CONSTANTS Kind,       \* "nor": byte addressed; "nand": Winbond W25N, page addressed
          Byte,       \* the values a cell may hold
          Erased,     \* 0xFF
          Corrupt,    \* any value that is not what was meant to be there
          PageSize,   \* bytes in a program page
          EraseSize,  \* bytes in a sector, what one erase command clears
          BlockErase, \* bytes opcode 0xD8 clears on a "nor" chip
          DevSize,    \* bytes in the array
          Sfdp        \* the chip's SFDP area, a function on 0..N

ASSUME ChipAssumption ==
    /\ Kind \in {"nor", "nand"}
    /\ Erased \in Byte /\ Corrupt \in Byte /\ Erased # Corrupt
    /\ PageSize \in Nat \ {0} /\ EraseSize \in Nat \ {0}
    /\ BlockErase \in Nat \ {0} /\ DevSize \in Nat \ {0}
    /\ \A a \in DOMAIN Sfdp : Sfdp[a] \in Byte

Addr == 0..DevSize - 1
Column == 0..PageSize - 1
Blank == [k \in Column |-> Erased]
Ops == {"none", "ignored", "read", "sfdp", "program", "skewed"}

Chip == [mem: [Addr -> Byte], busy: BOOLEAN, wel: BOOLEAN,
         protected: BOOLEAN, bufMode: BOOLEAN, buf: [Column -> Byte],
         op: Ops, base: Nat, pos: Nat]

PowerOn(m) ==
    [mem |-> m, busy |-> FALSE, wel |-> FALSE, protected |-> Kind = "nand",
     bufMode |-> FALSE, buf |-> Blank, op |-> "none", base |-> 0, pos |-> 0]

Finish(c) == [c EXCEPT !.busy = FALSE]

Cell(c, a) == IF a \in Addr THEN c.mem[a] ELSE Corrupt
SfdpByte(a) == IF a \in DOMAIN Sfdp THEN Sfdp[a] ELSE Corrupt

\* A command is only decoded after a falling edge of chip select, and only a
\* status read (or a reset) is answered while an operation runs.
Ready(c) == c.op = "none" /\ ~c.busy

WriteEnable(c) == IF Ready(c) THEN [c EXCEPT !.wel = TRUE] ELSE c

\* Programming and erasing need a ready, write enabled and unprotected chip;
\* an accepted operation makes the chip busy and clears the latch.
Modify(c, m) ==
    IF Ready(c) /\ c.wel /\ ~c.protected
    THEN [c EXCEPT !.mem = m, !.busy = TRUE, !.wel = FALSE]
    ELSE c

\* A W25N has no chip erase command.
ChipErase(c) == IF Kind = "nand" THEN c ELSE Modify(c, [a \in Addr |-> Erased])

EraseAround(c, x, size) ==
    Modify(c, [a \in Addr |-> IF a \div size = x \div size THEN Erased ELSE c.mem[a]])

(* Reading ***************************************************************)
Open(c, op, base) ==
    [c EXCEPT !.op = IF Ready(c) THEN op ELSE "ignored", !.base = base, !.pos = 0]

OpenRead(c, base) == Open(c, "read", base)
OpenSfdp(c, base) == Open(c, "sfdp", base)

\* 0x13 on a NAND chip fills the page buffer; a NOR chip does not know it.
LoadPage(c, page) ==
    IF Kind = "nand" /\ Ready(c)
    THEN [c EXCEPT !.buf = [k \in Column |-> Cell(c, page * PageSize + k)], !.busy = TRUE]
    ELSE c

\* What the next-but-i byte clocked out of the open transaction is.
Out(c, i) ==
    LET x == c.base + c.pos + i
    IN CASE c.op = "read" /\ Kind = "nor" -> Cell(c, x)
         [] c.op = "read" /\ Kind = "nand" /\ c.bufMode /\ x \in Column -> c.buf[x]
         [] c.op = "sfdp" -> SfdpByte(x)
         [] OTHER -> Corrupt

Take(c, n) == [i \in 1..n |-> Out(c, i - 1)]
Advance(c, n) == [c EXCEPT !.pos = @ + n]

(* Programming ***********************************************************)
\* A page program to byte address base, or (NAND) a load of the page buffer.
OpenProgram(c, base) ==
    [Open(c, IF c.wel THEN "program" ELSE "ignored", base) EXCEPT !.buf = Blank]

\* The same opcode with the two address bytes of a NAND load: a NOR chip takes
\* the first data byte for the third, so what it programs is nobody's data.
OpenLoad(c) ==
    [Open(c, IF ~c.wel THEN "ignored" ELSE IF Kind = "nand" THEN "program" ELSE "skewed", 0)
        EXCEPT !.buf = Blank]

Latch(c, bytes) ==
    CASE c.op = "program" ->
            [c EXCEPT !.pos = @ + Len(bytes),
                      !.buf = [k \in Column |->
                                 LET i == ((k - c.pos) % PageSize) + 1
                                 IN IF i <= Len(bytes) THEN bytes[i] ELSE c.buf[k]]]
      [] c.op = "skewed" ->
            [c EXCEPT !.pos = @ + Len(bytes), !.buf = [k \in Column |-> Corrupt]]
      [] OTHER -> c

\* Programming can only clear bits.
Programmed(old, new) ==
    IF new = Erased THEN old
    ELSE IF old \in {Erased, new} THEN new ELSE Corrupt

Burn(c, base) ==
    [a \in Addr |-> IF a - base \in Column THEN Programmed(c.mem[a], c.buf[a - base])
                                           ELSE c.mem[a]]

\* Chip select rising ends the open transaction; on a NOR chip it starts the
\* program that was being loaded, if any data byte was clocked in.
Deselect(c) ==
    LET idle == [c EXCEPT !.op = "none", !.base = 0, !.pos = 0]
    IN IF Kind = "nor" /\ c.op \in {"program", "skewed"} /\ c.pos > 0
       THEN Modify(idle, Burn(c, c.base))
       ELSE idle

\* 0x10 on a NAND chip programs the page buffer into a page.
ExecuteProgram(c, page) ==
    IF Kind = "nand" THEN Modify(c, Burn(c, page * PageSize)) ELSE c
=============================================================================
