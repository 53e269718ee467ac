---------------------------- MODULE MCChipParams ----------------------------
(***************************************************************************)
(* Chips for ChipParams: all kinds the table knows, chips that describe    *)
(* themselves, and a connector that answers 0xFF.  TLC's integers end      *)
(* below 2^31, so a word has 30 bits here; no number of these chips needs  *)
(* more.                                                                   *)
(***************************************************************************)
EXTENDS ChipParams

Plain(manufacturer, type, capacity, size) ==
    [manufacturer |-> manufacturer, type |-> type, capacity |-> capacity,
     size |-> size, sfdp |-> <<>>]

\* A table of the given length; density in bits less one.
Table(basic, length, bits, pageExponent) ==
    [basic |-> basic, length |-> length, density |-> bits - 1, exponential |-> FALSE,
     sectorEraseOpcode |-> 32, pageExponent |-> pageExponent,
     eraseTypes |-> <<[exponent |-> 15, opcode |-> 82], [exponent |-> 12, opcode |-> 32],
                      [exponent |-> 16, opcode |-> 216], [exponent |-> 0, opcode |-> 0]>>]

Described(size, sfdp) ==
    [manufacturer |-> 194, type |-> 32, capacity |-> 1, size |-> size, sfdp |-> sfdp]

MCInternal == Plain(31, 50, 23, 2^23)

\* The chips of the table.
KnownChips == {Plain(32, 32, 21, 2^21), Plain(200, 64, 19, 2^19), Plain(239, 64, 24, 2^24),
               Plain(239, 170, 33, 2^27)}

\* Current tables, one that follows a table of the maker, and one in the first
\* revision's nine words.
DescribedChips == {Described(2^20, <<Table(TRUE, 64, 2^23, 8)>>),
                   Described(2^24, <<Table(FALSE, 16, 2^23, 8), Table(TRUE, 80, 2^27, 9)>>),
                   Described(2^22, <<Table(TRUE, 36, 2^25, 8)>>)}

\* An empty connector, an unknown chip, and one with a signature and no table
\* the firmware reads.
UnknownChips == {Plain(255, 255, 255, 0), Plain(1, 2, 21, 2^21),
                 Described(2^21, <<Table(FALSE, 16, 2^24, 8)>>)}

MCChips == KnownChips \cup DescribedChips \cup UnknownChips

\* The chips of the runs meet the hypotheses of ChipParamsProofs.
ASSUME MCChipsAssumption ==
    \A chip \in MCChips \cup {MCInternal} :
        /\ Known(chip) = {} => Tileable(chip) /\ (BasicTables(chip) # {} => Honest(chip))
        /\ \A entry \in Known(chip) : Power2(entry.actualCapacity) = chip.size

MCPlainChips == KnownChips \cup {Plain(255, 255, 255, 0), Plain(1, 2, 21, 2^21)}
=============================================================================
