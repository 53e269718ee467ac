---------------------------- MODULE MCFlashprog ----------------------------
(***************************************************************************)
(* Small programmers for TLC.  Bytes of the file, of the chip's first      *)
(* contents and of its SFDP area are told apart by number, so that a byte  *)
(* delivered or stored in the wrong place shows.                           *)
(***************************************************************************)
EXTENDS Flashprog

MCByte == {Erased, Corrupt} \cup 0..99
MCFile == [a \in Addr |-> a]
MCContents == {[a \in Addr |-> 40 + a], [a \in Addr |-> Erased]}
MCOldContents == {[a \in Addr |-> 40 + a]}
MCSfdp == [a \in 0..6 |-> 80 + a]
\* A header, a table header behind it and a table, as readAndDisplay reads them.
MCSfdpReads == << <<0, 2>>, <<2, 2>>, <<4, 3>> >>
=============================================================================
