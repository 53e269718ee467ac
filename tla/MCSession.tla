----------------------------- MODULE MCSession -----------------------------
(***************************************************************************)
(* Two users of one programmer; neither differs from the other.            *)
(***************************************************************************)
EXTENDS Session, TLC

Users == Permutations(Procs)
=============================================================================
