----------------------------- MODULE FlashJob -----------------------------
(***************************************************************************)
(* What flashprog promises its user, with no USB, no SPI bus and no chip   *)
(* busy: a command runs against an array of cells, changes only the cells  *)
(* it is there to change and in the only direction it may, and says "ok"   *)
(* only when it is done.  The promise holds for trusted jobs, those that   *)
(* found nothing running when they started; between jobs what a killed one *)
(* left running may still go on.  Flashprog implements this.               *)
(***************************************************************************)
EXTENDS Integers, Sequences

CONSTANTS Cells,      \* the addresses of the chip, from 0
          Content,    \* what a cell may hold
          Blank,      \* an erased cell, one of Content
          Source,     \* the file, in [Cells -> Content]
          Span        \* cells erased together, at least one

VARIABLES store,      \* the cells
          op,         \* the running job
          length,     \* the cells a write is to fill
          phase,      \* "idle", "starting", "working" or "ended"
          delivered,  \* what a read has returned, in order
          verdict,    \* what the ended job said
          trusted     \* nothing was left running when it started

jobState == <<op, length, phase, delivered, verdict, trusted>>
allState == <<store, jobState>>

JobOps == {"erase", "read", "write", "other"}

JobTypeOK ==
    /\ store \in [Cells -> Content]
    /\ op \in JobOps \cup {"none"} /\ length \in Nat
    /\ phase \in {"idle", "starting", "working", "ended"}
    /\ delivered \in Seq(Content)
    /\ verdict \in {"none", "ok", "fail"} /\ trusted \in BOOLEAN

JobInit ==
    /\ store \in [Cells -> Content]
    /\ op = "none" /\ length = 0 /\ phase = "idle"
    /\ delivered = <<>> /\ verdict = "none" /\ trusted = FALSE

\* The cells a job may clear: all, or the spans its file touches.
MayClear(a) ==
    \/ op = "erase"
    \/ op = "write" /\ a < ((length + Span - 1) \div Span) * Span

Finished ==
    CASE op = "erase" -> \A a \in Cells : store[a] = Blank
      [] op = "write" -> \A a \in Cells : a < length => store[a] = Source[a]
      [] op = "read"  -> /\ DOMAIN delivered = {a + 1 : a \in Cells}
                         /\ \A a \in Cells : delivered[a + 1] = store[a]
      [] OTHER        -> TRUE

(* Jobs ******************************************************************)
Begin ==
    /\ phase = "idle" /\ phase' = "starting"
    /\ op' \in JobOps /\ length' \in Nat /\ trusted' \in BOOLEAN
    /\ UNCHANGED <<store, delivered, verdict>>

\* What an earlier job left running may go on until this one has its chip, or
\* for ever if it never gets there; there is no promise to an untrusted job.
Unsettled == phase \in {"idle", "starting"} \/ verdict = "fail" \/ ~trusted

Leftover ==
    /\ Unsettled
    /\ store' \in [Cells -> Content]
    /\ UNCHANGED jobState

Select ==
    /\ phase = "starting" /\ phase' = "working"
    /\ store' \in [Cells -> Content]
    /\ UNCHANGED <<op, length, delivered, verdict, trusted>>

Clear ==
    /\ phase = "working"
    /\ store' \in [Cells -> Content]
    /\ \A a \in Cells : store'[a] # store[a] => MayClear(a) /\ store'[a] = Blank
    /\ UNCHANGED jobState

\* Only erased cells are filled.
Fill ==
    /\ phase = "working" /\ op = "write"
    /\ store' \in [Cells -> Content]
    /\ \A a \in Cells : store'[a] # store[a] =>
          a < length /\ store[a] = Blank /\ store'[a] = Source[a]
    /\ UNCHANGED jobState

\* The next bytes of a read are the next cells.
Deliver ==
    /\ phase = "working"
    /\ delivered' \in Seq(Content)
    /\ Len(delivered') >= Len(delivered)
    /\ trusted /\ op = "read" =>
          \A i \in 1..Len(delivered') : i - 1 \in Cells /\ delivered'[i] = store[i - 1]
    /\ UNCHANGED <<store, op, length, phase, verdict, trusted>>

Report ==
    /\ phase \in {"starting", "working"} /\ phase' = "ended"
    /\ verdict' \in {"ok", "fail"}
    /\ store' \in [Cells -> Content] /\ (Unsettled \/ store' = store)
    /\ verdict' = "ok" /\ trusted => Finished'
    /\ UNCHANGED <<op, length, delivered, trusted>>

\* A job ends, or is killed.
Stop ==
    /\ phase # "idle" /\ phase' = "idle"
    /\ op' = "none" /\ length' = 0 /\ delivered' = <<>> /\ verdict' = "none" /\ trusted' = FALSE
    /\ UNCHANGED store

JobNext == Begin \/ Leftover \/ Select \/ Clear \/ Fill \/ Deliver \/ Report \/ Stop

JobSpec == JobInit /\ [][JobNext]_allState
=============================================================================
