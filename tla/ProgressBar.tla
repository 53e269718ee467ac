---------------------------- MODULE ProgressBar ----------------------------
(***************************************************************************)
(* The arithmetic of the progress bar (software/progress.cxx).  A width is *)
(* a size_t: it wraps at SizeModulus, and the width of a bar is the number *)
(* of columns less 7 and less what stands around the bar.                  *)
(***************************************************************************)
EXTENDS Integers

CONSTANTS SizeModulus,  \* the values of a size_t
          MaxString,    \* the longest string there is memory for
          NoTerminal    \* a standard output with no size, and no COLUMNS

ASSUME BarAssumption ==
    /\ SizeModulus \in Nat /\ MaxString \in 1..SizeModulus - 1
    /\ NoTerminal \notin Nat

\* A bar on the screen: the last width it read, whether it shows the time
\* instead of a total, and whether its total is 0.
Bar == [on: BOOLEAN, cols: 0..SizeModulus - 1, timed: BOOLEAN, empty: BOOLEAN]
NoBar == [on |-> FALSE, cols |-> 0, timed |-> FALSE, empty |-> FALSE]

\* updateWindowSize: without a terminal and without COLUMNS the width stays.
Columns(window, cols) == IF window = NoTerminal THEN cols ELSE (window - 7) % SizeModulus

NewBar(window, timed, empty) ==
    [on |-> TRUE, cols |-> Columns(window, 0), timed |-> timed, empty |-> empty]

\* "Erasing chip" or a prefix a space longer, ": ", "--- " and its NUL, "% |", "|"
\* and the spinner.
Decoration(bar) == (IF bar.timed THEN 12 ELSE 13) + 2 + 4 + 3 + 1 + 1

Length(bar) ==
    LET length == (bar.cols - Decoration(bar)) % SizeModulus
    IN IF length = 0 THEN 1 ELSE length

\* The conversion to a string is noexcept: running out of memory in it ends the
\* process.
Undrawable(bar) == Length(bar) > MaxString

\* Mutant: the time starts where the bar ends.
TimeOffsetAtEnd(bar, digits) == (bar.cols - Decoration(bar)) % SizeModulus

\* Where the minutes and seconds go, from a second read of the width.
TimeOffset(bar, digits) == ((bar.cols - Decoration(bar) - digits) % SizeModulus) \div 2

\* They run over the end of the string that was built before.
TimeOverruns(bar, length, digits) ==
    digits < Decoration(bar) /\ TimeOffset(bar, digits) + digits > length
=============================================================================
