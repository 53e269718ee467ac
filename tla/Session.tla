------------------------------ MODULE Session ------------------------------
(***************************************************************************)
(* The processes of flashprog (software/flashprog.cxx) around the          *)
(* transfers that Flashprog describes one by one: how the programmer is    *)
(* found, its interface claimed and released, which failure ends a command *)
(* with which exit status, the progress bar and the signal handler that    *)
(* resizes it.  Several users run the program on one programmer, any       *)
(* transfer can fail, and the programmer can be unplugged.                 *)
(*                                                                         *)
(* External: the kernel gives an interface to one process at a time, takes *)
(* a request on an unclaimed interface for a claim, and frees the claims   *)
(* of a process that ends.  libusb keeps its own note of what a process    *)
(* claimed, and refuses to release what is not in it.                      *)
(***************************************************************************)
EXTENDS ProgressBar

CONSTANTS Procs,       \* the processes
          NoProc,      \* not a process
          Commands,    \* the commands they may run
          Windows,     \* the widths of a terminal, or NoTerminal
          TimeDigits,  \* the characters the elapsed time may take
          MaxBlocks,   \* bound: the blocks, pages or structures one command moves
          MaxResizes   \* bound: how often a terminal is resized

ASSUME SessionAssumption ==
    /\ NoProc \notin Procs
    /\ Commands \subseteq {"list", "listDevices", "erase", "read", "write", "verifiedWrite", "sfdp"}
    /\ Windows \subseteq Nat \cup {NoTerminal}
    /\ TimeDigits \subseteq Nat /\ MaxBlocks \in Nat \ {0} /\ MaxResizes \in Nat

VARIABLES
    proc,      \* each process
    owner,     \* who the kernel gave the interface to
    plugged,   \* the programmer is on the bus
    firmware,  \* its target, and whether it holds the target board in reset
    resizes    \* how often a terminal was resized

vars == <<proc, owner, plugged, firmware, resizes>>

Transfers == {"count", "listing", "info", "abort", "target", "eraseReq", "poll",
              "moveReq", "bulk", "verify", "sfdpReq", "sfdpBulk", "deselect"}

\* Where a process gives the interface back: at the end, after a failure, after
\* one in a listing, after one that readChipInfo throws on.
Releases == {"finish", "failed", "failed1", "relist", "thrown"}

Writes == {"write", "verifiedWrite"}

Process ==
    [pc: {"start", "claim", "open", "closeErase", "close", "exited"} \cup Transfers \cup Releases,
     command: Commands \cup {"none"}, bus: {"internal", "external"},
     exit: {"none", "0", "1", "2", "died", "killed"},
     held: BOOLEAN,      \* libusb's note of the claim
     releases: 0..4,     \* history: how often it released the interface
     fault: BOOLEAN,     \* history: a transfer or the file failed
     good: BOOLEAN,      \* eraseComplete is 1
     kind: {"normal", "tiny", "funky"},   \* the size of the chip
     blocks: 0..3 + MaxBlocks, left: 0..3 + MaxBlocks,
     bar: Bar,
     draw: {"none", "publish", "bar", "time"},   \* what is left of the running constructor or display
     length: 0..MaxString, window: Windows \cup {NoTerminal},
     missed: BOOLEAN,    \* history: resized before the bar was published
     raced: BOOLEAN,     \* history: resized inside display
     overrun: BOOLEAN]   \* history: the time was written past the bar

TypeOK ==
    /\ proc \in [Procs -> Process]
    /\ owner \in Procs \cup {NoProc}
    /\ plugged \in BOOLEAN
    /\ firmware \in [target: {"none", "internal", "external"}, reset: BOOLEAN]
    /\ resizes \in 0..MaxResizes

New(window) ==
    [pc |-> "start", command |-> "none", bus |-> "internal", exit |-> "none", held |-> FALSE,
     releases |-> 0, fault |-> FALSE, good |-> FALSE, kind |-> "normal", blocks |-> 0, left |-> 0,
     bar |-> NoBar, draw |-> "none", length |-> 0, window |-> window,
     missed |-> FALSE, raced |-> FALSE, overrun |-> FALSE]

Init ==
    /\ proc \in [Procs -> {New(window) : window \in Windows}]
    /\ owner = NoProc /\ plugged = TRUE
    /\ firmware = [target |-> "none", reset |-> TRUE]    \* spiInit holds the board
    /\ resizes = 0

(* Steps of a process ****************************************************)
At(p, pcs) == proc[p].pc \in pcs /\ proc[p].draw = "none"
Become(p, s) == proc' = [proc EXCEPT ![p] = s]
Goto(s, next) == [s EXCEPT !.pc = next]
Failing(s, next) == [s EXCEPT !.pc = next, !.fault = TRUE]

\* What the properties ask of a process that ended; a bar is only left of one
\* that died.
Ended(s, code) ==
    [New(NoTerminal) EXCEPT
        !.pc = "exited", !.exit = code, !.command = s.command, !.held = s.held,
        !.releases = s.releases, !.fault = s.fault, !.good = s.good, !.left = s.left,
        !.bar = IF code = "died" THEN s.bar ELSE NoBar,
        !.raced = s.raced, !.overrun = s.overrun]

End(p, s, code) ==
    /\ Become(p, Ended(s, code))
    /\ owner' = IF owner = p THEN NoProc ELSE owner
    /\ UNCHANGED <<plugged, firmware, resizes>>

Local(p, s) == Become(p, s) /\ UNCHANGED <<owner, plugged, firmware, resizes>>

\* Mutant: requests go to the device instead of its interface, so that no claim
\* is looked at.
ServedToAnyone(p, fw) == plugged /\ firmware' = fw /\ UNCHANGED owner

\* A request reaches the firmware when no one else has the interface; one that
\* fails may have been served all the same.
Served(p, fw) == plugged /\ owner \in {NoProc, p} /\ owner' = p /\ firmware' = fw
Request(p, fw, nexts, broken) ==
    /\ \/ Served(p, fw) /\ \E s \in nexts : Become(p, s)
       \/ Served(p, fw) /\ Become(p, broken)
       \/ UNCHANGED <<owner, firmware>> /\ Become(p, broken)
    /\ UNCHANGED <<plugged, resizes>>

\* A new progress bar, and a bar that is displayed again.
Constructed(s, timed, empty) ==
    [s EXCEPT !.bar = NewBar(s.window, timed, empty), !.draw = "publish", !.missed = FALSE]
Displayed(s) == [s EXCEPT !.draw = "bar"]

(* main ******************************************************************)
\* libusb does not start, or there is not one programmer; "list" is served by
\* no branch of main.  A command that names no chip is given the internal bus.
Begin(p, command, bus) ==
    LET s == [proc[p] EXCEPT !.command = command, !.bus = bus]
    IN /\ At(p, {"start"})
       /\ command \in {"list", "listDevices"} => bus = "internal"
       /\ \/ End(p, s, "2")
          \/ End(p, s, "0")
          \/ plugged /\ command # "list" /\ Local(p, Goto(s, "claim"))

FirstStep(command) ==
    CASE command = "listDevices" -> "count"
      [] command \in {"erase", "sfdp"} -> "abort"
      [] OTHER -> "open"

Claim(p) ==
    LET s == proc[p]
    IN /\ At(p, {"claim"})
       /\ \/ End(p, s, "1")
          \/ /\ plugged /\ owner = NoProc /\ owner' = p
             /\ Become(p, [s EXCEPT !.pc = FirstStep(s.command), !.held = TRUE])
             /\ UNCHANGED <<plugged, firmware, resizes>>

\* Mutant: the path on which the file cannot be opened forgets the release.
OpenFileKeepsClaim(p) ==
    /\ At(p, {"open"})
    /\ \/ Local(p, Goto(proc[p], "info"))
       \/ End(p, proc[p], "1")

OpenFile(p) ==
    /\ At(p, {"open"})
    /\ \/ Local(p, Goto(proc[p], "info"))
       \/ Local(p, Failing(proc[p], "failed"))

(* Giving the interface back *********************************************)
AfterListing(s) == Goto(s, IF s.left = 0 THEN "finish" ELSE "listing")

Release(p) ==
    LET s == [proc[p] EXCEPT !.releases = @ + 1]
        free == [s EXCEPT !.held = FALSE]
    IN /\ At(p, Releases)
       /\ IF s.held /\ plugged
          THEN CASE s.pc = "finish" ->
                        End(p, free, IF s.command # "erase" \/ s.good THEN "0" ELSE "1")
                 [] s.pc = "relist" ->
                        /\ Become(p, AfterListing(free))
                        /\ owner' = NoProc /\ UNCHANGED <<plugged, firmware, resizes>>
                 [] s.pc = "thrown" -> End(p, free, "died")
                 [] OTHER -> End(p, free, "1")
          ELSE CASE s.pc \in {"finish", "failed1"} -> End(p, s, "1")
                 [] s.pc = "failed" -> End(p, s, "2")
                 [] OTHER -> End(p, s, "died")

(* listDevices ***********************************************************)
Identify(fw) == [fw EXCEPT !.reset = FALSE]

RequestCount(p) ==
    LET s == proc[p]
    IN /\ At(p, {"count"})
       /\ Request(p, Identify(firmware),
                  {[s EXCEPT !.pc = "listing", !.blocks = n, !.left = n] : n \in {2, 3}},
                  Failing(s, "failed1"))

\* Mutant: a failed listing does not release the interface.
ListDeviceUnreleased(p) ==
    LET s == [proc[p] EXCEPT !.left = @ - 1]
        external == s.blocks = 3 /\ s.left = 0
    IN /\ At(p, {"listing"})
       /\ Request(p, IF external THEN Identify(firmware) ELSE firmware,
                  {AfterListing(s)}, [AfterListing(s) EXCEPT !.fault = TRUE])

\* The third listing is the external chip's.  A failed one is not the end.
ListDevice(p) ==
    LET s == [proc[p] EXCEPT !.left = @ - 1]
        external == s.blocks = 3 /\ s.left = 0
    IN /\ At(p, {"listing"})
       /\ Request(p, IF external THEN Identify(firmware) ELSE firmware,
                  {AfterListing(s)}, Failing(s, "relist"))

(* What every operation on a chip begins and ends with *******************)
\* A chip of some kind, of which the command is to move n blocks or pages.
Sized(s, kind, n) == [s EXCEPT !.pc = "abort", !.kind = kind, !.blocks = n]

\* A read moves the whole chip, a write its file, if that is not too long.
Sizes(s) ==
    IF s.command = "read"
    THEN {Sized(s, "funky", 0), Sized(s, "tiny", 0)}
             \cup {Sized(s, kind, n) : kind \in {"normal", "tiny"}, n \in 1..MaxBlocks}
    ELSE {Sized(s, kind, n) : kind \in {"normal", "tiny", "funky"}, n \in 0..MaxBlocks}
             \cup {Goto(s, "failed")}

ReadChipInfo(p) ==
    LET s == proc[p]
    IN /\ At(p, {"info"})
       /\ Request(p, IF s.bus = "external" THEN Identify(firmware) ELSE firmware,
                  Sizes(s), Failing(s, "thrown"))

\* Mutant: a failed abort throws as readChipInfo does.
AbortThrows(p) ==
    /\ At(p, {"abort"})
    /\ Request(p, [firmware EXCEPT !.target = "none"],
               {Goto(proc[p], "target")}, Failing(proc[p], "thrown"))

Abort(p) ==
    /\ At(p, {"abort"})
    /\ Request(p, [firmware EXCEPT !.target = "none"],
               {Goto(proc[p], "target")}, Failing(proc[p], "failed"))

\* readNormalDevice, writeNormalDevice and their tiny forms, up to the loop.
StartMoving(s) ==
    IF s.kind = "funky"
    THEN Goto(s, IF s.command = "read" THEN "failed1" ELSE "failed")
    ELSE Constructed([s EXCEPT !.left = s.blocks, !.good = FALSE,
                               !.pc = IF s.blocks = 0 THEN "close" ELSE "moveReq"],
                     FALSE, s.blocks = 0)

TargetDevice(p) ==
    LET s == proc[p]
        fw == [target |-> s.bus, reset |-> firmware.reset \/ s.bus = "external"]
        nexts == CASE s.command = "erase" -> {Constructed(Goto(s, "eraseReq"), TRUE, FALSE)}
                   [] s.command \in Writes -> {Constructed(Goto(s, "eraseReq"), FALSE, s.blocks = 0)}
                   [] s.command = "read" -> {StartMoving(s)}
                   [] OTHER -> {[s EXCEPT !.pc = "sfdpReq", !.left = n] : n \in 1..MaxBlocks + 1}
    IN At(p, {"target"}) /\ Request(p, fw, nexts, Failing(s, "failed"))

Deselect(p) ==
    LET fw == [target |-> "none", reset |-> firmware.reset /\ firmware.target # "external"]
    IN /\ At(p, {"deselect"})
       /\ Request(p, fw, {Goto(proc[p], "finish")}, Failing(proc[p], "failed"))

(* erase, and the erase every write begins with **************************)
RequestErase(p) ==
    LET s == Goto(proc[p], "poll")
    IN /\ At(p, {"eraseReq"})
       /\ Request(p, firmware, {IF s.command = "erase" THEN Displayed(s) ELSE s},
                  Failing(proc[p], "failed"))

PollErase(p) ==
    LET s == Displayed(proc[p])
    IN /\ At(p, {"poll"})
       /\ Request(p, firmware,
                  {s} \cup {[s EXCEPT !.pc = "closeErase", !.good = good] : good \in BOOLEAN},
                  Failing(proc[p], "failed"))

(* read, write and sfdp **************************************************)
\* Mutant: the loop makes one round too many.
NextBlockAgain(s) ==
    Displayed([s EXCEPT !.left = @ - 1, !.pc = IF s.left = 0 THEN "close" ELSE "moveReq"])

NextBlock(s) ==
    Displayed([s EXCEPT !.left = @ - 1, !.pc = IF s.left = 1 THEN "close" ELSE "moveReq"])

RequestMove(p) ==
    /\ At(p, {"moveReq"})
    /\ Request(p, firmware, {Goto(proc[p], "bulk")}, Failing(proc[p], "failed"))

Bulk(p) ==
    LET s == proc[p]
        verified == s.command = "verifiedWrite" /\ s.kind = "normal"
    IN /\ At(p, {"bulk"})
       /\ Request(p, firmware, {IF verified THEN Goto(s, "verify") ELSE NextBlock(s)},
                  Failing(s, "failed"))

VerifyPages(p) ==
    LET s == proc[p]
    IN /\ At(p, {"verify"})
       /\ Request(p, firmware, {NextBlock(s), Failing(s, "failed")}, Failing(s, "failed"))

\* The header, and what it names; one that is no SFDP header ends the dump.
RequestSfdp(p) ==
    /\ At(p, {"sfdpReq"})
    /\ Request(p, firmware, {Goto(proc[p], "sfdpBulk")}, Failing(proc[p], "failed"))

SfdpBulk(p) ==
    LET s == [proc[p] EXCEPT !.left = @ - 1]
    IN /\ At(p, {"sfdpBulk"})
       /\ Request(p, firmware, {Goto(s, IF s.left = 0 THEN "deselect" ELSE "sfdpReq")},
                  Failing(proc[p], "failed"))

(* The progress bar ******************************************************)
Publish(p) ==
    /\ proc[p].draw = "publish"
    /\ Local(p, Displayed(proc[p]))

\* A total of 0 makes the fraction 0 / 0, and its conversion to an integer is
\* whatever the processor makes of it.
DrawBar(p) ==
    LET s == proc[p]
    IN /\ s.draw = "bar"
       /\ \/ (Undrawable(s.bar) \/ s.bar.empty) /\ End(p, s, "died")
          \/ /\ ~Undrawable(s.bar)
             /\ Local(p, [s EXCEPT !.length = IF s.bar.timed THEN Length(s.bar) ELSE 0,
                                   !.raced = FALSE, !.overrun = FALSE,
                                   !.draw = IF s.bar.timed THEN "time" ELSE "none"])

\* Written past the end, the time lands on something else, or on nothing.
PlaceTime(p) ==
    /\ proc[p].draw = "time"
    /\ \E digits \in TimeDigits :
          LET overrun == TimeOverruns(proc[p].bar, proc[p].length, digits)
              s == [proc[p] EXCEPT !.draw = "none", !.length = 0,
                                   !.overrun = overrun, !.raced = @ /\ overrun]
          IN Local(p, s) \/ (s.overrun /\ End(p, s, "died"))

\* Mutant: a command that is done does not deselect its chip.
CloseBarTargeted(p) ==
    LET s == [proc[p] EXCEPT !.bar = NoBar, !.missed = FALSE, !.raced = FALSE, !.overrun = FALSE]
    IN /\ At(p, {"closeErase", "close"})
       /\ Local(p, IF s.pc = "closeErase" /\ s.command \in Writes
                   THEN StartMoving(s) ELSE Goto(s, "finish"))

CloseBar(p) ==
    LET s == [proc[p] EXCEPT !.bar = NoBar, !.missed = FALSE, !.raced = FALSE, !.overrun = FALSE]
    IN /\ At(p, {"closeErase", "close"})
       /\ Local(p, IF s.pc = "closeErase" /\ s.command \in Writes
                   THEN StartMoving(s) ELSE Goto(s, "deselect"))

\* Mutant: the handler leaves the bar as it is.
ResizedIgnored(s, width) == [s EXCEPT !.window = width]

\* sigwinchHandler: only the published bar learns of it.
Resized(s, width) ==
    [s EXCEPT !.window = width,
              !.bar.cols = IF s.bar.on /\ s.draw # "publish" THEN Columns(width, @) ELSE @,
              !.missed = @ \/ s.draw = "publish",
              !.raced = @ \/ s.draw = "time"]

Resize(p) ==
    /\ proc[p].pc # "exited" /\ proc[p].window # NoTerminal /\ resizes < MaxResizes
    /\ \E width \in Windows \ {NoTerminal, proc[p].window} : Become(p, Resized(proc[p], width))
    /\ resizes' = resizes + 1
    /\ UNCHANGED <<owner, plugged, firmware>>

(* The rest of the world *************************************************)
Kill(p) == proc[p].pc # "exited" /\ End(p, New(NoTerminal), "killed")

Unplug == plugged /\ plugged' = FALSE /\ UNCHANGED <<proc, owner, firmware, resizes>>

Step(p) ==
    \/ \E command \in Commands, bus \in {"internal", "external"} : Begin(p, command, bus)
    \/ Claim(p) \/ OpenFile(p) \/ Release(p)
    \/ RequestCount(p) \/ ListDevice(p)
    \/ ReadChipInfo(p) \/ Abort(p) \/ TargetDevice(p) \/ Deselect(p)
    \/ RequestErase(p) \/ PollErase(p)
    \/ RequestMove(p) \/ Bulk(p) \/ VerifyPages(p)
    \/ RequestSfdp(p) \/ SfdpBulk(p)
    \/ Publish(p) \/ DrawBar(p) \/ PlaceTime(p) \/ CloseBar(p)
    \/ Resize(p) \/ Kill(p)

Next == (\E p \in Procs : Step(p)) \/ Unplug

Spec == Init /\ [][Next]_vars

(***************************************************************************)
(* Properties                                                              *)
(***************************************************************************)
Returned(s) == s.exit \in {"0", "1", "2"}

\* Whatever a command meets on its way, it gives the interface back before it
\* returns: only the claim on a programmer that is gone is left.  Only the
\* listing releases more than once (releaseInterface in readChipInfo and again
\* in listDevices); every other path has exactly one release.
ClaimReturned ==
    \A p \in Procs : LET s == proc[p] IN
        /\ Returned(s) /\ s.held => ~plugged /\ s.releases > 0
        /\ s.releases > 1 => s.command = "listDevices"

Working == {"eraseReq", "poll", "closeErase", "moveReq", "bulk", "verify", "close",
            "sfdpReq", "sfdpBulk", "deselect"}

\* While a command works on its chip nobody else's request reaches the firmware:
\* the chip stays targeted and the external board in reset (the claim of
\* interface 0, to which every request is addressed).
Isolation ==
    \A p \in Procs : proc[p].pc \in Working =>
        /\ owner = p /\ proc[p].held
        /\ firmware.target = proc[p].bus
        /\ proc[p].bus = "external" => firmware.reset

\* A command that got the programmer exits with 0 only when nothing failed on the
\* way and nothing was left to do.  A listing that goes on after a failed chip
\* reports it all the same: the second release fails.
ExitTruth ==
    \A p \in Procs : LET s == proc[p] IN
        s.exit = "0" /\ s.releases > 0 =>
            ~s.fault /\ s.left = 0 /\ (s.command = "erase" => s.good)

\* A command that exits with 0 leaves no chip targeted.  If it worked on the
\* external chip, or listed all three, it leaves the target board running too; one
\* on an internal chip does not, after power up (spiInit) or a killed command.
BoardReleased ==
    [][\A p \in Procs :
          LET s == proc'[p] IN
          proc[p].pc # "exited" /\ s.exit = "0" /\ s.releases > 0 =>
              /\ s.command # "listDevices" => firmware'.target = "none"
              /\ proc[p].bus = "external" \/ (proc[p].blocks = 3 /\ s.command = "listDevices")
                    => ~firmware'.reset]_vars

\* The process only dies of a failed listing, before it has targeted a chip
\* (readChipInfo's std::nested_exception and rethrow, out of a noexcept main), or
\* of a progress bar it cannot draw.
DeathKnown ==
    \A p \in Procs : LET s == proc[p] IN
        s.exit = "died" =>
            IF s.bar.on THEN s.overrun \/ s.bar.empty \/ Undrawable(s.bar)
            ELSE s.fault /\ s.command \notin {"erase", "sfdp"}

\* The bar is as wide as the terminal, whenever that was resized, unless it was
\* between the constructor's read of the width and the publication of the bar.
WidthFresh ==
    \A p \in Procs : LET s == proc[p] IN
        s.exit = "none" /\ s.bar.on /\ s.window # NoTerminal /\ ~s.missed => s.bar.cols = Columns(s.window, 0)

\* The elapsed time is written outside the bar's string only when the terminal
\* was resized between display's two reads of the width, or has no room for it.
TimeFits ==
    [][\A p \in Procs :
          LET s == proc'[p] IN
          ~proc[p].overrun /\ s.overrun =>
              s.raced \/ \E digits \in TimeDigits : s.bar.cols - Decoration(s.bar) < digits]_vars
=============================================================================
