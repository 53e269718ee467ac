---------------------------- MODULE SessionProofs ----------------------------
(***************************************************************************)
(* That the processes of Session keep out of each other's way and tell the *)
(* truth, for any number of them, any windows and any number of blocks.    *)
(* ProcessInv speaks of one process alone and Place of its place in the    *)
(* system; a step of one process keeps the Place of every other because    *)
(* the kernel serves only the owner of the interface.                      *)
(***************************************************************************)
EXTENDS Session, TLAPS

(***************************************************************************)
(* The inductive invariant                                                 *)
(***************************************************************************)
Before == {"start", "claim"}
Preparing == {"open", "info", "abort", "target"}
Listing == {"count", "listing", "relist"}

\* The claim and how often it was released.
ClaimInv(s) ==
    /\ s.pc \in Before => ~s.held /\ s.releases = 0
    /\ s.pc \in {"count"} \cup Preparing \cup Working => s.held
    /\ s.pc # "exited" => s.releases <= 1 /\ (s.held => s.releases = 0)
    /\ s.pc # "exited" /\ s.command # "listDevices" => s.releases = 0
    /\ s.command # "listDevices" => s.releases <= 1
    /\ Returned(s) /\ s.held => s.releases > 0

\* Which commands get where.
CommandInv(s) ==
    /\ s.pc \in Listing => s.command = "listDevices"
    /\ s.pc \in {"open", "info", "thrown"} => s.command \in {"read"} \cup Writes
    /\ s.pc \in {"abort", "target"} \cup Working =>
          s.command \in {"erase", "read", "sfdp"} \cup Writes
    /\ s.pc = "claim" => s.command \in {"listDevices", "erase", "read", "sfdp"} \cup Writes
    /\ s.command = "listDevices" => s.bus = "internal"

\* What is left to do, and what went wrong.
WorkInv(s) ==
    /\ s.pc \in Before \cup Preparing \cup {"eraseReq", "poll", "closeErase", "close", "deselect", "finish"}
          => s.left = 0
    /\ s.pc \in {"listing", "moveReq", "bulk", "verify", "sfdpReq", "sfdpBulk"} => s.left > 0
    /\ s.pc \in Before \cup {"count"} \cup Preparing \cup Working => ~s.fault
    /\ s.pc \in {"listing", "finish"} /\ s.held => ~s.fault
    /\ s.pc \in {"relist", "thrown"} => s.fault
    /\ s.exit = "0" /\ s.releases > 0 => ~s.fault /\ s.left = 0 /\ (s.command = "erase" => s.good)

\* The bar is there while the chip is worked on, and what draws it reads it.
BarInv(s) ==
    /\ s.draw # "none" => s.bar.on /\ s.pc # "exited"
    /\ s.pc \in Before \cup Preparing \cup Listing \cup {"thrown"} => ~s.bar.on
    /\ s.pc \in {"eraseReq", "poll", "moveReq", "bulk", "verify"} => s.bar.on
    /\ s.exit = "none" /\ s.bar.on /\ s.window # NoTerminal /\ ~s.missed => s.bar.cols = Columns(s.window, 0)
    /\ s.draw = "time" => ~s.overrun /\ (s.raced \/ s.length = Length(s.bar))
    /\ s.exit = "died" =>
          IF s.bar.on THEN s.overrun \/ s.bar.empty \/ Undrawable(s.bar)
          ELSE s.fault /\ s.command \notin {"erase", "sfdp"}

ProcessInv(s) ==
    /\ s \in Process
    /\ s.pc = "exited" <=> s.exit # "none"
    /\ ClaimInv(s) /\ CommandInv(s) /\ WorkInv(s) /\ BarInv(s)

\* The place of a process with the record s in the system.
Place(p, s, own, fw, there) ==
    /\ s.pc = "exited" => own # p
    /\ s.pc # "exited" /\ s.held => own = p
    /\ s.pc \in Working => fw.target = s.bus /\ (s.bus = "external" => fw.reset)
    /\ s.pc \in {"listing", "finish"} /\ s.held /\ s.blocks = 3 /\ s.left = 0
          /\ s.command = "listDevices" => ~fw.reset
    /\ s.pc = "finish" /\ s.held /\ s.command # "listDevices" =>
          fw.target = "none" /\ (s.bus = "external" => ~fw.reset)
    /\ Returned(s) /\ s.held => ~there

SessionInv ==
    /\ owner \in Procs \cup {NoProc}
    /\ plugged \in BOOLEAN
    /\ firmware \in [target: {"none", "internal", "external"}, reset: BOOLEAN]
    /\ resizes \in 0..MaxResizes
    /\ proc = [p \in Procs |-> proc[p]]
    /\ \A p \in Procs : ProcessInv(proc[p]) /\ Place(p, proc[p], owner, firmware, plugged)

(***************************************************************************)
(* One step of one process                                                 *)
(***************************************************************************)
\* What a process does to the owner, the firmware and the plug does not move
\* another process out of its place.
LEMMA Elsewhere ==
    ASSUME NEW p \in Procs, NEW q \in Procs \ {p},
           NEW own \in Procs \cup {NoProc}, NEW own2 \in Procs \cup {NoProc}, NEW fw, NEW fw2,
           NEW there \in BOOLEAN, NEW there2 \in BOOLEAN, there2 => there,
           own2 = own \/ (own \in {NoProc, p} /\ own2 \in {NoProc, p}),
           fw2 = fw \/ own \in {NoProc, p},
           NEW s, ProcessInv(s), Place(q, s, own, fw, there)
    PROVE  Place(q, s, own2, fw2, there2)
  BY SessionAssumption DEF Place, ProcessInv, ClaimInv, Working

Firmware == [target: {"none", "internal", "external"}, reset: BOOLEAN]

\* A step of p is right when it is right for p.
LEMMA Stepping ==
    ASSUME SessionInv, NEW p \in Procs, NEW t, Become(p, t), ProcessInv(t),
           owner' = owner \/ (owner \in {NoProc, p} /\ owner' \in {NoProc, p}),
           firmware' = firmware \/ (owner \in {NoProc, p} /\ firmware' \in Firmware),
           UNCHANGED plugged, resizes' \in 0..MaxResizes,
           Place(p, t, owner', firmware', plugged)
    PROVE  SessionInv'
  <1>1. proc' = [q \in Procs |-> IF q = p THEN t ELSE proc[q]]
    BY DEF Become, SessionInv
  <1>2. owner' \in Procs \cup {NoProc} /\ firmware' \in Firmware
    BY DEF SessionInv, Firmware
  <1>3. ASSUME NEW q \in Procs
        PROVE  ProcessInv(proc'[q]) /\ Place(q, proc'[q], owner', firmware', plugged')
    <2>1. CASE q = p
      BY <2>1, <1>1
    <2>2. CASE q # p
      BY <2>2, <1>1, <1>2, Elsewhere DEF SessionInv
    <2>3. QED
      BY <2>1, <2>2
  <1>4. QED
    BY <1>1, <1>2, <1>3 DEF SessionInv, Firmware

\* A step that moves nothing but the process.
LEMMA LocalStep ==
    ASSUME SessionInv, NEW p \in Procs, NEW t, Local(p, t), ProcessInv(t),
           Place(p, t, owner, firmware, plugged)
    PROVE  SessionInv'
  BY Stepping DEF Local, SessionInv

\* The end of a process.
LEMMA EndStep ==
    ASSUME SessionInv, NEW p \in Procs, NEW s, NEW code, End(p, s, code), ProcessInv(Ended(s, code)),
           code \notin {"died", "killed"} /\ s.held => ~plugged
    PROVE  SessionInv'
  <1>1. owner' # p /\ (owner' = owner \/ (owner = p /\ owner' = NoProc))
    BY SessionAssumption DEF End
  <1>2. Place(p, Ended(s, code), owner', firmware', plugged)
    BY <1>1 DEF Place, Ended, New, Working, Returned
  <1>3. QED
    BY <1>1, <1>2, Stepping DEF End, SessionInv

\* A request that is served, fails after it was served, or is never sent.
LEMMA RequestStep ==
    ASSUME SessionInv, NEW p \in Procs, NEW fw \in Firmware, NEW nexts, NEW broken,
           Request(p, fw, nexts, broken),
           proc[p].pc # "exited",
           ProcessInv(broken), broken.held => proc[p].held,
           broken.pc \in Releases \ {"finish"},
           \A t \in nexts : ProcessInv(t) /\ Place(p, t, p, fw, TRUE)
    PROVE  SessionInv'
  <1>2. ProcessInv(broken) /\ \A own, f, there : (broken.held => own = p) => Place(p, broken, own, f, there)
    BY DEF Place, Working, Releases, Returned, ProcessInv
  <1>3. CASE Served(p, fw) /\ \E t \in nexts : Become(p, t)
    <2>1. PICK t \in nexts : Become(p, t)
      BY <1>3
    <2>2. ProcessInv(t) /\ Place(p, t, owner', firmware', plugged)
      BY <1>3 DEF Served, Place
    <2>3. QED
      BY <1>3, <2>1, <2>2, Stepping DEF Request, Served, SessionInv
  <1>4. CASE Served(p, fw) /\ Become(p, broken)
    <2>1. Place(p, broken, owner', firmware', plugged)
      BY <1>2, <1>4 DEF Served
    <2>2. QED
      BY <1>2, <1>4, <2>1, Stepping DEF Request, Served, SessionInv
  <1>5. CASE UNCHANGED <<owner, firmware>> /\ Become(p, broken)
    <2>1. Place(p, broken, owner, firmware, plugged)
      BY <1>2 DEF SessionInv, Place
    <2>2. QED
      BY <1>2, <1>5, <2>1, Stepping DEF Request, SessionInv
  <1>6. QED
    BY <1>3, <1>4, <1>5 DEF Request

(***************************************************************************)
(* What happens to the record of a process                                 *)
(***************************************************************************)
\* A width is a size_t.
LEMMA ColumnsType ==
    ASSUME NEW window \in Nat \cup {NoTerminal}, NEW cols \in 0..SizeModulus - 1
    PROVE  Columns(window, cols) \in 0..SizeModulus - 1
  BY BarAssumption DEF Columns

\* A new bar reads the width of its window.
LEMMA NewBarType ==
    ASSUME NEW window \in Nat \cup {NoTerminal}, NEW timed \in BOOLEAN, NEW empty \in BOOLEAN
    PROVE  NewBar(window, timed, empty) \in Bar
  <1>1. 0 \in 0..SizeModulus - 1
    BY BarAssumption
  <1>2. QED
    BY <1>1, ColumnsType DEF NewBar, Bar

\* A bar that is gone.
LEMMA NoBarType == NoBar \in Bar
  <1>1. 0 \in 0..SizeModulus - 1
    BY BarAssumption
  <1>2. QED
    BY <1>1 DEF NoBar, Bar

\* A step that failed on the way to a chip, or on one, leads to a release.
LEMMA FailingInv ==
    ASSUME NEW s, ProcessInv(s), s.pc \in Preparing \cup Working, s.draw = "none"
    PROVE  ProcessInv(Failing(s, "failed"))
  <1> DEFINE t == Failing(s, "failed")
  <1>1. t \in Process
    BY DEF Failing, ProcessInv, Process, Releases
  <1>2. /\ t.pc = "failed" /\ t.fault /\ t.exit = "none" /\ s.exit = "none" 
        /\ t.held = s.held /\ t.releases = s.releases /\ t.command = s.command /\ t.bus = s.bus
        /\ t.bar = s.bar /\ t.draw = "none" /\ t.window = s.window /\ t.missed = s.missed
    BY DEF Failing, ProcessInv, Process, Preparing, Working
  <1> HIDE DEF t
  <1>3. ClaimInv(t) /\ CommandInv(t) /\ WorkInv(t) /\ BarInv(t)
    BY <1>2 DEF ProcessInv, ClaimInv, CommandInv, WorkInv, BarInv, Before, Preparing, Listing, Working, Writes, Returned, Transfers, Releases, Process
  <1>4. QED
    BY <1>1, <1>2, <1>3 DEF ProcessInv, t

\* A command that works on its chip gets a bar, and draws it.
LEMMA ConstructedInv ==
    ASSUME NEW s \in Process, s.exit = "none", s.pc \in Working, NEW timed \in BOOLEAN, NEW empty \in BOOLEAN,
           ClaimInv(s), CommandInv(s), WorkInv(s)
    PROVE  ProcessInv(Constructed(s, timed, empty))
  <1> DEFINE t == Constructed(s, timed, empty)
  <1>1. s.window \in Nat \cup {NoTerminal}
    BY SessionAssumption DEF Process
  <1>2. t \in Process
    BY <1>1, NewBarType DEF Constructed, Process
  <1>3. t.bar.on /\ t.bar.cols = Columns(t.window, 0) /\ t.draw = "publish"
    BY DEF Constructed, NewBar, Process
  <1>4. /\ t.pc = s.pc /\ t.exit = s.exit /\ t.held = s.held /\ t.releases = s.releases /\ t.command = s.command
        /\ t.bus = s.bus /\ t.fault = s.fault /\ t.left = s.left /\ t.good = s.good
    BY DEF Constructed, Process
  <1> HIDE DEF t
  <1>5. ClaimInv(t) /\ CommandInv(t) /\ WorkInv(t) /\ BarInv(t)
    BY <1>3, <1>4 DEF ClaimInv, CommandInv, WorkInv, BarInv, Before, Preparing, Listing, Working, Writes, Returned, Transfers, Releases
  <1>6. QED
    BY <1>2, <1>4, <1>5 DEF ProcessInv, Working, t

\* A bar that is there may be drawn.
LEMMA DisplayedInv ==
    ASSUME NEW s, ProcessInv(s), s.bar.on, s.pc # "exited"
    PROVE  ProcessInv(Displayed(s))
  BY DEF Displayed, ProcessInv, ClaimInv, CommandInv, WorkInv, BarInv, Before, Preparing, Listing, Working, Writes, Returned, Transfers, Releases, Process

\* What must be so when a process ends.
LEMMA EndedInv ==
    ASSUME NEW s \in Process, NEW code \in {"0", "1", "2", "died", "killed"},
           s.command # "listDevices" => s.releases <= 1,
           code # "died" /\ s.held => s.releases > 0,
           code = "0" /\ s.releases > 0 => ~s.fault /\ s.left = 0 /\ (s.command = "erase" => s.good),
           code = "died" => IF s.bar.on THEN s.overrun \/ s.bar.empty \/ Undrawable(s.bar)
                            ELSE s.fault /\ s.command \notin {"erase", "sfdp"}
    PROVE  ProcessInv(Ended(s, code))
  <1> DEFINE t == Ended(s, code)
  <1>1. 0 \in 0..MaxString /\ 0 \in 0..3 + MaxBlocks
    BY SessionAssumption, BarAssumption
  <1>2. NoBar \in Bar
    BY NoBarType
  <1>3. t \in Process
    <2> DEFINE bar == IF code = "died" THEN s.bar ELSE NoBar
    <2>1. bar \in Bar
      BY <1>2 DEF Process
    <2> HIDE DEF bar
    <2>2. New(NoTerminal) \in Process
      BY <1>1, <1>2 DEF New, Process
    <2> DEFINE n == New(NoTerminal)
    <2>3. t = [n EXCEPT !.pc = "exited", !.exit = code, !.command = s.command, !.held = s.held,
                        !.releases = s.releases, !.fault = s.fault, !.good = s.good, !.left = s.left,
                        !.bar = bar, !.raced = s.raced, !.overrun = s.overrun]
      BY DEF Ended, bar
    <2> HIDE DEF n, t
    <2>4. n \in Process
      BY <2>2 DEF n
    <2>5. QED
      BY ZenonT(40), <2>1, <2>3, <2>4 DEF Process
  <1>4. /\ t.pc = "exited" /\ t.exit = code /\ t.command = s.command /\ t.held = s.held
        /\ t.releases = s.releases /\ t.fault = s.fault /\ t.good = s.good /\ t.left = s.left
        /\ t.bus = "internal" /\ t.draw = "none" /\ t.overrun = s.overrun
        /\ t.bar = IF code = "died" THEN s.bar ELSE NoBar
    BY DEF Ended, New, Process
  <1> HIDE DEF t
  <1>5. ClaimInv(t) /\ CommandInv(t) /\ WorkInv(t) /\ BarInv(t)
    BY <1>4 DEF NoBar, ClaimInv, CommandInv, WorkInv, BarInv, Before, Preparing, Listing, Working, Writes, Returned, Transfers, Releases
  <1>6. QED
    BY <1>3, <1>4, <1>5 DEF ProcessInv, t

(***************************************************************************)
(* The steps of a process                                                  *)
(***************************************************************************)
\* Starting, with or without a programmer.
LEMMA BeginStep ==
    ASSUME SessionInv, NEW p \in Procs, NEW command \in Commands, NEW bus \in {"internal", "external"},
           Begin(p, command, bus)
    PROVE  SessionInv'
  <1> DEFINE s == [proc[p] EXCEPT !.command = command, !.bus = bus]
             t == Goto(s, "claim")
  <1>1. ProcessInv(proc[p]) /\ proc[p].pc = "start" /\ (command \in {"list", "listDevices"} => bus = "internal")
    BY DEF SessionInv, Begin, At
  <1>2. /\ s \in Process /\ ~s.held /\ s.releases = 0 /\ s.command = command /\ s.bus = bus
        /\ s.pc = "start" /\ s.exit = "none" /\ s.left = 0 /\ ~s.fault /\ s.draw = "none" /\ ~s.bar.on
    <2>1. /\ s \in Process /\ s.command = command /\ s.bus = bus /\ s.held = proc[p].held
          /\ s.releases = proc[p].releases /\ s.pc = proc[p].pc /\ s.exit = proc[p].exit
          /\ s.left = proc[p].left /\ s.fault = proc[p].fault /\ s.draw = proc[p].draw /\ s.bar = proc[p].bar
      BY ZenonT(40), <1>1, SessionAssumption DEF ProcessInv, Process
    <2>2. ~proc[p].held /\ proc[p].releases = 0 /\ proc[p].left = 0 /\ ~proc[p].fault /\ ~proc[p].bar.on
          /\ proc[p].exit = "none"
      BY <1>1 DEF ProcessInv, ClaimInv, WorkInv, BarInv, Before
    <2>3. QED
      BY <1>1, <2>1, <2>2 DEF Begin, At
  <1>3. ASSUME NEW code \in {"0", "2"}, End(p, s, code)
        PROVE  SessionInv'
    <2> HIDE DEF s
    <2>1. ProcessInv(Ended(s, code))
      BY <1>2, EndedInv
    <2>2. QED
      BY <1>2, <1>3, <2>1, EndStep
  <1>4. ASSUME Local(p, t), command # "list"
        PROVE  SessionInv'
    <2>1. t \in Process
      BY <1>2 DEF Goto, Process
    <2>2. /\ ~t.held /\ t.releases = 0 /\ t.command = command /\ t.bus = bus
          /\ t.pc = "claim" /\ t.exit = "none" /\ t.left = 0 /\ ~t.fault /\ t.draw = "none" /\ ~t.bar.on
      BY <1>2 DEF Goto, Process
    <2> HIDE DEF t
    <2>3. command \in {"listDevices", "erase", "read", "sfdp"} \cup Writes
      BY <1>4, SessionAssumption DEF Writes
    <2>4. ClaimInv(t) /\ CommandInv(t) /\ WorkInv(t) /\ BarInv(t)
      BY <1>1, <2>2, <2>3 DEF ClaimInv, CommandInv, WorkInv, BarInv, Before, Preparing, Listing, Working, Writes, Returned, Transfers, Releases
    <2>5. ProcessInv(t)
      BY <2>1, <2>2, <2>4 DEF ProcessInv
    <2>6. Place(p, t, owner, firmware, plugged)
      BY <2>2 DEF Place, Working, Returned
    <2>7. QED
      BY <1>4, <2>5, <2>6, LocalStep
  <1>5. QED
    BY <1>3, <1>4 DEF Begin

\* Claiming the interface.
LEMMA ClaimStep == ASSUME SessionInv, NEW p \in Procs, Claim(p) PROVE SessionInv'
  <1> DEFINE s == proc[p]
             t == [s EXCEPT !.pc = FirstStep(s.command), !.held = TRUE]
  <1>1. ProcessInv(s) /\ s.pc = "claim" /\ s.draw = "none"
    BY DEF SessionInv, Claim, At
  <1>2. /\ s \in Process /\ ~s.held /\ s.releases = 0 /\ s.exit = "none" /\ s.left = 0 /\ ~s.fault
        /\ ~s.bar.on /\ s.command \in {"listDevices", "erase", "read", "sfdp"} \cup Writes
        /\ s.command = "listDevices" => s.bus = "internal"
    BY <1>1 DEF ProcessInv, ClaimInv, CommandInv, WorkInv, BarInv, Before, Preparing, Listing, Working, Writes, Returned, Transfers, Releases, Process
  <1>3. CASE End(p, s, "1")
    BY <1>2, <1>3, EndedInv, EndStep
  <1>4. CASE /\ plugged /\ owner = NoProc /\ owner' = p
             /\ Become(p, t) /\ UNCHANGED <<plugged, firmware, resizes>>
    <2>1. t \in Process
      BY <1>2 DEF FirstStep, Transfers, Process
    <2>2. /\ t.held /\ t.releases = 0 /\ t.command = s.command /\ t.bus = s.bus /\ t.pc = FirstStep(s.command)
          /\ t.exit = "none" /\ t.left = 0 /\ ~t.fault /\ t.draw = "none" /\ ~t.bar.on
      BY <1>1, <1>2 DEF Process
    <2> HIDE DEF t
    <2>3. ClaimInv(t) /\ CommandInv(t) /\ WorkInv(t) /\ BarInv(t) /\ t.pc # "exited"
      BY <1>2, <2>2 DEF FirstStep, ClaimInv, CommandInv, WorkInv, BarInv, Before, Preparing, Listing, Working, Writes, Returned, Transfers, Releases
    <2>4. ProcessInv(t)
      BY <2>1, <2>2, <2>3 DEF ProcessInv
    <2>5. Place(p, t, p, firmware, plugged)
      BY <1>2, <2>2 DEF Place, Working, Returned, FirstStep
    <2>6. QED
      BY <1>4, <2>4, <2>5, Stepping DEF SessionInv
  <1>5. QED
    BY <1>3, <1>4 DEF Claim

\* Opening the file.
LEMMA OpenFileStep == ASSUME SessionInv, NEW p \in Procs, OpenFile(p) PROVE SessionInv'
  <1> DEFINE s == proc[p]
             t == Goto(s, "info")
  <1>1. ProcessInv(s) /\ Place(p, s, owner, firmware, plugged) /\ s.pc = "open" /\ s.draw = "none"
    BY DEF SessionInv, OpenFile, At
  <1>2. CASE Local(p, t)
    <2>1. t \in Process
      BY <1>1 DEF Goto, ProcessInv, Process, Transfers
    <2>2. /\ t.pc = "info" /\ t.exit = s.exit /\ t.held = s.held /\ t.releases = s.releases
          /\ t.command = s.command /\ t.bus = s.bus /\ t.left = s.left /\ t.fault = s.fault
          /\ t.draw = "none" /\ t.bar = s.bar
      BY <1>1 DEF Goto, ProcessInv, Process
    <2> HIDE DEF t
    <2>3. ProcessInv(t)
      BY <1>1, <2>1, <2>2 DEF ProcessInv, ClaimInv, CommandInv, WorkInv, BarInv, Before, Preparing, Listing, Working, Writes, Returned, Transfers, Releases
    <2>4. Place(p, t, owner, firmware, plugged)
      BY <1>1, <2>2, <2>3 DEF Place, Working, Returned, ProcessInv
    <2>5. QED
      BY <1>2, <2>3, <2>4, LocalStep
  <1>3. CASE Local(p, Failing(s, "failed"))
    <2>1. ProcessInv(Failing(s, "failed"))
      BY <1>1, FailingInv DEF Preparing
    <2>2. /\ Failing(s, "failed").pc = "failed" /\ Failing(s, "failed").held = s.held
          /\ Failing(s, "failed").exit = s.exit
      BY <1>1 DEF Failing, ProcessInv, Process
    <2>3. Place(p, Failing(s, "failed"), owner, firmware, plugged)
      BY <1>1, <2>1, <2>2 DEF Place, Working, Returned, ProcessInv
    <2>4. QED
      BY <1>3, <2>1, <2>3, LocalStep
  <1>4. QED
    BY <1>2, <1>3 DEF OpenFile

\* Giving the interface back, and what becomes of the process then.
LEMMA ReleaseStep == ASSUME SessionInv, NEW p \in Procs, Release(p) PROVE SessionInv'
  <1> DEFINE s == [proc[p] EXCEPT !.releases = @ + 1]
             free == [s EXCEPT !.held = FALSE]
             t == AfterListing(free)
  <1>1. /\ ProcessInv(proc[p]) /\ Place(p, proc[p], owner, firmware, plugged)
        /\ proc[p].pc \in Releases /\ proc[p].draw = "none" /\ proc[p].exit = "none"
    BY DEF SessionInv, Release, At, ProcessInv, Releases
  <1>2. /\ s \in Process /\ s.pc = proc[p].pc /\ s.exit = "none" /\ s.releases = proc[p].releases + 1
        /\ s.releases \in 1..2 /\ s.held = proc[p].held /\ s.command = proc[p].command
        /\ s.bus = proc[p].bus /\ s.left = proc[p].left /\ s.fault = proc[p].fault /\ s.good = proc[p].good
        /\ s.bar = proc[p].bar /\ s.draw = "none" /\ s.overrun = proc[p].overrun
    BY <1>1 DEF ProcessInv, ClaimInv, Releases, Process
  <1> HIDE DEF s
  <1>3. /\ free \in Process /\ free.pc = s.pc /\ free.exit = "none" /\ free.releases = s.releases
        /\ ~free.held /\ free.command = s.command
        /\ free.bus = s.bus /\ free.left = s.left /\ free.fault = s.fault /\ free.good = s.good
        /\ free.bar = s.bar /\ free.draw = "none" /\ free.overrun = s.overrun
    BY <1>2 DEF Process
  <1> HIDE DEF free
  <1>4. s.command # "listDevices" => s.releases <= 1
    BY <1>1, <1>2 DEF ProcessInv, ClaimInv, Releases
  <1>5. s.pc \in {"relist", "thrown"} => ~s.bar.on /\ s.fault /\ s.command \notin {"erase", "sfdp"}
    BY <1>1, <1>2 DEF ProcessInv, CommandInv, WorkInv, BarInv, Listing, Writes
  <1>6. CASE s.held /\ plugged /\ s.pc = "finish" /\
             End(p, free, IF s.command # "erase" \/ s.good THEN "0" ELSE "1")
    <2> DEFINE code == IF s.command # "erase" \/ s.good THEN "0" ELSE "1"
    <2>1. ~s.fault /\ s.left = 0
      BY <1>1, <1>2, <1>6 DEF ProcessInv, WorkInv
    <2>2. code \in {"0", "1"} /\ (code = "0" => (s.command = "erase" => s.good))
      OBVIOUS
    <2> HIDE DEF code
    <2>3. ProcessInv(Ended(free, code))
      BY <1>3, <1>4, <2>1, <2>2, EndedInv
    <2>4. QED
      BY <1>3, <1>6, <2>2, <2>3, EndStep DEF code
  <1>7. CASE s.held /\ plugged /\ s.pc = "relist" /\ Become(p, t)
             /\ owner' = NoProc /\ UNCHANGED <<plugged, firmware, resizes>>
    <2>1. t \in Process /\ t.pc \in {"listing", "finish"} /\ (t.pc = "finish" <=> free.left = 0)
      BY <1>3 DEF AfterListing, Goto, Process, Transfers, Releases
    <2>2. /\ ~t.held /\ t.releases = free.releases /\ t.command = free.command /\ t.exit = "none"
          /\ t.bus = free.bus /\ t.left = free.left /\ t.bar = free.bar /\ t.draw = "none"
      BY <1>3 DEF AfterListing, Goto, Process
    <2> HIDE DEF t
    <2>3. s.command = "listDevices" /\ s.bus = "internal" /\ s.releases = 1 /\ owner = p
      BY <1>1, <1>2, <1>7 DEF ProcessInv, ClaimInv, CommandInv, Listing, Place
    <2>4. free.left \in Nat /\ (free.left # 0 => free.left > 0)
      BY <1>3, SessionAssumption DEF Process
    <2>5. ProcessInv(t)
      BY <1>3, <1>5, <1>7, <2>1, <2>2, <2>3, <2>4 DEF ProcessInv, ClaimInv, CommandInv, WorkInv, BarInv, Before, Preparing, Listing, Working, Writes, Returned, Transfers, Releases
    <2>6. Place(p, t, NoProc, firmware, plugged)
      BY <2>1, <2>2 DEF Place, Working, Returned
    <2>7. QED
      BY <1>7, <2>3, <2>5, <2>6, Stepping DEF SessionInv
  <1>8. CASE s.pc = "thrown" /\ End(p, free, "died")
    BY <1>3, <1>4, <1>5, <1>8, EndedInv, EndStep
  <1>9. CASE End(p, free, "1")
    BY <1>3, <1>4, <1>9, EndedInv, EndStep
  <1>10. CASE ~(s.held /\ plugged) /\ s.pc \in {"finish", "failed1"} /\ End(p, s, "1")
    BY <1>2, <1>4, <1>10, EndedInv, EndStep
  <1>11. CASE ~(s.held /\ plugged) /\ s.pc = "failed" /\ End(p, s, "2")
    BY <1>2, <1>4, <1>11, EndedInv, EndStep
  <1>12. CASE s.pc \in {"relist", "thrown"} /\ End(p, s, "died")
    BY <1>2, <1>4, <1>5, <1>12, EndedInv, EndStep
  <1>13. QED
    BY <1>1, <1>2, <1>6, <1>7, <1>8, <1>9, <1>10, <1>11, <1>12 DEF Release, Releases, s, free

\* The same of a request with one good outcome.
LEMMA RequestOneStep ==
    ASSUME SessionInv, NEW p \in Procs, NEW fw \in Firmware, NEW t, NEW broken,
           Request(p, fw, {t}, broken),
           proc[p].pc # "exited",
           ProcessInv(broken), broken.held => proc[p].held,
           broken.pc \in Releases \ {"finish"},
           ProcessInv(t) /\ Place(p, t, p, fw, TRUE)
    PROVE  SessionInv'
  <1> DEFINE nexts == {t}
  <1>1. Request(p, fw, nexts, broken) /\ \A r \in nexts : ProcessInv(r) /\ Place(p, r, p, fw, TRUE)
    OBVIOUS
  <1> HIDE DEF nexts
  <1>2. QED
    BY <1>1, RequestStep

\* The count of the devices, which identifies the external chip.
LEMMA RequestCountStep == ASSUME SessionInv, NEW p \in Procs, RequestCount(p) PROVE SessionInv'
  <1> DEFINE s == proc[p]
             fw == Identify(firmware)
             broken == Failing(s, "failed1")
             t(n) == [s EXCEPT !.pc = "listing", !.blocks = n, !.left = n]
  <1>1. ProcessInv(s) /\ s.pc = "count" /\ s.draw = "none" /\ s.exit = "none"
    BY DEF SessionInv, RequestCount, At, ProcessInv
  <1>2. fw \in Firmware
    BY DEF SessionInv, Firmware, Identify
  <1>3. ProcessInv(broken) /\ broken.held = s.held /\ broken.pc = "failed1"
    BY <1>1 DEF Failing, ProcessInv, ClaimInv, CommandInv, WorkInv, BarInv, Before, Preparing, Listing, Working, Writes, Returned, Transfers, Releases, Process
  <1>4. ASSUME NEW n \in {2, 3}
        PROVE  ProcessInv(t(n)) /\ Place(p, t(n), p, fw, TRUE)
    <2>1. n \in 0..3 + MaxBlocks /\ n > 0
      BY SessionAssumption
    <2>2. t(n) \in Process
      BY <1>1, <2>1 DEF ProcessInv, Process, Transfers
    <2>3. /\ t(n).pc = "listing" /\ t(n).left > 0 /\ t(n).exit = "none" /\ t(n).held = s.held
          /\ t(n).releases = s.releases /\ t(n).command = s.command /\ t(n).bus = s.bus
          /\ t(n).fault = s.fault /\ t(n).draw = "none" /\ t(n).bar = s.bar
      BY <1>1, <2>1 DEF ProcessInv, Process
    <2> HIDE DEF t
    <2>4. ProcessInv(t(n))
      BY <1>1, <2>2, <2>3 DEF ProcessInv, ClaimInv, CommandInv, WorkInv, BarInv, Before, Preparing, Listing, Working, Writes, Returned, Transfers, Releases
    <2>5. QED
      BY <2>3, <2>4 DEF Place, Working, Returned
  <1>5. Request(p, fw, {t(n) : n \in {2, 3}}, broken)
    BY DEF RequestCount
  <1>6. broken.held => proc[p].held
    BY <1>3
  <1>7. proc[p].pc # "exited"
    BY <1>1
  <1> HIDE DEF s, fw, broken, t
  <1>8. \A r \in {t(n) : n \in {2, 3}} : ProcessInv(r) /\ Place(p, r, p, fw, TRUE)
    BY <1>4
  <1>9. broken.pc \in Releases \ {"finish"}
    BY <1>3 DEF Releases
  <1>10. QED
    BY <1>2, <1>3, <1>5, <1>6, <1>7, <1>8, <1>9, RequestStep

\* The listing of one chip; the third identifies the external one.
LEMMA ListDeviceStep == ASSUME SessionInv, NEW p \in Procs, ListDevice(p) PROVE SessionInv'
  <1> DEFINE s == [proc[p] EXCEPT !.left = @ - 1]
             external == s.blocks = 3 /\ s.left = 0
             fw == IF external THEN Identify(firmware) ELSE firmware
             broken == Failing(s, "relist")
             t == AfterListing(s)
  <1>1. ProcessInv(proc[p]) /\ proc[p].pc = "listing" /\ proc[p].draw = "none" /\ proc[p].exit = "none"
    BY DEF SessionInv, ListDevice, At, ProcessInv
  <1>2. fw \in Firmware /\ (external => ~fw.reset)
    BY DEF SessionInv, Firmware, Identify
  <1>3. Request(p, fw, {t}, broken)
    BY DEF ListDevice
  <1>4. proc[p].left - 1 \in 0..3 + MaxBlocks
    BY <1>1, SessionAssumption DEF ProcessInv, WorkInv, Process
  <1>5. /\ s \in Process /\ s.pc = "listing" /\ s.exit = "none" /\ s.releases = proc[p].releases
        /\ s.held = proc[p].held /\ s.command = "listDevices" /\ s.bus = "internal"
        /\ s.fault = proc[p].fault /\ s.bar = proc[p].bar /\ s.draw = "none"
        /\ s.releases <= 1 /\ (s.held => s.releases = 0) /\ ~s.bar.on /\ (s.held => ~s.fault)
    BY <1>1, <1>4 DEF ProcessInv, ClaimInv, CommandInv, WorkInv, BarInv, Before, Preparing, Listing, Working, Writes, Returned, Transfers, Releases, Process
  <1> HIDE DEF s, fw
  <1>6. ProcessInv(broken) /\ broken.held = s.held /\ broken.pc = "relist"
    BY <1>5 DEF Failing, ProcessInv, ClaimInv, CommandInv, WorkInv, BarInv, Before, Preparing, Listing, Working, Writes, Returned, Transfers, Releases, Process
  <1>7. t \in Process /\ t.pc \in {"listing", "finish"} /\ (t.pc = "finish" <=> s.left = 0)
    BY <1>5 DEF AfterListing, Goto, Process, Transfers, Releases
  <1>8. /\ t.held = s.held /\ t.releases = s.releases /\ t.command = s.command /\ t.exit = "none"
        /\ t.bus = s.bus /\ t.left = s.left /\ t.blocks = s.blocks /\ t.fault = s.fault
        /\ t.bar = s.bar /\ t.draw = "none"
    BY <1>5 DEF AfterListing, Goto, Process
  <1> HIDE DEF t
  <1>9. s.left \in Nat /\ (s.left # 0 => s.left > 0)
    BY <1>5, SessionAssumption DEF Process
  <1>10. ProcessInv(t)
    BY <1>5, <1>7, <1>8, <1>9 DEF ProcessInv, ClaimInv, CommandInv, WorkInv, BarInv, Before, Preparing, Listing, Working, Writes, Returned, Transfers, Releases
  <1>11. Place(p, t, p, fw, TRUE)
    BY <1>2, <1>5, <1>7, <1>8 DEF Place, Working, Returned
  <1> HIDE DEF broken
  <1>12. broken.pc \in Releases \ {"finish"} /\ (broken.held => proc[p].held)
    BY <1>5, <1>6 DEF Releases
  <1>13. proc[p].pc # "exited" /\ fw \in Firmware /\ ProcessInv(broken)
    BY <1>1, <1>2, <1>6
  <1> HIDE DEF external
  <1>14. QED
    BY <1>3, <1>10, <1>11, <1>12, <1>13, RequestOneStep

\* The size of the chip.
LEMMA ReadChipInfoStep == ASSUME SessionInv, NEW p \in Procs, ReadChipInfo(p) PROVE SessionInv'
  <1> DEFINE s == proc[p]
             fw == IF s.bus = "external" THEN Identify(firmware) ELSE firmware
             broken == Failing(s, "thrown")
  <1>1. ProcessInv(s) /\ s.pc = "info" /\ s.draw = "none" /\ s.exit = "none"
    BY DEF SessionInv, ReadChipInfo, At, ProcessInv
  <1>2. fw \in Firmware
    BY DEF SessionInv, Firmware, Identify
  <1>3. ProcessInv(broken) /\ broken.held = s.held /\ broken.pc = "thrown"
    <2>1. broken \in Process
      BY <1>1 DEF Failing, ProcessInv, Process, Releases
    <2>2. /\ broken.pc = "thrown" /\ broken.fault /\ broken.left = s.left /\ broken.exit = "none"
          /\ broken.held = s.held /\ broken.releases = s.releases /\ broken.command = s.command
          /\ broken.bus = s.bus /\ broken.draw = "none" /\ broken.bar = s.bar
      BY <1>1 DEF Failing, ProcessInv, Process
    <2> HIDE DEF broken
    <2>3. ClaimInv(broken) /\ CommandInv(broken) /\ WorkInv(broken) /\ BarInv(broken)
      BY <1>1, <2>2 DEF ProcessInv, ClaimInv, CommandInv, WorkInv, BarInv, Before, Preparing, Listing, Working, Writes, Returned, Transfers, Releases
    <2>4. QED
      BY <2>1, <2>2, <2>3 DEF ProcessInv
  <1>4. ASSUME NEW kind \in {"normal", "tiny", "funky"}, NEW n \in 0..MaxBlocks
        PROVE  ProcessInv(Sized(s, kind, n)) /\ Place(p, Sized(s, kind, n), p, fw, TRUE)
    <2> DEFINE t == Sized(s, kind, n)
    <2>1. n \in 0..3 + MaxBlocks
      BY SessionAssumption
    <2>2. t \in Process
      BY <1>1, <2>1 DEF Sized, ProcessInv, Process, Transfers
    <2>3. /\ t.pc = "abort" /\ t.left = s.left /\ t.exit = "none" /\ t.held = s.held
          /\ t.releases = s.releases /\ t.command = s.command /\ t.bus = s.bus
          /\ t.fault = s.fault /\ t.draw = "none" /\ t.bar = s.bar
      BY <1>1 DEF Sized, ProcessInv, Process
    <2> HIDE DEF t
    <2>4. ProcessInv(t)
      BY <1>1, <2>2, <2>3 DEF ProcessInv, ClaimInv, CommandInv, WorkInv, BarInv, Before, Preparing, Listing, Working, Writes, Returned, Transfers, Releases
    <2>5. Place(p, t, p, fw, TRUE)
      BY <2>3, <2>4 DEF Place, Working, Returned
    <2>6. QED
      BY <2>4, <2>5 DEF t
  <1>5. ProcessInv(Goto(s, "failed")) /\ Place(p, Goto(s, "failed"), p, fw, TRUE)
    <2> DEFINE t == Goto(s, "failed")
    <2>1. t \in Process
      BY <1>1 DEF Goto, ProcessInv, Process, Releases
    <2>2. /\ t.pc = "failed" /\ t.left = s.left /\ t.exit = "none" /\ t.held = s.held
          /\ t.releases = s.releases /\ t.command = s.command /\ t.bus = s.bus
          /\ t.fault = s.fault /\ t.draw = "none" /\ t.bar = s.bar
      BY <1>1 DEF Goto, ProcessInv, Process
    <2> HIDE DEF t
    <2>3. ProcessInv(t)
      BY <1>1, <2>1, <2>2 DEF ProcessInv, ClaimInv, CommandInv, WorkInv, BarInv, Before, Preparing, Listing, Working, Writes, Returned, Transfers, Releases
    <2>4. Place(p, t, p, fw, TRUE)
      BY <2>2 DEF Place, Working, Returned
    <2>5. QED
      BY <2>3, <2>4 DEF t
  <1>6. Request(p, fw, Sizes(s), broken)
    BY DEF ReadChipInfo
  <1> HIDE DEF s, fw, broken
  <1>7. 0 \in 0..MaxBlocks /\ \A n \in 1..MaxBlocks : n \in 0..MaxBlocks
    BY SessionAssumption
  <1>8. ASSUME NEW t \in Sizes(s)
        PROVE  (\E kind \in {"normal", "tiny", "funky"}, n \in 0..MaxBlocks : t = Sized(s, kind, n))
               \/ t = Goto(s, "failed")
    BY <1>7 DEF Sizes
  <1>9. \A t \in Sizes(s) : ProcessInv(t) /\ Place(p, t, p, fw, TRUE)
    BY <1>4, <1>5, <1>8
  <1>10. proc[p].pc # "exited" /\ (broken.held => proc[p].held)
    BY <1>1, <1>3 DEF s
  <1>11. broken.pc \in Releases \ {"finish"}
    BY <1>3 DEF Releases
  <1>12. QED
    BY <1>2, <1>3, <1>6, <1>9, <1>10, <1>11, RequestStep

\* Going on with a command: what a step on the way must not touch, and what it
\* must see to.
LEMMA MoveInv ==
    ASSUME NEW s, ProcessInv(s), s.pc \in {"abort", "target"} \cup Working,
           NEW t \in Process, t.pc \in {"target", "finish"} \cup Working,
           t.exit = s.exit, t.held = s.held, t.releases = s.releases,
           t.command = s.command, t.bus = s.bus, t.fault = s.fault,
           t.pc \in {"target", "eraseReq", "poll", "closeErase", "close", "deselect", "finish"} => t.left = 0,
           t.pc \in {"moveReq", "bulk", "verify", "sfdpReq", "sfdpBulk"} => t.left > 0
    PROVE  /\ t.exit = "none" /\ ClaimInv(t) /\ CommandInv(t) /\ WorkInv(t)
           /\ BarInv(t) => ProcessInv(t)
  <1>1. t.exit = "none"
    BY DEF ProcessInv, Working
  <1>2. ClaimInv(t) /\ CommandInv(t) /\ WorkInv(t)
    BY <1>1 DEF ProcessInv, ClaimInv, CommandInv, WorkInv, BarInv, Before, Preparing, Listing, Working, Writes, Returned, Transfers, Releases
  <1>3. QED
    BY <1>1, <1>2 DEF ProcessInv, Working

\* A step to the next place that leaves the bar as it is.
LEMMA GotoInv ==
    ASSUME NEW s, ProcessInv(s), s.pc \in {"abort", "target"} \cup Working,
           NEW next \in {"target", "finish"} \cup Working,
           next \in {"target", "eraseReq", "poll", "closeErase", "close", "deselect", "finish"} => s.left = 0,
           next \in {"moveReq", "bulk", "verify", "sfdpReq", "sfdpBulk"} => s.left > 0,
           next = "target" => ~s.bar.on,
           next \in {"eraseReq", "poll", "moveReq", "bulk", "verify"} => s.bar.on
    PROVE  ProcessInv(Goto(s, next))
  <1> DEFINE t == Goto(s, next)
  <1>1. t \in Process
    BY DEF Goto, ProcessInv, Before, Preparing, Listing, Working, Writes, Returned, Transfers, Releases, Process
  <1>2. /\ t.pc = next /\ t.exit = s.exit /\ t.held = s.held /\ t.releases = s.releases /\ t.command = s.command
        /\ t.bus = s.bus /\ t.fault = s.fault /\ t.left = s.left /\ t.bar = s.bar /\ t.draw = s.draw
        /\ t.window = s.window /\ t.missed = s.missed /\ t.overrun = s.overrun /\ t.raced = s.raced
        /\ t.length = s.length
    BY DEF Goto, ProcessInv, Process
  <1> HIDE DEF t
  <1>3. BarInv(t)
    BY <1>2 DEF ProcessInv, BarInv, Before, Preparing, Listing, Working
  <1>4. ProcessInv(t)
    BY <1>1, <1>2, <1>3, MoveInv
  <1>5. QED
    BY <1>4 DEF t

\* Reading and writing begin: with a bar, or not at all.
LEMMA StartMovingInv ==
    ASSUME NEW s, ProcessInv(s), s.pc \in {"target", "closeErase"}, s.draw = "none",
           s.command \in {"read"} \cup Writes
    PROVE  /\ ProcessInv(StartMoving(s)) /\ StartMoving(s).held = s.held /\ StartMoving(s).bus = s.bus
           /\ StartMoving(s).pc \in {"failed", "failed1"} \cup Working
  <1>1. CASE s.kind = "funky"
    <2> DEFINE t == StartMoving(s)
    <2>1. t \in Process /\ t.pc \in {"failed", "failed1"}
      BY <1>1 DEF StartMoving, Goto, ProcessInv, Process, Releases
    <2>2. /\ t.left = s.left /\ t.exit = s.exit /\ t.held = s.held /\ t.releases = s.releases
          /\ t.command = s.command /\ t.bus = s.bus /\ t.fault = s.fault /\ t.draw = "none" /\ t.bar = s.bar
          /\ t.window = s.window /\ t.missed = s.missed /\ t.overrun = s.overrun
      BY <1>1 DEF StartMoving, Goto, ProcessInv, Process
    <2> HIDE DEF t
    <2>3. ProcessInv(t)
      BY <2>1, <2>2 DEF ProcessInv, ClaimInv, CommandInv, WorkInv, BarInv, Before, Preparing, Listing, Working, Writes, Returned, Transfers, Releases
    <2>4. QED
      BY <2>1, <2>2, <2>3 DEF t
  <1>2. CASE s.kind # "funky"
    <2> DEFINE pc == IF s.blocks = 0 THEN "close" ELSE "moveReq"
               r == [s EXCEPT !.left = s.blocks, !.good = FALSE, !.pc = pc]
               t == Constructed(r, FALSE, s.blocks = 0)
    <2>1. pc \in {"close", "moveReq"} /\ (pc = "close" <=> s.blocks = 0)
      OBVIOUS
    <2> HIDE DEF pc
    <2>2. r \in Process
      BY <2>1 DEF ProcessInv, Process, Transfers
    <2>3. /\ r.pc = pc /\ r.left = s.blocks /\ r.exit = s.exit /\ r.held = s.held /\ r.releases = s.releases
          /\ r.command = s.command /\ r.bus = s.bus /\ r.fault = s.fault
      BY DEF ProcessInv, Process
    <2>4. s.blocks \in Nat /\ (s.blocks # 0 => s.blocks > 0)
      BY SessionAssumption DEF ProcessInv, Process
    <2> HIDE DEF r
    <2>5. r.exit = "none" /\ ClaimInv(r) /\ CommandInv(r) /\ WorkInv(r)
      BY <2>1, <2>2, <2>3, <2>4, MoveInv DEF Working
    <2>6. ProcessInv(t)
      BY <2>1, <2>2, <2>3, <2>5, ConstructedInv DEF Working
    <2>7. t.held = r.held /\ t.bus = r.bus /\ t.pc = r.pc
      BY <2>2 DEF Constructed, Process
    <2>8. t = StartMoving(s)
      BY <1>2 DEF StartMoving, r, pc
    <2>9. QED
      BY <2>1, <2>3, <2>6, <2>7, <2>8 DEF Working
  <1>3. QED
    BY <1>1, <1>2

\* The place of a process that is on its way to a chip, works on it or gives up.
LEMMA OnChip ==
    ASSUME NEW p, NEW t, ProcessInv(t), t.pc \in {"target", "failed", "failed1"} \cup Working, NEW own,
           t.held => own = p, NEW fw, NEW there,
           t.pc \in Working => fw.target = t.bus /\ (t.bus = "external" => fw.reset)
    PROVE  Place(p, t, own, fw, there)
  BY DEF Place, ProcessInv, Working, Returned

\* A request on the way to a chip or on one.
LEMMA WorkStep ==
    ASSUME SessionInv, NEW p \in Procs, At(p, Preparing \cup Working),
           NEW fw \in Firmware, NEW nexts, Request(p, fw, nexts, Failing(proc[p], "failed")),
           \A t \in nexts : ProcessInv(t) /\ Place(p, t, p, fw, TRUE)
    PROVE  SessionInv'
  <1> DEFINE broken == Failing(proc[p], "failed")
  <1>1. ProcessInv(proc[p]) /\ proc[p].pc \in Preparing \cup Working /\ proc[p].draw = "none"
    BY DEF SessionInv, At
  <1>2. ProcessInv(broken)
    BY <1>1, FailingInv
  <1>3. proc[p].pc # "exited"
    BY <1>1 DEF Preparing, Working
  <1>4. broken.pc \in Releases \ {"finish"} /\ (broken.held => proc[p].held)
    BY <1>1 DEF Failing, ProcessInv, Process, Releases
  <1>5. Request(p, fw, nexts, broken)
    OBVIOUS
  <1> HIDE DEF broken
  <1>6. QED
    BY <1>2, <1>3, <1>4, <1>5, RequestStep

\* The same with one good outcome.
LEMMA WorkOneStep ==
    ASSUME SessionInv, NEW p \in Procs, At(p, Preparing \cup Working),
           NEW fw \in Firmware, NEW t, Request(p, fw, {t}, Failing(proc[p], "failed")),
           ProcessInv(t), Place(p, t, p, fw, TRUE)
    PROVE  SessionInv'
  <1> DEFINE nexts == {t}
  <1>1. Request(p, fw, nexts, Failing(proc[p], "failed"))
        /\ \A r \in nexts : ProcessInv(r) /\ Place(p, r, p, fw, TRUE)
    OBVIOUS
  <1> HIDE DEF nexts
  <1>2. QED
    BY <1>1, WorkStep

\* What a process that works on a chip may rely on.
LEMMA WorkingNow ==
    ASSUME SessionInv, NEW p \in Procs, NEW pcs, At(p, pcs), pcs \subseteq Preparing \cup Working
    PROVE  /\ ProcessInv(proc[p]) /\ proc[p].pc \in pcs /\ proc[p].draw = "none" /\ At(p, Preparing \cup Working)
           /\ proc[p].pc \in Working => firmware.target = proc[p].bus /\ (proc[p].bus = "external" => firmware.reset)
           /\ firmware \in Firmware
  BY DEF SessionInv, Place, At, Firmware

\* The abort every operation begins with.
LEMMA AbortStep == ASSUME SessionInv, NEW p \in Procs, Abort(p) PROVE SessionInv'
  <1> DEFINE s == proc[p]
             fw == [firmware EXCEPT !.target = "none"]
             t == Goto(s, "target")
  <1>1. ProcessInv(s) /\ s.pc = "abort" /\ At(p, Preparing \cup Working) /\ firmware \in Firmware
    BY WorkingNow DEF Abort, Preparing
  <1>2. Request(p, fw, {t}, Failing(s, "failed")) /\ fw \in Firmware
    BY <1>1 DEF Abort, Firmware
  <1>3. ProcessInv(t) /\ t.pc = "target"
    <2>1. s.left = 0 /\ ~s.bar.on
      BY <1>1 DEF ProcessInv, WorkInv, BarInv, Preparing
    <2>2. QED
      BY <1>1, <2>1, GotoInv DEF Goto, ProcessInv, Process
  <1>4. Place(p, t, p, fw, TRUE)
    BY <1>3, OnChip DEF Working
  <1> HIDE DEF fw, t
  <1>5. QED
    BY <1>1, <1>2, <1>3, <1>4, WorkOneStep

\* Targeting the chip, and what each command does first with it.
LEMMA TargetDeviceStep == ASSUME SessionInv, NEW p \in Procs, TargetDevice(p) PROVE SessionInv'
  <1> DEFINE s == proc[p]
             fw == [target |-> s.bus, reset |-> firmware.reset \/ s.bus = "external"]
             nexts == CASE s.command = "erase" -> {Constructed(Goto(s, "eraseReq"), TRUE, FALSE)}
                        [] s.command \in Writes -> {Constructed(Goto(s, "eraseReq"), FALSE, s.blocks = 0)}
                        [] s.command = "read" -> {StartMoving(s)}
                        [] OTHER -> {[s EXCEPT !.pc = "sfdpReq", !.left = n] : n \in 1..MaxBlocks + 1}
  <1>1. ProcessInv(s) /\ s.pc = "target" /\ s.draw = "none" /\ At(p, Preparing \cup Working)
        /\ firmware \in Firmware
    <2>1. At(p, {"target"})
      BY DEF TargetDevice
    <2>2. QED
      BY <2>1, WorkingNow DEF Preparing
  <1>2. s.command \in {"erase", "read", "sfdp"} \cup Writes /\ s.left = 0 /\ s.bus \in {"internal", "external"}
    BY <1>1 DEF ProcessInv, Process, CommandInv, WorkInv, Preparing
  <1>3. Request(p, fw, nexts, Failing(s, "failed"))
    BY DEF TargetDevice
  <1>4. fw \in Firmware /\ fw.target = s.bus /\ (s.bus = "external" => fw.reset)
    BY <1>1, <1>2 DEF Firmware
  <1> HIDE DEF s, fw
  <1>5. ASSUME NEW timed \in BOOLEAN, NEW empty \in BOOLEAN, NEW t, t = Constructed(Goto(s, "eraseReq"), timed, empty)
        PROVE  ProcessInv(t) /\ Place(p, t, p, fw, TRUE)
    <2> DEFINE r == Goto(s, "eraseReq")
    <2>1. r \in Process
      BY <1>1 DEF Goto, ProcessInv, Process, Transfers
    <2>2. /\ r.pc = "eraseReq" /\ r.exit = s.exit /\ r.held = s.held /\ r.releases = s.releases
          /\ r.command = s.command /\ r.bus = s.bus /\ r.fault = s.fault /\ r.left = s.left
      BY <1>1 DEF Goto, ProcessInv, Process
    <2> HIDE DEF r
    <2>3. r.exit = "none" /\ ClaimInv(r) /\ CommandInv(r) /\ WorkInv(r)
      BY <1>1, <1>2, <2>1, <2>2, MoveInv DEF Working
    <2>4. t = Constructed(r, timed, empty)
      BY <1>5 DEF r
    <2>5. ProcessInv(t)
      BY <2>1, <2>2, <2>3, <2>4, ConstructedInv DEF Working
    <2>6. t.pc = "eraseReq" /\ t.bus = s.bus
      BY <2>1, <2>2, <2>4 DEF Constructed, Process
    <2>7. QED
      BY <1>4, <2>5, <2>6, OnChip DEF Working
  <1>6. ASSUME NEW t, t = StartMoving(s), s.command = "read"
        PROVE  ProcessInv(t) /\ Place(p, t, p, fw, TRUE)
    BY <1>1, <1>4, <1>6, StartMovingInv, OnChip
  <1>7. ASSUME NEW n \in 1..MaxBlocks + 1, NEW t, t = [s EXCEPT !.pc = "sfdpReq", !.left = n]
        PROVE  ProcessInv(t) /\ Place(p, t, p, fw, TRUE)
    <2>1. n \in 0..3 + MaxBlocks /\ n > 0
      BY SessionAssumption
    <2>2. t \in Process
      BY <1>1, <1>7, <2>1 DEF ProcessInv, Process, Transfers
    <2>3. /\ t.pc = "sfdpReq" /\ t.left > 0 /\ t.exit = s.exit /\ t.held = s.held /\ t.releases = s.releases
          /\ t.command = s.command /\ t.bus = s.bus /\ t.fault = s.fault /\ t.bar = s.bar /\ t.draw = "none"
      BY <1>1, <1>7, <2>1 DEF ProcessInv, Process
    <2>4. ~s.bar.on /\ s.exit = "none"
      BY <1>1 DEF ProcessInv, BarInv, Preparing
    <2>5. BarInv(t)
      BY <2>3, <2>4 DEF BarInv, Before, Preparing, Listing
    <2>6. ProcessInv(t)
      BY <1>1, <2>2, <2>3, <2>5, MoveInv DEF Working
    <2>7. QED
      BY <1>4, <2>3, <2>6, OnChip DEF Working
  <1>8. \A t \in nexts : ProcessInv(t) /\ Place(p, t, p, fw, TRUE)
    <2>1. (s.blocks = 0) \in BOOLEAN
      OBVIOUS
    <2>2. CASE s.command = "erase"
      BY <1>5, <2>2
    <2>3. CASE s.command \in Writes
      BY <1>5, <2>1, <2>3 DEF Writes
    <2>4. CASE s.command = "read"
      BY <1>6, <2>4 DEF Writes
    <2>5. CASE s.command = "sfdp"
      BY <1>7, <2>5 DEF Writes
    <2>6. QED
      BY <1>2, <2>2, <2>3, <2>4, <2>5
  <1> HIDE DEF nexts
  <1>9. QED
    BY <1>1, <1>3, <1>4, <1>8, WorkStep DEF s

\* What Goto moves.
LEMMA GotoFields ==
    ASSUME NEW s, ProcessInv(s), NEW next
    PROVE  Goto(s, next).pc = next /\ Goto(s, next).bus = s.bus /\ Goto(s, next).command = s.command
  BY DEF Goto, ProcessInv, Process

\* A step of a process that works on its chip and leaves the chip as it is.
LEMMA KeepStep ==
    ASSUME SessionInv, NEW p \in Procs, At(p, Working), NEW nexts,
           Request(p, firmware, nexts, Failing(proc[p], "failed")),
           \A t \in nexts : /\ ProcessInv(t) /\ t.bus = proc[p].bus
                            /\ t.pc \in {"failed"} \cup Working
    PROVE  SessionInv'
  <1>1. /\ proc[p].pc \in Working /\ At(p, Preparing \cup Working) /\ firmware \in Firmware
        /\ firmware.target = proc[p].bus /\ (proc[p].bus = "external" => firmware.reset)
    BY WorkingNow DEF At
  <1>2. \A t \in nexts : ProcessInv(t) /\ Place(p, t, p, firmware, TRUE)
    BY <1>1, OnChip
  <1>3. QED
    BY <1>1, <1>2, WorkStep

\* The end of the work on a chip.
LEMMA DeselectStep == ASSUME SessionInv, NEW p \in Procs, Deselect(p) PROVE SessionInv'
  <1> DEFINE s == proc[p]
             fw == [target |-> "none", reset |-> firmware.reset /\ firmware.target # "external"]
             t == Goto(s, "finish")
  <1>1. At(p, {"deselect"}) /\ Request(p, fw, {t}, Failing(s, "failed"))
    BY DEF Deselect
  <1>2. /\ ProcessInv(s) /\ s.pc = "deselect" /\ At(p, Preparing \cup Working) /\ firmware \in Firmware
        /\ firmware.target = s.bus
    BY <1>1, WorkingNow DEF Working
  <1>3. fw \in Firmware /\ fw.target = "none" /\ (s.bus = "external" => ~fw.reset)
    BY <1>2 DEF Firmware
  <1>4. ProcessInv(t) /\ t.pc = "finish" /\ t.bus = s.bus /\ t.command = s.command
    <2>1. s.left = 0
      BY <1>2 DEF ProcessInv, WorkInv
    <2>2. ProcessInv(t)
      BY <1>2, <2>1, GotoInv DEF Working
    <2>3. QED
      BY <1>2, <2>2, GotoFields
  <1>5. s.command # "listDevices"
    BY <1>2 DEF ProcessInv, CommandInv, Working, Writes
  <1>6. Place(p, t, p, fw, TRUE)
    BY <1>3, <1>4, <1>5 DEF Place, Working, Returned, ProcessInv
  <1> HIDE DEF fw, t
  <1>7. QED
    BY <1>1, <1>2, <1>3, <1>4, <1>6, WorkOneStep

\* The erase request, after which an erase draws its bar.
LEMMA RequestEraseStep == ASSUME SessionInv, NEW p \in Procs, RequestErase(p) PROVE SessionInv'
  <1> DEFINE s == Goto(proc[p], "poll")
             nexts == {IF s.command = "erase" THEN Displayed(s) ELSE s}
  <1>1. At(p, {"eraseReq"}) /\ Request(p, firmware, nexts, Failing(proc[p], "failed"))
    BY DEF RequestErase
  <1>2. ProcessInv(proc[p]) /\ proc[p].pc = "eraseReq" /\ At(p, Working)
    BY <1>1, WorkingNow DEF Working, At
  <1>3. proc[p].left = 0 /\ proc[p].bar.on
    BY <1>2 DEF ProcessInv, WorkInv, BarInv
  <1>4. ProcessInv(s)
    BY <1>2, <1>3, GotoInv DEF Working
  <1>5. s.pc = "poll" /\ s.bus = proc[p].bus /\ s.bar.on
    BY <1>2, <1>3 DEF Goto, ProcessInv, Process
  <1> HIDE DEF s
  <1>6. ProcessInv(Displayed(s)) /\ Displayed(s).pc = "poll" /\ Displayed(s).bus = s.bus
    BY <1>4, <1>5, DisplayedInv DEF Displayed, ProcessInv, Process
  <1>7. \A t \in nexts : ProcessInv(t) /\ t.bus = proc[p].bus /\ t.pc \in {"failed"} \cup Working
    BY <1>4, <1>5, <1>6 DEF Working
  <1> HIDE DEF nexts
  <1>8. QED
    BY <1>1, <1>2, <1>7, KeepStep

\* The status of an erase, and its end.
LEMMA PollEraseStep == ASSUME SessionInv, NEW p \in Procs, PollErase(p) PROVE SessionInv'
  <1> DEFINE s == Displayed(proc[p])
             t(good) == [s EXCEPT !.pc = "closeErase", !.good = good]
             nexts == {s} \cup {t(good) : good \in BOOLEAN}
  <1>1. At(p, {"poll"}) /\ Request(p, firmware, nexts, Failing(proc[p], "failed"))
    BY DEF PollErase
  <1>2. ProcessInv(proc[p]) /\ proc[p].pc = "poll" /\ At(p, Working)
    BY <1>1, WorkingNow DEF Working, At
  <1>3. proc[p].left = 0 /\ proc[p].bar.on
    BY <1>2 DEF ProcessInv, WorkInv, BarInv
  <1>4. /\ ProcessInv(s) /\ s.pc = "poll" /\ s.bus = proc[p].bus /\ s.left = 0 /\ s.bar.on
    BY <1>2, <1>3, DisplayedInv DEF Displayed, ProcessInv, Process
  <1> HIDE DEF s
  <1>5. ASSUME NEW good \in BOOLEAN
        PROVE  ProcessInv(t(good)) /\ t(good).pc = "closeErase" /\ t(good).bus = s.bus
    <2>1. t(good) \in Process
      <3> DEFINE r == [s EXCEPT !.pc = "closeErase"]
      <3>1. r \in Process
        BY <1>4 DEF ProcessInv, Process
      <3>2. t(good) = [r EXCEPT !.good = good]
        BY <1>4 DEF ProcessInv, Process
      <3> HIDE DEF r, t
      <3>3. QED
        BY <3>1, <3>2 DEF Process
    <2>2. /\ t(good).pc = "closeErase" /\ t(good).exit = s.exit /\ t(good).held = s.held
          /\ t(good).releases = s.releases /\ t(good).command = s.command /\ t(good).bus = s.bus
          /\ t(good).fault = s.fault /\ t(good).left = s.left /\ t(good).bar = s.bar /\ t(good).draw = s.draw
          /\ t(good).window = s.window /\ t(good).missed = s.missed /\ t(good).overrun = s.overrun
          /\ t(good).raced = s.raced /\ t(good).length = s.length
      BY <1>4 DEF ProcessInv, Process
    <2> HIDE DEF t
    <2>3. BarInv(t(good))
      BY <1>4, <2>2 DEF ProcessInv, BarInv, Before, Preparing, Listing
    <2>4. ProcessInv(t(good))
      BY <1>4, <2>1, <2>2, <2>3, MoveInv DEF Working
    <2>5. QED
      BY <2>2, <2>4
  <1> HIDE DEF t
  <1>6. \A r \in nexts : ProcessInv(r) /\ r.bus = proc[p].bus /\ r.pc \in {"failed"} \cup Working
    BY <1>4, <1>5 DEF Working
  <1> HIDE DEF nexts
  <1>7. QED
    BY <1>1, <1>2, <1>6, KeepStep

\* A block less to move, and the bar drawn again.
LEMMA NextBlockInv ==
    ASSUME NEW s, ProcessInv(s), s.pc \in {"bulk", "verify"}
    PROVE  ProcessInv(NextBlock(s)) /\ NextBlock(s).bus = s.bus /\ NextBlock(s).pc \in Working
  <1> DEFINE pc == IF s.left = 1 THEN "close" ELSE "moveReq"
             r == [s EXCEPT !.left = @ - 1, !.pc = pc]
  <1>1. s.left > 0 /\ s.bar.on /\ s.left - 1 \in 0..3 + MaxBlocks /\ (s.left # 1 => s.left - 1 > 0)
    BY SessionAssumption DEF ProcessInv, Process, WorkInv, BarInv
  <1>2. pc \in {"close", "moveReq"} /\ (pc = "close" <=> s.left = 1)
    OBVIOUS
  <1> HIDE DEF pc
  <1>3. r \in Process
    <2>1. pc \in {"start", "claim", "open", "closeErase", "close", "exited"} \cup Transfers \cup Releases
      BY <1>2 DEF Transfers
    <2>2. QED
      BY <1>1, <2>1 DEF ProcessInv, Process
  <1>4. /\ r.pc = pc /\ r.left = s.left - 1 /\ r.exit = s.exit /\ r.held = s.held /\ r.releases = s.releases
        /\ r.command = s.command /\ r.bus = s.bus /\ r.fault = s.fault /\ r.bar = s.bar /\ r.draw = s.draw
        /\ r.window = s.window /\ r.missed = s.missed /\ r.overrun = s.overrun
        /\ r.raced = s.raced /\ r.length = s.length
    BY DEF ProcessInv, Process
  <1> HIDE DEF r
  <1>5. BarInv(r)
    BY <1>1, <1>2, <1>4 DEF ProcessInv, BarInv, Before, Preparing, Listing
  <1>6. s.left \in Nat
    BY SessionAssumption DEF ProcessInv, Process
  <1>7. ProcessInv(r)
    BY <1>1, <1>2, <1>3, <1>4, <1>5, <1>6, MoveInv DEF Working
  <1>8. /\ ProcessInv(Displayed(r)) /\ Displayed(r).bus = r.bus /\ Displayed(r).pc = r.pc
    BY <1>1, <1>2, <1>3, <1>4, <1>7, DisplayedInv DEF Displayed, Process
  <1>9. NextBlock(s) = Displayed(r)
    BY DEF NextBlock, r, pc
  <1>10. QED
    BY <1>2, <1>4, <1>8, <1>9 DEF Working

\* A record that fails while it works.
LEMMA FailingWork ==
    ASSUME NEW s, ProcessInv(s), s.pc \in Working, s.draw = "none"
    PROVE  ProcessInv(Failing(s, "failed")) /\ Failing(s, "failed").bus = s.bus /\ Failing(s, "failed").pc = "failed"
  <1>1. ProcessInv(Failing(s, "failed"))
    BY FailingInv
  <1>2. Failing(s, "failed").bus = s.bus /\ Failing(s, "failed").pc = "failed"
    BY DEF Failing, ProcessInv, Process
  <1>3. QED
    BY <1>1, <1>2

\* The request of a block.
LEMMA RequestMoveStep == ASSUME SessionInv, NEW p \in Procs, RequestMove(p) PROVE SessionInv'
  <1> DEFINE s == proc[p]
             nexts == {Goto(s, "bulk")}
  <1>1. At(p, {"moveReq"}) /\ Request(p, firmware, nexts, Failing(proc[p], "failed"))
    BY DEF RequestMove
  <1>2. ProcessInv(s) /\ s.pc = "moveReq" /\ At(p, Working)
    BY <1>1, WorkingNow DEF Working, At
  <1>3. s.left > 0 /\ s.bar.on
    BY <1>2 DEF ProcessInv, WorkInv, BarInv
  <1>4. ProcessInv(Goto(s, "bulk")) /\ Goto(s, "bulk").bus = s.bus /\ Goto(s, "bulk").pc \in Working
    <2>1. ProcessInv(Goto(s, "bulk"))
      BY <1>2, <1>3, GotoInv DEF Working
    <2>2. QED
      BY <1>2, <2>1, GotoFields DEF Working
  <1>5. \A t \in nexts : ProcessInv(t) /\ t.bus = proc[p].bus /\ t.pc \in {"failed"} \cup Working
    BY <1>4
  <1> HIDE DEF nexts
  <1>6. QED
    BY <1>1, <1>2, <1>5, KeepStep

\* Its data.
LEMMA BulkStep == ASSUME SessionInv, NEW p \in Procs, Bulk(p) PROVE SessionInv'
  <1> DEFINE s == proc[p]
             verified == s.command = "verifiedWrite" /\ s.kind = "normal"
             nexts == {IF verified THEN Goto(s, "verify") ELSE NextBlock(s)}
  <1>1. At(p, {"bulk"}) /\ Request(p, firmware, nexts, Failing(proc[p], "failed"))
    BY DEF Bulk
  <1>2. ProcessInv(s) /\ s.pc = "bulk" /\ At(p, Working)
    BY <1>1, WorkingNow DEF Working, At
  <1>3. s.left > 0 /\ s.bar.on
    BY <1>2 DEF ProcessInv, WorkInv, BarInv
  <1>4. ProcessInv(Goto(s, "verify")) /\ Goto(s, "verify").bus = s.bus /\ Goto(s, "verify").pc \in Working
    <2>1. ProcessInv(Goto(s, "verify"))
      BY <1>2, <1>3, GotoInv DEF Working
    <2>2. QED
      BY <1>2, <2>1, GotoFields DEF Working
  <1>5. \A t \in nexts : ProcessInv(t) /\ t.bus = proc[p].bus /\ t.pc \in {"failed"} \cup Working
    BY <1>2, <1>4, NextBlockInv
  <1> HIDE DEF nexts
  <1>6. QED
    BY <1>1, <1>2, <1>5, KeepStep

\* Its verification.
LEMMA VerifyPagesStep == ASSUME SessionInv, NEW p \in Procs, VerifyPages(p) PROVE SessionInv'
  <1> DEFINE s == proc[p]
             nexts == {NextBlock(s), Failing(s, "failed")}
  <1>1. At(p, {"verify"}) /\ Request(p, firmware, nexts, Failing(proc[p], "failed"))
    BY DEF VerifyPages
  <1>2. ProcessInv(s) /\ s.pc = "verify" /\ At(p, Working) /\ s.draw = "none"
    BY <1>1, WorkingNow DEF Working, At
  <1>3. \A t \in nexts : ProcessInv(t) /\ t.bus = proc[p].bus /\ t.pc \in {"failed"} \cup Working
    BY <1>2, NextBlockInv, FailingWork DEF Working
  <1> HIDE DEF nexts
  <1>4. QED
    BY <1>1, <1>2, <1>3, KeepStep

\* The request of an SFDP structure.
LEMMA RequestSfdpStep == ASSUME SessionInv, NEW p \in Procs, RequestSfdp(p) PROVE SessionInv'
  <1> DEFINE s == proc[p]
             nexts == {Goto(s, "sfdpBulk")}
  <1>1. At(p, {"sfdpReq"}) /\ Request(p, firmware, nexts, Failing(proc[p], "failed"))
    BY DEF RequestSfdp
  <1>2. ProcessInv(s) /\ s.pc = "sfdpReq" /\ At(p, Working)
    BY <1>1, WorkingNow DEF Working, At
  <1>3. s.left > 0
    BY <1>2 DEF ProcessInv, WorkInv
  <1>4. ProcessInv(Goto(s, "sfdpBulk")) /\ Goto(s, "sfdpBulk").bus = s.bus /\ Goto(s, "sfdpBulk").pc \in Working
    <2>1. ProcessInv(Goto(s, "sfdpBulk"))
      BY <1>2, <1>3, GotoInv DEF Working
    <2>2. QED
      BY <1>2, <2>1, GotoFields DEF Working
  <1>5. \A t \in nexts : ProcessInv(t) /\ t.bus = proc[p].bus /\ t.pc \in {"failed"} \cup Working
    BY <1>4
  <1> HIDE DEF nexts
  <1>6. QED
    BY <1>1, <1>2, <1>5, KeepStep

\* Its data.
LEMMA SfdpBulkStep == ASSUME SessionInv, NEW p \in Procs, SfdpBulk(p) PROVE SessionInv'
  <1> DEFINE s == [proc[p] EXCEPT !.left = @ - 1]
             next == IF s.left = 0 THEN "deselect" ELSE "sfdpReq"
             t == Goto(s, next)
             nexts == {t}
  <1>1. At(p, {"sfdpBulk"}) /\ Request(p, firmware, nexts, Failing(proc[p], "failed"))
    BY DEF SfdpBulk
  <1>2. ProcessInv(proc[p]) /\ proc[p].pc = "sfdpBulk" /\ At(p, Working) /\ proc[p].draw = "none"
    BY <1>1, WorkingNow DEF Working, At
  <1>3. proc[p].left > 0 /\ proc[p].left \in Nat /\ proc[p].left - 1 \in 0..3 + MaxBlocks
    BY <1>2, SessionAssumption DEF ProcessInv, WorkInv, Process
  <1>4. s \in Process /\ s.left = proc[p].left - 1
    BY <1>2, <1>3 DEF ProcessInv, Process
  <1>5. next \in {"deselect", "sfdpReq"} /\ (next = "deselect" <=> s.left = 0)
    OBVIOUS
  <1>6. t \in Process
    <2>1. next \in {"start", "claim", "open", "closeErase", "close", "exited"} \cup Transfers \cup Releases
      BY <1>5 DEF Transfers
    <2> HIDE DEF next, s
    <2>2. QED
      BY <1>4, <2>1 DEF Goto, Process
  <1>7. /\ t.pc = next /\ t.left = s.left /\ t.exit = proc[p].exit /\ t.held = proc[p].held
        /\ t.releases = proc[p].releases /\ t.command = proc[p].command /\ t.bus = proc[p].bus
        /\ t.fault = proc[p].fault /\ t.bar = proc[p].bar /\ t.draw = "none" /\ t.window = proc[p].window
        /\ t.missed = proc[p].missed /\ t.overrun = proc[p].overrun
    BY <1>2 DEF Goto, ProcessInv, Process
  <1> HIDE DEF s, next, t
  <1>8. BarInv(t)
    BY <1>2, <1>5, <1>7 DEF ProcessInv, BarInv, Before, Preparing, Listing
  <1>9. ProcessInv(t)
    BY <1>2, <1>3, <1>4, <1>5, <1>6, <1>7, <1>8, MoveInv DEF Working
  <1>10. \A r \in nexts : ProcessInv(r) /\ r.bus = proc[p].bus /\ r.pc \in {"failed"} \cup Working
    BY <1>5, <1>7, <1>9 DEF Working
  <1> HIDE DEF nexts
  <1>11. QED
    BY <1>1, <1>2, <1>10, KeepStep

\* A step that leaves a process where it is.
LEMMA SamePlace ==
    ASSUME NEW p, NEW own, NEW fw, NEW there, NEW s, Place(p, s, own, fw, there), NEW t,
           t.pc = s.pc, t.held = s.held, t.bus = s.bus, t.blocks = s.blocks, t.left = s.left,
           t.command = s.command, t.exit = s.exit
    PROVE  Place(p, t, own, fw, there)
  BY DEF Place, Returned

\* The signal handler learns of the bar.
LEMMA PublishStep == ASSUME SessionInv, NEW p \in Procs, Publish(p) PROVE SessionInv'
  <1> DEFINE s == proc[p]
             t == Displayed(s)
  <1>1. /\ ProcessInv(s) /\ Place(p, s, owner, firmware, plugged) /\ s.draw = "publish" /\ Local(p, t)
    BY DEF SessionInv, Publish
  <1>2. s.bar.on /\ s.pc # "exited"
    BY <1>1 DEF ProcessInv, BarInv
  <1>3. ProcessInv(t)
    BY <1>1, <1>2, DisplayedInv
  <1>4. Place(p, t, owner, firmware, plugged)
    <2>1. /\ t.pc = s.pc /\ t.held = s.held /\ t.bus = s.bus /\ t.blocks = s.blocks /\ t.left = s.left
          /\ t.command = s.command /\ t.exit = s.exit
      BY <1>1 DEF Displayed, ProcessInv, Process
    <2>2. QED
      BY <1>1, <2>1, SamePlace
  <1> HIDE DEF t
  <1>5. QED
    BY <1>1, <1>3, <1>4, LocalStep

\* A record that changed only in how its bar is drawn.
LEMMA DrawnInv ==
    ASSUME NEW s, ProcessInv(s), s.pc # "exited", s.bar.on, NEW t \in Process,
           t.pc = s.pc, t.held = s.held, t.bus = s.bus, t.left = s.left, t.command = s.command, t.exit = s.exit,
           t.releases = s.releases, t.fault = s.fault, t.bar.on,
           t.window # NoTerminal /\ ~t.missed => t.bar.cols = Columns(t.window, 0),
           t.draw = "time" => ~t.overrun /\ (t.raced \/ t.length = Length(t.bar))
    PROVE  ProcessInv(t)
  <1>1. t.exit = "none"
    BY DEF ProcessInv
  <1>2. ClaimInv(t) /\ CommandInv(t) /\ WorkInv(t)
    BY <1>1 DEF ProcessInv, ClaimInv, CommandInv, WorkInv, BarInv, Before, Preparing, Listing, Working, Writes, Returned, Transfers, Releases
  <1>3. BarInv(t)
    BY <1>1 DEF ProcessInv, BarInv
  <1>4. QED
    BY <1>1, <1>2, <1>3 DEF ProcessInv

\* Drawing the bar, or dying of it.
LEMMA DrawBarStep == ASSUME SessionInv, NEW p \in Procs, DrawBar(p) PROVE SessionInv'
  <1> DEFINE s == proc[p]
             length == IF s.bar.timed THEN Length(s.bar) ELSE 0
             draw == IF s.bar.timed THEN "time" ELSE "none"
             t == [s EXCEPT !.length = length, !.raced = FALSE, !.overrun = FALSE, !.draw = draw]
  <1>1. ProcessInv(s) /\ Place(p, s, owner, firmware, plugged) /\ s.draw = "bar"
    BY DEF SessionInv, DrawBar
  <1>2. s.bar.on /\ s.pc # "exited" /\ s \in Process /\ s.exit = "none"
    BY <1>1 DEF ProcessInv, BarInv
  <1>3. CASE (Undrawable(s.bar) \/ s.bar.empty) /\ End(p, s, "died")
    <2>1. s.command # "listDevices" => s.releases <= 1
      BY <1>1 DEF ProcessInv, ClaimInv
    <2> HIDE DEF s
    <2>2. ProcessInv(Ended(s, "died"))
      BY <1>2, <1>3, <2>1, EndedInv
    <2>3. QED
      BY <1>3, <2>2, EndStep
  <1>4. CASE ~Undrawable(s.bar) /\ Local(p, t)
    <2>1. Length(s.bar) \in 0..MaxString
      <3>1. s.bar.cols - Decoration(s.bar) \in Int
        BY <1>2, BarAssumption DEF Process, Bar, Decoration
      <3>2. (s.bar.cols - Decoration(s.bar)) % SizeModulus \in Nat
        BY <3>1, BarAssumption
      <3>3. QED
        BY <1>4, <3>2, BarAssumption DEF Undrawable, Length
    <2>2. length \in 0..MaxString /\ draw \in {"time", "none"}
      BY <2>1, BarAssumption
    <2>3. t \in Process
      <3> HIDE DEF length, draw
      <3>1. QED
        BY <1>2, <2>2 DEF Process
    <2>4. /\ t.pc = s.pc /\ t.held = s.held /\ t.bus = s.bus /\ t.left = s.left /\ t.command = s.command
          /\ t.exit = s.exit /\ t.releases = s.releases /\ t.fault = s.fault /\ t.bar = s.bar
          /\ t.window = s.window /\ t.missed = s.missed /\ t.blocks = s.blocks /\ ~t.overrun
      BY <1>2 DEF Process
    <2>5. t.draw = "time" => t.length = Length(t.bar)
      BY <1>2 DEF Process
    <2> HIDE DEF t
    <2>6. t.window # NoTerminal /\ ~t.missed => t.bar.cols = Columns(t.window, 0)
      BY <1>1, <1>2, <2>4 DEF ProcessInv, BarInv
    <2>7. ProcessInv(t)
      BY <1>1, <1>2, <2>3, <2>4, <2>5, <2>6, DrawnInv
    <2>8. QED
      BY <1>1, <1>4, <2>4, <2>7, SamePlace, LocalStep
  <1>5. QED
    BY <1>3, <1>4 DEF DrawBar

\* Placing the time, or dying of that.
LEMMA PlaceTimeStep == ASSUME SessionInv, NEW p \in Procs, PlaceTime(p) PROVE SessionInv'
  <1>1. /\ ProcessInv(proc[p]) /\ Place(p, proc[p], owner, firmware, plugged) /\ proc[p].draw = "time"
    BY DEF SessionInv, PlaceTime
  <1>2. proc[p].bar.on /\ proc[p].pc # "exited" /\ proc[p] \in Process /\ proc[p].exit = "none"
    BY <1>1 DEF ProcessInv, BarInv
  <1>3. PICK digits \in TimeDigits :
          LET overrun == TimeOverruns(proc[p].bar, proc[p].length, digits)
              s == [proc[p] EXCEPT !.draw = "none", !.length = 0,
                                   !.overrun = overrun, !.raced = @ /\ overrun]
          IN Local(p, s) \/ (s.overrun /\ End(p, s, "died"))
    BY DEF PlaceTime
  <1> DEFINE overrun == TimeOverruns(proc[p].bar, proc[p].length, digits)
             raced == proc[p].raced /\ overrun
             s == [proc[p] EXCEPT !.draw = "none", !.length = 0, !.overrun = overrun, !.raced = raced]
  <1>4. overrun \in BOOLEAN /\ raced \in BOOLEAN
    BY DEF TimeOverruns
  <1>5. Local(p, s) \/ (s.overrun /\ End(p, s, "died"))
    BY <1>2, <1>3 DEF Process
  <1> HIDE DEF overrun, raced
  <1>6. 0 \in 0..MaxString
    BY BarAssumption
  <1>7. s \in Process
    BY <1>2, <1>4, <1>6 DEF Process
  <1>8. /\ s.pc = proc[p].pc /\ s.held = proc[p].held /\ s.bus = proc[p].bus /\ s.left = proc[p].left
        /\ s.command = proc[p].command /\ s.exit = proc[p].exit /\ s.releases = proc[p].releases
        /\ s.fault = proc[p].fault /\ s.bar = proc[p].bar /\ s.window = proc[p].window
        /\ s.missed = proc[p].missed /\ s.blocks = proc[p].blocks /\ s.draw = "none"
    BY <1>2 DEF Process
  <1> HIDE DEF s
  <1>9. CASE Local(p, s)
    <2>1. s.window # NoTerminal /\ ~s.missed => s.bar.cols = Columns(s.window, 0)
      BY <1>1, <1>2, <1>8 DEF ProcessInv, BarInv
    <2>2. ProcessInv(s)
      BY <1>1, <1>2, <1>7, <1>8, <2>1, DrawnInv
    <2>3. QED
      BY <1>1, <1>8, <1>9, <2>2, SamePlace, LocalStep
  <1>10. CASE s.overrun /\ End(p, s, "died")
    <2>1. s.command # "listDevices" => s.releases <= 1
      BY <1>1, <1>8 DEF ProcessInv, ClaimInv
    <2>2. ProcessInv(Ended(s, "died"))
      BY <1>2, <1>7, <1>8, <1>10, <2>1, EndedInv
    <2>3. QED
      BY <1>10, <2>2, EndStep
  <1>11. QED
    BY <1>5, <1>9, <1>10

\* The end of a bar.
LEMMA CloseBarStep == ASSUME SessionInv, NEW p \in Procs, CloseBar(p) PROVE SessionInv'
  <1> DEFINE s == [proc[p] EXCEPT !.bar = NoBar, !.missed = FALSE, !.raced = FALSE, !.overrun = FALSE]
             t == IF s.pc = "closeErase" /\ s.command \in Writes THEN StartMoving(s) ELSE Goto(s, "deselect")
  <1>1. At(p, {"closeErase", "close"}) /\ Local(p, t)
    BY DEF CloseBar
  <1>2. /\ ProcessInv(proc[p]) /\ Place(p, proc[p], owner, firmware, plugged)
        /\ proc[p].pc \in {"closeErase", "close"} /\ proc[p].draw = "none"
        /\ firmware.target = proc[p].bus /\ (proc[p].bus = "external" => firmware.reset)
    BY <1>1, WorkingNow DEF SessionInv, Working
  <1>3. s \in Process
    BY <1>2, NoBarType DEF ProcessInv, Process
  <1>4. /\ s.pc = proc[p].pc /\ s.exit = proc[p].exit /\ s.held = proc[p].held
        /\ s.releases = proc[p].releases /\ s.command = proc[p].command /\ s.bus = proc[p].bus
        /\ s.fault = proc[p].fault /\ s.left = proc[p].left /\ ~s.bar.on /\ s.draw = "none"
    BY <1>2 DEF ProcessInv, Process, NoBar
  <1> HIDE DEF s
  <1>5. proc[p].left = 0 /\ proc[p].exit = "none" /\ proc[p].held
        /\ proc[p].command \in {"erase", "read", "sfdp"} \cup Writes
    BY <1>2 DEF ProcessInv, ClaimInv, WorkInv, CommandInv, Working
  <1>6. BarInv(s)
    BY <1>4, <1>5, <1>2 DEF BarInv
  <1>7. ProcessInv(s)
    BY <1>2, <1>3, <1>4, <1>5, <1>6, MoveInv DEF Working
  <1>8. /\ ProcessInv(t) /\ t.bus = s.bus /\ t.held = s.held
        /\ t.pc \in {"failed", "failed1"} \cup Working
    <2>1. CASE s.pc = "closeErase" /\ s.command \in Writes
      BY <1>4, <1>7, <2>1, StartMovingInv
    <2>2. CASE ~(s.pc = "closeErase" /\ s.command \in Writes)
      <3>1. ProcessInv(Goto(s, "deselect"))
        BY <1>2, <1>4, <1>5, <1>7, GotoInv DEF Working
      <3>2. Goto(s, "deselect").held = s.held
        BY <1>3 DEF Goto, Process
      <3>3. QED
        BY <1>7, <2>2, <3>1, <3>2, GotoFields DEF Working
    <2>3. QED
      BY <2>1, <2>2
  <1>9. Place(p, t, owner, firmware, plugged)
    <2>1. owner = p
      BY <1>2, <1>5 DEF Place
    <2> HIDE DEF t
    <2>2. QED
      BY <1>2, <1>4, <1>8, <2>1, OnChip
  <1> HIDE DEF t
  <1>10. QED
    BY <1>1, <1>8, <1>9, LocalStep

\* The terminal is resized.
LEMMA ResizeStep == ASSUME SessionInv, NEW p \in Procs, Resize(p) PROVE SessionInv'
  <1> DEFINE s == proc[p]
  <1>1. PICK width \in Windows \ {NoTerminal, s.window} : Become(p, Resized(s, width))
    BY DEF Resize
  <1> DEFINE cols == IF s.bar.on /\ s.draw # "publish" THEN Columns(width, s.bar.cols) ELSE s.bar.cols
             missed == s.missed \/ s.draw = "publish"
             raced == s.raced \/ s.draw = "time"
             t == [s EXCEPT !.window = width, !.bar.cols = cols, !.missed = missed, !.raced = raced]
  <1>2. ProcessInv(s) /\ Place(p, s, owner, firmware, plugged) /\ s.pc # "exited" /\ s.window # NoTerminal
        /\ s \in Process /\ s.exit = "none"
    BY DEF SessionInv, Resize, ProcessInv
  <1>3. width \in Nat /\ width \in Windows
    BY SessionAssumption
  <1>4. s.bar \in Bar /\ s.bar.cols \in 0..SizeModulus - 1
    BY <1>2 DEF Process, Bar
  <1>5. cols \in 0..SizeModulus - 1
    BY <1>3, <1>4, ColumnsType
  <1>6. t = Resized(s, width)
    BY <1>2 DEF Resized, Process
  <1>7. missed \in BOOLEAN /\ raced \in BOOLEAN
    BY <1>2 DEF Process
  <1>8. s.bar.on /\ s.draw # "publish" => cols = Columns(width, 0)
    BY <1>3, SessionAssumption, BarAssumption DEF Columns
  <1>9. s.draw = "publish" => missed
    OBVIOUS
  <1>10. s.draw = "time" => raced
    OBVIOUS
  <1> HIDE DEF cols, missed, raced
  <1>11. t \in Process
    BY <1>2, <1>3, <1>4, <1>5, <1>7 DEF Process, Bar
  <1>12. /\ t.pc = s.pc /\ t.held = s.held /\ t.bus = s.bus /\ t.left = s.left /\ t.command = s.command
         /\ t.exit = s.exit /\ t.releases = s.releases /\ t.fault = s.fault /\ t.bar.on = s.bar.on
         /\ t.bar.cols = cols /\ t.window = width /\ t.missed = missed /\ t.blocks = s.blocks
         /\ t.draw = s.draw /\ t.overrun = s.overrun /\ t.raced = raced
    BY <1>2, <1>4 DEF Process, Bar
  <1> HIDE DEF t
  <1>13. ClaimInv(t) /\ CommandInv(t) /\ WorkInv(t)
    BY <1>2, <1>12 DEF ProcessInv, ClaimInv, CommandInv, WorkInv, Returned
  <1>14. BarInv(t)
    BY <1>2, <1>8, <1>9, <1>10, <1>12 DEF ProcessInv, BarInv
  <1>15. ProcessInv(t) /\ Place(p, t, owner, firmware, plugged)
    BY <1>2, <1>11, <1>12, <1>13, <1>14, SamePlace DEF ProcessInv
  <1>16. UNCHANGED <<owner, plugged, firmware>> /\ resizes' \in 0..MaxResizes
    BY SessionAssumption DEF Resize, SessionInv
  <1>17. QED
    BY <1>1, <1>6, <1>15, <1>16, Stepping

\* A process is killed.
LEMMA KillStep == ASSUME SessionInv, NEW p \in Procs, Kill(p) PROVE SessionInv'
  <1> DEFINE s == New(NoTerminal)
  <1>1. 0 \in 0..MaxString /\ 0 \in 0..3 + MaxBlocks
    BY SessionAssumption, BarAssumption
  <1>2. s \in Process /\ s.command = "none" /\ ~s.held /\ s.releases = 0
    BY <1>1, NoBarType DEF New, Process
  <1>3. End(p, s, "killed")
    BY DEF Kill
  <1> HIDE DEF s
  <1>4. ProcessInv(Ended(s, "killed"))
    BY <1>2, EndedInv
  <1>5. QED
    BY <1>3, <1>4, EndStep

\* The programmer is unplugged.
LEMMA UnplugStep == ASSUME SessionInv, Unplug PROVE SessionInv'
  BY DEF SessionInv, Unplug, Place

(***************************************************************************)
(* The theorems                                                            *)
(***************************************************************************)
\* Processes that have not started are in their places.
LEMMA InitInv == Init => SessionInv
  <1> SUFFICES ASSUME Init PROVE SessionInv
    OBVIOUS
  <1>1. 0 \in 0..MaxString /\ 0 \in 0..3 + MaxBlocks /\ 0 \in 0..MaxResizes
    BY SessionAssumption, BarAssumption
  <1>2. ASSUME NEW p \in Procs
        PROVE  ProcessInv(proc[p]) /\ Place(p, proc[p], owner, firmware, plugged)
    <2>1. PICK window \in Windows : proc[p] = New(window)
      BY DEF Init
    <2>2. proc[p] \in Process
      BY <1>1, <2>1, NoBarType DEF New, Process
    <2>3. /\ proc[p].pc = "start" /\ proc[p].exit = "none" /\ ~proc[p].held /\ proc[p].releases = 0
          /\ proc[p].command = "none" /\ proc[p].left = 0 /\ ~proc[p].fault /\ proc[p].draw = "none"
          /\ ~proc[p].bar.on
      BY <2>1 DEF New, NoBar
    <2>4. ClaimInv(proc[p]) /\ CommandInv(proc[p]) /\ WorkInv(proc[p]) /\ BarInv(proc[p])
      BY <2>3 DEF ClaimInv, CommandInv, WorkInv, BarInv, Before, Preparing, Listing, Working, Writes, Returned, Transfers, Releases
    <2>5. QED
      BY <2>2, <2>3, <2>4 DEF ProcessInv, Place, Working, Returned
  <1>3. QED
    BY <1>1, <1>2 DEF Init, SessionInv

\* Every step keeps every process in its place.
LEMMA NextInv == SessionInv /\ [Next]_vars => SessionInv'
  <1> SUFFICES ASSUME SessionInv, [Next]_vars PROVE SessionInv'
    OBVIOUS
  <1>1. ASSUME NEW p \in Procs, Step(p)
        PROVE  SessionInv'
    BY <1>1, BeginStep, ClaimStep, OpenFileStep, ReleaseStep, RequestCountStep, ListDeviceStep,
       ReadChipInfoStep, AbortStep, TargetDeviceStep, DeselectStep, RequestEraseStep, PollEraseStep,
       RequestMoveStep, BulkStep, VerifyPagesStep, RequestSfdpStep, SfdpBulkStep,
       PublishStep, DrawBarStep, PlaceTimeStep, CloseBarStep, ResizeStep, KillStep DEF Step
  <1>2. CASE UNCHANGED vars
    BY <1>2 DEF vars, SessionInv
  <1>3. QED
    BY <1>1, <1>2, UnplugStep DEF Next

\* The invariant, for any number of processes.
THEOREM SessionInvariant == Spec => []SessionInv
  BY InitInv, NextInv, PTL DEF Spec

\* Every process keeps its type, whatever fails: no counter of a listing or of a
\* release runs out, and no width leaves a size_t.
THEOREM SessionTypes == Spec => []TypeOK
  <1>1. SessionInv => TypeOK
    BY DEF SessionInv, ProcessInv, TypeOK
  <1>2. QED
    BY <1>1, SessionInvariant, PTL

\* Every path of every command gives the interface back (flashprog.cxx's more
\* than twenty calls of releaseInterface).
THEOREM ClaimIsReturned == Spec => []ClaimReturned
  <1>1. SessionInv => ClaimReturned
    BY DEF SessionInv, ProcessInv, Process, ClaimInv, Place, ClaimReturned
  <1>2. QED
    BY <1>1, SessionInvariant, PTL

\* No process cuts into the work of another, however many there are: the chip it
\* targeted stays targeted, and the target board in reset.
THEOREM WorksInIsolation == Spec => []Isolation
  <1>1. SessionInv => Isolation
    BY DEF SessionInv, ProcessInv, ClaimInv, Place, Isolation, Working
  <1>2. QED
    BY <1>1, SessionInvariant, PTL

\* An exit status of 0 is only given when nothing failed and nothing was left.
THEOREM ExitIsTruthful == Spec => []ExitTruth
  <1>1. SessionInv => ExitTruth
    BY DEF SessionInv, ProcessInv, WorkInv, ExitTruth
  <1>2. QED
    BY <1>1, SessionInvariant, PTL

\* Only a failed listing or an undrawable bar makes the process die.
THEOREM DeathIsKnown == Spec => []DeathKnown
  <1>1. SessionInv => DeathKnown
    BY DEF SessionInv, ProcessInv, BarInv, DeathKnown
  <1>2. QED
    BY <1>1, SessionInvariant, PTL

\* The bar follows the terminal, whatever its widths.
THEOREM WidthIsFresh == Spec => []WidthFresh
  <1>1. SessionInv => WidthFresh
    BY DEF SessionInv, ProcessInv, BarInv, WidthFresh
  <1>2. QED
    BY <1>1, SessionInvariant, PTL

(***************************************************************************)
(* What a step may not do                                                  *)
(***************************************************************************)
\* A step of a process moves no other.
LEMMA BecomeAt ==
    ASSUME SessionInv, NEW p \in Procs, NEW t, Become(p, t)
    PROVE  proc'[p] = t /\ \A q \in Procs \ {p} : proc'[q] = proc[q]
  BY DEF SessionInv, Become

\* A process that holds the interface and keeps it has not ended.
LEMMA StillRunning ==
    ASSUME SessionInv, SessionInv', NEW p \in Procs, proc[p].pc # "exited", proc[p].held,
           owner' = owner \/ owner' = p
    PROVE  proc'[p].exit = "none"
  BY DEF SessionInv, Place, ProcessInv

\* The only way to an exit status of 0, but for the process that found no
\* programmer to claim: the release at the end of a command.
LEMMA OnlyRelease ==
    ASSUME SessionInv, SessionInv', NEW p \in Procs, Step(p), proc[p].pc # "exited",
           proc'[p].exit = "0", proc'[p].releases > 0
    PROVE  Release(p)
  <1>1. ProcessInv(proc[p]) /\ proc[p].exit = "none" /\ proc[p] \in Process
    BY DEF SessionInv, ProcessInv
  <1>2. ASSUME NEW command \in Commands, NEW bus \in {"internal", "external"}, Begin(p, command, bus)
        PROVE  FALSE
    <2> DEFINE s == [proc[p] EXCEPT !.command = command, !.bus = bus]
    <2>1. s.releases = 0 /\ s.exit = "none"
      BY <1>1, <1>2 DEF Begin, At, ProcessInv, ClaimInv, Before, Process
    <2>2. End(p, s, "2") \/ End(p, s, "0") \/ Local(p, Goto(s, "claim"))
      BY <1>2 DEF Begin
    <2>3. Goto(s, "claim").exit = "none"
      BY <1>1 DEF Goto, Process
    <2> HIDE DEF s
    <2>4. Ended(s, "2").releases = 0 /\ Ended(s, "0").releases = 0
      BY <2>1 DEF Ended, New
    <2>5. QED
      BY <2>2, <2>3, <2>4, BecomeAt DEF End, Local
  <1>3. CASE Claim(p)
    <2> DEFINE t == [proc[p] EXCEPT !.pc = FirstStep(proc[p].command), !.held = TRUE]
    <2>1. End(p, proc[p], "1") \/ Become(p, t)
      BY <1>3 DEF Claim
    <2>2. t.exit = "none" /\ Ended(proc[p], "1").exit = "1"
      BY <1>1 DEF Process, Ended, New
    <2> HIDE DEF t
    <2>3. QED
      BY <2>1, <2>2, BecomeAt DEF End
  <1>4. CASE ListDevice(p)
    <2> DEFINE s == [proc[p] EXCEPT !.left = @ - 1]
               external == s.blocks = 3 /\ s.left = 0
               fw == IF external THEN Identify(firmware) ELSE firmware
               t == AfterListing(s)
    <2>1. Request(p, fw, {t}, Failing(s, "relist"))
      BY <1>4 DEF ListDevice
    <2>2. t.exit = "none" /\ Failing(s, "relist").exit = "none"
      BY <1>1 DEF AfterListing, Goto, Failing, Process
    <2> HIDE DEF s, fw, t
    <2>3. Become(p, t) \/ Become(p, Failing(s, "relist"))
      BY <2>1 DEF Request
    <2>4. QED
      BY <2>2, <2>3, BecomeAt
  <1>5. ASSUME NEW fw, NEW nexts, NEW broken, Request(p, fw, nexts, broken),
               proc[p].pc \in {"count"} \cup Preparing \cup Working
        PROVE  FALSE
    <2>1. owner' = owner \/ owner' = p
      BY <1>5 DEF Request, Served
    <2>2. proc[p].held
      BY <1>1, <1>5 DEF ProcessInv, ClaimInv
    <2>3. QED
      BY <2>1, <2>2, StillRunning
  <1>6. CASE OpenFile(p) \/ CloseBar(p)
    <2>1. proc[p].pc \in Preparing \cup Working /\ owner' = owner
      BY <1>6 DEF OpenFile, CloseBar, At, Local, Preparing, Working
    <2>2. QED
      BY <1>1, <2>1, StillRunning DEF ProcessInv, ClaimInv
  <1>7. CASE Publish(p)
    <2>1. Become(p, Displayed(proc[p])) /\ Displayed(proc[p]).exit = "none"
      BY <1>1, <1>7 DEF Publish, Local, Displayed, Process
    <2>2. QED
      BY <2>1, BecomeAt
  <1>8. CASE DrawBar(p)
    <2> DEFINE s == proc[p]
               t == [s EXCEPT !.length = IF s.bar.timed THEN Length(s.bar) ELSE 0,
                              !.raced = FALSE, !.overrun = FALSE,
                              !.draw = IF s.bar.timed THEN "time" ELSE "none"]
    <2>1. Become(p, t) \/ Become(p, Ended(s, "died"))
      BY <1>8 DEF DrawBar, Local, End
    <2>2. t.exit = "none" /\ Ended(s, "died").exit = "died"
      BY <1>1 DEF Process, Ended, New
    <2> HIDE DEF t, s
    <2>3. QED
      BY <2>1, <2>2, BecomeAt
  <1>9. CASE PlaceTime(p)
    <2>1. PICK digits \in TimeDigits :
          LET overrun == TimeOverruns(proc[p].bar, proc[p].length, digits)
              s == [proc[p] EXCEPT !.draw = "none", !.length = 0,
                                   !.overrun = overrun, !.raced = @ /\ overrun]
          IN Become(p, s) \/ Become(p, Ended(s, "died"))
      BY <1>9 DEF PlaceTime, Local, End
    <2> DEFINE overrun == TimeOverruns(proc[p].bar, proc[p].length, digits)
               s == [proc[p] EXCEPT !.draw = "none", !.length = 0,
                                    !.overrun = overrun, !.raced = @ /\ overrun]
    <2>2. s.exit = "none" /\ Ended(s, "died").exit = "died"
      BY <1>1 DEF Process, Ended, New
    <2>3. Become(p, s) \/ Become(p, Ended(s, "died"))
      BY <2>1
    <2> HIDE DEF s
    <2>4. QED
      BY <2>2, <2>3, BecomeAt
  <1>10. CASE Resize(p)
    <2>1. PICK width : Become(p, Resized(proc[p], width))
      BY <1>10 DEF Resize
    <2>2. Resized(proc[p], width).exit = "none"
      BY <1>1 DEF Resized, Process
    <2>3. QED
      BY <2>1, <2>2, BecomeAt
  <1>11. CASE Kill(p)
    <2>1. Become(p, Ended(New(NoTerminal), "killed")) /\ Ended(New(NoTerminal), "killed").exit = "killed"
      BY <1>11 DEF Kill, End, Ended, New
    <2>2. QED
      BY <2>1, BecomeAt
  <1>12. \/ RequestCount(p) \/ ReadChipInfo(p) \/ Abort(p) \/ TargetDevice(p) \/ Deselect(p)
         \/ RequestErase(p) \/ PollErase(p) \/ RequestMove(p) \/ Bulk(p) \/ VerifyPages(p)
         \/ RequestSfdp(p) \/ SfdpBulk(p)
         => FALSE
    <2>1. ASSUME NEW pcs, At(p, pcs), pcs \subseteq {"count"} \cup Preparing \cup Working,
                 \E fw, nexts, broken : Request(p, fw, nexts, broken)
          PROVE  FALSE
      BY <1>5, <2>1 DEF At
    <2>2. QED
      BY <2>1 DEF RequestCount, ReadChipInfo, Abort, TargetDevice, Deselect, RequestErase, PollErase,
                  RequestMove, Bulk, VerifyPages, RequestSfdp, SfdpBulk, Preparing, Working
  <1>13. QED
    BY <1>2, <1>3, <1>4, <1>6, <1>7, <1>8, <1>9, <1>10, <1>11, <1>12 DEF Step

\* A command that succeeds leaves no chip targeted, and one that worked on the
\* external chip, or listed all three chips, leaves the target board running,
\* whatever the other processes do meanwhile.  Of one that worked on an internal
\* chip nothing is said: the board may be in reset since power up, or since an
\* external command was killed, and stay there.
THEOREM BoardIsReleased == Spec => BoardReleased
  <1> DEFINE Released(p) ==
        LET s == proc'[p] IN
        proc[p].pc # "exited" /\ s.exit = "0" /\ s.releases > 0 =>
            /\ s.command # "listDevices" => firmware'.target = "none"
            /\ proc[p].bus = "external" \/ (proc[p].blocks = 3 /\ s.command = "listDevices")
                  => ~firmware'.reset
  <1>1. ASSUME SessionInv, SessionInv', [Next]_vars, NEW p \in Procs,
               proc[p].pc # "exited", proc'[p].exit = "0", proc'[p].releases > 0
        PROVE  /\ proc'[p].command # "listDevices" => firmware'.target = "none"
               /\ proc[p].bus = "external" \/ (proc[p].blocks = 3 /\ proc'[p].command = "listDevices")
                     => ~firmware'.reset
    <2>1. /\ ProcessInv(proc[p]) /\ Place(p, proc[p], owner, firmware, plugged)
          /\ proc[p].exit = "none" /\ proc[p] \in Process
      BY <1>1 DEF SessionInv, ProcessInv
    <2>2. ASSUME NEW q \in Procs, Step(q)
          PROVE  Release(p)
      <3>1. CASE q = p
        BY <1>1, <2>2, <3>1, OnlyRelease
      <3>2. CASE q # p
        <4>1. \E t : Become(q, t)
          BY <2>2 DEF Step, Begin, Claim, OpenFile, Release, RequestCount, ListDevice, ReadChipInfo, Abort,
                      TargetDevice, Deselect, RequestErase, PollErase, RequestMove, Bulk, VerifyPages,
                      RequestSfdp, SfdpBulk, Publish, DrawBar, PlaceTime, CloseBar, Resize, Kill,
                      Request, Local, End
        <4>2. proc'[p] = proc[p]
          BY <1>1, <3>2, <4>1, BecomeAt
        <4>3. QED
          BY <1>1, <2>1, <4>2
      <3>3. QED
        BY <3>1, <3>2
    <2>3. Release(p)
      BY <1>1, <2>1, <2>2 DEF Next, Unplug, vars
    <2> DEFINE s == [proc[p] EXCEPT !.releases = @ + 1]
               free == [s EXCEPT !.held = FALSE]
               t == AfterListing(free)
    <2>4. /\ Ended(s, "1").exit = "1" /\ Ended(s, "2").exit = "2" /\ Ended(s, "died").exit = "died"
          /\ Ended(free, "1").exit = "1" /\ Ended(free, "died").exit = "died"
      BY DEF Ended, New
    <2>5. t.exit = "none" /\ s.held = proc[p].held /\ s.pc = proc[p].pc /\ s.command = proc[p].command
          /\ free.command = proc[p].command
      BY <2>1 DEF AfterListing, Goto, Process
    <2>6. Ended(free, "0").command = free.command
      BY DEF Ended, New
    <2>7. \/ Become(p, Ended(s, "1")) \/ Become(p, Ended(s, "2")) \/ Become(p, Ended(s, "died"))
          \/ Become(p, Ended(free, "1")) \/ Become(p, Ended(free, "died")) \/ Become(p, t)
          \/ (proc[p].held /\ proc[p].pc = "finish" /\ Become(p, Ended(free, "0")) /\ firmware' = firmware)
      <3> HIDE DEF t
      <3>1. \/ Become(p, Ended(s, "1")) \/ Become(p, Ended(s, "2")) \/ Become(p, Ended(s, "died"))
            \/ Become(p, Ended(free, "1")) \/ Become(p, Ended(free, "died")) \/ Become(p, t)
            \/ (s.held /\ s.pc = "finish" /\ Become(p, Ended(free, "0")) /\ firmware' = firmware)
        BY <2>3 DEF Release, Releases, End, t
      <3>2. QED
        BY <2>5, <3>1
    <2> HIDE DEF s, free, t
    <2>8. /\ proc[p].held /\ proc[p].pc = "finish" /\ firmware' = firmware
          /\ proc'[p].command = proc[p].command
      BY <1>1, <2>4, <2>5, <2>6, <2>7, BecomeAt
    <2>9. proc[p].left = 0 /\ (proc[p].command = "listDevices" => proc[p].bus = "internal")
      BY <2>1, <2>8 DEF ProcessInv, WorkInv, CommandInv
    <2>10. QED
      BY <2>1, <2>8, <2>9 DEF Place
  <1>2. SessionInv /\ SessionInv' /\ [Next]_vars => [\A p \in Procs : Released(p)]_vars
    BY <1>1
  <1> HIDE DEF Released
  <1>3. Spec => [][\A p \in Procs : Released(p)]_vars
    BY <1>2, SessionInvariant, PTL DEF Spec
  <1>4. QED
    BY <1>3 DEF BoardReleased, Released

\* A time drawn in a window that has room for it and was not resized meanwhile
\* stays inside its bar.
LEMMA TimeFitsIn ==
    ASSUME NEW bar \in Bar, NEW digits \in Nat, bar.cols - Decoration(bar) >= digits
    PROVE  ~TimeOverruns(bar, Length(bar), digits)
  <1> DEFINE room == bar.cols - Decoration(bar)
  <1>1. bar.cols \in 0..SizeModulus - 1 /\ Decoration(bar) \in Nat
    BY DEF Bar, Decoration
  <1>2. room \in 0..SizeModulus - 1 /\ room - digits \in 0..SizeModulus - 1 /\ digits <= room
    BY <1>1, BarAssumption
  <1> HIDE DEF room
  <1>3. ASSUME NEW n \in 0..SizeModulus - 1
        PROVE  n % SizeModulus = n
    BY BarAssumption
  <1>4. (bar.cols - Decoration(bar)) % SizeModulus = room
    BY <1>2, <1>3 DEF room
  <1>5. (bar.cols - Decoration(bar) - digits) % SizeModulus = room - digits
    BY <1>2, <1>3 DEF room
  <1>6. ((room - digits) \div 2) + digits <= room
    BY <1>2, BarAssumption
  <1>7. Length(bar) = (IF room = 0 THEN 1 ELSE room) /\ TimeOffset(bar, digits) = (room - digits) \div 2
    BY <1>4, <1>5 DEF Length, TimeOffset
  <1>8. Length(bar) >= room
    BY <1>2, <1>7, BarAssumption
  <1>9. TimeOffset(bar, digits) + digits <= Length(bar)
    BY <1>2, <1>6, <1>7, <1>8, BarAssumption
  <1>10. TimeOffset(bar, digits) \in Int /\ Length(bar) \in Int
    BY <1>2, <1>7, BarAssumption
  <1>11. QED
    BY <1>9, <1>10 DEF TimeOverruns

\* What the steps of a command make of its record leaves the history of its bar.
LEMMA SameOverrun ==
    ASSUME NEW s \in Process
    PROVE  /\ \A next : Goto(s, next).overrun = s.overrun /\ Failing(s, next).overrun = s.overrun
           /\ Displayed(s).overrun = s.overrun /\ NextBlock(s).overrun = s.overrun
           /\ \A next : Displayed(Goto(s, next)).overrun = s.overrun
           /\ StartMoving(s).overrun = s.overrun
           /\ \A kind, n : Sized(s, kind, n).overrun = s.overrun
           /\ \A code : Ended(s, code).overrun = s.overrun
  BY DEF Goto, Failing, Displayed, NextBlock, Constructed, StartMoving, Sized, Ended, New, Process

\* The outcomes of a request leave it too.
LEMMA RequestOverrun ==
    ASSUME SessionInv, NEW p \in Procs, NEW fw, NEW nexts, NEW broken, Request(p, fw, nexts, broken),
           broken.overrun = proc[p].overrun, \A t \in nexts : t.overrun = proc[p].overrun
    PROVE  proc'[p].overrun = proc[p].overrun
  BY BecomeAt DEF Request

\* Only the placing of the time can miss the bar.
LEMMA OnlyPlaceTime ==
    ASSUME SessionInv, NEW p \in Procs, Step(p), ~proc[p].overrun, proc'[p].overrun
    PROVE  PlaceTime(p)
  <1>1. proc[p] \in Process
    BY DEF SessionInv, ProcessInv
  <1>2. ASSUME NEW command \in Commands, NEW bus \in {"internal", "external"}, Begin(p, command, bus)
        PROVE  FALSE
    <2> DEFINE s == [proc[p] EXCEPT !.command = command, !.bus = bus]
    <2>1. End(p, s, "2") \/ End(p, s, "0") \/ Local(p, Goto(s, "claim"))
      BY <1>2 DEF Begin
    <2>2. ~s.overrun /\ Goto(s, "claim").overrun = s.overrun
      BY <1>1 DEF Goto, Process
    <2> HIDE DEF s
    <2>3. \A code : Ended(s, code).overrun = s.overrun
      BY DEF Ended, New
    <2>4. QED
      BY <2>1, <2>2, <2>3, BecomeAt DEF End, Local
  <1>3. CASE Claim(p)
    <2> DEFINE t == [proc[p] EXCEPT !.pc = FirstStep(proc[p].command), !.held = TRUE]
    <2>1. Become(p, Ended(proc[p], "1")) \/ Become(p, t)
      BY <1>3 DEF Claim, End
    <2>2. t.overrun = proc[p].overrun /\ Ended(proc[p], "1").overrun = proc[p].overrun
      BY <1>1, SameOverrun DEF Process
    <2> HIDE DEF t
    <2>3. QED
      BY <2>1, <2>2, BecomeAt
  <1>4. CASE OpenFile(p)
    BY <1>1, <1>4, SameOverrun, BecomeAt DEF OpenFile, Local
  <1>5. CASE Release(p)
    <2> DEFINE s == [proc[p] EXCEPT !.releases = @ + 1]
               free == [s EXCEPT !.held = FALSE]
               t == AfterListing(free)
    <2>1. ~s.overrun /\ ~free.overrun /\ ~t.overrun
      BY <1>1 DEF AfterListing, Goto, Process
    <2> HIDE DEF t
    <2>2. (\E code : Become(p, Ended(s, code)) \/ Become(p, Ended(free, code))) \/ Become(p, t)
      BY <1>5 DEF Release, Releases, End, t
    <2>3. \A code : Ended(s, code).overrun = s.overrun /\ Ended(free, code).overrun = free.overrun
      BY DEF Ended, New
    <2> HIDE DEF s, free
    <2>4. QED
      BY <2>1, <2>2, <2>3, BecomeAt
  <1>6. CASE RequestCount(p)
    <2> DEFINE nexts == {[proc[p] EXCEPT !.pc = "listing", !.blocks = n, !.left = n] : n \in {2, 3}}
    <2>1. Request(p, Identify(firmware), nexts, Failing(proc[p], "failed1"))
      BY <1>6 DEF RequestCount
    <2>2. \A t \in nexts : t.overrun = proc[p].overrun
      BY <1>1 DEF Process
    <2> HIDE DEF nexts
    <2>3. QED
      BY <1>1, <2>1, <2>2, SameOverrun, RequestOverrun
  <1>7. CASE ListDevice(p)
    <2> DEFINE s == [proc[p] EXCEPT !.left = @ - 1]
               t == AfterListing(s)
               fw == IF s.blocks = 3 /\ s.left = 0 THEN Identify(firmware) ELSE firmware
               nexts == {t}
    <2>1. Request(p, fw, nexts, Failing(s, "relist"))
      BY <1>7 DEF ListDevice
    <2>2. t.overrun = proc[p].overrun /\ Failing(s, "relist").overrun = proc[p].overrun
      BY <1>1 DEF AfterListing, Goto, Failing, Process
    <2> HIDE DEF fw, s, t
    <2>3. \A r \in nexts : r.overrun = proc[p].overrun
      BY <2>2
    <2> HIDE DEF nexts
    <2>4. QED
      BY <2>1, <2>2, <2>3, RequestOverrun
  <1>8. CASE ReadChipInfo(p)
    <2> DEFINE fw == IF proc[p].bus = "external" THEN Identify(firmware) ELSE firmware
    <2>1. Request(p, fw, Sizes(proc[p]), Failing(proc[p], "thrown"))
      BY <1>8 DEF ReadChipInfo
    <2>2. \A t \in Sizes(proc[p]) : t.overrun = proc[p].overrun
      BY <1>1, SameOverrun DEF Sizes
    <2> HIDE DEF fw
    <2>3. QED
      BY <1>1, <2>1, <2>2, SameOverrun, RequestOverrun
  <1>9. ASSUME NEW fw, NEW nexts, Request(p, fw, nexts, Failing(proc[p], "failed")),
               \A t \in nexts : t.overrun = proc[p].overrun
        PROVE  FALSE
    BY <1>1, <1>9, SameOverrun, RequestOverrun
  <1>10. CASE Abort(p)
    <2> DEFINE nexts == {Goto(proc[p], "target")}
    <2>1. \E fw : Request(p, fw, nexts, Failing(proc[p], "failed"))
      BY <1>10 DEF Abort
    <2>2. \A t \in nexts : t.overrun = proc[p].overrun
      BY <1>1, SameOverrun
    <2> HIDE DEF nexts
    <2>3. QED
      BY <1>9, <2>1, <2>2
  <1>11. CASE TargetDevice(p)
    <2> DEFINE s == proc[p]
               nexts == CASE s.command = "erase" -> {Constructed(Goto(s, "eraseReq"), TRUE, FALSE)}
                          [] s.command \in Writes -> {Constructed(Goto(s, "eraseReq"), FALSE, s.blocks = 0)}
                          [] s.command = "read" -> {StartMoving(s)}
                          [] OTHER -> {[s EXCEPT !.pc = "sfdpReq", !.left = n] : n \in 1..MaxBlocks + 1}
               fw == [target |-> s.bus, reset |-> firmware.reset \/ s.bus = "external"]
    <2>1. Request(p, fw, nexts, Failing(s, "failed"))
      BY <1>11 DEF TargetDevice
    <2>2. \A n : [s EXCEPT !.pc = "sfdpReq", !.left = n].overrun = s.overrun
      BY <1>1 DEF Process
    <2>3. \A t \in nexts : t.overrun = s.overrun
      <3>1. CASE s.command = "erase"
        <4>1. nexts = {Constructed(Goto(s, "eraseReq"), TRUE, FALSE)}
          BY <3>1 DEF Writes
        <4>2. QED
          BY <1>1, <4>1 DEF Constructed, Goto, Process
      <3>2. CASE s.command \in Writes
        <4>1. nexts = {Constructed(Goto(s, "eraseReq"), FALSE, s.blocks = 0)}
          BY <3>2 DEF Writes
        <4>2. QED
          BY <1>1, <4>1 DEF Constructed, Goto, Process
      <3>3. CASE s.command = "read"
        BY <1>1, <3>3, SameOverrun DEF Writes
      <3>4. CASE s.command \notin {"erase", "read"} \cup Writes
        BY <2>2, <3>4
      <3>5. QED
        BY <3>1, <3>2, <3>3, <3>4
    <2> HIDE DEF nexts, fw
    <2>4. QED
      BY <1>9, <2>1, <2>3
  <1>12. CASE Deselect(p)
    <2> DEFINE nexts == {Goto(proc[p], "finish")}
    <2>1. \E fw : Request(p, fw, nexts, Failing(proc[p], "failed"))
      BY <1>12 DEF Deselect
    <2>2. \A t \in nexts : t.overrun = proc[p].overrun
      BY <1>1, SameOverrun
    <2> HIDE DEF nexts
    <2>3. QED
      BY <1>9, <2>1, <2>2
  <1>13. CASE RequestErase(p)
    <2> DEFINE s == Goto(proc[p], "poll")
               nexts == {IF s.command = "erase" THEN Displayed(s) ELSE s}
    <2>1. Request(p, firmware, nexts, Failing(proc[p], "failed"))
      BY <1>13 DEF RequestErase
    <2>2. \A t \in nexts : t.overrun = proc[p].overrun
      BY <1>1, SameOverrun
    <2> HIDE DEF nexts
    <2>3. QED
      BY <1>9, <2>1, <2>2
  <1>14. CASE PollErase(p)
    <2> DEFINE s == Displayed(proc[p])
               nexts == {s} \cup {[s EXCEPT !.pc = "closeErase", !.good = good] : good \in BOOLEAN}
    <2>1. Request(p, firmware, nexts, Failing(proc[p], "failed"))
      BY <1>14 DEF PollErase
    <2>2. \A t \in nexts : t.overrun = proc[p].overrun
      BY <1>1 DEF Displayed, Process
    <2> HIDE DEF nexts
    <2>3. QED
      BY <1>9, <2>1, <2>2
  <1>15. CASE RequestMove(p) \/ RequestSfdp(p)
    <2>1. PICK next : Request(p, firmware, {Goto(proc[p], next)}, Failing(proc[p], "failed"))
      BY <1>15 DEF RequestMove, RequestSfdp
    <2> DEFINE nexts == {Goto(proc[p], next)}
    <2>2. Request(p, firmware, nexts, Failing(proc[p], "failed")) /\ \A t \in nexts : t.overrun = proc[p].overrun
      BY <1>1, <2>1, SameOverrun
    <2> HIDE DEF nexts
    <2>3. QED
      BY <1>9, <2>2
  <1>16. CASE Bulk(p)
    <2> DEFINE s == proc[p]
               verified == s.command = "verifiedWrite" /\ s.kind = "normal"
               nexts == {IF verified THEN Goto(s, "verify") ELSE NextBlock(s)}
    <2>1. Request(p, firmware, nexts, Failing(s, "failed"))
      BY <1>16 DEF Bulk
    <2>2. \A t \in nexts : t.overrun = s.overrun
      BY <1>1, SameOverrun
    <2> HIDE DEF nexts
    <2>3. QED
      BY <1>9, <2>1, <2>2
  <1>17. CASE VerifyPages(p)
    <2> DEFINE nexts == {NextBlock(proc[p]), Failing(proc[p], "failed")}
    <2>1. Request(p, firmware, nexts, Failing(proc[p], "failed"))
      BY <1>17 DEF VerifyPages
    <2>2. \A t \in nexts : t.overrun = proc[p].overrun
      BY <1>1, SameOverrun
    <2> HIDE DEF nexts
    <2>3. QED
      BY <1>9, <2>1, <2>2
  <1>18. CASE SfdpBulk(p)
    <2> DEFINE s == [proc[p] EXCEPT !.left = @ - 1]
               next == IF s.left = 0 THEN "deselect" ELSE "sfdpReq"
               nexts == {Goto(s, next)}
    <2>1. Request(p, firmware, nexts, Failing(proc[p], "failed"))
      BY <1>18 DEF SfdpBulk
    <2>2. \A t \in nexts : t.overrun = proc[p].overrun
      BY <1>1 DEF Goto, Process
    <2> HIDE DEF nexts
    <2>3. QED
      BY <1>9, <2>1, <2>2
  <1>19. CASE Publish(p)
    BY <1>1, <1>19, SameOverrun, BecomeAt DEF Publish, Local
  <1>20. CASE DrawBar(p)
    <2> DEFINE s == proc[p]
               t == [s EXCEPT !.length = IF s.bar.timed THEN Length(s.bar) ELSE 0,
                              !.raced = FALSE, !.overrun = FALSE,
                              !.draw = IF s.bar.timed THEN "time" ELSE "none"]
    <2>1. Become(p, t) \/ Become(p, Ended(s, "died"))
      BY <1>20 DEF DrawBar, Local, End
    <2>2. ~t.overrun /\ ~Ended(s, "died").overrun
      BY <1>1, SameOverrun DEF Process
    <2> HIDE DEF t, s
    <2>3. QED
      BY <2>1, <2>2, BecomeAt
  <1>21. CASE CloseBar(p)
    <2> DEFINE s == [proc[p] EXCEPT !.bar = NoBar, !.missed = FALSE, !.raced = FALSE, !.overrun = FALSE]
    <2>1. s \in Process /\ ~s.overrun
      BY ZenonT(40), <1>1, NoBarType DEF Process
    <2>2. Become(p, StartMoving(s)) \/ Become(p, Goto(s, "deselect"))
      BY <1>21 DEF CloseBar, Local
    <2> HIDE DEF s
    <2>3. QED
      BY <2>1, <2>2, SameOverrun, BecomeAt
  <1>22. CASE Resize(p)
    <2>1. PICK width : Become(p, Resized(proc[p], width))
      BY <1>22 DEF Resize
    <2>2. Resized(proc[p], width).overrun = proc[p].overrun
      BY <1>1 DEF Resized, Process
    <2>3. QED
      BY <2>1, <2>2, BecomeAt
  <1>23. CASE Kill(p)
    <2>1. Become(p, Ended(New(NoTerminal), "killed")) /\ ~Ended(New(NoTerminal), "killed").overrun
      BY <1>23 DEF Kill, End, Ended, New
    <2>2. QED
      BY <2>1, BecomeAt
  <1>24. QED
    BY <1>2, <1>3, <1>4, <1>5, <1>6, <1>7, <1>8, <1>10, <1>11, <1>12, <1>13, <1>14, <1>15, <1>16, <1>17,
       <1>18, <1>19, <1>20, <1>21, <1>22, <1>23 DEF Step

\* In a terminal wide enough for it the elapsed time is always written inside
\* the bar's string, unless the terminal is resized between display's two reads
\* of the width: for every width and every number of digits.
THEOREM TimeIsInside == Spec => TimeFits
  <1> DEFINE Inside(p) ==
        LET s == proc'[p] IN
        ~proc[p].overrun /\ s.overrun =>
            s.raced \/ \E digits \in TimeDigits : s.bar.cols - Decoration(s.bar) < digits
  <1>1. ASSUME SessionInv, [Next]_vars, NEW p \in Procs, ~proc[p].overrun, proc'[p].overrun
        PROVE  proc'[p].raced \/ \E digits \in TimeDigits : proc'[p].bar.cols - Decoration(proc'[p].bar) < digits
    <2>1. ProcessInv(proc[p]) /\ proc[p] \in Process
      BY <1>1 DEF SessionInv, ProcessInv
    <2>2. ASSUME NEW q \in Procs, Step(q)
          PROVE  PlaceTime(p)
      <3>1. CASE q = p
        BY <1>1, <2>2, <3>1, OnlyPlaceTime
      <3>2. CASE q # p
        <4>1. \E t : Become(q, t)
          BY <2>2 DEF Step, Begin, Claim, OpenFile, Release, RequestCount, ListDevice, ReadChipInfo, Abort,
                      TargetDevice, Deselect, RequestErase, PollErase, RequestMove, Bulk, VerifyPages,
                      RequestSfdp, SfdpBulk, Publish, DrawBar, PlaceTime, CloseBar, Resize, Kill,
                      Request, Local, End
        <4>2. proc'[p] = proc[p]
          BY <1>1, <3>2, <4>1, BecomeAt
        <4>3. QED
          BY <1>1, <4>2
      <3>3. QED
        BY <3>1, <3>2
    <2>3. PlaceTime(p)
      BY <1>1, <2>2 DEF Next, Unplug, vars
    <2>4. PICK digits \in TimeDigits :
          LET overrun == TimeOverruns(proc[p].bar, proc[p].length, digits)
              s == [proc[p] EXCEPT !.draw = "none", !.length = 0,
                                   !.overrun = overrun, !.raced = @ /\ overrun]
          IN Become(p, s) \/ Become(p, Ended(s, "died"))
      BY <2>3 DEF PlaceTime, Local, End
    <2> DEFINE overrun == TimeOverruns(proc[p].bar, proc[p].length, digits)
               s == [proc[p] EXCEPT !.draw = "none", !.length = 0,
                                    !.overrun = overrun, !.raced = @ /\ overrun]
    <2>5. s.overrun = overrun /\ s.bar = proc[p].bar /\ (proc[p].raced /\ overrun => s.raced)
      BY <2>1 DEF Process
    <2>6. proc'[p] = s \/ proc'[p] = Ended(s, "died")
      BY <1>1, <2>4, BecomeAt
    <2> HIDE DEF s
    <2>7. Ended(s, "died").overrun = s.overrun /\ Ended(s, "died").bar = s.bar /\ Ended(s, "died").raced = s.raced
      BY DEF Ended, New
    <2>8. overrun /\ proc'[p].bar = proc[p].bar /\ (proc[p].raced => proc'[p].raced)
      BY <1>1, <2>5, <2>6, <2>7
    <2>9. proc[p].raced \/ proc[p].length = Length(proc[p].bar)
      BY <2>1, <2>3 DEF PlaceTime, ProcessInv, BarInv
    <2>10. digits \in Nat /\ proc[p].bar \in Bar
      BY <2>1, SessionAssumption DEF Process
    <2>11. CASE ~proc[p].raced
      <3>1. ~(proc[p].bar.cols - Decoration(proc[p].bar) >= digits)
        BY <2>8, <2>9, <2>10, <2>11, TimeFitsIn
      <3>2. proc[p].bar.cols - Decoration(proc[p].bar) \in Int
        BY <2>10, BarAssumption DEF Bar, Decoration
      <3>3. proc[p].bar.cols - Decoration(proc[p].bar) < digits
        BY <2>10, <3>1, <3>2
      <3>4. QED
        BY <2>8, <3>3
    <2>12. QED
      BY <2>8, <2>11
  <1>2. SessionInv /\ [Next]_vars => [\A p \in Procs : Inside(p)]_vars
    BY <1>1
  <1> HIDE DEF Inside
  <1>3. Spec => [][\A p \in Procs : Inside(p)]_vars
    BY <1>2, SessionInvariant, PTL DEF Spec
  <1>4. QED
    BY <1>3 DEF TimeFits, Inside
=============================================================================
