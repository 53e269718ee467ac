-------------------------- MODULE ChipParamsProofs --------------------------
(***************************************************************************)
(* The bus clocks of ChipParams, for every chip and every frequency; the   *)
(* listing a command goes by; and the numbers, which are powers of two.    *)
(* The first invariants say where in a command the external bus may be     *)
(* fast and whose parameters the host holds, which rests on the order of   *)
(* the requests that are still to come.  The second part is arithmetic:    *)
(* that a chip's sizes fit their types, that the host's blocks tile the    *)
(* device and that both readings of an SFDP table agree.                   *)
(***************************************************************************)
EXTENDS ChipParams, SequenceTheorems, NaturalsInduction, WellFoundedInduction, TLAPS

(* The divider ***********************************************************)
\* What a clock register takes.
Dividers == {d \in 2..254 : d % 2 = 0}

\* The divider of any speed a byte can ask for is one of them.
LEMMA DividerRange == ASSUME NEW mhz \in 0..255 PROVE Divider(mhz) \in Dividers
<1> USE DEF Dividers
<1>1. CASE mhz > 40
  BY <1>1 DEF Divider
<1>2. CASE mhz = 0
  BY <1>2 DEF Divider
<1>3. CASE mhz \in 1..40
  <2>1. Divider(mhz) = 2 * ((80 \div mhz) \div 2)
    BY <1>3 DEF Divider
  <2>2. 80 \div mhz \in 2..80
    BY <1>3
  <2> DEFINE half == (80 \div mhz) \div 2
  <2>3. \A x \in 2..80 : x \div 2 \in 1..40
    OBVIOUS
  <2>4. half \in 1..40
    BY <2>2, <2>3
  <2> HIDE DEF half
  <2> QED
    BY <2>1, <2>4 DEF half
<1> QED
  BY <1>1, <1>2, <1>3

\* The speeds findChip hands out are bytes.
LEMMA SpeedByte == ASSUME NEW chip PROVE FindChip(chip).chipSpeedMHz \in 0..255
<1>1. CASE Known(chip) # {}
  <2>1. FindChip(chip) \in Manufacturers
    BY <1>1 DEF FindChip, Known
  <2> QED
    BY <2>1 DEF Manufacturers, Entry
<1>2. CASE Known(chip) = {} /\ BasicTables(chip) # {}
  BY <1>2 DEF FindChip, ReadSFDP, Entry
<1>3. CASE Known(chip) = {} /\ BasicTables(chip) = {}
  BY <1>3 DEF FindChip, Fallback, Entry
<1> QED
  BY <1>1, <1>2, <1>3

\* findChip leaves a legal divider, that of the chip if it says a speed at all.
LEMMA FindClockRight ==
    ASSUME NEW chip, NEW divider \in Dividers
    PROVE  /\ FindClock(chip, divider) \in Dividers
           /\ FindChip(chip).chipSpeedMHz # 0 =>
                  FindClock(chip, divider) = Divider(FindChip(chip).chipSpeedMHz)
<1>1. CASE Known(chip) # {}
  <2>1. FindClock(chip, divider) = Divider(FindChip(chip).chipSpeedMHz)
    BY <1>1 DEF FindClock
  <2>2. Divider(FindChip(chip).chipSpeedMHz) \in Dividers
    BY SpeedByte, DividerRange
  <2> QED
    BY <2>1, <2>2
<1>2. CASE Known(chip) = {} /\ BasicTables(chip) # {}
  <2>1. chip.sfdp # <<>>
    BY <1>2 DEF BasicTables
  <2>2. FindClock(chip, divider) = Divider(50) /\ FindChip(chip).chipSpeedMHz = 50
    BY <1>2, <2>1 DEF FindClock, FindChip, ReadSFDP, Entry
  <2>3. Divider(50) \in Dividers
    BY DEF Divider, Dividers
  <2> QED
    BY <2>2, <2>3
<1>3. CASE Known(chip) = {} /\ BasicTables(chip) = {}
  <2>1. FindChip(chip).chipSpeedMHz = 0
    BY <1>3 DEF FindChip, Fallback, Entry
  <2>2. FindClock(chip, divider) \in {Divider(50), divider}
    BY <1>3 DEF FindClock
  <2>3. Divider(50) \in Dividers
    BY DEF Divider, Dividers
  <2> QED
    BY <2>1, <2>2, <2>3
<1> QED
  BY <1>1, <1>2, <1>3

(* The invariant *********************************************************)
Requests == [op: {"count", "list", "abort", "target", "work", "release"}, bus: Buses]

\* The requests that may come right after a request.
Follows == [count |-> {"list"}, list |-> {"list", "abort"}, abort |-> {"target"},
            target |-> {"work"}, work |-> {"release"}, release |-> {}]

\* What is still to be requested is the rest of a script, and all of it but the
\* listings is for one bus.
OrderInv ==
    /\ requests \in Seq(Requests)
    /\ \A i \in 1..Len(requests) :
          /\ requests[i].op \notin {"list", "release"} => i < Len(requests)
          /\ i < Len(requests) => requests[i + 1].op \in Follows[requests[i].op]
          /\ i < Len(requests) /\ requests[i + 1].op # "list" =>
                requests[i + 1].bus = requests[i].bus

\* From one command to the next the external bus is slow; it may be fast only
\* between the targeting of a chip and its release.
SlowInv ==
    /\ clock \in [Buses -> Dividers] /\ quiet \in BOOLEAN
    /\ quiet => clock["external"] = 160 \/ Asked("work") \/ Asked("release")

ClockInv == OrderInv /\ SlowInv /\ WorksAtClock

\* 0 MHz stands for 500 kHz.
LEMMA SlowDivider == Divider(0) = 160
BY DEF Divider

\* The reset leaves the external bus at 500 kHz.
LEMMA ResetClocksRight == ResetClocks \in [Buses -> Dividers] /\ ResetClocks["external"] = 160
<1>1. Divider(40) \in Dividers /\ Divider(0) \in Dividers
  BY DividerRange
<1> QED
  BY <1>1, SlowDivider DEF ResetClocks, Buses

\* A request of a known kind on one of the two buses.
LEMMA RequestType ==
    ASSUME NEW op \in {"count", "list", "abort", "target", "work", "release"}, NEW bus \in Buses
    PROVE  Request(op, bus) \in Requests
BY DEF Request, Requests

\* Every script keeps the order.
LEMMA ScriptOrder ==
    ASSUME NEW command \in Commands, NEW bus \in Buses, requests' = Script(command, bus)
    PROVE  OrderInv' /\ requests' # <<>> /\ ~Asked("work")' /\ ~Asked("release")'
<1> USE DEF OrderInv, Asked, Follows
<1> DEFINE op(i) == requests'[i].op
<1>1. CASE command = "listDevices"
  <2>1. requests' = <<Request("count", bus), Request("list", "internal"),
                      Request("list", "internal"), Request("list", "external")>>
    BY <1>1 DEF Script
  <2>2. Len(requests') = 4 /\ requests' \in Seq(Requests)
    BY <2>1, RequestType DEF Buses
  <2>3. op(1) = "count" /\ op(2) = "list" /\ op(3) = "list" /\ op(4) = "list"
    BY <2>1 DEF Request
  <2>4. \A i \in 1..4 : i = 1 \/ i = 2 \/ i = 3 \/ i = 4
    OBVIOUS
  <2>5. OrderInv'
    BY <2>2, <2>3, <2>4
  <2>6. requests' # <<>> /\ Head(requests').op = "count"
    BY <2>1 DEF Request
  <2> QED
    BY <2>5, <2>6
<1>2. CASE command \in {"read", "write", "verifiedWrite"}
  <2>1. requests' = <<Request("list", bus), Request("abort", bus), Request("target", bus),
                      Request("work", bus), Request("release", bus)>>
    BY <1>2 DEF Script
  <2>2. Len(requests') = 5 /\ requests' \in Seq(Requests)
    BY <2>1, RequestType
  <2>3. /\ op(1) = "list" /\ op(2) = "abort" /\ op(3) = "target"
        /\ op(4) = "work" /\ op(5) = "release" /\ \A i \in 1..5 : requests'[i].bus = bus
    BY <2>1 DEF Request
  <2>4. \A i \in 1..5 : i = 1 \/ i = 2 \/ i = 3 \/ i = 4 \/ i = 5
    OBVIOUS
  <2>5. OrderInv'
    BY <2>2, <2>3, <2>4
  <2>6. requests' # <<>> /\ Head(requests').op = "list"
    BY <2>1 DEF Request
  <2> QED
    BY <2>5, <2>6
<1>3. CASE command \in {"erase", "sfdp"}
  <2>1. requests' = <<Request("abort", bus), Request("target", bus),
                      Request("work", bus), Request("release", bus)>>
    BY <1>3 DEF Script
  <2>2. Len(requests') = 4 /\ requests' \in Seq(Requests)
    BY <2>1, RequestType
  <2>3. /\ op(1) = "abort" /\ op(2) = "target" /\ op(3) = "work" /\ op(4) = "release"
        /\ \A i \in 1..4 : requests'[i].bus = bus
    BY <2>1 DEF Request
  <2>4. \A i \in 1..4 : i = 1 \/ i = 2 \/ i = 3 \/ i = 4
    OBVIOUS
  <2>5. OrderInv'
    BY <2>2, <2>3, <2>4
  <2>6. requests' # <<>> /\ Head(requests').op = "abort"
    BY <2>1 DEF Request
  <2> QED
    BY <2>5, <2>6
<1> QED
  BY <1>1, <1>2, <1>3 DEF Commands

\* An answered request leaves what follows it in order.
LEMMA AnsweredOrder ==
    ASSUME OrderInv, requests # <<>>, requests' = Tail(requests)
    PROVE  /\ OrderInv'
           /\ Head(requests) \in Requests
           /\ Head(requests).op \notin {"list", "release"} => requests' # <<>>
           /\ requests' # <<>> => Head(requests').op \in Follows[Head(requests).op]
           /\ requests' # <<>> /\ Head(requests').op # "list" =>
                  Head(requests').bus = Head(requests).bus
<1>1. Len(requests) \in Nat \ {0} /\ Len(requests') = Len(requests) - 1
  BY DEF OrderInv
<1>2. requests' \in Seq(Requests)
  BY DEF OrderInv
<1>3. OrderInv'
  <2>1. ASSUME NEW i \in 1..Len(requests')
        PROVE  /\ i + 1 \in 1..Len(requests) /\ requests'[i] = requests[i + 1]
               /\ i < Len(requests') <=> i + 1 < Len(requests)
               /\ i < Len(requests') => requests'[i + 1] = requests[(i + 1) + 1]
    BY <1>1
  <2> QED
    BY <1>2, <2>1 DEF OrderInv
<1>4. Head(requests) = requests[1] /\ (requests' # <<>> => Head(requests') = requests[2])
  OBVIOUS
<1>5. Head(requests) \in Requests
  BY <1>1, <1>4 DEF OrderInv
<1>6. requests' = <<>> <=> Len(requests) = 1
  <2>1. Len(<<>>) = 0 /\ \A seq \in Seq(Requests) : seq # <<>> => Len(seq) \in Nat \ {0}
    BY EmptySeq
  <2> QED
    BY <2>1, <1>1, <1>2
<1>7. Head(requests).op \notin {"list", "release"} => requests' # <<>>
  BY <1>6 DEF OrderInv
<1>8. requests' # <<>> => Head(requests').op \in Follows[Head(requests).op]
  BY DEF OrderInv
<1>9. requests' # <<>> /\ Head(requests').op # "list" => Head(requests').bus = Head(requests).bus
  BY <1>1, <1>4, <1>6 DEF OrderInv
<1> QED
  BY <1>3, <1>5, <1>7, <1>8, <1>9

\* The same, request by request.
LEMMA AnsweredNext ==
    ASSUME OrderInv, requests # <<>>, Answered, quiet \in BOOLEAN
    PROVE  /\ OrderInv' /\ Bus \in Buses
           /\ Head(requests).op \in {"count", "abort", "target", "work"} => quiet' = quiet
           /\ Head(requests).op \in {"count", "list", "abort"} =>
                  ~Asked("work")' /\ ~Asked("release")'
           /\ Head(requests).op = "target" => Asked("work")' /\ Bus' = Bus
           /\ Head(requests).op = "work" => Asked("release")' /\ ~Asked("work")'
           /\ Head(requests).op = "release" => ~Asked("work")' /\ ~Asked("release")'
           /\ Asked("abort")' \/ Asked("target")' \/ Asked("work")' => Bus' = Bus
           /\ Head(requests).op \notin {"list", "abort", "target"} =>
                  ~Asked("abort")' /\ ~Asked("target")' /\ ~Asked("work")'
<1>1. requests' = Tail(requests) /\ quiet' = (quiet \/ requests' = <<>>)
  BY DEF Answered
<1>2. OrderInv' /\ Head(requests) \in Requests
  BY <1>1, AnsweredOrder
<1>3. Head(requests).op \notin {"list", "release"} => requests' # <<>>
  BY <1>1, AnsweredOrder
<1>4. requests' # <<>> => Head(requests').op \in Follows[Head(requests).op]
  BY <1>1, AnsweredOrder
<1>5. Asked("abort")' \/ Asked("target")' \/ Asked("work")' => Bus' = Bus
  BY <1>1, AnsweredOrder DEF Bus, Asked
<1>6. Bus \in Buses
  BY <1>2 DEF Requests, Bus
<1>7. Head(requests).op \in {"count", "list", "abort"} => ~Asked("work")' /\ ~Asked("release")'
  BY <1>4 DEF Follows, Asked
<1>8. Head(requests).op = "target" => Asked("work")'
  BY <1>3, <1>4 DEF Follows, Asked
<1>9. Head(requests).op = "work" => Asked("release")' /\ ~Asked("work")'
  BY <1>3, <1>4 DEF Follows, Asked
<1>10. Head(requests).op = "release" => ~Asked("work")' /\ ~Asked("release")'
  BY <1>4 DEF Follows, Asked
<1>11. Head(requests).op \notin {"list", "abort", "target"} =>
         ~Asked("abort")' /\ ~Asked("target")' /\ ~Asked("work")'
  BY <1>2, <1>4 DEF Follows, Asked, Requests
<1>12. Head(requests).op \in {"count", "abort", "target", "work"} => quiet' = quiet
  BY <1>1, <1>3
<1> QED
  BY <1>2, <1>5, <1>6, <1>7, <1>8, <1>9, <1>10, <1>11, <1>12

\* At power up no command runs and spiInit has reset the clocks.
LEMMA ClockInit == Init => ClockInv
BY ResetClocksRight DEF Init, ClockInv, OrderInv, SlowInv, WorksAtClock, Asked

\* Every step keeps the invariant.
LEMMA ClockStep == ClockInv /\ [Next]_vars => ClockInv'
<1> SUFFICES ASSUME ClockInv, [Next]_vars PROVE ClockInv'
  OBVIOUS
<1> USE DEF ClockInv
<1>1. CASE Start
  <2>1. PICK command \in Commands, bus \in Buses : requests' = Script(command, bus)
    BY <1>1 DEF Start
  <2>2. OrderInv' /\ requests' # <<>> /\ ~Asked("work")' /\ ~Asked("release")'
    BY <2>1, ScriptOrder
  <2> QED
    BY <1>1, <2>2 DEF Start, SlowInv, WorksAtClock, Asked
<1>2. CASE GiveUp
  <2>1. requests' = <<>> /\ quiet' = FALSE /\ clock' = clock
    BY <1>2 DEF GiveUp
  <2>2. OrderInv'
    BY <2>1 DEF OrderInv
  <2> QED
    BY <2>1, <2>2 DEF SlowInv, WorksAtClock, Asked
<1>3. CASE ChangeChip
  BY <1>3 DEF ChangeChip, OrderInv, SlowInv, WorksAtClock, Asked
<1>4. CASE FetchDeviceCount
  <2>1. Asked("count") /\ Answered /\ clock' = clock /\ requests # <<>>
    BY <1>4 DEF FetchDeviceCount, Asked
  <2>2. OrderInv' /\ quiet' = quiet /\ ~Asked("work")' /\ ~Asked("release")'
    BY <2>1, AnsweredNext DEF Asked, SlowInv
  <2> QED
    BY <2>1, <2>2 DEF SlowInv, WorksAtClock, Asked
<1>5. CASE FetchDeviceListing
  <2>1. Asked("list") /\ Answered /\ clock' = ResetClocks /\ requests # <<>>
    BY <1>5 DEF FetchDeviceListing, ListedClock, Asked
  <2>2. OrderInv' /\ ~Asked("work")' /\ ~Asked("release")'
    BY <2>1, AnsweredNext DEF Asked, SlowInv
  <2> QED
    BY <2>1, <2>2, ResetClocksRight DEF SlowInv, WorksAtClock, Answered
<1>6. CASE HandleAbort
  <2>1. Asked("abort") /\ Answered /\ clock' = clock /\ requests # <<>>
    BY <1>6 DEF HandleAbort, Asked
  <2>2. OrderInv' /\ quiet' = quiet /\ ~Asked("work")' /\ ~Asked("release")'
    BY <2>1, AnsweredNext DEF Asked, SlowInv
  <2> QED
    BY <2>1, <2>2 DEF SlowInv, WorksAtClock, Asked
<1>7. CASE HandleTargetDevice
  <2> DEFINE chip == ChipOn(Bus)
  <2>1. /\ Asked("target") /\ Answered /\ requests # <<>>
        /\ targetBus' = Bus /\ targetParams' = FindChip(chip)
        /\ clock' = [clock EXCEPT ![Bus] = FindClock(chip, clock[Bus])]
    BY <1>7 DEF HandleTargetDevice, Asked
  <2>2. OrderInv' /\ Bus \in Buses /\ quiet' = quiet /\ Asked("work")' /\ Bus' = Bus
    BY <2>1, AnsweredNext DEF Asked, SlowInv
  <2>3. clock[Bus] \in Dividers
    BY <2>2 DEF SlowInv
  <2> HIDE DEF chip
  <2>4. /\ FindClock(chip, clock[Bus]) \in Dividers
        /\ FindChip(chip).chipSpeedMHz # 0 =>
               FindClock(chip, clock[Bus]) = Divider(FindChip(chip).chipSpeedMHz)
    BY <2>3, FindClockRight
  <2>5. clock' \in [Buses -> Dividers] /\ clock'[Bus] = FindClock(chip, clock[Bus])
    BY <2>1, <2>2, <2>4 DEF SlowInv
  <2>6. SlowInv'
    BY <2>2, <2>5 DEF SlowInv
  <2>7. WorksAtClock'
    BY <2>1, <2>2, <2>4, <2>5 DEF WorksAtClock
  <2> QED
    BY <2>2, <2>6, <2>7
<1>8. CASE Work
  <2>1. Asked("work") /\ Answered /\ clock' = clock /\ requests # <<>>
    BY <1>8 DEF Work, Asked
  <2>2. OrderInv' /\ quiet' = quiet /\ Asked("release")' /\ ~Asked("work")'
    BY <2>1, AnsweredNext DEF Asked, SlowInv
  <2> QED
    BY <2>1, <2>2 DEF SlowInv, WorksAtClock
<1>9. CASE ReleaseTargetDevice
  <2>1. Asked("release") /\ Answered /\ clock' = ResetClocks /\ requests # <<>>
    BY <1>9 DEF ReleaseTargetDevice, ReleasedClock, Asked
  <2>2. OrderInv' /\ ~Asked("work")' /\ ~Asked("release")'
    BY <2>1, AnsweredNext DEF Asked, SlowInv
  <2> QED
    BY <2>1, <2>2, ResetClocksRight DEF SlowInv, WorksAtClock, Answered
<1>10. CASE UNCHANGED vars
  BY <1>10 DEF vars, OrderInv, SlowInv, WorksAtClock, Asked, Bus
<1> QED
  BY <1>1, <1>2, <1>3, <1>4, <1>5, <1>6, <1>7, <1>8, <1>9, <1>10 DEF Next

\* The clock registers are never given a value they do not take: whatever a
\* chip's speed is, and wherever earlier commands were killed.
THEOREM DividersAreSound == Spec => []DividerSound
<1>1. ClockInv => DividerSound
  BY DEF ClockInv, SlowInv, DividerSound, Dividers
<1> QED
  BY <1>1, ClockInit, ClockStep, PTL DEF Spec

\* After a command that ran to its end the next one meets every external chip at
\* 500 kHz: whatever chips are put in, and wherever earlier commands were killed.
THEOREM DiscoveryIsSlow == Spec => []IdentifiedSlowly
<1>1. ClockInv => IdentifiedSlowly
  BY SlowDivider DEF ClockInv, SlowInv, IdentifiedSlowly, Identifying, Asked
<1> QED
  BY <1>1, ClockInit, ClockStep, PTL DEF Spec

\* Every command works at the clock of the chip it selected: whatever chips are
\* put in, and wherever earlier commands were killed.
THEOREM WorkIsClocked == Spec => []WorksAtClock
<1>1. ClockInv => WorksAtClock
  BY DEF ClockInv
<1> QED
  BY <1>1, ClockInit, ClockStep, PTL DEF Spec

(* The listing a command works from ***************************************)
\* From its listing to its transfers a command goes by what findChip says of the
\* chip it then works on.
ListInv ==
    /\ attached \in Chips
    /\ listed # NoListing /\ (Asked("abort") \/ Asked("target") \/ Asked("work")) =>
          Bus \in Buses /\ listed = Listing(FindChip(ChipOn(Bus)))

\* Every step keeps the listing true: no chip is changed under a command, and a
\* command targets the bus it listed.
LEMMA ListStep == ClockInv /\ ListInv /\ [Next]_vars => ListInv'
<1> SUFFICES ASSUME ClockInv, ListInv, [Next]_vars PROVE ListInv'
  OBVIOUS
<1> USE DEF ListInv
<1>1. OrderInv /\ quiet \in BOOLEAN
  BY DEF ClockInv, SlowInv
<1>2. CASE Start
  BY <1>2 DEF Start
<1>3. CASE GiveUp \/ ChangeChip
  BY <1>3 DEF GiveUp, ChangeChip, Asked
<1>4. CASE FetchDeviceListing
  BY <1>1, <1>4, AnsweredNext DEF FetchDeviceListing, Asked, ChipOn
<1>5. CASE HandleAbort \/ HandleTargetDevice
  BY <1>1, <1>5, AnsweredNext DEF HandleAbort, HandleTargetDevice, Asked, ChipOn
<1>6. CASE FetchDeviceCount \/ Work \/ ReleaseTargetDevice
  BY <1>1, <1>6, AnsweredNext DEF FetchDeviceCount, Work, ReleaseTargetDevice, Asked
<1>7. CASE UNCHANGED vars
  BY <1>7 DEF vars, Asked, Bus, ChipOn
<1> QED
  BY <1>2, <1>3, <1>4, <1>5, <1>6, <1>7 DEF Next

\* A chip of the table is listed at its size, on either bus and whatever chips
\* are put in between the commands, when the table tells the sizes of its chips.
THEOREM SizesAreRight ==
    ASSUME \A chip \in Chips \cup {InternalChip} :
              \A entry \in Known(chip) : Power2(entry.actualCapacity) = chip.size
    PROVE  Spec => []SizeListed
<1>1. Init => ListInv
  BY DEF Init, ListInv
<1>2. ASSUME ListInv
      PROVE  SizeListed
  <2> SUFFICES ASSUME Asked("work"), listed # NoListing, Known(ChipOn(Bus)) # {}
               PROVE  listed.deviceSize = ChipOn(Bus).size
    BY DEF SizeListed
  <2>1. FindChip(ChipOn(Bus)) \in Known(ChipOn(Bus))
    BY DEF FindChip
  <2>2. ChipOn(Bus) \in Chips \cup {InternalChip} /\ listed = Listing(FindChip(ChipOn(Bus)))
    BY <1>2 DEF ListInv, ChipOn
  <2> QED
    BY <2>1, <2>2 DEF Listing
<1> QED
  BY <1>1, <1>2, ListStep, ClockInit, ClockStep, PTL DEF Spec

(* Powers of two *********************************************************)
\* A set of numbers has a least one.
LEMMA LeastNumber ==
    ASSUME NEW S, S \subseteq Nat, S # {}
    PROVE  \E n \in S : \A m \in S : n <= m
<1>1. \E n \in S : \A m \in S : <<m, n>> \notin OpToRel(<, Nat)
  BY NatLessThanWellFounded, WFMin, Zenon
<1>2. PICK n \in S : \A m \in S : <<m, n>> \notin OpToRel(<, Nat)
  BY <1>1
<1>3. n \in Nat /\ \A m \in S : m \in Nat
  OBVIOUS
<1>4. \A m \in S : ~(m < n)
  BY <1>2, <1>3, Zenon DEF OpToRel
<1> QED
  BY <1>3, <1>4

\* A set with 0 and with the number after each of its numbers has them all.
LEMMA AllNumbers ==
    ASSUME NEW S, 0 \in S, \A n \in Nat : n \in S => n + 1 \in S
    PROVE  \A n \in Nat : n \in S
<1> DEFINE missing == {n \in Nat : n \notin S}
<1> SUFFICES ASSUME missing # {} PROVE FALSE
  OBVIOUS
<1>1. PICK n \in missing : \A m \in missing : n <= m
  <2>1. missing \subseteq Nat
    OBVIOUS
  <2> HIDE DEF missing
  <2> QED
    BY <2>1, LeastNumber
<1>2. n - 1 \in Nat /\ n - 1 \notin missing /\ (n - 1) + 1 = n
  BY <1>1
<1> QED
  BY <1>1, <1>2

\* f has the first n powers after that of 0.
Powers(f, n) == f \in [0..n -> Nat \ {0}] /\ f[0] = 1 /\ \A k \in 1..n : f[k] = 2 * f[k - 1]

\* There is such a function for every n.
LEMMA PowersExist == \A n \in Nat : \E f : Powers(f, n)
<1> DEFINE S == {n \in Nat : \E f : Powers(f, n)}
<1>1. 0 \in S
  <2>1. Powers([k \in {0} |-> 1], 0)
    BY DEF Powers
  <2> QED
    BY <2>1
<1>2. ASSUME NEW n \in Nat, n \in S
      PROVE  n + 1 \in S
  <2>1. PICK f : Powers(f, n)
    BY <1>2
  <2> DEFINE g == [k \in 0..n + 1 |-> IF k = n + 1 THEN 2 * f[n] ELSE f[k]]
  <2>2. /\ f \in [0..n -> Nat \ {0}] /\ f[0] = 1 /\ f[n] \in Nat \ {0}
        /\ \A k \in 1..n : f[k] = 2 * f[k - 1]
    BY <2>1 DEF Powers
  <2>3. g \in [0..n + 1 -> Nat \ {0}] /\ g[0] = 1
    BY <2>2
  <2>4. \A k \in 0..n + 1 : g[k] = IF k = n + 1 THEN 2 * f[n] ELSE f[k]
    OBVIOUS
  <2> HIDE DEF g
  <2>5. ASSUME NEW k \in 1..n + 1
        PROVE  g[k] = 2 * g[k - 1]
    <3>1. /\ k \in 0..n + 1 /\ k - 1 \in 0..n + 1 /\ k - 1 # n + 1
          /\ (k # n + 1 => k \in 1..n) /\ (k = n + 1 => k - 1 = n)
      OBVIOUS
    <3> QED
      BY <2>2, <2>4, <3>1
  <2>6. Powers(g, n + 1)
    BY <2>3, <2>5 DEF Powers
  <2> QED
    BY <2>6
<1> HIDE DEF S
<1>3. \A n \in Nat : n \in S
  BY <1>1, <1>2, AllNumbers
<1> QED
  BY <1>3 DEF S

\* Two such functions agree where both are defined.
LEMMA PowersAgree ==
    ASSUME NEW m \in Nat, NEW n \in Nat, NEW f, NEW g, Powers(f, m), Powers(g, n),
           NEW k \in Nat, k <= m, k <= n
    PROVE  f[k] = g[k]
<1> DEFINE S == {i \in Nat : i <= m /\ i <= n => f[i] = g[i]}
<1>1. 0 \in S
  BY DEF Powers
<1>2. ASSUME NEW i \in Nat, i \in S
      PROVE  i + 1 \in S
  <2>1. i + 1 <= m /\ i + 1 <= n =>
          i + 1 \in 1..m /\ i + 1 \in 1..n /\ (i + 1) - 1 = i /\ f[i] = g[i]
    BY <1>2
  <2> QED
    BY <2>1 DEF Powers
<1> HIDE DEF S
<1>3. k \in S
  BY <1>1, <1>2, AllNumbers
<1> QED
  BY <1>3 DEF S

\* The powers of two are what their definition says.
LEMMA TwoToSteps ==
    /\ TwoTo[0] = 1
    /\ \A n \in Nat : TwoTo[n] \in Nat \ {0} /\ TwoTo[n + 1] = 2 * TwoTo[n]
<1> DEFINE IsTwoTo(f) == f = [n \in Nat |-> IF n = 0 THEN 1 ELSE 2 * f[n - 1]]
           first(n) == CHOOSE f : Powers(f, n)
           g == [n \in Nat |-> first(n)[n]]
<1>1. \A n \in Nat : Powers(first(n), n)
  BY PowersExist
<1> HIDE DEF first
<1>2. \A n \in Nat : g[n] \in Nat \ {0} /\ g[n] = IF n = 0 THEN 1 ELSE 2 * g[n - 1]
  <2> SUFFICES ASSUME NEW n \in Nat
               PROVE  g[n] \in Nat \ {0} /\ g[n] = IF n = 0 THEN 1 ELSE 2 * g[n - 1]
    OBVIOUS
  <2>1. Powers(first(n), n)
    BY <1>1
  <2>2. n \in 0..n /\ (n # 0 => n \in 1..n /\ n - 1 \in Nat)
    OBVIOUS
  <2>3. n # 0 => first(n)[n - 1] = first(n - 1)[n - 1]
    BY <1>1, <2>1, <2>2, PowersAgree
  <2> QED
    BY <2>1, <2>2, <2>3 DEF Powers
<1>3. IsTwoTo(g)
  <2>1. g = [n \in Nat |-> g[n]]
    OBVIOUS
  <2> HIDE DEF g
  <2> QED
    BY <1>2, <2>1
<1>4. TwoTo = CHOOSE f : IsTwoTo(f)
  BY DEF TwoTo
<1> HIDE DEF IsTwoTo, g
<1>5. IsTwoTo(TwoTo)
  BY <1>3, <1>4
<1>6. TwoTo[0] = 1 /\ \A n \in Nat : TwoTo[n + 1] = 2 * TwoTo[n]
  <2>1. \A n \in Nat : TwoTo[n] = IF n = 0 THEN 1 ELSE 2 * TwoTo[n - 1]
    BY <1>5 DEF IsTwoTo
  <2>2. \A n \in Nat : n + 1 \in Nat /\ n + 1 # 0 /\ (n + 1) - 1 = n
    OBVIOUS
  <2> QED
    BY <2>1, <2>2
<1> DEFINE S == {n \in Nat : TwoTo[n] \in Nat \ {0}}
<1>7. 0 \in S /\ \A n \in Nat : n \in S => n + 1 \in S
  BY <1>6
<1>8. \A n \in Nat : n \in S
  <2> HIDE DEF S
  <2> QED
    BY <1>7, AllNumbers
<1> QED
  BY <1>6, <1>8

\* The power of a sum is the product of the powers.
LEMMA TwoToSum ==
    ASSUME NEW m \in Nat, NEW n \in Nat
    PROVE  TwoTo[m + n] = TwoTo[m] * TwoTo[n]
<1> DEFINE S == {d \in Nat : TwoTo[m + d] = TwoTo[m] * TwoTo[d]}
<1>1. 0 \in S
  BY TwoToSteps
<1>2. ASSUME NEW d \in Nat, d \in S
      PROVE  d + 1 \in S
  <2> DEFINE a == TwoTo[m]
             b == TwoTo[d]
  <2>1. m + d \in Nat /\ m + (d + 1) = (m + d) + 1
    OBVIOUS
  <2>2. TwoTo[m + (d + 1)] = 2 * TwoTo[m + d] /\ TwoTo[d + 1] = 2 * b /\ a \in Nat /\ b \in Nat
    BY <2>1, TwoToSteps
  <2>3. TwoTo[m + d] = a * b
    BY <1>2
  <2> HIDE DEF a, b
  <2>4. 2 * (a * b) = a * (2 * b)
    BY <2>2
  <2>5. TwoTo[m + (d + 1)] = a * TwoTo[d + 1]
    BY <2>2, <2>3, <2>4
  <2> QED
    BY <2>5 DEF a
<1> HIDE DEF S
<1>3. n \in S
  BY <1>1, <1>2, AllNumbers
<1> QED
  BY <1>3 DEF S

\* A larger exponent gives a larger power.
LEMMA TwoToLess ==
    ASSUME NEW m \in Nat, NEW n \in Nat, m < n
    PROVE  TwoTo[m] < TwoTo[n]
<1> DEFINE S == {d \in Nat : TwoTo[m] < TwoTo[m + (d + 1)]}
<1>1. 0 \in S
  BY TwoToSteps
<1>2. ASSUME NEW d \in Nat, d \in S
      PROVE  d + 1 \in S
  <2>1. m + (d + 1) \in Nat /\ m + ((d + 1) + 1) = (m + (d + 1)) + 1
    OBVIOUS
  <2> QED
    BY <1>2, <2>1, TwoToSteps
<1> HIDE DEF S
<1>3. n - m - 1 \in Nat /\ m + ((n - m - 1) + 1) = n
  OBVIOUS
<1>4. n - m - 1 \in S
  BY <1>1, <1>2, <1>3, AllNumbers
<1> QED
  BY <1>3, <1>4 DEF S

\* The same, for exponents that may be equal.
LEMMA TwoToUpTo ==
    ASSUME NEW m \in Nat, NEW n \in Nat, m <= n
    PROVE  TwoTo[m] <= TwoTo[n]
<1>1. CASE m = n
  BY <1>1, TwoToSteps
<1>2. CASE m < n
  BY <1>2, TwoToLess, TwoToSteps
<1> QED
  BY <1>1, <1>2

\* What divides a product.
LEMMA Factor ==
    ASSUME NEW b \in Nat \ {0}, NEW q \in Nat
    PROVE  (b * q) % b = 0 /\ (b * q) \div b = q
OBVIOUS

\* A power divides every larger one.
LEMMA TwoToDivides ==
    ASSUME NEW m \in Nat, NEW n \in Nat, m <= n
    PROVE  TwoTo[n] % TwoTo[m] = 0 /\ TwoTo[n] \div TwoTo[m] = TwoTo[n - m]
<1>1. n - m \in Nat /\ m + (n - m) = n
  OBVIOUS
<1>2. TwoTo[n] = TwoTo[m] * TwoTo[n - m]
  BY <1>1, TwoToSum
<1>3. TwoTo[m] \in Nat \ {0} /\ TwoTo[n - m] \in Nat
  BY <1>1, TwoToSteps
<1>4. /\ (TwoTo[m] * TwoTo[n - m]) % TwoTo[m] = 0
      /\ (TwoTo[m] * TwoTo[n - m]) \div TwoTo[m] = TwoTo[n - m]
  BY <1>3, Factor, Zenon
<1> QED
  BY <1>2, <1>4

\* The powers the table of chips needs.
LEMMA SmallPowers ==
    /\ TwoTo[8] = 256 /\ TwoTo[10] = 1024 /\ TwoTo[11] = 2048 /\ TwoTo[12] = 4096
    /\ TwoTo[16] = 65536 /\ TwoTo[17] = 131072 /\ TwoTo[18] = 262144
<1>1. \A n \in 0..17 : TwoTo[n + 1] = 2 * TwoTo[n] /\ TwoTo[n] \in Nat
  BY TwoToSteps
<1>2. TwoTo[1] = 2 /\ TwoTo[2] = 4 /\ TwoTo[3] = 8 /\ TwoTo[4] = 16
  BY <1>1, TwoToSteps
<1>3. TwoTo[5] = 32 /\ TwoTo[6] = 64 /\ TwoTo[7] = 128 /\ TwoTo[8] = 256
  BY <1>1, <1>2
<1>4. TwoTo[9] = 512 /\ TwoTo[10] = 1024 /\ TwoTo[11] = 2048 /\ TwoTo[12] = 4096
  BY <1>1, <1>3
<1>5. TwoTo[13] = 8192 /\ TwoTo[14] = 16384 /\ TwoTo[15] = 32768 /\ TwoTo[16] = 65536
  BY <1>1, <1>4
<1>6. TwoTo[17] = 131072 /\ TwoTo[18] = 262144
  BY <1>1, <1>5
<1> QED
  BY <1>3, <1>4, <1>5, <1>6

(* The numbers the firmware computes *************************************)
\* A set of numbers has its minimum.
LEMMA MinIn ==
    ASSUME NEW S, S \subseteq Nat, S # {}
    PROVE  Min(S) \in S /\ \A n \in S : Min(S) <= n
BY LeastNumber DEF Min

\* What fits a page_t.
LEMMA PageRange ==
    ASSUME NEW value \in Nat
    PROVE  /\ Page(value) \in 0..TwoTo[PageBits] - 1
           /\ value < TwoTo[PageBits] => Page(value) = value
<1>1. TwoTo[PageBits] \in Nat \ {0}
  BY TwoToSteps, ParamsAssumption
<1> DEFINE modulus == TwoTo[PageBits]
<1> HIDE DEF modulus
<1>2. modulus \in Nat \ {0}
  BY <1>1 DEF modulus
<1>3. value % modulus \in 0..modulus - 1 /\ (value < modulus => value % modulus = value)
  BY <1>2
<1> QED
  BY <1>3 DEF Page, modulus

\* A shift and a power are a power of two of the word or 0.
LEMMA ShiftRange ==
    ASSUME NEW n \in Nat
    PROVE  ShiftOne(n) \in 0..TwoTo[WordBits - 1] /\ Power2(n) \in 0..TwoTo[WordBits - 1]
<1>1. WordBits - 1 \in Nat /\ n % 256 \in Nat
  BY ParamsAssumption
<1>2. \A i \in Nat : i < WordBits => TwoTo[i] \in 0..TwoTo[WordBits - 1]
  <2> SUFFICES ASSUME NEW i \in Nat, i < WordBits PROVE TwoTo[i] \in 0..TwoTo[WordBits - 1]
    OBVIOUS
  <2>1. i <= WordBits - 1
    BY ParamsAssumption
  <2> QED
    BY <1>1, <2>1, TwoToUpTo, TwoToSteps
<1>3. 0 \in 0..TwoTo[WordBits - 1]
  BY <1>1, TwoToSteps
<1> QED
  BY <1>1, <1>2, <1>3 DEF ShiftOne, Power2

\* log2 counts the bits of any number of the word.
LEMMA Log2Range ==
    ASSUME NEW value \in Nat, value # 0, value < TwoTo[WordBits]
    PROVE  /\ Log2(value) \in 1..WordBits
           /\ TwoTo[Log2(value) - 1] <= value /\ value < TwoTo[Log2(value)]
<1> DEFINE above == {n \in Nat : value < TwoTo[n]}
<1>1. PICK n \in above : \A m \in above : n <= m
  <2>1. WordBits \in above /\ above \subseteq Nat
    BY ParamsAssumption
  <2> HIDE DEF above
  <2> QED
    BY <2>1, LeastNumber
<1>2. n # 0
  BY <1>1, TwoToSteps
<1>3. n \in Nat /\ n - 1 \in Nat /\ n - 1 \notin above /\ n <= WordBits
  BY <1>1, <1>2, ParamsAssumption
<1>4. TwoTo[n - 1] <= value /\ value < TwoTo[n]
  BY <1>1, <1>3, TwoToSteps
<1>5. n \in 1..WordBits
  BY <1>2, <1>3, ParamsAssumption
<1> QED
  BY <1>4, <1>5 DEF Log2

\* A field that is read is what the table has there or 0.
LEMMA FieldRange ==
    ASSUME NEW table, NEW offset, NEW value
    PROVE  Field(table, offset, value) \in {0, value}
BY DEF Field

\* No table announces more than the word can count.
LEMMA CapacityRange ==
    ASSUME NEW table \in BasicTable
    PROVE  Capacity(table) \in Nat /\ Capacity(table) < TwoTo[WordBits]
<1> DEFINE value == Field(table, 4, table.density)
           bits == IF table.exponential /\ table.length > 7 THEN ShiftOne(value) ELSE value + 1
<1>1. WordBits - 1 \in Nat /\ (WordBits - 1) + 1 = WordBits
  BY ParamsAssumption
<1>2. TwoTo[WordBits - 1] \in Nat \ {0} /\ TwoTo[WordBits] = 2 * TwoTo[WordBits - 1]
  BY <1>1, TwoToSteps
<1>3. value \in 0..TwoTo[WordBits - 1] - 1
  BY <1>2, FieldRange DEF BasicTable
<1> HIDE DEF value
<1>4. bits \in 0..TwoTo[WordBits - 1]
  BY <1>2, <1>3, ShiftRange
<1> HIDE DEF bits
<1>5. bits \div 8 \in Nat /\ bits \div 8 <= bits
  BY <1>2, <1>4
<1>6. Capacity(table) = bits \div 8
  BY DEF Capacity, bits, value
<1> QED
  BY <1>2, <1>4, <1>5, <1>6

(* The types *************************************************************)
\* The table the firmware reads is one of the chip's.
LEMMA FirstBasic ==
    ASSUME NEW chip \in Chip, BasicTables(chip) # {}
    PROVE  chip.sfdp[Min(BasicTables(chip))] \in BasicTable
<1>1. chip.sfdp \in Seq(BasicTable)
  BY DEF Chip
<1>2. BasicTables(chip) \subseteq DOMAIN chip.sfdp /\ DOMAIN chip.sfdp \subseteq Nat
  BY <1>1 DEF BasicTables
<1>3. Min(BasicTables(chip)) \in DOMAIN chip.sfdp
  BY <1>2, MinIn
<1> QED
  BY <1>1, <1>3

\* What the firmware makes of a table.
LEMMA TableRange ==
    ASSUME NEW table \in BasicTable
    PROVE  LET parameters == ReadBasicParameterTable(table)
           IN  /\ parameters.capacity \in Nat /\ parameters.capacity < TwoTo[WordBits]
               /\ parameters.sectorEraseOpcode \in Byte
               /\ parameters.sectorSize \in Nat /\ parameters.pageSize \in Nat
<1> DEFINE erase == Field(table, 1, table.sectorEraseOpcode)
           opcode(i) == Field(table, 27 + 2 * i, table.eraseTypes[i].opcode)
           exponent(i) == Field(table, 26 + 2 * i, table.eraseTypes[i].exponent)
           matches == {i \in 1..4 : opcode(i) = erase}
           size == IF matches = {} THEN 0 ELSE ShiftOne(exponent(Min(matches)))
           page == ShiftOne(Field(table, 40, table.pageExponent))
<1>1. WordBits - 1 \in Nat /\ TwoTo[WordBits - 1] \in Nat
  BY ParamsAssumption, TwoToSteps
<1>2. erase \in Byte
  BY FieldRange DEF BasicTable, Byte
<1>3. size \in Nat
  <2>1. CASE matches = {}
    BY <2>1
  <2>2. CASE matches # {}
    <3>1. matches \subseteq Nat /\ matches \subseteq 1..4
      OBVIOUS
    <3> HIDE DEF matches
    <3>2. Min(matches) \in 1..4
      BY <2>2, <3>1, MinIn
    <3>3. table.eraseTypes[Min(matches)].exponent \in Nat
      BY <3>2 DEF BasicTable, Byte
    <3>4. exponent(Min(matches)) \in Nat
      BY <3>3, FieldRange
    <3> HIDE DEF exponent
    <3> QED
      BY <1>1, <2>2, <3>4, ShiftRange
  <2> QED
    BY <2>1, <2>2
<1>4. page \in Nat
  <2>1. Field(table, 40, table.pageExponent) \in Nat
    BY FieldRange DEF BasicTable
  <2> QED
    BY <1>1, <2>1, ShiftRange
<1>5. ReadBasicParameterTable(table) =
        [capacity |-> Capacity(table), sectorEraseOpcode |-> IF matches = {} THEN 0 ELSE erase,
         sectorSize |-> size, pageSize |-> page]
  BY DEF ReadBasicParameterTable
<1> HIDE DEF matches, size, page, erase
<1> QED
  BY <1>2, <1>3, <1>4, <1>5, CapacityRange DEF Byte

\* Whatever a chip answers, its parameters fit their types.
LEMMA FindChipType == ASSUME NEW chip \in Chip PROVE FindChip(chip) \in Params
<1> DEFINE pageMax == TwoTo[PageBits] - 1
<1>1. pageMax \in Nat /\ 131072 <= pageMax
  BY ParamsAssumption, TwoToSteps, TwoToUpTo, SmallPowers
<1>2. /\ chip.manufacturer \in Byte /\ chip.type \in Byte /\ chip.capacity \in Byte
  BY DEF Chip
<1>3. ASSUME NEW actual \in Byte, NEW erase \in Byte, NEW eraseSize \in 0..pageMax,
             NEW pageSize \in 0..pageMax, NEW mhz \in Byte
      PROVE  Entry(chip.manufacturer, chip.type, chip.capacity, actual, erase, eraseSize,
                   pageSize, mhz) \in Params
  BY <1>2 DEF Entry, Params
<1>4. CASE Known(chip) # {}
  <2>1. FindChip(chip) \in Manufacturers
    BY <1>4 DEF FindChip, Known
  <2>2. Manufacturers \subseteq Params
    <3> HIDE DEF pageMax
    <3>1. \A n \in {4096, 65536, 131072, 256, 2048} : n \in 0..pageMax
      BY <1>1
    <3> SUFFICES ASSUME NEW e \in Manufacturers PROVE e \in Params
      OBVIOUS
    <3>2. /\ e.manufacturer \in Byte /\ e.type \in Byte /\ e.reportedCapacity \in Byte
          /\ e.actualCapacity \in Byte /\ e.eraseInstruction \in Byte /\ e.chipSpeedMHz \in Byte
      BY DEF Manufacturers, Entry, Byte
    <3>3. e.erasePageSize \in {4096, 65536, 131072} /\ e.flashPageSize \in {256, 2048}
      BY DEF Manufacturers, Entry
    <3>4. e = [manufacturer |-> e.manufacturer, type |-> e.type,
               reportedCapacity |-> e.reportedCapacity, actualCapacity |-> e.actualCapacity,
               eraseInstruction |-> e.eraseInstruction, erasePageSize |-> e.erasePageSize,
               flashPageSize |-> e.flashPageSize, chipSpeedMHz |-> e.chipSpeedMHz]
      BY DEF Manufacturers, Entry
    <3>5. e.erasePageSize \in 0..pageMax /\ e.flashPageSize \in 0..pageMax
      BY <3>1, <3>3
    <3> QED
      BY <3>2, <3>4, <3>5 DEF Params, pageMax
  <2> QED
    BY <2>1, <2>2
<1>5. CASE Known(chip) = {} /\ BasicTables(chip) # {}
  <2> DEFINE parameters == Parameters(chip)
  <2>1. /\ parameters.capacity \in Nat /\ parameters.capacity < TwoTo[WordBits]
        /\ parameters.sectorEraseOpcode \in Byte
        /\ parameters.sectorSize \in Nat /\ parameters.pageSize \in Nat
    BY <1>5, FirstBasic, TableRange DEF Parameters
  <2> HIDE DEF parameters
  <2>2. Log2(parameters.capacity) \in Byte
    <3>1. CASE parameters.capacity = 0
      BY <3>1 DEF Log2, Byte
    <3>2. CASE parameters.capacity # 0
      <4>1. Log2(parameters.capacity) \in 1..WordBits
        BY <2>1, <3>2, Log2Range
      <4>2. \A n \in 1..WordBits : n \in 0..255
        BY ParamsAssumption
      <4> QED
        BY <4>1, <4>2 DEF Byte
    <3> QED
      BY <3>1, <3>2
  <2>3. Page(parameters.sectorSize) \in 0..pageMax /\ Page(parameters.pageSize) \in 0..pageMax
    BY <2>1, PageRange
  <2>4. FindChip(chip) = ReadSFDP(chip)
    BY <1>5 DEF FindChip
  <2>5. FindChip(chip) =
          Entry(chip.manufacturer, chip.type, chip.capacity, Log2(parameters.capacity),
                parameters.sectorEraseOpcode, Page(parameters.sectorSize),
                Page(parameters.pageSize), 50)
    BY <2>4 DEF ReadSFDP, parameters
  <2>6. 50 \in Byte
    BY DEF Byte
  <2> HIDE DEF pageMax
  <2> QED
    BY <1>3, <2>1, <2>2, <2>3, <2>5, <2>6
<1>6. CASE Known(chip) = {} /\ BasicTables(chip) = {}
  <2>1. FindChip(chip) = Entry(chip.manufacturer, chip.type, chip.capacity, chip.capacity,
                               216, 65536, 256, 0)
    BY <1>6 DEF FindChip, Fallback
  <2>2. 216 \in Byte /\ 0 \in Byte /\ 65536 \in 0..pageMax /\ 256 \in 0..pageMax
    BY <1>1 DEF Byte
  <2> HIDE DEF pageMax
  <2> QED
    BY <1>2, <1>3, <2>1, <2>2
<1> QED
  BY <1>4, <1>5, <1>6

\* What the host is told of a chip.
Listings == [deviceSize: 0..Power2(WordBits - 1), eraseSize: 0..TwoTo[PageBits] - 1,
             pageSize: 0..TwoTo[PageBits] - 1]

\* What is listed of a chip fits the listing.
LEMMA ListingType == ASSUME NEW params \in Params PROVE Listing(params) \in Listings
<1>1. WordBits - 1 \in Nat /\ Power2(WordBits - 1) = TwoTo[WordBits - 1]
  BY ParamsAssumption DEF Power2
<1>2. params.actualCapacity \in Nat
  BY DEF Params, Byte
<1> QED
  BY <1>1, <1>2, ShiftRange DEF Listing, Listings, Params

\* What stands for no chip and no listing has the types too.
LEMMA NothingListed == NoParams \in Params /\ NoListing \in Listings
<1>1. 0 \in 0..TwoTo[PageBits] - 1 /\ 0 \in 0..Power2(WordBits - 1)
  <2>1. WordBits - 1 \in Nat /\ Power2(WordBits - 1) = TwoTo[WordBits - 1]
    BY ParamsAssumption DEF Power2
  <2> QED
    BY <2>1, ParamsAssumption, TwoToSteps
<1> QED
  BY <1>1 DEF NoParams, Entry, Params, Byte, NoListing, Listings

\* What a chip is taken for.
KnownInv ==
    /\ attached \in Chips /\ targetBus \in Buses \cup {"none"}
    /\ targetParams \in Params /\ listed \in Listings

\* No chip that can be plugged in makes a number the firmware or the host keeps of
\* it leave its type: no size overflows the word, no page count 24 bits.
THEOREM ParamTypes == Spec => []TypeOK
<1>1. Init => KnownInv
  BY NothingListed DEF Init, KnownInv
<1>2. ClockInv /\ KnownInv => TypeOK
  <2>1. Dividers \subseteq 0..254
    BY DEF Dividers
  <2>2. ClockInv => clock \in [Buses -> 0..254]
    BY <2>1 DEF ClockInv, SlowInv
  <2> QED
    BY <2>2 DEF ClockInv, KnownInv, TypeOK, OrderInv, SlowInv, Requests, Listings
<1>3. ASSUME ClockInv, KnownInv, [Next]_vars
      PROVE  KnownInv'
  <2> USE DEF KnownInv
  <2>1. \A bus \in Buses : ChipOn(bus) \in Chip
    BY <1>3, ChipsAssumption DEF ChipOn
  <2>2. requests # <<>> => Bus \in Buses
    <3>1. requests \in Seq(Requests)
      BY <1>3 DEF ClockInv, OrderInv
    <3>2. requests # <<>> => Head(requests) \in Requests
      BY <3>1
    <3> QED
      BY <3>2 DEF Requests, Bus
  <2>3. CASE Start
    BY <1>3, <2>3, NothingListed DEF Start
  <2>4. CASE GiveUp \/ ChangeChip \/ FetchDeviceCount \/ Work \/ ReleaseTargetDevice
    BY <1>3, <2>4 DEF GiveUp, ChangeChip, FetchDeviceCount, Work, ReleaseTargetDevice
  <2>5. CASE FetchDeviceListing
    BY <1>3, <2>1, <2>2, <2>5, FindChipType, ListingType DEF FetchDeviceListing, Asked
  <2>6. CASE HandleAbort
    BY <1>3, <2>6, NothingListed DEF HandleAbort
  <2>7. CASE HandleTargetDevice
    BY <1>3, <2>1, <2>2, <2>7, FindChipType DEF HandleTargetDevice, Asked
  <2>8. CASE UNCHANGED vars
    BY <1>3, <2>8 DEF vars
  <2> QED
    BY <1>3, <2>3, <2>4, <2>5, <2>6, <2>7, <2>8 DEF Next
<1> QED
  BY <1>1, <1>2, <1>3, ClockInit, ClockStep, PTL DEF Spec

(* The host's plan for a chip ********************************************)
\* What is shifted is a power of two, if the word holds it.
LEMMA ShiftPower ==
    ASSUME NEW n \in Nat, ShiftOne(n) # 0
    PROVE  \E i \in Nat : ShiftOne(n) = TwoTo[i]
BY DEF ShiftOne

\* The sizes of a table are powers of two, if they are sizes.
LEMMA TablePowers ==
    ASSUME NEW table \in BasicTable
    PROVE  LET parameters == ReadBasicParameterTable(table)
           IN  /\ parameters.sectorSize # 0 => \E i \in Nat : parameters.sectorSize = TwoTo[i]
               /\ parameters.pageSize # 0 => \E i \in Nat : parameters.pageSize = TwoTo[i]
<1> DEFINE erase == Field(table, 1, table.sectorEraseOpcode)
           opcode(i) == Field(table, 27 + 2 * i, table.eraseTypes[i].opcode)
           exponent(i) == Field(table, 26 + 2 * i, table.eraseTypes[i].exponent)
           matches == {i \in 1..4 : opcode(i) = erase}
           size == IF matches = {} THEN 0 ELSE ShiftOne(exponent(Min(matches)))
           page == ShiftOne(Field(table, 40, table.pageExponent))
<1>1. size # 0 => \E i \in Nat : size = TwoTo[i]
  <2> SUFFICES ASSUME matches # {}, size # 0 PROVE \E i \in Nat : size = TwoTo[i]
    OBVIOUS
  <2>1. matches \subseteq Nat /\ matches \subseteq 1..4
    OBVIOUS
  <2> HIDE DEF matches
  <2>2. Min(matches) \in 1..4
    BY <2>1, MinIn
  <2>3. table.eraseTypes[Min(matches)].exponent \in Nat
    BY <2>2 DEF BasicTable, Byte
  <2>4. exponent(Min(matches)) \in Nat
    BY <2>3, FieldRange
  <2> HIDE DEF exponent
  <2> QED
    BY <2>4, ShiftPower
<1>2. page # 0 => \E i \in Nat : page = TwoTo[i]
  <2>1. Field(table, 40, table.pageExponent) \in Nat
    BY FieldRange DEF BasicTable
  <2> QED
    BY <2>1, ShiftPower
<1>3. /\ ReadBasicParameterTable(table).sectorSize = size
      /\ ReadBasicParameterTable(table).pageSize = page
  BY DEF ReadBasicParameterTable
<1> HIDE DEF matches, size, page
<1> QED
  BY <1>1, <1>2, <1>3

\* The sizes of a listing are powers of two, the erase size not above the device's
\* and the page not above a block.
Tiling(listing) ==
    \E device, erase, page \in Nat :
        /\ listing.deviceSize = TwoTo[device] /\ listing.eraseSize = TwoTo[erase]
        /\ listing.pageSize = TwoTo[page]
        /\ erase <= device /\ TwoTo[page] <= TransferSize

\* A chip that can hold a block at all is listed like that.
LEMMA ListingTiles ==
    ASSUME NEW chip \in Chip, Known(chip) = {} => Tileable(chip),
           Listing(FindChip(chip)).deviceSize >= TransferSize
    PROVE  Tiling(Listing(FindChip(chip)))
<1> DEFINE params == FindChip(chip)
<1>1. params \in Params
  BY FindChipType
<1>2. TransferSize \in Nat /\ TransferSize >= 2048
  <2>1. PICK t \in 11..WordBits : TransferSize = TwoTo[t]
    BY ParamsAssumption
  <2> QED
    BY <2>1, TwoToSteps, TwoToUpTo, SmallPowers, ParamsAssumption
<1>3. /\ Listing(params).deviceSize = Power2(params.actualCapacity)
      /\ Listing(params).eraseSize = params.erasePageSize
      /\ Listing(params).pageSize = params.flashPageSize
  BY DEF Listing
<1>4. params.actualCapacity \in Nat /\ Listing(params).deviceSize = TwoTo[params.actualCapacity]
  BY <1>1, <1>2, <1>3 DEF Params, Byte, Power2
<1>5. CASE Known(chip) # {}
  <2>1. params \in Manufacturers
    BY <1>5 DEF FindChip, Known
  <2>2. /\ params.actualCapacity >= 17 /\ params.erasePageSize \in {4096, 65536, 131072}
        /\ params.flashPageSize \in {256, 2048}
    BY <2>1 DEF Manufacturers, Entry
  <2>3. PICK erase \in {12, 16, 17}, page \in {8, 11} :
          params.erasePageSize = TwoTo[erase] /\ params.flashPageSize = TwoTo[page]
    BY <2>2, SmallPowers
  <2>4. erase <= params.actualCapacity /\ TwoTo[page] <= TransferSize
    BY <1>2, <2>2, <2>3, <1>4
  <2> QED
    BY <1>3, <1>4, <2>3, <2>4 DEF Tiling
<1>6. CASE Known(chip) = {} /\ BasicTables(chip) # {}
  <2> DEFINE parameters == Parameters(chip)
  <2>1. /\ parameters.capacity \in Nat /\ parameters.capacity < TwoTo[WordBits]
        /\ parameters.sectorSize \in Nat /\ parameters.pageSize \in Nat
        /\ parameters.sectorSize # 0 => \E i \in Nat : parameters.sectorSize = TwoTo[i]
        /\ parameters.pageSize # 0 => \E i \in Nat : parameters.pageSize = TwoTo[i]
    BY <1>6, FirstBasic, TableRange, TablePowers DEF Parameters
  <2>2. /\ parameters.sectorSize \in 1..parameters.capacity
        /\ parameters.pageSize \in 1..TransferSize
        /\ parameters.sectorSize < TwoTo[PageBits] /\ parameters.pageSize < TwoTo[PageBits]
    BY <1>6 DEF Tileable
  <2>3. /\ params.actualCapacity = Log2(parameters.capacity)
        /\ params.erasePageSize = Page(parameters.sectorSize)
        /\ params.flashPageSize = Page(parameters.pageSize)
    BY <1>6 DEF FindChip, ReadSFDP, Entry
  <2> HIDE DEF parameters
  <2>4. PICK erase \in Nat, page \in Nat :
          parameters.sectorSize = TwoTo[erase] /\ parameters.pageSize = TwoTo[page]
    BY <2>1, <2>2
  <2>5. params.erasePageSize = TwoTo[erase] /\ params.flashPageSize = TwoTo[page]
    BY <2>1, <2>2, <2>3, <2>4, PageRange
  <2>6. parameters.capacity < TwoTo[params.actualCapacity]
    BY <2>1, <2>2, <2>3, Log2Range
  <2>7. erase <= params.actualCapacity
    <3> SUFFICES ASSUME params.actualCapacity < erase PROVE FALSE
      BY <1>4
    <3>1. TwoTo[params.actualCapacity] <= TwoTo[erase]
      BY <1>4, TwoToUpTo
    <3> QED
      BY <1>4, <2>1, <2>2, <2>4, <2>6, <3>1, TwoToSteps
  <2>8. TwoTo[page] <= TransferSize
    BY <1>2, <2>2, <2>4
  <2> QED
    BY <1>3, <1>4, <2>5, <2>7, <2>8 DEF Tiling
<1>7. CASE Known(chip) = {} /\ BasicTables(chip) = {}
  <2>1. /\ params.actualCapacity = chip.capacity /\ params.erasePageSize = TwoTo[16]
        /\ params.flashPageSize = TwoTo[8]
    BY <1>7, SmallPowers DEF FindChip, Fallback, Entry
  <2>2. chip.capacity >= 16
    BY <1>2, <1>3, <1>4, <1>7, <2>1, TwoToSteps DEF Tileable
  <2>3. TwoTo[8] <= TransferSize
    BY <1>2, SmallPowers
  <2> QED
    BY <1>3, <1>4, <2>1, <2>2, <2>3 DEF Tiling
<1> QED
  BY <1>5, <1>6, <1>7

\* The host divides such a device without a rest.
LEMMA TilingCovers ==
    ASSUME Tiling(listed), listed.deviceSize >= TransferSize
    PROVE  /\ BlockCount * PagesPerBlock * listed.pageSize = listed.deviceSize
           /\ listed.deviceSize % listed.eraseSize = 0
<1>1. PICK device, erase, page \in Nat :
          /\ listed.deviceSize = TwoTo[device] /\ listed.eraseSize = TwoTo[erase]
          /\ listed.pageSize = TwoTo[page]
          /\ erase <= device /\ TwoTo[page] <= TransferSize
  BY DEF Tiling
<1>2. PICK block \in Nat : TransferSize = TwoTo[block]
  BY ParamsAssumption
<1>3. block <= device
  <2> SUFFICES ASSUME device < block PROVE FALSE
    OBVIOUS
  <2> QED
    BY <1>1, <1>2, TwoToLess, TwoToSteps
<1>4. page <= block
  <2> SUFFICES ASSUME block < page PROVE FALSE
    OBVIOUS
  <2> QED
    BY <1>1, <1>2, TwoToLess, TwoToSteps
<1>5. BlockCount = TwoTo[device - block] /\ PagesPerBlock = TwoTo[block - page]
  BY <1>1, <1>2, <1>3, <1>4, TwoToDivides DEF BlockCount, PagesPerBlock
<1>6. /\ device - block \in Nat /\ block - page \in Nat /\ device - page \in Nat
      /\ (device - block) + (block - page) = device - page /\ (device - page) + page = device
  BY <1>3, <1>4
<1>7. /\ BlockCount * PagesPerBlock = TwoTo[device - page]
      /\ TwoTo[device - page] * TwoTo[page] = TwoTo[device]
  <2>1. TwoTo[(device - block) + (block - page)] = TwoTo[device - block] * TwoTo[block - page]
    BY <1>6, TwoToSum
  <2>2. TwoTo[(device - page) + page] = TwoTo[device - page] * TwoTo[page]
    BY <1>6, TwoToSum
  <2> QED
    BY <1>5, <1>6, <2>1, <2>2
<1>8. TwoTo[device] % TwoTo[erase] = 0
  BY <1>1, TwoToDivides
<1> QED
  BY <1>1, <1>7, <1>8

\* Whatever the host was told last, it was told of a chip.
PlanInv ==
    /\ attached \in Chips
    /\ listed = NoListing \/ \E chip \in Chips \cup {InternalChip} : listed = Listing(FindChip(chip))

\* For every chip of the table, and every other that is no smaller than its erase
\* page, the blocks and pages that the host counts are exactly those of the device.
THEOREM PlansCover ==
    ASSUME \A chip \in Chips \cup {InternalChip} : Known(chip) = {} => Tileable(chip)
    PROVE  Spec => []PlanCovers
<1>1. Init => PlanInv
  BY DEF Init, PlanInv
<1>2. ASSUME PlanInv, [Next]_vars
      PROVE  PlanInv'
  <2> USE DEF PlanInv
  <2>1. CASE Start
    BY <1>2, <2>1 DEF Start
  <2>2. CASE FetchDeviceListing
    BY <1>2, <2>2 DEF FetchDeviceListing, ChipOn
  <2>3. CASE GiveUp \/ ChangeChip \/ FetchDeviceCount \/ HandleAbort \/ HandleTargetDevice
    BY <1>2, <2>3 DEF GiveUp, ChangeChip, FetchDeviceCount, HandleAbort, HandleTargetDevice
  <2>4. CASE Work \/ ReleaseTargetDevice \/ UNCHANGED vars
    BY <1>2, <2>4 DEF Work, ReleaseTargetDevice, vars
  <2> QED
    BY <1>2, <2>1, <2>2, <2>3, <2>4 DEF Next
<1>3. ASSUME PlanInv, listed.deviceSize >= TransferSize
      PROVE  Tiling(listed)
  <2>1. listed # NoListing
    <3>1. TransferSize \in Nat \ {0}
      BY ParamsAssumption, TwoToSteps
    <3> QED
      BY <1>3, <3>1 DEF NoListing
  <2>2. PICK chip \in Chips \cup {InternalChip} : listed = Listing(FindChip(chip))
    BY <1>3, <2>1 DEF PlanInv
  <2> QED
    BY <1>3, <2>2, ChipsAssumption, ListingTiles
<1>4. PlanInv => PlanCovers
  BY <1>3, TilingCovers DEF PlanCovers
<1> QED
  BY <1>1, <1>2, <1>4, PTL DEF Spec

(* What sfdp shows *******************************************************)
\* A size below 2^40 is shown in the largest unit it fills.
LEMMA ReadablePower ==
    ASSUME NEW exponent \in 0..39
    PROVE  LET shown == Readable(TwoTo[exponent])
           IN  /\ shown.number * TwoTo[10 * shown.unit] = TwoTo[exponent]
               /\ shown.number \in 1..1023
<1> DEFINE size == TwoTo[exponent]
           Fits(u) == /\ u = 3 \/ size < TwoTo[10 * (u + 1)]
                      /\ u = 0 \/ size >= TwoTo[10 * u]
           unit == CHOOSE u \in 0..3 : Fits(u)
<1>1. \E u \in 0..3 : 10 * u <= exponent /\ exponent < 10 * (u + 1)
  OBVIOUS
<1>2. \E u \in 0..3 : Fits(u)
  <2>1. PICK u \in 0..3 : 10 * u <= exponent /\ exponent < 10 * (u + 1)
    BY <1>1
  <2>2. /\ 10 * u \in Nat /\ 10 * (u + 1) \in Nat /\ exponent \in Nat
    OBVIOUS
  <2>3. TwoTo[10 * u] <= size /\ size < TwoTo[10 * (u + 1)]
    BY <2>1, <2>2, TwoToUpTo, TwoToLess
  <2>4. TwoTo[10 * u] \in Nat /\ size \in Nat /\ TwoTo[10 * (u + 1)] \in Nat
    BY <2>2, TwoToSteps
  <2> QED
    BY <2>3, <2>4
<1>3. unit \in 0..3 /\ Fits(unit)
  <2> HIDE DEF Fits
  <2> QED
    BY <1>2
<1>4. Readable(size) = [number |-> size \div TwoTo[10 * unit], unit |-> unit]
  BY DEF Readable
<1> HIDE DEF unit
<1>5. 10 * unit \in Nat /\ 10 * (unit + 1) \in Nat /\ exponent \in Nat
  BY <1>3
<1>6. 10 * unit <= exponent
  <2>1. CASE unit = 0
    BY <2>1
  <2>2. CASE unit # 0
    <3> SUFFICES ASSUME exponent < 10 * unit PROVE FALSE
      BY <1>5
    <3>1. size < TwoTo[10 * unit] /\ size \in Nat /\ TwoTo[10 * unit] \in Nat
      BY <1>5, TwoToLess, TwoToSteps
    <3> QED
      BY <1>3, <2>2, <3>1
  <2> QED
    BY <2>1, <2>2
<1>7. exponent < 10 * (unit + 1)
  <2>1. CASE unit = 3
    BY <2>1
  <2>2. CASE unit # 3
    <3> SUFFICES ASSUME 10 * (unit + 1) <= exponent PROVE FALSE
      BY <1>5
    <3>1. TwoTo[10 * (unit + 1)] <= size /\ size \in Nat /\ TwoTo[10 * (unit + 1)] \in Nat
      BY <1>5, TwoToUpTo, TwoToSteps
    <3> QED
      BY <1>3, <2>2, <3>1
  <2> QED
    BY <2>1, <2>2
<1> DEFINE rest == exponent - 10 * unit
<1>8. rest \in 0..9 /\ rest + 10 * unit = exponent /\ rest \in Nat
  <2>1. unit = 0 \/ unit = 1 \/ unit = 2 \/ unit = 3
    BY <1>3
  <2> QED
    BY <1>6, <1>7, <2>1
<1>9. Readable(size).number = TwoTo[rest] /\ Readable(size).unit = unit
  <2>1. TwoTo[exponent] \div TwoTo[10 * unit] = TwoTo[exponent - 10 * unit]
    BY <1>5, <1>6, TwoToDivides
  <2> QED
    BY <1>4, <2>1
<1>10. TwoTo[rest] * TwoTo[10 * unit] = size
  BY <1>5, <1>8, TwoToSum
<1>11. TwoTo[rest] \in 1..1023
  <2>1. TwoTo[rest] < TwoTo[10] /\ TwoTo[10] = 1024
    BY <1>8, TwoToLess, SmallPowers
  <2> QED
    BY <1>8, <2>1, TwoToSteps
<1> QED
  BY <1>9, <1>10, <1>11

\* A shift that stays in the word is the same on the host, on the firmware and,
\* if a page_t holds it, in the parameters.
LEMMA ShiftsAgree ==
    ASSUME NEW n \in Byte, n < WordBits
    PROVE  /\ ShiftOne(n) = TwoTo[n] /\ HostShiftOne(n) = TwoTo[n]
           /\ n < PageBits => Page(ShiftOne(n)) = TwoTo[n]
<1>1. n \in Nat /\ n % 256 = n /\ n % WordBits = n
  BY ParamsAssumption DEF Byte
<1>2. ShiftOne(n) = TwoTo[n] /\ HostShiftOne(n) = TwoTo[n]
  BY <1>1 DEF ShiftOne, HostShiftOne
<1>3. ASSUME n < PageBits
      PROVE  Page(TwoTo[n]) = TwoTo[n]
  BY <1>1, <1>3, ParamsAssumption, TwoToSteps, TwoToLess, PageRange
<1> QED
  BY <1>2, <1>3

\* The host reads the size from the table.
LEMMA ShownSize ==
    ASSUME NEW table \in BasicTable, table.length >= 36, NEW exponent \in 0..39,
           exponent + 3 < WordBits,
           table.density = IF table.exponential THEN exponent + 3 ELSE 8 * TwoTo[exponent] - 1
    PROVE  ShownCapacity(table) = TwoTo[exponent]
<1>1. /\ exponent \in Nat /\ exponent + 3 \in Byte /\ table.length \in Nat
      /\ table.length > 7 /\ 4 < table.length
  BY DEF BasicTable, Byte
<1>2. Field(table, 4, table.density) = table.density
  BY <1>1 DEF Field
<1>3. TwoTo[exponent + 3] = 8 * TwoTo[exponent] /\ TwoTo[exponent] \in Nat
  <2>1. /\ TwoTo[exponent + 1] = 2 * TwoTo[exponent]
        /\ TwoTo[(exponent + 1) + 1] = 2 * TwoTo[exponent + 1]
        /\ TwoTo[((exponent + 1) + 1) + 1] = 2 * TwoTo[(exponent + 1) + 1]
        /\ TwoTo[exponent] \in Nat
    BY <1>1, TwoToSteps
  <2>2. ((exponent + 1) + 1) + 1 = exponent + 3
    OBVIOUS
  <2> QED
    BY <2>1, <2>2
<1>4. HostShiftOne(exponent + 3) = TwoTo[exponent + 3]
  BY <1>1, ShiftsAgree
<1> DEFINE size == TwoTo[exponent]
<1>5. ShownCapacity(table) = (8 * size) \div 8
  <2>1. CASE table.exponential
    BY <1>1, <1>2, <1>3, <1>4, <2>1 DEF ShownCapacity
  <2>2. CASE ~table.exponential
    <3>1. table.density + 1 = 8 * size
      BY <1>3, <2>2
    <3> QED
      BY <1>2, <2>2, <3>1 DEF ShownCapacity
  <2> QED
    BY <2>1, <2>2
<1>6. (8 * size) \div 8 = size
  BY <1>3
<1> QED
  BY <1>5, <1>6

\* Host and firmware make the same of the erase types and of the page size, of a
\* table that ends before the page size too.
LEMMA SizesAgree ==
    ASSUME NEW chip \in Chip, BasicTables(chip) # {}, Honest(chip)
    PROVE  LET table == chip.sfdp[Min(BasicTables(chip))]
               parameters == ReadBasicParameterTable(table)
           IN  /\ Page(parameters.sectorSize) \in Shown(table).eraseSizes
               /\ Page(parameters.pageSize) = Shown(table).pageSize
<1> DEFINE table == chip.sfdp[Min(BasicTables(chip))]
           erase == Field(table, 1, table.sectorEraseOpcode)
           opcode(i) == Field(table, 27 + 2 * i, table.eraseTypes[i].opcode)
           exponent(i) == Field(table, 26 + 2 * i, table.eraseTypes[i].exponent)
           matches == {i \in 1..4 : opcode(i) = erase}
           announced == {i \in 1..4 : table.eraseTypes[i].opcode = table.sectorEraseOpcode}
           page == Field(table, 40, table.pageExponent)
<1>1. table \in BasicTable
  BY FirstBasic
<1>2. /\ table.length >= 36 /\ announced # {}
      /\ \A i \in announced : /\ table.eraseTypes[i].exponent # 0
                              /\ table.eraseTypes[i].exponent < WordBits
                              /\ table.eraseTypes[i].exponent < PageBits
  BY DEF Honest
<1> HIDE DEF table
<1>3. \A i \in 1..4 : /\ exponent(i) = table.eraseTypes[i].exponent
                      /\ opcode(i) = table.eraseTypes[i].opcode
                      /\ table.eraseTypes[i].exponent \in Byte
  <2> SUFFICES ASSUME NEW i \in 1..4
               PROVE  /\ exponent(i) = table.eraseTypes[i].exponent
                      /\ opcode(i) = table.eraseTypes[i].opcode
                      /\ table.eraseTypes[i].exponent \in Byte
    OBVIOUS
  <2>1. table.length \in Nat /\ 27 + 2 * i < table.length /\ 26 + 2 * i < table.length
    BY <1>1, <1>2 DEF BasicTable
  <2>2. table.eraseTypes[i] \in [exponent: Byte, opcode: Byte]
    BY <1>1 DEF BasicTable
  <2> QED
    BY <2>1, <2>2 DEF Field
<1>4. erase = table.sectorEraseOpcode
  <2>1. table.length \in Nat /\ 1 < table.length
    BY <1>1, <1>2 DEF BasicTable
  <2> QED
    BY <2>1 DEF Field
<1>5. matches = announced
  <2> HIDE DEF opcode, erase
  <2> QED
    BY <1>3, <1>4
<1> DEFINE first == Min(matches)
<1>6. first \in announced /\ first \in 1..4
  <2>1. matches \subseteq Nat /\ matches # {}
    BY <1>2, <1>5
  <2> HIDE DEF matches
  <2>2. first \in matches
    BY <2>1, MinIn
  <2>3. matches \subseteq 1..4
    BY DEF matches
  <2> QED
    BY <1>5, <2>2, <2>3
<1>7. page \in Byte /\ page < WordBits /\ page < PageBits
  <2>1. page \in 0..15
    BY <1>1, FieldRange DEF BasicTable
  <2> QED
    BY <2>1, ParamsAssumption DEF Byte
<1>8. /\ ReadBasicParameterTable(table).sectorSize =
             IF matches = {} THEN 0 ELSE ShiftOne(exponent(Min(matches)))
      /\ ReadBasicParameterTable(table).pageSize = ShiftOne(page)
      /\ Shown(table).pageSize = HostShiftOne(page)
      /\ Shown(table).eraseSizes = {HostShiftOne(exponent(i)) : i \in {k \in 1..4 : exponent(k) # 0}}
  BY DEF ReadBasicParameterTable, Shown
<1>9. matches # {}
  BY <1>2, <1>5
<1> HIDE DEF matches, announced, first, page, exponent, opcode
<1>10. ReadBasicParameterTable(table).sectorSize = ShiftOne(exponent(first))
  BY <1>8, <1>9 DEF first
<1>11. /\ exponent(first) \in Byte /\ exponent(first) # 0
       /\ exponent(first) < WordBits /\ exponent(first) < PageBits
  BY <1>2, <1>3, <1>6
<1>12. /\ Page(ShiftOne(exponent(first))) = HostShiftOne(exponent(first))
       /\ Page(ShiftOne(page)) = HostShiftOne(page)
  BY <1>7, <1>11, ShiftsAgree
<1>13. HostShiftOne(exponent(first)) \in Shown(table).eraseSizes
  BY <1>6, <1>8, <1>11
<1>14. /\ Page(ReadBasicParameterTable(table).sectorSize) \in Shown(table).eraseSizes
       /\ Page(ReadBasicParameterTable(table).pageSize) = Shown(table).pageSize
  BY <1>8, <1>10, <1>12, <1>13
<1> QED
  BY <1>14 DEF table

\* Of every chip that describes itself honestly, sfdp shows the size it has, and
\* the erase and page sizes that the programmer works with; whatever is plugged in
\* and killed between the commands.
THEOREM DisplaysAgree ==
    ASSUME \A chip \in Chips \cup {InternalChip} :
              Known(chip) = {} /\ BasicTables(chip) # {} => Honest(chip)
    PROVE  Spec => []DisplayAgrees
<1>1. Init => ListInv
  BY DEF Init, ListInv
<1>2. ASSUME ListInv
      PROVE  DisplayAgrees
  <2> DEFINE chip == ChipOn(Bus)
             table == chip.sfdp[Min(BasicTables(chip))]
             shown == Shown(table)
  <2> SUFFICES ASSUME Asked("work"), listed # NoListing, Known(chip) = {}, BasicTables(chip) # {}
               PROVE  /\ shown.capacity.number * TwoTo[10 * shown.capacity.unit] = chip.size
                      /\ shown.capacity.number \in 1..1023
                      /\ listed.eraseSize \in shown.eraseSizes
                      /\ listed.pageSize = shown.pageSize
    BY DEF DisplayAgrees
  <2>1. chip \in Chips \cup {InternalChip} /\ listed = Listing(FindChip(chip))
    BY <1>2 DEF ListInv, ChipOn
  <2> HIDE DEF chip
  <2>2. chip \in Chip /\ Honest(chip) /\ table \in BasicTable
    BY <2>1, ChipsAssumption, FirstBasic
  <2>3. /\ table.length >= 36
        /\ \E exponent \in 0..39 :
              /\ exponent + 3 < WordBits /\ chip.size = TwoTo[exponent]
              /\ table.density = IF table.exponential THEN exponent + 3 ELSE 8 * chip.size - 1
    BY <2>2 DEF Honest
  <2>4. PICK exponent \in 0..39 :
          /\ exponent + 3 < WordBits /\ chip.size = TwoTo[exponent]
          /\ table.density = IF table.exponential THEN exponent + 3 ELSE 8 * chip.size - 1
    BY <2>3
  <2>5. shown.capacity = Readable(ShownCapacity(table))
    BY DEF Shown
  <2>6. /\ Page(Parameters(chip).sectorSize) \in shown.eraseSizes
        /\ Page(Parameters(chip).pageSize) = shown.pageSize
    BY <2>2, SizesAgree DEF Parameters
  <2>7. /\ listed.eraseSize = Page(Parameters(chip).sectorSize)
        /\ listed.pageSize = Page(Parameters(chip).pageSize)
    BY <2>1 DEF Listing, FindChip, ReadSFDP, Entry
  <2> HIDE DEF table, shown
  <2>8. ShownCapacity(table) = TwoTo[exponent]
    BY <2>2, <2>3, <2>4, ShownSize
  <2>9. /\ shown.capacity.number * TwoTo[10 * shown.capacity.unit] = chip.size
        /\ shown.capacity.number \in 1..1023
    <3>1. shown.capacity = Readable(TwoTo[exponent])
      BY <2>5, <2>8
    <3>2. /\ Readable(TwoTo[exponent]).number * TwoTo[10 * Readable(TwoTo[exponent]).unit]
                = TwoTo[exponent]
          /\ Readable(TwoTo[exponent]).number \in 1..1023
      BY ReadablePower
    <3> QED
      BY <2>4, <3>1, <3>2
  <2> QED
    BY <2>6, <2>7, <2>9
<1> QED
  BY <1>1, <1>2, ListStep, ClockInit, ClockStep, PTL DEF Spec
=============================================================================
