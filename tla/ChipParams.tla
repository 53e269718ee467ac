----------------------------- MODULE ChipParams -----------------------------
(***************************************************************************)
(* What the programmer believes about a chip, and how fast it talks to it: *)
(* firmware/flash.cxx (the table of known chips, and what stands in for an *)
(* entry), firmware/sfdp.cxx (the chip's own description), the bus clocks  *)
(* of firmware/spi.cxx and the requests of firmware/usb/flashProto.cxx     *)
(* that use them.  FlashProto takes all of this as right or wrong as a     *)
(* whole (targetParams); here it is worked out, and what is on the bus is  *)
(* left out.                                                               *)
(*                                                                         *)
(* The host makes the requests of its commands in order.  It can be killed *)
(* or give up on an error after any of them, and between two commands the  *)
(* user can put another chip into the external connector.                  *)
(***************************************************************************)
EXTENDS Integers, Sequences, FiniteSetsExt

CONSTANTS WordBits,     \* bits of size_t on the firmware, 32
          PageBits,     \* bits of page_t, 24
          TransferSize, \* transferBlockSize, 4096
          InternalChip, \* the chip soldered to the internal bus
          Chips         \* the chips a user may put into the external connector

Buses == {"internal", "external"}

\* 2^n.
TwoTo[n \in Nat] == IF n = 0 THEN 1 ELSE 2 * TwoTo[n - 1]

\* The number of bits fits a byte, a page_t holds the erase sizes of the table,
\* and a block its pages.
ASSUME ParamsAssumption ==
    /\ WordBits \in 16..255 /\ PageBits \in Nat /\ PageBits >= 18
    /\ \E exponent \in 11..WordBits : TransferSize = TwoTo[exponent]

Byte == 0..255

\* basicParameterTable_t in a table of some length: the density has 31 bits and
\* a flag, the page's exponent 4.
BasicTable ==
    [basic: BOOLEAN, length: Nat, density: 0..TwoTo[WordBits - 1] - 1, exponential: BOOLEAN,
     sectorEraseOpcode: Byte, pageExponent: 0..15,
     eraseTypes: [1..4 -> [exponent: Byte, opcode: Byte]]]

\* What a chip says of itself, and its true size.
Chip == [manufacturer: Byte, type: Byte, capacity: Byte, size: Nat, sfdp: Seq(BasicTable)]

ASSUME ChipsAssumption == Chips \cup {InternalChip} \subseteq Chip

(* The numbers ***********************************************************)
\* The number of bits of value, whatever the name says.
Log2(value) ==
    IF value = 0 THEN 255
    ELSE CHOOSE n \in 1..WordBits : TwoTo[n - 1] <= value /\ value < TwoTo[n]

\* 1U << n: the shift instruction takes the low byte of n.
ShiftOne(n) == IF n % 256 < WordBits THEN TwoTo[n % 256] ELSE 0

\* The product wraps to 0 when it leaves the word.
Power2(power) == IF power < WordBits THEN TwoTo[power] ELSE 0

Page(value) == value % TwoTo[PageBits]

\* Mutants: the bus is reset to a clock its register cannot hold; the limit of
\* 40 MHz is forgotten.
DividerTooSlow(mhz) ==
    CASE mhz > 40 -> 2
      [] mhz = 0  -> 320
      [] OTHER    -> 2 * ((80 \div mhz) \div 2)
DividerUnlimited(mhz) == IF mhz = 0 THEN 160 ELSE 2 * ((80 \div mhz) \div 2)

\* spiSetClock's divider of the 80 MHz system clock; the low bit is dropped.
Divider(mhz) ==
    CASE mhz > 40 -> 2
      [] mhz = 0  -> 160
      [] OTHER    -> 2 * ((80 \div mhz) \div 2)

(* The table of known chips **********************************************)
Entry(manufacturer, type, reported, actual, erase, eraseSize, pageSize, mhz) ==
    [manufacturer |-> manufacturer, type |-> type, reportedCapacity |-> reported,
     actualCapacity |-> actual, eraseInstruction |-> erase, erasePageSize |-> eraseSize,
     flashPageSize |-> pageSize, chipSpeedMHz |-> mhz]

Manufacturers == {
    Entry(31, 50, 23, 23, 32, 4096, 256, 50),
    Entry(32, 32, 20, 20, 216, 65536, 256, 33), Entry(32, 32, 21, 21, 216, 65536, 256, 33),
    Entry(200, 64, 19, 19, 32, 4096, 256, 80), Entry(200, 64, 23, 23, 32, 4096, 256, 80),
    Entry(239, 64, 20, 20, 32, 4096, 256, 50), Entry(239, 64, 21, 21, 32, 4096, 256, 50),
    Entry(239, 64, 22, 22, 32, 4096, 256, 50), Entry(239, 64, 24, 24, 32, 4096, 256, 50),
    Entry(239, 170, 33, 27, 216, 131072, 2048, 104), Entry(239, 112, 24, 24, 32, 4096, 256, 50)}

Known(chip) ==
    {e \in Manufacturers : /\ e.manufacturer = chip.manufacturer
                           /\ e.type = chip.type /\ e.reportedCapacity = chip.capacity}

(* The chip's own description ********************************************)
\* What is read of a field: a table that ends before it leaves it 0.
Field(table, offset, value) == IF offset < table.length THEN value ELSE 0

\* memoryDensity_t: a count of bits less one, or the exponent of one.
Capacity(table) ==
    LET value == Field(table, 4, table.density)
    IN (IF table.exponential /\ table.length > 7 THEN ShiftOne(value) ELSE value + 1) \div 8

ReadBasicParameterTable(table) ==
    LET erase == Field(table, 1, table.sectorEraseOpcode)
        opcode(i) == Field(table, 27 + 2 * i, table.eraseTypes[i].opcode)
        exponent(i) == Field(table, 26 + 2 * i, table.eraseTypes[i].exponent)
        matches == {i \in 1..4 : opcode(i) = erase}
    IN [capacity |-> Capacity(table),
        sectorEraseOpcode |-> IF matches = {} THEN 0 ELSE erase,
        sectorSize |-> IF matches = {} THEN 0 ELSE ShiftOne(exponent(Min(matches))),
        pageSize |-> ShiftOne(Field(table, 40, table.pageExponent))]

\* The tables a chip with the signature announces; one is announced at least.
BasicTables(chip) == {i \in DOMAIN chip.sfdp : chip.sfdp[i].basic}

\* The first basic table is taken.
Parameters(chip) ==
    ReadBasicParameterTable(chip.sfdp[Min(BasicTables(chip))])

ReadSFDP(chip) ==
    LET parameters == Parameters(chip)
    IN Entry(chip.manufacturer, chip.type, chip.capacity, Log2(parameters.capacity),
             parameters.sectorEraseOpcode, Page(parameters.sectorSize),
             Page(parameters.pageSize), 50)

Fallback(chip) ==
    Entry(chip.manufacturer, chip.type, chip.capacity, chip.capacity, 216, 65536, 256, 0)

FindChip(chip) ==
    CASE Known(chip) # {} -> CHOOSE e \in Known(chip) : TRUE
      [] Known(chip) = {} /\ BasicTables(chip) # {} -> ReadSFDP(chip)
      [] OTHER -> Fallback(chip)

\* Mutant: the bus is only sped up for the chips of the table.
FindClockKnown(chip, divider) ==
    IF Known(chip) # {} THEN Divider(FindChip(chip).chipSpeedMHz) ELSE divider

\* The divider findChip leaves: a valid signature alone speeds the bus up, and
\* a chip about which nothing was found out leaves it as it was.
FindClock(chip, divider) ==
    CASE Known(chip) # {} -> Divider(FindChip(chip).chipSpeedMHz)
      [] Known(chip) = {} /\ chip.sfdp # <<>> -> Divider(50)
      [] OTHER -> divider

(* What the sfdp command shows of a table, worked out on the host ********)
\* The host's processor takes the count of a shift modulo the width.
HostShiftOne(n) == TwoTo[n % WordBits]

\* Mutant: the count of bits is taken for the number of the last one.
ShownCapacityLessOne(table) == Field(table, 4, table.density) \div 8

ShownCapacity(table) ==
    LET value == Field(table, 4, table.density)
    IN (IF table.exponential /\ table.length > 7 THEN HostShiftOne(value) ELSE value + 1) \div 8

\* humanReadableSize: a number and the power of 1024 of its unit, bytes to GiB.
Readable(size) ==
    LET unit == CHOOSE u \in 0..3 : /\ u = 3 \/ size < TwoTo[10 * (u + 1)]
                                    /\ u = 0 \/ size >= TwoTo[10 * u]
    IN [number |-> size \div TwoTo[10 * unit], unit |-> unit]

\* displayBasicParameterTable: an erase type without an exponent is not one.
Shown(table) ==
    LET exponent(i) == Field(table, 26 + 2 * i, table.eraseTypes[i].exponent)
    IN [capacity |-> Readable(ShownCapacity(table)),
        pageSize |-> HostShiftOne(Field(table, 40, table.pageExponent)),
        eraseSizes |-> {HostShiftOne(exponent(i)) : i \in {k \in 1..4 : exponent(k) # 0}}]

(* The requests **********************************************************)
VARIABLES
    attached,     \* the chip in the external connector
    clock,        \* the divider of each bus (ssi1.cpsr, ssi0.cpsr)
    targetBus,    \* the bus of targetDevice, or "none"
    targetParams, \* what findChip said of it, or NoParams
    requests,     \* what the running command has still to do
    listed,       \* the listing the command has read, or NoListing
    quiet         \* history: the last command ran to its end

vars == <<attached, clock, targetBus, targetParams, requests, listed, quiet>>

NoParams == Entry(0, 0, 0, 0, 0, 0, 0, 0)

\* Mutant: the size comes from the capacity as the chip reports it.
ListingReported(params) ==
    [deviceSize |-> Power2(params.reportedCapacity), eraseSize |-> params.erasePageSize,
     pageSize |-> params.flashPageSize]

Listing(params) ==
    [deviceSize |-> Power2(params.actualCapacity), eraseSize |-> params.erasePageSize,
     pageSize |-> params.flashPageSize]

NoListing == [deviceSize |-> 0, eraseSize |-> 0, pageSize |-> 0]

ChipOn(bus) == IF bus = "internal" THEN InternalChip ELSE attached

\* spiResetClocks.
ResetClocks == [bus \in Buses |-> Divider(IF bus = "internal" THEN 40 ELSE 0)]

Init ==
    /\ attached \in Chips
    /\ clock = ResetClocks
    /\ targetBus = "none" /\ targetParams = NoParams
    /\ requests = <<>> /\ listed = NoListing /\ quiet = TRUE

Request(op, bus) == [op |-> op, bus |-> bus]

\* What a command of flashprog asks of the firmware.
Script(command, bus) ==
    CASE command = "listDevices" ->
            <<Request("count", bus), Request("list", "internal"),
              Request("list", "internal"), Request("list", "external")>>
      [] command \in {"read", "write", "verifiedWrite"} ->
            <<Request("list", bus), Request("abort", bus), Request("target", bus),
              Request("work", bus), Request("release", bus)>>
      [] command \in {"erase", "sfdp"} ->
            <<Request("abort", bus), Request("target", bus),
              Request("work", bus), Request("release", bus)>>

Commands == {"listDevices", "read", "write", "verifiedWrite", "erase", "sfdp"}

Asked(op) == requests # <<>> /\ Head(requests).op = op
Bus == Head(requests).bus

Answered ==
    /\ requests' = Tail(requests)
    /\ quiet' = (quiet \/ Tail(requests) = <<>>)

Start ==
    /\ requests = <<>>
    /\ \E command \in Commands, bus \in Buses : requests' = Script(command, bus)
    /\ listed' = NoListing
    /\ UNCHANGED <<attached, clock, targetBus, targetParams, quiet>>

\* The process is killed, or ends on an error without deselecting the chip.
GiveUp ==
    /\ requests # <<>>
    /\ requests' = <<>> /\ quiet' = FALSE
    /\ UNCHANGED <<attached, clock, targetBus, targetParams, listed>>

ChangeChip ==
    /\ requests = <<>>
    /\ attached' \in Chips
    /\ UNCHANGED <<clock, targetBus, targetParams, requests, listed, quiet>>

FetchDeviceCount ==
    /\ Asked("count") /\ Answered
    /\ UNCHANGED <<attached, clock, targetBus, targetParams, listed>>

\* Mutant: the clocks stay as findChip left them.
ListedClockKept == [clock EXCEPT ![Bus] = FindClock(ChipOn(Bus), clock[Bus])]

\* findChip sets the clock for the chip, and the end of the handler all clocks back.
ListedClock == ResetClocks

FetchDeviceListing ==
    /\ Asked("list") /\ Answered
    /\ listed' = Listing(FindChip(ChipOn(Bus)))
    /\ clock' = ListedClock
    /\ UNCHANGED <<attached, targetBus, targetParams>>

HandleAbort ==
    /\ Asked("abort") /\ Answered
    /\ targetBus' = "none" /\ targetParams' = NoParams
    /\ UNCHANGED <<attached, clock, listed>>

HandleTargetDevice ==
    /\ Asked("target") /\ Answered
    /\ targetBus' = Bus
    /\ targetParams' = FindChip(ChipOn(Bus))
    /\ clock' = [clock EXCEPT ![Bus] = FindClock(ChipOn(Bus), @)]
    /\ UNCHANGED <<attached, listed>>

\* The transfers of the command.
Work ==
    /\ Asked("work") /\ Answered
    /\ UNCHANGED <<attached, clock, targetBus, targetParams, listed>>

\* Mutant: deselecting leaves the clocks alone.
ReleasedClockKept == clock

ReleasedClock == ResetClocks

ReleaseTargetDevice ==
    /\ Asked("release") /\ Answered
    /\ targetBus' = "none"
    /\ clock' = ReleasedClock
    /\ UNCHANGED <<attached, targetParams, listed>>

Next ==
    \/ Start \/ GiveUp \/ ChangeChip
    \/ FetchDeviceCount \/ FetchDeviceListing
    \/ HandleAbort \/ HandleTargetDevice \/ Work \/ ReleaseTargetDevice

Spec == Init /\ [][Next]_vars

(* How the host divides the device ***************************************)
Funky == listed.deviceSize % TransferSize # 0
PagesPerBlock == TransferSize \div listed.pageSize

\* Mutant: blocks are counted in pages.
BlockCountOfPages == listed.deviceSize \div listed.pageSize

BlockCount == listed.deviceSize \div TransferSize

(***************************************************************************)
(* Properties                                                              *)
(***************************************************************************)
Params == [manufacturer: Byte, type: Byte, reportedCapacity: Byte,
           actualCapacity: Byte, eraseInstruction: Byte,
           erasePageSize: 0..TwoTo[PageBits] - 1, flashPageSize: 0..TwoTo[PageBits] - 1,
           chipSpeedMHz: Byte]

\* The type of every variable.
TypeOK ==
    /\ attached \in Chips
    /\ clock \in [Buses -> 0..254]
    /\ targetBus \in Buses \cup {"none"} /\ targetParams \in Params
    /\ requests \in Seq([op: {"count", "list", "abort", "target", "work", "release"}, bus: Buses])
    /\ listed \in [deviceSize: 0..Power2(WordBits - 1), eraseSize: 0..TwoTo[PageBits] - 1,
                   pageSize: 0..TwoTo[PageBits] - 1]
    /\ quiet \in BOOLEAN

\* The clock registers only ever hold what the hardware takes (spiSetClock): even
\* values, and none below 2, since "our top speed is 40MHz" and 0 stops the bus.
DividerSound == \A bus \in Buses : clock[bus] % 2 = 0 /\ clock[bus] >= 2 /\ clock[bus] <= 254

\* The requests that make the firmware identify the external chip.
Identifying == [op: {"count"}, bus: Buses] \cup [op: {"target", "list"}, bus: {"external"}]

\* Unless the last command broke off, the external chip is identified at 500kHz:
\* "we have no idea until re-discovery what the device attached, if any, can do"
\* (spiResetClocks).  The chip may have been changed since the last command.
IdentifiedSlowly ==
    quiet /\ requests # <<>> /\ Head(requests) \in Identifying => clock["external"] = Divider(0)

\* A command works on its chip at the clock findChip chose for that chip, not at
\* one that an earlier command, chip or bus left behind.
WorksAtClock ==
    Asked("work") /\ targetParams.chipSpeedMHz # 0
        => targetBus = Bus /\ clock[Bus] = Divider(targetParams.chipSpeedMHz)

\* A chip of the table is listed at the size it has, the W25N too, which reports
\* another (fetchDeviceListing, and writeDevice's test of the file against it).
SizeListed ==
    Asked("work") /\ listed # NoListing /\ Known(ChipOn(Bus)) # {}
        => listed.deviceSize = ChipOn(Bus).size

\* What a chip must say of itself for DisplayAgrees: its first basic table, of the
\* first revision at least, has its size as a power of two, in either form, and
\* the announced erase opcode among its types, with a size that a page_t holds.
Honest(chip) ==
    LET table == chip.sfdp[Min(BasicTables(chip))]
        announced == {i \in 1..4 : table.eraseTypes[i].opcode = table.sectorEraseOpcode}
    IN /\ table.length >= 36
       /\ \E exponent \in 0..39 :
             /\ exponent + 3 < WordBits /\ chip.size = TwoTo[exponent]
             /\ table.density = IF table.exponential THEN exponent + 3 ELSE 8 * chip.size - 1
       /\ announced # {}
       /\ \A i \in announced :
             LET exponent == table.eraseTypes[i].exponent
             IN exponent # 0 /\ exponent < WordBits /\ exponent < PageBits

\* What sfdp shows of a chip that describes itself is the chip's size, in the
\* largest unit it fills, and agrees with what the programmer lists of it and
\* works with (the host's and the firmware's reading of the same table, the
\* short ones of the first revision included).
DisplayAgrees ==
    Asked("work") /\ listed # NoListing
            /\ Known(ChipOn(Bus)) = {} /\ BasicTables(ChipOn(Bus)) # {} =>
        LET chip == ChipOn(Bus)
            shown == Shown(chip.sfdp[Min(BasicTables(chip))])
            unit == TwoTo[10 * shown.capacity.unit]
        IN /\ shown.capacity.number * unit = chip.size /\ shown.capacity.number \in 1..1023
           /\ listed.eraseSize \in shown.eraseSizes /\ listed.pageSize = shown.pageSize

\* What PlanCovers needs of a chip that is not in the table: one that describes
\* itself has no erase type larger than itself and no page larger than a block;
\* any other has the 64 KiB that an erase page is taken for, or not even a block.
Tileable(chip) ==
    IF BasicTables(chip) # {}
    THEN LET parameters == Parameters(chip)
         IN /\ parameters.sectorSize \in 1..parameters.capacity
            /\ parameters.pageSize \in 1..TransferSize
            /\ \A size \in {parameters.sectorSize, parameters.pageSize} : size < TwoTo[PageBits]
    ELSE chip.capacity >= 16 \/ TwoTo[chip.capacity] < TransferSize

\* The blocks and pages flashprog counts tile the device it was told of.
PlanCovers ==
    listed.deviceSize >= TransferSize /\ ~Funky =>
        /\ BlockCount * PagesPerBlock * listed.pageSize = listed.deviceSize
        /\ listed.deviceSize % listed.eraseSize = 0

\* "NB: This leaves the bus set to 500kHz as a safe bet" (findChip): a chip with
\* fabricated parameters is worked on at 500kHz.
FallbackSlow ==
    Asked("work") /\ Bus = "external" /\ targetParams.chipSpeedMHz = 0
        => clock["external"] = Divider(0)
=============================================================================
