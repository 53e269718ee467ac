# TLA+ models of SPIFlashProgrammer

SPIFlashProgrammer is a USB device (a TM4C123 microcontroller, `firmware/`) that reads, writes and
erases SPI flash chips, and a command line program for the host (`software/`) that drives it.  A
command of `flashprog` is a conversation of USB transfers with a firmware that keeps state between
them: which chip is selected, how many bytes of a transfer are left, which page is being erased.  The
firmware also works by itself, in the start of frame interrupt, and the chip is busy by itself after
every program and erase.  The host program can end at any moment; the firmware and the chip stay as
they are, and the next command begins there.

This directory holds models of that conversation, of the processes that hold it and of the chip
parameters it relies on, the TLC configurations that check them, and TLAPS proofs.

| module | what it is |
| --- | --- |
| `FlashChip` | the chip: pure operators on a record; external hardware |
| `FlashProto` | the firmware's protocol engine, one operator per handler |
| `Flashprog` | the host's commands, one action per USB transfer, composed with `FlashProto`, the start of frame interrupt and the chip; the properties and the control invariant |
| `MCFlashprog` | small instances of `Flashprog` for TLC |
| `FlashJob` | the abstract specification: what a command promises its user, with no USB and no bus; `Flashprog` implements it |
| `Session` | the processes of `flashprog` around the transfers: claim and release, failing transfers, unplugging, exit statuses, the progress bar and its signal handler |
| `ProgressBar` | the arithmetic of the bar's width; used by `Session` |
| `MCSession` | two users of one programmer |
| `ChipParams` | the chip table, what is computed from SFDP, the fallback, the bus clocks |
| `MCChipParams` | chips for `ChipParams` |
| `FlashChipProofs`, `FlashProtoProofs`, `FlashprogProofs` | lemmas on the operators, then on the handlers, then the control invariant and its theorems |
| `FlashprogDataProofs` | the invariants about bytes: what is stored, erased and delivered |
| `FlashJobProofs` | the refinement of `FlashJob`: rules for any chip, and the theorem for byte addressed ones |
| `FlashNandProofs` | the invariants about bytes and the refinement for the W25N |
| `ChipParamsProofs` | powers of two, and the theorems about clocks, listing, sizes and the display of SFDP |
| `SessionProofs` | the invariant of the processes and its theorems |

## The system

### Components

**Flash protocol engine** (`firmware/usb/flashProto.cxx`, `common/include/usbProtocol.hxx`).  State:
the target (`targetDevice`, `targetID`, `targetParams`), a read (`readMode`, `readPage`, `readCount`),
an erase (`eraseOperation`, `eraseActive`, `beginPage`, `endPage`), a write (`writePage`, `writeCount`,
`writeTotal`, `verifyWrite`, `verifyPage`, `flashBuffer`) and `status`.  Operations: the control
requests `deviceCount`, `listDevice`, `targetDevice`, `erase`, `read`, `write`, `verifiedWrite`,
`status`, `sfdp`, `abort` and `resetTarget`; the data stages of `erase`, `read`, `write` and `sfdp`;
the completion of the bulk IN endpoint and the arrival of a packet at the bulk OUT endpoint; and `tick`,
called at every start of frame.  *Correct* when a transfer moves exactly its bytes from or to the right
addresses, an erase is reported complete when it is, chip select is down only for a transfer that is
under way, and a transfer that broke off leaves nothing for the next.

**SPI driver** (`firmware/spi.cxx`).  State: what is selected, the reset line of the target board, the
dividers of two bus clocks, the identities of the two on-board chips.  Operations: select, exchange a
byte, identify, set and reset the clocks.  *Correct* when a chip is never clocked faster than it can go,
and the target board's own controller is in reset whenever the programmer uses its chip.

**Chip parameters and the firmware's SFDP reader** (`firmware/flash.cxx`, `firmware/sfdp.cxx`).  Pure,
but for the clock that `findChip` and `sfdp::parameters` leave on the bus.  *Correct* when a chip has its
size, erase opcode, erase size and clock.

**The chip** is hardware, seen only through the opcodes the firmware sends and the comments about its
datasheet.

**flashprog** (`software/flashprog.cxx`, `software/sfdp.cxx`).  `listDevices`, `erase`, `read`, `write`,
`verifiedWrite` and `sfdp` are sequences of transfers without state of their own beyond loop counters.
*Correct* when exit status 0 means that what was asked for was done, every command ends, and every path
out of a command gives the programmer back.

**USB access of the host** (`software/include/usb*.hxx`).  State: the handle, libusb's note of the claimed
interface.  Operations: open, claim, release, control and bulk transfers; they have no time limit and do
not report how much was moved.  *Correct* when one process at a time works with the programmer.

**Progress bar** (`software/progress.cxx`).  State: the width, which a signal handler reads anew, the count
and its total, a pointer to the bar on the screen.  Operations: construct, display, `+=`, close, the
handler of `SIGWINCH`.  *Correct* when it fits the window and never ends the command it decorates.

**Command line** (`software/options.hxx`): tables for a
parser in a dependency.  **Firmware start up, timer, LED, oscillator, USB descriptors**: straight line
code and tables.  **Utilities** (`software/utils`): containers.

### How they interact

The host sends control requests and bulk packets; `flashProto` handles each in the USB interrupt, so that
a handler is atomic with regard to the other handlers and to `tick`, which runs in the same interrupt.
Between two handlers anything may happen: a start of frame, the end of the chip's operation, the death of
the host process, a new one.  The kernel gives the programmer's interface to one process at a time; every
request is addressed to that interface.  A `flashprog` process is one thread and a signal handler, which
writes to the bar that the thread reads.  The firmware drives the chip by `spi.cxx`; two chip transactions, a read and a
page program, stay open over several packets.

### What is hard

1. *Killed commands.*  Between any two packets, and between the SETUP and the data stage of a request.
   Only `abort`, which every new command but `listDevices` sends, cleans up, and it cannot clean the chip.
2. *`tick` against the requests.*  A page erase is a sequence of interrupts that `abort`, `status` and the
   chip's busy bit interleave with.
3. *Boundaries.*  A page program ends exactly at a page; counts are taken from a 16 bit counter a packet
   at a time; program pages, erase pages, blocks and packets are four units of one address; a count of 0
   means 256.
4. *Stale knowledge.*  The external chip is identified at every listing and targeting, in whatever state it
   is; bus clocks and the reset line outlive the command that set them.
5. *Two kinds of addressing*, bytes for NOR chips and pages for the W25N, at the same places of the code.
6. *Paths out of a command.*  Every transfer can fail; each function has its own returns, its own release
   and its own idea of the exit status, and `readChipInfo` throws where the others return.
7. *A signal handler* that changes the width between two reads of it, in size_t arithmetic.

`PROJECT.json` lists each of these hazards at its line, with the properties that would show it.

## The models and the code

### FlashChip

A chip is a record: its array, the busy bit, the write enable latch, the W25N's protection and buffer
mode, the page buffer and the open transaction `op`.  A transaction that fits between two edges of chip
select is one operator; a read and a page program are opened, advanced and closed by `Deselect`.  A busy
chip ignores all commands but a status read; programming clears bits (`Programmed`, with the value
`Corrupt` for a cell whose result is nobody's data) and wraps inside the page; an operation needs the latch
and an unprotected chip.  `mem` is what the array holds when the running operation has ended.

### FlashProto

Each operator is a whole handler, named after the function.  `Setup...` is the part at SETUP and
`Handle...` the data stage, with `setupCallback` between them.  `Hang` stands for the dereference of the
null SPI device: performRead, performWrite, isBusy and tick do it without a check.  `Tick`'s guard
`~chip.busy` is the early return of `tick`; its test of the null device comes first, as in the code.
Busy waits of a handler (`while (isBusy())`) are the `Finish` in it.  `Identified` says what identifying a
chip finds, from the state the chip is in; parameters for anything but "chip" are `findChip`'s fallback,
and since these parameters decide between byte and page addressing, a misidentified chip is worked on with
the wrong kind.  The numbers of the code (64 byte packets, 256 byte pages, 4 KiB buffer, 16 bit count) are
constants.  The target board starts in reset, as `spiInit` leaves it.  `PageSize` is the chip's own page and
`FlashPageSize` the one the firmware goes by, which comes from the table, or from SFDP.

Two things are simpler here than in the code, and only for a command on a misidentified chip, of which nothing but its ending in
one verdict is claimed.  A W25N under the fallback parameters keeps its page size here, where `findChip` gives it 256 bytes, and its busy
bit is read rightly, where `isBusy` leaves out the address of the status register (`Paged`).  An identification that runs into an open
program leaves one `Corrupt` byte in the latch, where the code clocks 4 or 5 (`IdentDevice`).

### Flashprog

`pc` names the transfer the host makes next, and every transfer is an action.  The choices a command makes
after a transfer are in the action of that transfer.  `Start` is a new process with any command, `Exit`
and `Kill` its end; `Kill` can happen before every transfer, so also between SETUP and data stage.
`chipInfo` is what `listDevice` answered, which is anything plausible when the chip did not identify
(`GarbledSizes`); of an identified chip the answer is `ListedSize`.  The code accepts chips that are listed at another size than they
have, or whose page it does not know, so that both are parameters of the model; `KnownChip` says that they are the chip's, and that packets, pages,
buffer and device tile one another, as they do for every chip of the table.  `StartOfFrame` is `tick` and `ChipFinishes` the end of the chip's operation.

Taken from outside the repository, and assumed: the USB core (dragonUSB) dispatches events in wire order, and
drops a pending data stage when a new SETUP arrives.  One `flashprog` runs at a time: that is `Isolation` of
`Session`.

### FlashJob

A job has an array of cells, an operation, and a phase.  `Clear` blanks cells the operation may clear,
`Fill` fills blank cells with the file's, `Deliver` returns the next cells of a read, and `Report` says
"ok" only when `Finished`.  A job is *trusted* when nothing of an earlier one was left running as it
started; for an untrusted one the promise is only that it ends in one verdict.  `Leftover` is what an
earlier job may still do, until this one has selected its chip.

`Flashprog!ImplementsJob` is the refinement: the cells are `chip.mem`, `delivered` the bytes of the read,
the phase follows from `pc`, and a job is trusted from a quiet start, and for an on-board chip's write always.
Every step of host, firmware and chip is then a step of the abstract job or a stutter: an erase before the
pages are written, cells programmed only where blank and only with the file's bytes, a read in order, a
truthful verdict.

### Session and ProgressBar

One record per process.  `pc` names the next transfer, as in `Flashprog`, but a transfer here is only its
outcome: `Request` lets it succeed, fail before the firmware saw it, or fail after, and `owner` must not be someone
else.  What `Flashprog` knows of a chip is a choice here: its size is `normal`, `tiny` (a page or more, less than 4
KiB) or `funky` (neither), an erase ends well or not, pages verify or not.  The names of `Releases`
are the places where the code releases: the end (`finish`), a failure that returns 2 (`failed`) or 1 (`failed1`),
a failed chip of a listing (`relist`, after which the listing goes on), and `readChipInfo` (`thrown`).
`Release` is the whole decision there, with the exit status.  `owner` is the kernel's note of the claim and
`held` is libusb's: a release in `relist` empties it, and the next request claims the interface again in the
kernel but not in `held`, so the last release fails and the listing ends with 1.

The bar: `Constructed` reads the width, `Publish` makes the bar known to the handler, `DrawBar` and
`PlaceTime` are the two halves of `display`, each with its own read of the width, and `Resize` is the signal between
any two of them.  `ProgressBar` keeps the size_t arithmetic: `cols - 7`, and the bar's length after its
decoration, wrap at `SizeModulus`; a length beyond `MaxString` is a string there is no memory for, in a
function that is noexcept.

### ChipParams

Works out what the other modules take for granted.  The chip table is there entry by entry; the numbers
that come from an SFDP table are computed as the code does, with what it reads of a table that ends early;
and the clocks follow the requests of the commands in order, with the bytes on the bus left out.  Between
two commands another chip may be plugged in.  A chip that answers all zeros to its identification, which
the host would not list, is not among the chips.  `Shown` is what the host's `sfdp` command prints of the
same tables, computed as the host's own reader does.

## Properties

| property | what it says |
| --- | --- |
| `WriteDone`, `ReadDone`, `EraseDone`, `SfdpDone` | exit status 0 means that it was done: the chip holds the file, the file holds the chip, all is erased, the dump is the SFDP area |
| `Quiet...` | the same when nothing was left running by a killed command |
| `CleanStart` | a command meets an idle engine at its targeting and at each transfer it requests |
| `BusDiscipline` | chip select is down only for a transfer under way, and `tick` never cuts into one |
| `NoHang` | no handler uses the null SPI device |
| `RangeErased`, `EraseConfined` | when the erase of a write is reported complete every page of the file is erased; a write that has targeted its chip changes nothing beyond them, and the erase a killed write left behind nothing beyond its own range |
| `NoOverprogram` | no write programs a cell that is not erased |
| `ProgressForward`, `ProgressExact` | the progress the host subtracts never goes back, and ends at the end |
| `ResetHeld` | the external chip changes only while the target board is in reset, but for the page erase a killed command left to `tick`, which a listing that releases the board does not stop |
| `CommandEnds`, `EraseEnds` | every command ends; so does the page erase of a killed one |
| `ControlInv` | host and firmware agree at every transfer; see the proofs |
| `ImplementsJob` | every step of `Flashprog` is a step of `FlashJob` or a stutter |
| `DividerSound` | the clock registers hold even dividers between 2 and 254, so at most 40 MHz and never a stopped bus |
| `IdentifiedSlowly`, `WorksAtClock` | the external bus is at 500 kHz when a chip is identified, and at the chip's own clock when it is worked on |
| `SizeListed`, `PlanCovers` | chips of the table are listed at their size, and the host's blocks tile the device |
| `DisplayAgrees` | what `sfdp` shows of a chip is the chip's, and what the firmware makes of the same table |
| `ClaimReturned` | however a command returns, it gave the interface back, or the programmer is gone; only a listing releases twice |
| `Isolation` | while a command works, no request of another process reaches the firmware: the chip stays targeted, the board in reset |
| `ExitTruth` | exit status 0 from a command that got the programmer: nothing failed, nothing was left to do |
| `BoardReleased` | after exit 0 no chip is targeted, and after a command on the external chip or a listing of all three chips the target board runs; a command on an on-board chip leaves the board as it is, in reset maybe since power up or a killed command |
| `DeathKnown` | the process dies of a listing that failed, before it touched a chip, or of a bar it cannot draw, and of nothing else |
| `WidthFresh` | the bar has the width of the terminal unless the signal came inside its constructor |
| `TimeFits` | the elapsed time is written past the bar only after a signal between the two reads, or in a window with no room for it |

## Runs

All `Flashprog` runs scale 64/256/4096 byte units to packets of 2, pages of 4, sectors of 8, a block
erase of 16 and a buffer of 8 bytes on a 16 byte chip: two packets to a page, two pages to a buffer, two
buffers to the chip, so every boundary is crossed at least once and is met both exactly and in the middle.
File lengths 1, 5 and 13 end inside a packet, just past a page, and in the second block; every byte of the file,
the old contents and the SFDP area has its own value, so a displaced byte shows.  The count wraps at 32
instead of 65536, far beyond any legal count, like the original.

| run | configuration | checks | shows |
| --- | --- | --- | --- |
| `internal` | `MCInternal`: on-board NOR chip, all commands, up to two kills; 2.4 million states | all invariants of `Flashprog`, `EraseConfined`, `ProgressForward`, `ImplementsJob` | with an identity that never changes, writes tell the truth after any two kills, reads and erases from a quiet start; nothing hangs |
| `external` | `MCExternal`: external NOR chip, all commands, one kill | `QuietWriteDone`, `ResetHeld`, `ImplementsJob` | the identification happens in the state a kill left: results are right from a quiet start |
| `nand` | `MCNand`: W25N, all commands but `erase`, files within one erase block, one kill; 320 000 states | `QuietWriteDone`, `QuietReadDone`, `RangeErased`, `ImplementsJob` | page addressing, protection and buffer mode, left in any state by a kill |
| `tiny` | `MCTiny`: an 8 byte chip and a 16 byte buffer, one kill, with fairness | `ImplementsJob`, `CommandEnds`, `EraseEnds` | the page by page loops and the count of 0; commands and erases end |
| `chip_params` | `MCChipParams`: chips of each manufacturer, with and without SFDP, tables of 9, 16 and 20 words, a connector with nothing in it | the invariants of `ChipParams` | sizes, clocks, the two readings of SFDP |
| `session` | `MCSession`: two processes, seven commands, windows of 50, 132 and no columns; 1.3 million states | the properties of `Session` | claim, release, exit status and bar under any failure |
| `verify` | `MCVerify` | `VerifyTruthful` | finding 1 |
| `erase_killed` | `MCEraseKilled` | `EraseDone` | finding 2 |
| `external_killed` | `MCExternalKilled` | `WriteDone` | finding 3 |
| `nand_erase` | `MCNandErase` | `WriteDone` | finding 4 |
| `chip_fallback` | `MCChipFallback` | `FallbackSlow` | finding 5 |
| `small_page` | `MCSmallPage`: a chip listed at twice its size, with a page of 1 byte | `WriteDone` | finding 6 |

Each property is checked where it is hardest to keep: `external` and `tiny` check the refinement in place of the
results it implies, which `internal` also checks one by one.  Two kills are enough for a kill during the clean
up after another; what a kill leaves behind does not add up, since `abort` resets the engine and the chip runs
one operation at a time.  `internal` is the run with two.  `nand` excludes `erase`: a W25N has no chip erase
command, a fact about the chip and not about this code; its files end within the first erase block because of
finding 4.  `MCChipParams` has TLC evaluate that its chips meet the hypotheses of the theorems about them.
`tiny` leaves `verifiedWrite` out: on a tiny device it does not verify, so that it is `write`.  In `chip_params`
a word has 30 bits since TLC's integers end at 2^31.

`session`: every process ends after one command, and two of them show every conflict over one interface;
`MaxBlocks` is 1 since `NextBlock` treats the last block and all others, and a tiny chip, a longer dump and a
listing of three chips have more than one round all the same.  One resize reaches each of the gaps a signal can fall in,
for either process.  Windows of 50 and 132 columns are wide enough for any bar, so that `DeathKnown` and `TimeFits` are about
the races and `NoTerminal` about the wrap; a window of less than 30 columns dies as one of
none does, and one of 30 to 34 has no room for the time.  `SizeModulus` is 2^16 for 2^64 and `MaxString` 1000, above any bar a
window allows and below any wrapped one.  The processes are symmetric, and `session` has no liveness.  It
turns the check for deadlock off: when all processes have ended and the programmer is unplugged, that is the end.

Every property of a passing run has a mutant in `PROJECT.json`, an operator with a plausible mistake
(behind the comments `Mutant:` in the modules) with which TLC finds the property violated.

### Fairness

`FairSpec` has weak fairness for the transfers of a running command, for the start of frame and for the end
of the chip's operations.  The host's transfers have no time limit and the firmware handles each at once, so
a transfer the host makes is completed; USB sends a start of frame every millisecond; a chip's operation has a maximal time.
Nothing obliges a user to start a command or kill one.  Weak fairness is enough: a pending transfer stays
possible until it happens or the process is killed, and `tick`, once the chip is idle, stays possible until it runs.
`FairSpec` is what `tiny` checks; `Session` claims no liveness, since a failed transfer ends a command and a
transfer to a programmer that hangs never returns.

### Findings

1. `verify`: the verify loop of `performWrite` re-addresses the chip after index 0 too, and compares byte 1
   with the next page.  Verified writes report failures on chips that hold the file.
2. `erase_killed`: a chip erase sent to a chip that is busy with the page erase of a killed write is
   ignored, and reported as complete once the chip is idle.
3. `external_killed`: identifying an external chip that is still busy yields fabricated parameters, with
   which a write goes on and reports success.
4. `nand_erase`: `tick` sends an erase page number where the W25N takes a program page number, so that only
   its first block is erased.
5. `chip_fallback`: `abort` leaves the clock of the killed command's chip for the identification of the
   next one.
6. `small_page`: an SFDP table of the first revision, 36 bytes, has no page size, and `flashPageSize` becomes 1 (`sfdp.hxx:112`).
   `performWrite` then ends the program after every packet and addresses the next packet one byte further on, over
   the bytes it has just programmed.  The write exits with 0 and the chip does not hold the file.

### Other facts

Seen in one evaluation or one step, so without runs of their own:

- `log2` gives the number of bits, one more than the exponent: chips sized by SFDP are listed at twice their size,
  and a 16 MiB one is page addressed.  A read of such a chip asks for twice its bytes.  The host's own display of the same
  table is right (`DisplayAgrees`).  The theorems about bytes exclude these chips by their hypothesis `KnownChip`.
- With standard output not a terminal and no `COLUMNS`, the width of the bar is 0 and `cols - 7` wraps
  (`progress.cxx:192`): the bar's string has nearly 2^64 characters, and the process ends in the constructor's or the
  first display, before an erase, a write or a read has done anything.  `DeathKnown` names it (`NoTerminal`).
- `Divider(33)` is 2, so the two Numonyx chips of the table, which are good for 33 MHz, are run at 40 MHz.
  `DividerSound` claims no more than the 40 MHz of the comment in the code.
- An empty file makes the bar's fraction 0/0, and its conversion to an integer is undefined: `DrawBar` takes both
  outcomes, and `DeathKnown` names it (`bar.empty`).
- A `SIGWINCH` between the constructor's read of the width and the bar's publication is lost (`missed`).
- The help (`help.hxx:24`, `:32`) and the comment before `main` describe `list` and `--device`, which no code serves: `list`
  exits with 0 having done nothing, and so does any command with no programmer or with several.
- A command that fails, dies or is killed after its targeting leaves the target board in reset and the chip
  targeted; exit status 0 of a command on the external chip or of a listing of all three promises otherwise (`BoardReleased`).
  So does power up: `spiInit` (`spi.cxx:73`) leaves the board in reset, and commands on an on-board chip do not touch the line.
- An erase size of 0 (a basic table without a matching erase type) is a division by zero in the host's `erasePages`.
- `handleListDevice` lets the number 2 of an on-board chip through, one past the table (`flashProto.cxx:111`); the host
  asks only for numbers it was told of.

## Proofs

Every invariant and every action property that a run checks is stated by a theorem; only liveness is not.

`FlashprogProofs` proves, for every chip size, page size, packet size, file, SFDP area, set of commands and
number of kills that meet the named assumptions (`ChipAssumption`, `ProtoAssumption`, `HostAssumption`,
`ScaleAssumption`), listed at its size or not:

- `ControlInvariant`: `Spec => []ControlInv`
- `TypeCorrect`, `NeverHangs`, `BusIsDisciplined`, `StartsClean`: `TypeOK`, `NoHang`, `BusDiscipline` and
  `CleanStart`.

`ScaleAssumption` says that packets tile the buffer and the default count, and that on a device read page by page (of less than 4 KiB)
the default count is the page size.  Packets of 64 bytes, a buffer of 4096 and a default count of 256 meet the first; the second is true
of no small device with another page, and `RequestedChunk` shows where it is needed: such a device is read with a wrong count.
That the page is a whole number of packets, and the chip's, is not assumed here.

None of the four is inductive.  That `tick` finds a target depends on what a killed command left
(`eraseActive` only with a target, in `BusDiscipline`); that a packet completes without a null device
depends on the count being positive exactly while chip select is down, which in turn depends on the
count being a whole number of packets (`readCount % EpBufferSize = 0`), which comes from the length the host asked
for.  `ControlInv` says all this: `PhaseInv` relates `pc`, the engine's counters and the chip's
transaction; `LoopInv` bounds the loop counters; `CommandInv` records what the start of the command settled.
`NextInv` has a lemma for each action, with a step for each part of the invariant; those
lemmas cite what `FlashProtoProofs` shows of each handler, and those what `FlashChipProofs` shows of each
chip operator, so that a handler is expanded once.  The remainders needed (`ModStep`, `CeilBound`) are
lemmas of their own.

`FlashprogDataProofs` is about the bytes.  Where a theorem is about a chip of the table, `KnownChip` is its hypothesis:
page size and listed size are the chip's, packets tile pages, and pages the buffer and the device.

| theorem | property | holds for |
| --- | --- | --- |
| `ErasePageExact`, `EraseProgressForward`, `ResetIsHeld` | `ProgressExact`, `ProgressForward`, `ResetHeld` | every chip, every kill |
| `QuietRead`, `QuietWrite`, `QuietErase` | `QuietReadDone`, `QuietWriteDone`, `QuietEraseDone` | byte addressed chips of the table on both buses, every kill |
| `UnkilledResults`, `UnkilledRead` | all three results while `kills = 0`; `ReadDone` where `MaxKills = 0` | byte addressed chips of the table on both buses |
| `InternalWriteDone`, `InternalRangeErased`, `InternalEraseConfined` | `WriteDone`, `RangeErased`, `EraseConfined` | a soldered chip of the table, every kill |
| `InternalNoOverprogram` | `NoOverprogram` | a soldered chip of the table, every kill; file and first contents without the value `Corrupt` |
| `DumpComplete` | `SfdpDone` | every chip, every kill, any list of structures and any SFDP area |

These hypotheses are the findings seen from the other side.  `Kind = "nor"`: on a W25N only one block is
erased (finding 4).  `Bus = "internal"`: an external chip that a kill left busy is misidentified (finding 3), and an
erase or read that begins on a busy chip is not what it says (finding 2), so on the external bus the results need a
quiet start.  `KnownChip`: a chip that is known by its SFDP table alone is listed at twice its size, and with a table of the
first revision written wrongly (finding 6).  `Corrupt` is the value of a cell nobody's data is in; a file or a chip that held it could not be told
from one that was programmed twice.

`ResetIsHeld` rests on `ControlInv` and a small invariant, `BoardInv`: a program that is open on the external chip holds the board in reset.
With no program open and no command past its targeting, only the erase of `tick` changes the array (`OutsideChanges`): the exception the
property names.  `InternalEraseConfined` bounds that erase by the end of its own range.

The argument of the others has four layers above `ControlInv`:

- `ProgressInv`: what the host shows is not ahead of `status`, `status` not ahead of the page `tick` is at, and an
  erase that is no longer active has shown its last page.  It also ties the command to the point its program is at.
- `TrustInv`: after a quiet start, and always for a write on the soldered chip (`Trusted`), the sizes of the listing and
  the parameters of the target are those of the chip.
- `DataInv`: under `Trusted`, for each `pc`, which cells hold the file, which are blank and which bytes the host
  has.  While a page is open, `PageOpen` says that chip select is down for a program of this page, that the latch
  holds the file's bytes up to `pos` and nothing after, and that the cells behind are blank; `ReadOpen` is the same for a read
  and its packet under way.  The page's end is found by the firmware as a remainder of a count and by the chip
  as a full latch: `PageEnd` shows that the two are the same.
- `UnkilledInv`: with no kill so far, nothing runs between two commands; a page erase that goes on means that its host
  is still polling.  For the overprogramming of any page, also one that a kill cut short, `Sound` says that nothing is latched for a
  cell that is not blank.

`DumpComplete` needs only the first of these layers: `SfdpInv` says that the host has the structures read so far and, of the one under way,
the packets before the one that waits in the endpoint (`Dumped`).  Where a structure begins in the dump is the sum of the lengths
before it, `SfdpStart`.  That such a recursive function has the values its definition promises is an induction, done with a set: the set of
numbers for which it fails has a least one (`LeastNumber`, from the library's well-foundedness of `<`), and that one has a
predecessor.

TLC checked each of these as an invariant of the instances of `internal`, `external` and `tiny` before it was proved.  Each step
has a lemma: `EraseData`, `ReadData`, `ReceiveData`, `SendData` and so on, over lemmas about packets, pages and
latches (`SentPage`, `LatchInPage`, `BlockEnd`).

`FlashJobProofs` proves `JobImplemented` (`ImplementsJob`) for every byte addressed chip of the table on either bus, with hosts killed
anywhere: the initial states map to the job's, and each action maps to a step of the job or to a stutter (`JobStep`).
What a kind of chip contributes is two rules, `StoreRule` (an action changes the array only by storing bytes of the file in blank
cells, or by blanking cells that the job may clear) and `DeliverRule` (a packet brings the next bytes of the array), and
`JobEnds` (a verdict "ok" is true); the rest of the argument is about any chip.

`FlashNandProofs` is about a W25N, and proves with hosts killed anywhere:

| theorem | property | holds for |
| --- | --- | --- |
| `NandQuietRead` | `QuietReadDone` | every W25N of the table |
| `NandQuietWrite` | `QuietWriteDone` | files within the first erase block |
| `NandRangeErased` | `RangeErased` | quiet writes of such files |
| `NandUnkilledResults` | `ReadDone`, and `WriteDone` of such files, while `kills = 0` | every W25N of the table |
| `NandJobImplemented` | `ImplementsJob` | such files, and no command `erase` |

The file's bound is finding 4 from the other side: of a larger file `tick` erases only the first block.  `erase` is left out because
the chip does not know the command.  A W25N is on the external bus, where a kill can have it misidentified as a byte addressed chip;
that such a command does only what an untrusted job may do is part of `NandJobImplemented`.

`NandInv` has three parts above `ControlInv` and `ProgressInv`.  `NandTrust`: after a quiet start the sizes and parameters are the chip's, and while a
command works on it the chip is unprotected and in buffer mode, which is set up at the targeting and could be undone only by another
targeting.  `NandReads`: the host has the bytes up to `block` and `want`, and the chip clocks them out of its page buffer, which
holds the page that was loaded (`Paging`); a count that ends with a page, with `CountEnd`, is what makes the firmware load the next one exactly
there.  `NandWrites`, for `Short` writes: cells below the page hold the file, cells above are blank, and the page under way is in
the buffer and not yet in the array; `FinishPage` programs it whole.  Since the file ends in the first erase block, the one erase that `tick` sends
before the host polls its end blanks all cells the file needs.  TLC checked `NandInv` on the instance of `nand`, and on two
with other sizes, before it was proved.

`ChipParamsProofs` proves `DividersAreSound` (`DividerSound`), `DiscoveryIsSlow` (`IdentifiedSlowly`) and
`WorkIsClocked` (`WorksAtClock`) for any chips.  Its invariant says that what is still to be
requested is the rest of a command, in order (`OrderInv`, with `Follows`), so that the external bus is fast only
between a targeting and its release (`SlowInv`).  `SizesAreRight` (`SizeListed`) rests on `ListInv`: no chip is changed under
a command, and a command targets the bus it listed.  Its hypothesis is what the table is meant to be: each chip's
entry has the chip's actual capacity.

The other three are arithmetic.  tlapm knows nothing of `^`, so that `ChipParams` has `TwoTo`, a recursive function,
and the first lemmas give it its laws, by induction over sets of numbers as above: `TwoToSteps`, `TwoToSum`, `TwoToLess`,
`TwoToDivides`.  From these, `Log2Range` (`log2` finds the number of bits of any number of the word), `ShiftRange`, `CapacityRange` and
`PageRange`, for every chip whose answers have the widths of the code's structures (`ChipsAssumption`):

- `ParamTypes` (`TypeOK`): no answer of a chip and no short table makes a number leave its type.
- `PlansCover` (`PlanCovers`), if every chip outside the table is `Tileable`: no erase type larger than the chip, no page larger
  than a block, and without a table of its own at least the 64 KiB of the fabricated erase page.  The code lists a chip
  that breaks this all the same.
- `DisplaysAgree` (`DisplayAgrees`), if every chip that describes itself is `Honest`: both readers take the same erase type and the
  same exponents from a table of any length from 36 bytes, in both forms of the density (`SizesAgree`, `ShownSize`), and `ReadablePower` finds
  the unit.

All sizes being powers of two, `PlanCovers` needs no case of its own for `Funky`: a device that holds a block is tiled by it.

`SessionProofs` proves, for any number of processes, any windows and any bounds, under `SessionAssumption`
and `BarAssumption`: `SessionTypes` (`TypeOK`), `ClaimIsReturned`, `WorksInIsolation`, `ExitIsTruthful`, `DeathIsKnown`, `WidthIsFresh`,
and the action properties `BoardIsReleased` and `TimeIsInside`.  None is inductive: `Isolation` of one process
needs that no other believes to own the interface, and that every place where a process may be is reached with
the claim it needs.  `SessionInv` has a part for each process, `ProcessInv` (`ClaimInv`: when `held` is true and how
often was released; `CommandInv`: which command is where; `WorkInv`: what failed and what is left; `BarInv`: when a bar is
on and what its width is), and a part for each process in its place, `Place` (`owner`, and the firmware's
target and reset line, as its `pc` requires).  `Elsewhere` is the argument of the isolation: a step
of `p` changes the owner only from or to `p`, and the firmware only as the owner.  Then each action has a lemma, most of
them an instance of `Request`'s.

Only model-checked: liveness (`CommandEnds`, `EraseEnds`), which is out of the prover's reach, as `ENABLED` is.

## Not modelled

- `resetTarget` (`flashProto.cxx:546`): no host program sends it, so nothing in the repository says when it may arrive.
- What a short bulk transfer leaves: libusb's wrappers give no place for the count, and the firmware sends only full ones.
- A firmware without power: it starts anew, and every command then meets the initial state.
- The bytes of a status read, the pins and FIFOs of the SPI driver, the wait for ports at start up.
- The command line, start up code, LED, descriptors and utilities; see `PROJECT.json`.
- The spinner, the percentage and the eighth blocks of the bar; the text of `sfdp`.
- The walk of `sfdp` over table headers: its reads are given (`SfdpReads`).
- The second on-board chip and the numbers of chips that do not exist, beyond one refused target.

## Plan

Done: `FlashChip`, `FlashProto`, `Flashprog` with the control, progress and data invariants proved for both kinds of
chip; `FlashJob` and its refinement proved for both; `ChipParams`, `Session` and `ProgressBar` with all their safety
properties proved.  Left, in this order:

1. *`SpiBus`*: `spiSelect`'s lines of three chips and two controllers, at most one of them down; `readID` with its
   dropped byte.  Composes with the listing and targeting of `FlashProto`.
2. *SFDP walk of the host*: tables of length 0 and of more than a packet, a packet left over by a dump that
   broke off.
3. *Proofs*: the results on the external bus after a kill, from the condition that the chip had the time to end what it was doing.
