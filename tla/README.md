# A TLA+ model of cdba

cdba gives developers remote access to boards in a lab.  `cdba` runs at the
user's desk, starts `cdba-server` on the lab host (through ssh, or locally) and
speaks a small message protocol with it over the server's stdin and stdout.  The
server locks a board, drives its power, USB and keys, carries its console, and
boots an image through fastboot.

This directory has TLA+ modules of that system, TLC configurations that check
them on small instances, and proofs, checked by TLAPS, of the safety properties
of these modules for every value of the constants.

## 1. Inventory

| Component | Source | State | Operations | What is hard |
|---|---|---|---|---|
| Message stream | `circ_buf.[ch]`, parsing loops of `cdba.c` and `cdba-server.c` | ring, head, tail | `circ_fill`, `circ_peak`, `circ_read`, `cdba_send_buf` | short reads, wrap-around, full and empty, a header written without its payload, end of file in the middle of a fill |
| Watch loop | `watch.c`, `list.h` | read watches, timers, descriptor set | `watch_add_readfd`, `watch_timer_add`, `watch_main_loop` | timers found late, firing in insertion order, callbacks that add timers and watches, a set that is never cleared |
| Power and key sequence | `device.c` | `state`, the board's lines | `device_tick`, `device_power`, `device_key`, `device_open`, `device_close` | commands between ticks, overlapping sequences, crashes that leave lines as they are |
| Board lock | `device.c` (`device_lock`) | flock on a file | poll, connection check | several servers, dead holders, forked children, clients that give up |
| Client | `cdba.c` | work list, flags, deadlines, options | main loop, handlers, tty | order of replies, full pipe, time-outs, power cycles, static work nodes |
| Server dispatch | `cdba-server.c` | `selected_device`, payload | `handle_stdin`, fastboot callbacks | commands before selection, end of the client |
| Fastboot | `fastboot.c` | USB descriptor | udev events, commands, download | unplugging, uevents of what is gone again, time-outs, refusals whose result nobody looks at |
| Console, status | `console.c`, `status.c`, `status-cmd.c` | descriptors, timers | forward output, report status | hang-ups read as data, ends of the status command, enabling twice |
| Debug boards' reports | `cdb_assist.c`, `qcomlt_dbg.c` | a parser's state | a character at a time | streams split anywhere |
| Conmux | `conmux.c` | a socket | look up, connect, forward | partial reads, several addresses |
| Controllers | `drivers/*.c`, `ppps.c` | a byte per interface, or none | set a line | shadow bytes, polarity, lost writes, order at open |
| Configuration | `device_parser.c`, `schema.yaml`, `parse_options` of three drivers | the board being read, the list of boards | one YAML event at a time; list, describe, open | keys in any order, options of the wrong driver, users |
| Power tool | `cdba-power.c` | none of its own | power on or off, wait | ends, and does not undo its work |

The parts interact so: the client's main loop queues *work* that is sent as
messages when the pipe takes them; the server parses a message and calls
`device.c`, which calls a controller and adds timers to the watch loop; udev,
console and status callbacks of the watch loop send messages back; the client
handles those, which queues more work.  Servers of different users meet only at
the board's lock file and at the board.

Correctness of each: the stream delivers whole messages in order, without
delay; the loop serves everybody, blocks nowhere and ends for a cause; the
sequence ends with the board as last commanded and no key held; at most one
server drives a board and the lock is not lost with its holder; a line only
moves to what that line was told; the client runs each request once, boots
`boot.img` and nothing else, and cycles the power when asked and not otherwise;
sessions end and leave the board off; fastboot's host side stays in step with
the boot loader and never hangs; what is reported was measured; a board is what
its keys say in any order, and is its users' alone.

## 2. Modules

| Module | Models | Correspondence |
|---|---|---|
| `CircBuf` | ring buffer arithmetic | one operator per macro or function of `circ_buf.[ch]` |
| `MsgStream` | writer, pipe, `circ_fill`, parser | `rpc` is the reader's place in the code: `select`, `fill` (first `read`), `refill` (its loop), `parse`; `FillFull`, `FillRead`, `FillEmpty`, `FillEOF` are the outcomes of one `read`; `WriteHdr`, `WritePayload`, `WriteTorn` those of the two writes of `cdba_send_buf`; `Close` is the end of the writer, between two messages or inside one |
| `MsgChannel` | a FIFO of messages | the specification `MsgStream` implements |
| `Watch` | timer list | `watch_timer_add`, the due test, removal |
| `PowerSeq` | power sequence in the watch loop | `phase` is the place in `watch_main_loop`; `FireTick` is `device_tick`; commands are the cases of `handle_stdin` that touch lines |
| `ServerLoop` | the read watches of `watch_main_loop` and every callback, that of the udev monitor included | `pc`, `at` are the place in the loop; `Wake` is `select()`, with `Ready`, `Poll`, `PrintStatus` for the timers; one action per callback and message |
| `StatusParsers` | `qcomlt_dbg_ctrl_data`, `cdb_parser_push` | one operator per parser: a character at a time |
| `Conmux` | what `conmux_open` makes of replies | an operator per function |
| `Controllers` | all drivers, `ppps.c`, and the processes that use them | `todo` holds the line commands the running callback has left; `Toggle` is `ftdi_gpio_toggle_io`; `Request` is what a driver without a shadow byte does; `Open...`, `Tool...`, `ServerCloses`, `Crash` are the life of a process |
| `LineControl` | lines that only move to what they were told | the specification `Controllers` implements |
| `BoardConfig` | `device_parser.c`, `parse_options`, the list | `phase` is the nesting of the parser; `Entry` a key of a board, `LineEntry` one of a line; `ListDevices`, `Info`, `Open` are the functions of `device.c` |
| `BoardLock` | several servers and `device_lock` | a step per system call; `forking` is a child between `fork` and `exec` |
| `BoardSessions` | sessions one after another | the specification `BoardLock` implements |
| `Fastboot` | `device_boot`, `fastboot_continue` over USB | a step per bulk transfer; the boot loader (`Announces`, `Refuses`, `CarriesOut`, `Unplugged`) is outside the repository and is modelled as the host code expects it |
| `List` | `list.h` on a heap of pointers | an operator per function |
| `Wire` | the channels between client and server | |
| `CdbaClient` | `cdba.c` | `cpc` is the place in `main`'s loop; one action per message type, work item, and outcome of `select()` |
| `CdbaServer` | `cdba-server.c` with one board | one action per message type and callback; `Boot` is `device_boot`, which the board follows (`Starts`) or not (`Refuses`) with the same reply; `udev` holds the uevents the monitor has queued, `OnBus` is what an enumeration finds |
| `CdbaSession` | client and server together | the properties of a session |
| `MC*` | values for the constants | |
| `MsgStreamProofs` (with the ring's), `PowerSeqProofs`, `BoardLockProofs`, `FastbootProofs`, `CdbaSessionProofs` (with the list's), `ControllersProofs`, `ServerLoopProofs`, `BoardConfigProofs` | proofs | |

`MsgStream` justifies `Wire`: the session modules take whole messages off a
channel because the byte stream implements one.  `PowerSeq` has the timers that
`CdbaServer` takes as one step (`EntersFastboot`), `BoardLock` the wait that it
takes as one step (`SelectBoard`), `Fastboot` the transfers that it takes
as one step, done or refused (`Download`, `Continue`), `ServerLoop` the order of the callbacks
that it leaves free, and `Controllers` the line commands, each of which may
fail, that `PowerSeq` takes as done with the step.  `Controllers` abstracts from
the delays of the sequence in return: `Tick` may come at any time.  Definitions
marked *Seeded fault* are plausible bugs, each of which one property of a run
must catch; nothing uses them otherwise.

A message on `Wire` is its type and the one fact its handler looks at.  The
heap of `List` keeps the pointers as they are, so that adding a node that is on
a list does in the model what it does in memory.  Time is a clock of few ticks
in `PowerSeq` (the delays keep their order) and a three-valued deadline
(off, ahead, past) in `CdbaClient`.  In `ServerLoop` the descriptor set starts
with any value, because `watch_main_loop` never clears it.  A configuration
file in `BoardConfig` is a sequence of entries chosen as it is read; the history
`text` keeps those of the current board.  History variables (`owed`, `crowded`,
`overlapped`, `queued`, `left` (the board left fastboot otherwise than by
booting), `refused` (it did not do what it was asked over a usable
connection), `last`, `touched`, `overlap`, `late`, `dirty`, `asked`, `lost`, `fresh`, `ended`, `text`, `shown`, `described`) record what properties
speak of; where one also stands in a guard (`lost` against `MaxLost`, `text`
against `most`, `opened` for the one `MSG_SELECT_BOARD`) it is as a bound.
`eaten` in `BoardLock` is state: a server whose stream lost a byte cuts it
anywhere from there, into commands, unknown types (`exit`) or the selection of
a board that does not exist.  `taken` in `CdbaServer` is state of the boot
loader: an image it got in a call that failed, and may yet boot
(`ActsLate`).

## 3. Runs

| Run | Shows | Bounds |
|---|---|---|
| `stream` | `InOrder`, `NothingHeldAsleep`; implements `MsgChannel` (`ChannelSpec`); `EveryMsgArrives` | ring of 8 bytes, header of 3, a pipe of 9, four messages of every allowed length: every offset of head and tail, messages that wrap, fill or exceed the ring, and headers and payloads that meet a full pipe |
| `power` | `PowerFollowsCommand`, `KeysMatchState`, `HoldsFastbootKeyAlone`, `ReachesRunning` | four commands, crashes or openings; three configurations that take different steps |
| `lock` | `OffWhenFree`, `LockIsFreed`, `WaitsForSomebody`, `GoneClientIsNoticed`; implements `BoardSessions` (`SessionsAreSerial`) | two slots, two servers in each: a holder, a waiter and their successors |
| `fastboot` | `InStep`, `BootsWhole`, `BootEnds` | two calls, an image of two transfers, two announcements, two late answers |
| `session_cycle` | `WorkIsQueued`, `ImageIsFile`, `DoneMeansBooted`, `FastbootIsServed`, `Repowered` | `-R -c 1`; a pipe of two messages, a run of two tildes, one reset; any download or continue may be refused |
| `session_ends` | `NullOnlyUnselected`, `ClientEnds`, `BoardIsReleased` | `-T` with `-c 1`; `-s`, `-T` and `-t` with `-C 1`; `-l`, `-i` and no image, each with and without `-s`; usable and refused board; two keys |
| `drivers` | implements `LineControl` (`LinesAsTold`); `WriteRepairs`, `LeavesAsPromised`, `OpenStartsClean`, `OpeningNeverPowers`, `ToolEnds` | ten boards, one at least of every driver, with both polarities, shared and split interfaces and a line beyond the byte; two processes, three commands of a server, one lost command |
| `loop` | `NeverBlocks`, `EndsForCause`, `AnswerIsRead`, `OnePoll`, `ReportedIsMeasured`, `Served`, `EndIsNoticed` | four boards; one descriptor besides the client whose other side ends; two messages after the selection, two uevents or pieces of output, three measurements in reads of 4 characters or of all there are, and once other output - of one fixed kind, between two lines |
| `config` | `MeansItsText`, `ListedIsUsable`, `OnlyAllowed` | three kinds of file: six entries on how to boot, four on drivers with two entries of options, two boards of five entries on names and users |

The type invariants of all modules are proved (section 4); in the runs those of
`Fastboot`, `CdbaSession`, `ServerLoop` and `BoardConfig` are conjuncts of
`InStep`, `WorkIsQueued`, `OnePoll` and `MeansItsText`.  `ReportedIsMeasured` has three parts: `InMeasuredOrder` and
`SkipsAtMostOne` for the QcomLT board, `CdbSnapshot` for the CDB Assist.

A run of twenty tildes is two here, an image is one or two chunks, and the pipe
takes two messages: each is the smallest number at which the code takes all its
branches (a run that is broken, a chunk that is sent again, a first and a last
chunk).  One `-c` is enough for a session in which the count runs out.  Two
processes are enough for what one leaves behind and the next finds; one lost
command enough for what later commands make of it, since the drivers look at no
result.  Reads of four characters cut a measurement (nine characters and what
follows) at every place as the stream moves on.  Six entries let every key that
matters to booting occur twice or in any order.  Deadlock is not checked:
sessions, clients, servers and processes end.

Three runs show disagreements between the code and what it says of itself, each
with one property:

| Run | Property | Disagreement |
|---|---|---|
| `session_flap` | `BootsTheFile` | a fastboot interface that drops out and returns during a transfer is announced again and starts a second transfer; the two are mixed into one image.  (A uevent for a device that is open already announces nothing: its interface cannot be claimed twice) |
| `session_loop` | `WorkListIsSound` | the static node of `request_power_on` is queued twice when two replies are handled before a drain; the list becomes a loop and work behind it is lost |
| `measure_skips` | `EveryMeasureReported` | after a match `qcomlt_dbg_ctrl_data` stays where it was, the next character is an error, and the next measurement is dropped with it: every second one is lost |

The properties of passing runs that such behaviour would break are stated for
the rest of the behaviours: `WorkIsQueued` while never two replies that ask for
a power-on are outstanding and no power-off is typed while a power-on is queued
(`~crowded`), `ImageIsFile` while moreover no transfer is requested during
another (`~overlapped`), `DoneMeansBooted` and `FastbootIsServed` for a board
that does what it is asked (`refused`), `SkipsAtMostOne` says what does hold
of measurements.  Others are limited by behaviour of the code that nothing in
the repository speaks against, or only loosely:

* A power-on that arrives while ticks of an earlier one are scheduled leaves
  the old tick pending; the two chains advance one state, and the fastboot key
  is released before `fastboot_key_timeout`.  `HoldsFastbootKeyAlone` is for
  power-ons that do not overlap.  `PowerFollowsCommand` exempts a power-off
  before the 10 ms tick of a power-on, which the code does not cancel.
* A message whose payload meets a full pipe leaves its header behind, and
  nothing that follows is parsed in place: the properties of `MsgStream` speak
  of what was written before (`torn`).
* The connection check in `device_lock` reads a byte of stdin and drops it: a
  client that sent anything during the wait has its stream cut out of place.
* Without `-R`, the interface that shows up after the first power cycle makes
  `cdba -c 2` quit with power cycles left.
* `NullOnlyUnselected` exempts a refused board, `-l -s`, `-i -s` and sessions in
  which keys were typed: there the server may dereference a NULL
  `selected_device`.  What remains is that the request for the board goes before
  everything `main` queues with it.
* `InStep` and `BootsWhole` exempt a connection on which an answer came later
  than a second.
* `device_boot` returns nothing, and `msg_fastboot_download` replies whatever
  became of it: for a board that refuses the image, or fails on USB, `cdba` takes
  the image for booted (its exit status after a timeout says so), and the board
  stays in fastboot, where nobody asks it again.  Without `refused` in their
  formulas TLC finds `DoneMeansBooted` and `FastbootIsServed` violated by this.
* `DoneMeansBooted` also exempts a board that left fastboot other than by
  booting (`left`: a reset, a power-off), and is for sessions with an image,
  since `cdba` without one is done when the board was told to continue.
  `FastbootIsServed` is for a board that refused nothing since it came to
  fastboot (`refused = "now"`): a refusal that is over exempts nothing.
* A complete message that is read in the call that meets the end of file is
  dropped: `NothingHeldAsleep` says that no other is, and `EveryMsgArrives`
  that all arrive while the writer stays.
* An FTDI line that is active low is asserted by the byte that asserts
  `OUTPUT_ENABLE`, until it is told otherwise; an active-low key is not told
  otherwise by `ftdi_gpio_open`.  `OpeningNeverPowers` and `OpenStartsClean`
  exempt exactly these.  A line beyond bit 7 (the YAML form does not check it)
  is no pin and never moves.  `cdba-power on` on a board without power control
  waits for ever.
* Of a conmux host with several addresses the last attempt counts, and the
  connections before it stay open.

### Where configuration, code and schema differ

`BoardConfig` is translated from the code.  `schema.yaml` is looser or stricter
in places: it requires `board` and `name`, the code `board`, `fastboot` and
`console` (or `conmux`); it does not know `power_always_on`; it limits FTDI
lines to 7, as the one-string form does and the mapping form does not.
`fastboot_set_active: false` names a slot "false".  `active_low: false` and
`broken_fastboot_boot: false` do not undo an earlier `true`.  The second of two
boards with one name can be listed and described but never opened, which is why
`ListedOpens` (proved, section 4) asks for a name of its own.

### Fairness

*Stream*: the reader runs; the writer need not.  *Power*: the loop turns and
time passes; nobody has to send commands.  *Lock*: each server runs its own
code and a forked child reaches `exec`; clients need not do anything.
*Fastboot*: the server runs, and the boot loader answers what it took, late or
not.  *Session*: the client's loop runs, a powered board comes to fastboot,
and the server's message handling and its udev handling are each fair, because
`watch_main_loop` serves every ready descriptor in each turn.  *Drivers*: the
process runs on (a write returns, a timer fires, the tool goes to its next
statement); nobody has to send a command or start a process.  *Loop*: the loop
turns, as one action: which descriptor is served follows from the list, not
from fairness.  No fairness is put on users, resets, console output, what boards print
or the passing of the client's deadlines.

## 4. Proofs

All are for every value of the constants that the modules' assumptions allow,
and in the form `Spec => ...`; nothing rests on fairness.

* `MsgStreamProofs`: the inductive invariant `IInv` says that the ring between
  tail and head, followed by the pipe, is the unread rest of what was written,
  and that what was written is the concatenation of framed messages, the last
  of which may lack its payload, and of which the handled ones are a prefix
  that ends at the tail.  `RingIntegrity`, `InOrder` and `NothingHeldAsleep`
  follow; `NothingHeldAsleep` alone is not inductive, since it depends on where
  the parser stops.  Below it are lemmas on what the ring operators return and
  keep, from `CircBuf`'s assumption that the size is at least two: a stored run
  is read back, the free space never lets the head reach the tail.
  `StreamIsChannel` maps a written message to `Post`, a
  parsed one to `Take` and everything else to stuttering.
* `PowerSeqProofs`: `PInv` adds to the properties what they need of the timers:
  without overlap exactly one tick is pending in each unfinished state and it
  is due no earlier than the delay after the state was entered; with overlap at
  least one is.  `NeverStuck`, `PowerFollowsCommand`, `KeysMatchState` and the
  action property `HoldsFastbootKeyAlone` follow.
* `BoardLockProofs`: `LInv` says that a server between `flock` and its exit
  holds the lock.  Then at most one does; `PowerIsMine` and `OffWhenFree`
  follow, and `LockIsSerial` shows that `BoardLock` implements `BoardSessions`.
  `LockHasHolder` (`HeldBySomebody`) is the safety behind `LockIsFreed`: a
  lock that is taken always has a living server in its session, or a forked
  child short of `exec()`, that will give it up.
* `ControllersProofs`, for every set of boards that `ControllersAssumption`
  allows (a board has lines its driver drives; no two lines of an FTDI chip
  share a pin): `IInv` is `TypeOK` and `Carried`, which says that the byte of an
  interface holds for each of its pins what that line was last told, in its own
  polarity.  It is what makes a write for one line right for its neighbours:
  `LinesFollow` (implements `LineControl`) and `WritesRepair` follow.  What a
  process leaves behind follows from `LInv`, which speaks of `todo`: a line
  *ends up* at a value if the last command for it that is still to come sets
  that value, or none is to come, it was told the value, and it has it or gets it
  with the next byte of its interface.  While no command of this process is lost
  a write keeps where every line ends up, so that only changes when a callback
  puts commands on `todo`; `LInv` says for
  each phase of each kind of process where power, USB and keys end up.  At
  `todo = <<>>` that is `LeavesAsPromised` (`PromisesAreKept`) and
  `OpenStartsClean` (`StartsClean`).  `OpeningNeverPowers` (`OpeningIsSafe`)
  needs no such hypothesis: while a board is opened power is told to go off and
  nothing else, and before any byte that carries it (`NoPower`), lost or not.
  `ToolNeverStuck` (`SequenceTicks`) is the safety behind `ToolEnds`: a
  sequence under way has a tick scheduled, and `cdba-power on` has started one
  before it waits.
* `BoardConfigProofs`, for every set of files, callers and names: `CInv` adds to the properties that the options being read are of
  the driver that will be selected, and that a board has a console node exactly
  when it has console operations, and a serial exactly when it has a way to
  boot: the check at the end of a board looks at the one and the rest of the
  server relies on the other.  `OptionsFit`, `BoardsAreUsable`,
  `AccessIsChecked` and `WhatIsListedOpens` follow, with no assumption.
  `BoardMeansItsText` (`MeansItsText`) adds `TInv`: at every place inside a
  board, its options and lines included, how it boots and who may use it are
  what the entries read so far say, and each control or console key among them
  is the one that was selected with its node - which holds when the key is read
  and cannot be undone, because a second such key ends the process.  It assumes
  that the bounds on files are numbers and that a one-string value of
  `ftdi_gpio` is a sequence of lines (`BoardConfigAssumption`).
* `FastbootProofs`, for every list of commands, size of image and number of
  calls, announcements, late answers and unpluggings, from `FastbootAssumption`
  (no list of commands is empty, the image is at least one transfer): `FInv`
  adds `Talk`, which holds while no answer came too late.  Then the boot loader
  is busy only with what the host waits for; the answers in flight are
  announcements and, once it is no longer busy, one final answer, `DATA`
  when it waits for an image; and the data it holds is the image so far.  Being
  late is forgotten on a new connection only, which starts with nothing in
  flight.  `StaysInStep` (`InStep`) and `OnlyTheImageBoots` (`BootsWhole`)
  follow.  `NothingIsForNothing` (`BootGoesOn`) is the safety behind `BootEnds`,
  and needs no such hypothesis: each step of the host leaves a command less, or
  the command nearer to its end (`Stage`), or an answer less to read; nobody
  else sets it back; and only a transfer of its own makes the boot loader busy,
  which then answers once, but for announcements.

* `CdbaSessionProofs`, for every set of options, number of chunks, length of
  the tilde run and size of the pipes: client, server and wire together, from
  `SessionTypes` upward in five layers.
  `NullWhenUnselected` (`NullOnlyUnselected`): for a user who may have the board
  and types nothing, the request for the board is the first message sent; until
  it is, the client is as `main` set it up (`Virgin`).  With a status pipe that
  is so for the verb `boot` only.
  `WorkIsKept` (`WorkIsQueued`): first what `list_add` and `list_del` make of a
  list that `Holds` its nodes, for any number of nodes.  `Holds` is kept as long
  as no node is added twice, and that rests on `OneAsked`: of all the places that can
  cause a power-on - the request on the list, its message in the pipe, the reply
  on its way, the reply in the client's hands - at most one is occupied.  `FromFront` says that the drain loop is always at the head of the
  list, which makes its saved `next` pointer right after it frees the node.
  `TheFileIsBooted` (`ImageIsFile`): what the server has, what is in the pipe
  and what the work list will send are consecutive chunks.  The invariant says
  so without recursion: `InFlight` asks for a counter along the pipe (`Chain`)
  that starts at the length of the server's payload and ends where the one
  allocated download stands.
  `DoneIsTrue` (`DoneMeansBooted`): while the board has refused nothing, until
  the file is booted no reply to a download is under way, and a board for which
  a transfer was asked stays in fastboot with its descriptor open.  The step that decides is the
  empty download, which either starts the board or is a refusal.
  `NobodyIsForgotten` is the safety that two liveness properties rest on, and
  needs no more than the types, `AllHeard` and, on what the queued uevents
  say of the bus, `Plugged` and `Attached` besides: the last uevent of a board
  that is on the bus is an `add`, and an open board is on it or a `remove` is
  queued.
  `PowerComesBack`, for `Repowered`: while a power cycle has the board off, its
  power-off or power-on is on the work list or on its way, or so is the reply
  that will request the power-on.  `FastbootIsAnswered`, for
  `FastbootIsServed`: a board in fastboot is about to be announced, or its
  announcement, the download or the continue that answers it is on its way, or
  the user quits - or it has refused what it was asked since it came there.  Each fact is handed on step by step, from the list to the
  pipe, through the server and back into the client's hands.
  `ClientAssumption` gives the options their type and keeps the downloads'
  nodes apart from the static ones.
* `ServerLoopProofs`, for every set of boards, read sizes, greetings and bounds:
  `LoopInvariant` is the inductive invariant.  `NeverBlocked` (`NeverBlocks`)
  rests on its part `Pass`: the descriptors of the set that this pass has still
  to visit are readable - also the one a callback is in the middle of - and
  once more than stdin is watched the set is within the watched descriptors,
  so that a watch added in the middle of a pass is not in it.  With stdin alone
  that may be false, because the set starts with any value; but then the first
  `select()` comes before anything is added.
  `EndsOnlyForCause` (`EndsForCause`) adds why `quit_invoked` was set,
  `AnswerRead` (`AnswerIsRead`) that a board is selected once, and `PollsOnce`
  (`OnePoll`) that status is enabled once.
  `ReportsMeasured` (`ReportedIsMeasured`) needs to know what the parsers have
  read, which no variable says: by `ReadingInvariant` the unread characters are
  those of the lines printed, in their places, and the number of characters
  that are not unread determines the state and numbers of the parser that has
  read them.  For the CDB Assist it determines them wholly.  The QcomLT parser
  is in step with the line or drops it, up to its `A`; it drops a line only
  when the one before was reported, unless the board has printed something
  else - which is why it reports one of two, and why a line cut by other
  output is never half of a pair.
  `ServerLoopAssumption` says that a console answers once, that exactly the
  boards with a conmux console have the conmux control, and that a board prints
  at most nine lines: a line's number is one of its digits.

Looking for these invariants showed properties to be stated for too much.
A power-off typed while a power-on waits in the queue makes a second reply that
asks for one: `WorkIsQueued` now counts it as `crowded`.  A crowded list can
send chunks of one transfer twice, so `ImageIsFile` needs `~crowded` as well.
`DoneMeansBooted` named the causes of a transfer that is cut off; it now names
the fact, `left`.  None of the runs was long enough to meet the first two.
`OpeningNeverPowers` turned out to hold without its hypothesis that no command
was lost.

`RingIntegrity`, `NeverStuck`, `PowerIsMine`, `HeldBySomebody`,
`SequenceTicks`, `PowerComesBack`, `FastbootIsAnswered`, `OptionsFitDriver`,
`ListedOpens` and `BootGoesOn` are proved and in no run of their own.

Only model-checked: the liveness properties, because TLAPS does not reason about
`ENABLED` and fairness here.  Every other property that a passing run checks is
the property of a theorem.

## 5. Not modelled

* In the session modules a message is written whole or refused (`MsgStream` has
  the torn write) and the board is not configured as always on (that is in
  `PowerSeq`, `BoardLock` and `Controllers`).  VBUS and break keys are not typed
  there.
* `status.c`'s JSON text, the wording of list and description, the URL decoding
  of conmux replies, the terminal modes of `tty.c`, the voltage the CDB Assist
  is set to: values that no decision of the code looks at.
* `parse_usb_desc` and `usbdevfs` in `fastboot.c`: how an interface is found in
  a descriptor the kernel hands over.  That it cannot be claimed twice is.
* In the session modules a refused transfer leaves the connection in step: what
  a late answer does to the next command is in `Fastboot`.
* libyaml and its tokens: `BoardConfig` starts from the entries, well nested; an
  event that is not the expected one ends the process, like `BadLine`.
* The FTDI, Laurent and helper protocols below one line command, and the
  sleeps in `alpaca.c` and `laurent.c`, during which the server does nothing.
* Two processes that drive a board at once: `BoardLock` shows there are none.
* Build files and packaging.

## 6. Plan

Done, in this order: stream; power sequence; lock; client, server and their
session; fastboot protocol; proofs of the first three; torn writes; controllers
and `cdba-power`; the server's loop with console, status, debug boards and
conmux; configuration; proofs of controllers, configuration and fastboot; of
the session, the server's loop and what is left of controllers and
configuration; the safety that the liveness properties rest on; what the
parsers of the debug boards report.

Next, most important first:

1. The measures that turn `PowerComesBack` and `FastbootIsAnswered` into the
   liveness they support: what is on its way moves on, the pipes drain.
2. The ranges of `StatusParsers`' numbers (an `int` that a long run of digits
   overflows) with integers of their width.
