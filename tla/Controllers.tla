---------------------------- MODULE Controllers ----------------------------
(***************************************************************************)
(* The controllers of src/drivers and the processes that use them: a       *)
(* cdba-server, cdba-power on, or cdba-power off, one after another on one *)
(* board (BoardLock shows they do not overlap).  A process issues its line *)
(* commands in order, one write, request or child process each; any of     *)
(* them can fail, and no caller looks at the result.  The lines keep their *)
(* level between processes; the FTDI driver's copy of them does not.       *)
(***************************************************************************)
EXTENDS Integers, Sequences, SequencesExt

CONSTANTS Boards,     \* the configurations considered
          MaxRuns,    \* bound: processes, one after another
          MaxOps,     \* bound: commands a server is sent
          MaxLost     \* bound: line commands that fail

Drivers == {"none", "ftdi_gpio", "local_gpio", "alpaca", "external",
            "laurent", "cdb_assist", "qcomlt_dbg", "conmux"}
UsbLines == <<"ppps", "ppps3", "usb0", "usb1">>
Lines == {"power", "fastboot", "power_key", "output_enable"}
           \cup {"ppps", "ppps3", "usb0", "usb1"}
KeyLines == {"fastboot", "power_key"}
Interfaces == 0 .. 3
Bits == 0 .. 7                        \* the bits of an unsigned char

BoardType == [driver : Drivers,
              wired : SUBSET Lines,          \* the lines it is configured for
              activeLow : SUBSET Lines,
              iface : [Lines -> Interfaces], offset : [Lines -> Nat],
              fbTimeout : BOOLEAN,           \* fastboot_key_timeout # 0
              usbAlwaysOn : BOOLEAN, powerAlwaysOn : BOOLEAN]

OnChip(b, l) == b.driver = "ftdi_gpio" /\ l \in b.wired \ {"ppps", "ppps3"}

(* The lines a driver's power, usb and key operations drive at most: which *)
(* of them a GPIO or Laurent driver has is configured.                     *)
FtdiLines == {"power", "fastboot", "power_key", "usb0", "usb1",
              "output_enable"}
LocalGpioLines == {"power", "fastboot", "power_key", "usb0"}
AlpacaLines == {"power", "fastboot", "power_key", "usb0"}
ExternalLines == {"power", "fastboot", "power_key", "usb0"}
CdbAssistLines == {"power", "fastboot", "power_key", "usb0"}
QcomltLines == {"power", "fastboot", "power_key", "usb0"}
LaurentLines == {"power", "usb0"}
ConmuxLines == {"power"}
PppsLines == {"ppps", "ppps3"}               \* whatever the driver

Drives(d) ==
  CASE d = "ftdi_gpio" -> FtdiLines [] d = "local_gpio" -> LocalGpioLines
    [] d = "alpaca" -> AlpacaLines [] d = "external" -> ExternalLines
    [] d = "cdb_assist" -> CdbAssistLines [] d = "qcomlt_dbg" -> QcomltLines
    [] d = "laurent" -> LaurentLines [] d = "conmux" -> ConmuxLines
    [] OTHER -> {}

(* A board has lines its driver drives, all of them unless they are        *)
(* configured one by one.  No two lines of an FTDI chip share a pin.       *)
ASSUME ControllersAssumption ==
  /\ Boards \subseteq BoardType
  /\ \A b \in Boards :
       /\ b.wired \subseteq Drives(b.driver) \cup PppsLines
       /\ b.driver \in {"alpaca", "external", "cdb_assist", "qcomlt_dbg",
                       "conmux"} => Drives(b.driver) \subseteq b.wired
  /\ \A b \in Boards, l, m \in Lines :
       OnChip(b, l) /\ OnChip(b, m) /\ b.iface[l] = b.iface[m]
         /\ b.offset[l] = b.offset[m] => l = m
  /\ MaxRuns \in Nat /\ MaxOps \in Nat /\ MaxLost \in Nat

VARIABLES
  board,      \* the board's configuration
  level,      \* the lines: asserted or not
  lines,      \* ftdi_gpio->gpio_lines: the set bits of a byte per interface
  todo,       \* the line commands the running callback has left to issue
  proc,       \* "none", "opening", "ready", "waiting" (cdba-power in
              \* watch_main_loop), "closing"
  who,        \* "server", "on", "off": the process
  state,      \* device->state
  ticks,      \* device_tick timers that are pending
  ops, runs,  \* bounds
  asked,      \* history: what each line was last told
  lost,       \* history: commands that failed since the process started
  fresh,      \* history: nothing was commanded since device_open
  ended       \* history: how the last process ended

control == <<state, ticks>>
hist == <<asked, lost, fresh, ended>>
vars == <<board, level, lines, todo, proc, who, state, ticks, ops, runs,
          asked, lost, fresh, ended>>

OnFtdi(l) == OnChip(board, l)

(* The lines of the chip that the byte of interface i drives: a bit beyond *)
(* the byte is no pin.                                                     *)
Pins(i) == {l \in Lines : OnFtdi(l) /\ board.iface[l] = i
                            /\ board.offset[l] \in Bits}

(* What a line of the chip is told by a byte of zeroes. *)
Low == [l \in Lines |-> OnFtdi(l) /\ l \in board.activeLow]

NoLines == [i \in Interfaces |-> {}]

Init ==
  /\ board \in Boards
  /\ level = [l \in Lines |-> FALSE] /\ lines = NoLines /\ asked = Low
  /\ todo = <<>> /\ proc = "none" /\ who = "server"
  /\ state = "start" /\ ticks = 0 /\ ops = 0 /\ runs = 0
  /\ lost = 0 /\ fresh = FALSE /\ ended = "none"
-----------------------------------------------------------------------------
Commands == [line : Lines, on : BOOLEAN]

Tell(ls, on) == [i \in 1 .. Len(ls) |-> [line |-> ls[i], on |-> on]]

PowerCmd(on) == Tell(<<"power">>, on)
UsbCmd(on) == Tell(UsbLines, on)           \* device_usb, ppps_power first

(* Seeded fault: the keys are left as they are. *)
DriverOpenKeysAsIs(b) ==
  CASE b.driver \in {"ftdi_gpio", "local_gpio", "alpaca"} ->
         PowerCmd(FALSE) \o Tell(<<"usb0", "usb1">>, b.usbAlwaysOn)
    [] b.driver \in {"cdb_assist", "qcomlt_dbg"} ->
         Tell(<<"power", "usb0">>, FALSE)
    [] OTHER -> <<>>

(* Seeded fault: the lines are requested active. *)
DriverOpenActive(b) ==
  IF b.driver = "local_gpio"
    THEN Tell(<<"power", "fastboot", "power_key", "usb0">>, TRUE)
           \o PowerCmd(FALSE)
    ELSE <<>>

(* OUTPUT_ENABLE, power, and both USB lines as the board has them. *)
FtdiOpen(b) ==
  Tell(<<"output_enable">>, TRUE) \o PowerCmd(FALSE)
    \o Tell(<<"usb0", "usb1">>, b.usbAlwaysOn)

(* local_gpio_init requests every line inactive. *)
LocalGpioInit == Tell(<<"power", "fastboot", "power_key", "usb0">>, FALSE)

LocalGpioOpen(b) ==
  LocalGpioInit \o PowerCmd(FALSE) \o Tell(<<"usb0">>, b.usbAlwaysOn)

AlpacaOpen(b) == PowerCmd(FALSE) \o Tell(<<"usb0">>, b.usbAlwaysOn)

CdbAssistOpen ==                             \* "vpabc"
  Tell(<<"usb0", "power", "power_key", "fastboot">>, FALSE)

QcomltOpen ==                                \* "brpu"
  Tell(<<"power_key", "fastboot", "power", "usb0">>, FALSE)

(* What the driver's open sends. *)
DriverOpen(b) ==
  CASE b.driver = "ftdi_gpio" -> FtdiOpen(b)
    [] b.driver = "local_gpio" -> LocalGpioOpen(b)
    [] b.driver = "alpaca" -> AlpacaOpen(b)
    [] b.driver = "cdb_assist" -> CdbAssistOpen
    [] b.driver = "qcomlt_dbg" -> QcomltOpen
    [] OTHER -> <<>>

(* dev->has_power_key: cdb_assist drives a power key and does not say so.  *)
HasPowerKey ==
  /\ board.driver \in {"ftdi_gpio", "local_gpio", "alpaca", "external",
                       "qcomlt_dbg"}
  /\ "power_key" \in board.wired

Idle == todo = <<>>

(* device_open: the driver's open and the two always-on options. *)
Open(w) ==
  /\ proc = "none" /\ Idle /\ runs < MaxRuns
  /\ proc' = "opening" /\ who' = w /\ runs' = runs + 1
  /\ todo' = DriverOpen(board)
               \o (IF board.powerAlwaysOn THEN PowerCmd(FALSE) ELSE <<>>)
               \o (IF board.usbAlwaysOn THEN UsbCmd(TRUE) ELSE <<>>)
  /\ lines' = NoLines
  /\ asked' = [l \in Lines |-> IF OnFtdi(l) THEN Low[l] ELSE asked[l]]
  /\ lost' = 0 /\ fresh' = TRUE /\ ended' = "none" /\ ops' = 0
  /\ UNCHANGED <<board, level, control>>
-----------------------------------------------------------------------------
(* Seeded fault: only the bit that changes is kept. *)
ByteAfterAlone(l, on) ==
  IF on # (l \in board.activeLow) THEN {board.offset[l]} \cap Bits ELSE {}

(* ftdi_gpio_toggle_io: gpio_lines |= or &= ~ (1 << bit). *)
ByteAfter(l, on) ==
  (IF on # (l \in board.activeLow)
     THEN lines[board.iface[l]] \cup {board.offset[l]}
     ELSE lines[board.iface[l]] \ {board.offset[l]}) \cap Bits

(* Seeded fault: a write that failed is taken back. *)
ToggleUndo(l, on) ==
  LET byte == ByteAfter(l, on)
  IN \/ /\ lines' = [lines EXCEPT ![board.iface[l]] = byte]
        /\ level' = [m \in Lines |-> IF m \in Pins(board.iface[l])
                       THEN (board.offset[m] \in byte)
                              # (m \in board.activeLow)
                       ELSE level[m]]
        /\ UNCHANGED lost
     \/ lost < MaxLost /\ lost' = lost + 1 /\ UNCHANGED <<level, lines>>

(* The byte is written whole: every pin of the interface follows it.       *)
(* ftdi_write_data can fail; gpio_lines keeps the bit all the same.        *)
Toggle(l, on) ==
  LET byte == ByteAfter(l, on)
  IN /\ lines' = [lines EXCEPT ![board.iface[l]] = byte]
     /\ \/ /\ level' = [m \in Lines |-> IF m \in Pins(board.iface[l])
                          THEN (board.offset[m] \in byte)
                                 # (m \in board.activeLow)
                          ELSE level[m]]
           /\ UNCHANGED lost
        \/ lost < MaxLost /\ lost' = lost + 1 /\ UNCHANGED level

(* A driver that sends a request for each line. *)
Request(l, on) ==
  /\ UNCHANGED lines
  /\ \/ level' = [level EXCEPT ![l] = on] /\ UNCHANGED lost
     \/ lost < MaxLost /\ lost' = lost + 1 /\ UNCHANGED level

(* The next line command is issued. *)
Issue(c) ==
  /\ c.line \in board.wired
  /\ IF OnFtdi(c.line) THEN Toggle(c.line, c.on) ELSE Request(c.line, c.on)
  /\ asked' = [asked EXCEPT ![c.line] = c.on]
  /\ todo' = Tail(todo)
  /\ UNCHANGED <<board, proc, who, control, ops, runs, fresh, ended>>

(* A line the board does not have: -EINVAL, no such operation, no path. *)
Refuse(c) ==
  /\ c.line \notin board.wired
  /\ todo' = Tail(todo)
  /\ UNCHANGED <<board, level, lines, proc, who, control, ops, runs, hist>>

Write == todo # <<>> /\ (Issue(Head(todo)) \/ Refuse(Head(todo)))
-----------------------------------------------------------------------------
(* device_power_on, which calls device_tick in START; nothing happens on a *)
(* board without power control.                                            *)
PowerOn ==
  IF "power" \in board.wired
    THEN /\ state' = "connect" /\ ticks' = ticks + 1
         /\ todo' = (IF board.fbTimeout THEN Tell(<<"fastboot">>, TRUE)
                                        ELSE <<>>)
                      \o (IF HasPowerKey THEN Tell(<<"power_key">>, FALSE)
                                         ELSE <<>>)
    ELSE UNCHANGED <<state, ticks, todo>>

(* A command of the client, in handle_stdin. *)
Command ==
  /\ proc = "ready" /\ who = "server" /\ Idle /\ ops < MaxOps
  /\ ops' = ops + 1 /\ fresh' = FALSE
  /\ \/ PowerOn
     \/ /\ \/ todo' = PowerCmd(FALSE)
           \/ \E on \in BOOLEAN : todo' = UsbCmd(on)
           \/ \E k \in KeyLines, on \in BOOLEAN : todo' = Tell(<<k>>, on)
        /\ UNCHANGED control
  /\ UNCHANGED <<board, level, lines, proc, who, runs, asked, lost, ended>>

AfterKeys == IF board.fbTimeout THEN "release_fastboot" ELSE "running"

(* Seeded fault: the power key is not let go. *)
TickHolds ==
  CASE state = "connect" ->
         /\ todo' = PowerCmd(TRUE) \o UsbCmd(TRUE)
         /\ state' = IF HasPowerKey THEN "press" ELSE AfterKeys
    [] state = "press" ->
         todo' = Tell(<<"power_key">>, TRUE) /\ state' = AfterKeys
    [] state = "release_fastboot" ->
         todo' = Tell(<<"fastboot">>, FALSE) /\ state' = "running"
    [] OTHER -> UNCHANGED <<todo, state>>

(* device_tick, called from a timer. *)
TickActs ==
  CASE state = "connect" ->
         /\ todo' = PowerCmd(TRUE) \o UsbCmd(TRUE)
         /\ state' = IF HasPowerKey THEN "press" ELSE AfterKeys
    [] state = "press" ->
         todo' = Tell(<<"power_key">>, TRUE) /\ state' = "release_pwr"
    [] state = "release_pwr" ->
         todo' = Tell(<<"power_key">>, FALSE) /\ state' = AfterKeys
    [] state = "release_fastboot" ->
         todo' = Tell(<<"fastboot">>, FALSE) /\ state' = "running"
    [] OTHER -> UNCHANGED <<todo, state>>

(* Seeded fault: the next tick is not scheduled. *)
TickOnce ==
  /\ proc \in {"ready", "waiting"} /\ Idle /\ ticks > 0
  /\ TickActs
  /\ ticks' = ticks - 1
  /\ UNCHANGED <<board, level, lines, proc, who, ops, runs, hist>>

Tick ==
  /\ proc \in {"ready", "waiting"} /\ Idle /\ ticks > 0
  /\ TickActs
  /\ ticks' = IF state = "running" \/ state' = "running" THEN ticks - 1
                                                         ELSE ticks
  /\ UNCHANGED <<board, level, lines, proc, who, ops, runs, hist>>

(* device_open has returned. *)
Opened ==
  /\ proc = "opening" /\ Idle
  /\ proc' = "ready"
  /\ UNCHANGED <<board, level, lines, todo, who, control, ops, runs, hist>>

(* cdba-power on: device_power, then watch_main_loop(ready). *)
ToolOn ==
  /\ proc = "ready" /\ who = "on" /\ Idle
  /\ PowerOn
  /\ proc' = "waiting" /\ fresh' = FALSE
  /\ UNCHANGED <<board, level, lines, who, ops, runs, asked, lost, ended>>

(* Seeded fault: the two options are mixed up. *)
CloseCmdsSwapped(usbOn, powerOn) ==
  (IF powerOn THEN <<>> ELSE UsbCmd(FALSE))
    \o (IF usbOn THEN <<>> ELSE PowerCmd(FALSE))

(* device_close with these always-on options. *)
CloseCmds(usbOn, powerOn) ==
  (IF usbOn THEN <<>> ELSE UsbCmd(FALSE))
    \o (IF powerOn THEN <<>> ELSE PowerCmd(FALSE))

(* ready(): the board is running; both options are set before the close.   *)
ToolReady ==
  /\ proc = "waiting" /\ Idle /\ state = "running"
  /\ proc' = "closing" /\ ended' = "on" /\ todo' = CloseCmds(TRUE, TRUE)
  /\ UNCHANGED <<board, level, lines, who, control, ops, runs, asked, lost,
                 fresh>>

(* The loop returns early: a callback failed, select() refused a junk      *)
(* descriptor, or conmux hung up.  The tool goes on as if it had waited.   *)
ToolBreaks ==
  /\ proc = "waiting" /\ Idle /\ state # "running"
  /\ proc' = "closing" /\ ended' = "broken" /\ todo' = CloseCmds(TRUE, TRUE)
  /\ UNCHANGED <<board, level, lines, who, control, ops, runs, asked, lost,
                 fresh>>

(* cdba-power off *)
ToolOff ==
  /\ proc = "ready" /\ who = "off" /\ Idle
  /\ proc' = "closing" /\ ended' = "off" /\ fresh' = FALSE
  /\ todo' = UsbCmd(FALSE) \o PowerCmd(FALSE)
               \o CloseCmds(board.usbAlwaysOn, board.powerAlwaysOn)
  /\ UNCHANGED <<board, level, lines, who, control, ops, runs, asked, lost>>

(* The server's loop ended: device_close. *)
ServerCloses ==
  /\ proc = "ready" /\ who = "server" /\ Idle
  /\ proc' = "closing" /\ ended' = "server" /\ fresh' = FALSE
  /\ todo' = CloseCmds(board.usbAlwaysOn, board.powerAlwaysOn)
  /\ UNCHANGED <<board, level, lines, who, control, ops, runs, asked, lost>>

Gone == proc' = "none" /\ state' = "start" /\ ticks' = 0

Exit ==
  /\ proc = "closing" /\ Idle
  /\ Gone
  /\ UNCHANGED <<board, level, lines, todo, who, ops, runs, hist>>

(* The process is killed, or leaves through err() or exit(), as            *)
(* cdb_assist_open does when its write fails.                              *)
Crash ==
  /\ proc # "none"
  /\ Gone /\ todo' = <<>> /\ ended' = "crash" /\ fresh' = FALSE
  /\ UNCHANGED <<board, level, lines, who, ops, runs, asked, lost>>

Tool == ToolOn \/ ToolReady \/ ToolOff \/ Opened \/ Exit

Next == \/ \E w \in {"server", "on", "off"} : Open(w)
        \/ Write \/ Command \/ Tick \/ Tool
        \/ ToolBreaks \/ ServerCloses \/ Crash

(* The process runs on: system calls return and timers fire. *)
Fairness == WF_vars(Write) /\ WF_vars(Tick) /\ WF_vars(Tool)

Spec == Init /\ [][Next]_vars
FairSpec == Spec /\ Fairness
-----------------------------------------------------------------------------
TypeOK ==
  /\ board \in Boards
  /\ level \in [Lines -> BOOLEAN] /\ asked \in [Lines -> BOOLEAN]
  /\ lines \in [Interfaces -> SUBSET Bits]
  /\ todo \in Seq(Commands)
  /\ proc \in {"none", "opening", "ready", "waiting", "closing"}
  /\ who \in {"server", "on", "off"}
  /\ state \in {"start", "connect", "press", "release_pwr",
                "release_fastboot", "running"}
  /\ ticks \in Nat /\ ops \in Nat /\ runs \in Nat /\ lost \in Nat
  /\ fresh \in BOOLEAN
  /\ ended \in {"none", "on", "off", "server", "broken", "crash"}

(* Every line only ever moves to what that line was last told: the FTDI    *)
(* byte that carries it carries its neighbours as they were told, in their *)
(* own polarity, whatever writes were lost before.                         *)
Control == INSTANCE LineControl WITH
  told <- asked, low <- Low, level <- level

LinesAsTold == Control!Spec

(* A write that reaches an FTDI chip makes good every command that was     *)
(* lost before on that interface.                                          *)
Reaches(i) == lost' = lost /\ proc' # "none" /\ \E l \in Pins(i) :
                todo # <<>> /\ todo' = Tail(todo) /\ Head(todo).line = l

WriteRepairs ==
  [][\A i \in Interfaces : Reaches(i) =>
       \A l \in Pins(i) : level'[l] = asked'[l]]_vars

(* The lines a command can move. *)
Moves(l) == l \in board.wired /\ (OnFtdi(l) => board.offset[l] \in Bits)
On(ls) == \A l \in ls : Moves(l) => level[l]
Off(ls) == \A l \in ls : Moves(l) => ~level[l]
AllUsb == ToSet(UsbLines)
Clean(how) == proc = "none" /\ ended = how /\ lost = 0

(* What a process that ended in order and lost no command leaves behind:   *)
(* cdba-power on, that waited for the board, leaves it powered and         *)
(* connected with the keys of its sequence released; a server leaves on no *)
(* more than the board's always-on options allow; and cdba-power off does  *)
(* not even leave that.                                                    *)
LeavesAsPromised ==
  /\ Clean("on") => /\ On({"power"} \cup AllUsb)
                    /\ HasPowerKey => Off({"power_key"})
                    /\ board.fbTimeout => Off({"fastboot"})
  /\ Clean("off") => Off({"power"} \cup AllUsb)
  /\ Clean("server") => /\ board.powerAlwaysOn \/ Off({"power"})
                        /\ board.usbAlwaysOn \/ Off(AllUsb)

(* The drivers whose open brings the keys to rest.  FTDI lines are low     *)
(* after open, which presses a key that is active low.                     *)
Rests(l) == \/ board.driver \in {"local_gpio", "cdb_assist", "qcomlt_dbg"}
            \/ OnFtdi(l) /\ l \notin board.activeLow /\ "power" \in board.wired
                 /\ board.iface[l] = board.iface["power"]

(* A board whose device_open lost no command starts with power as the      *)
(* driver leaves it, USB up if it is always on, and - with these drivers - *)
(* no key held, whatever an earlier process that died had pressed.         *)
OpenStartsClean ==
  proc = "ready" /\ fresh /\ lost = 0 =>
    /\ board.usbAlwaysOn => On(AllUsb)
    /\ board.driver \in {"ftdi_gpio", "local_gpio", "alpaca", "cdb_assist",
                         "qcomlt_dbg"} \/ board.powerAlwaysOn
         => Off({"power"})
    /\ \A k \in KeyLines : Rests(k) => Off({k})

(* Opening a board never switches its power on, even for a moment - unless *)
(* the power line is an active-low line of an FTDI interface and another   *)
(* line of that interface is written before it (ftdi_gpio_open sets        *)
(* OUTPUT_ENABLE first).                                                   *)
Glitches == OnFtdi("power") /\ "power" \in board.activeLow
              /\ OnFtdi("output_enable")
              /\ board.iface["output_enable"] = board.iface["power"]

OpeningNeverPowers ==
  [][proc = "opening" /\ ~Glitches
       => (level'["power"] => level["power"])]_vars

(* A sequence that is under way has a tick scheduled, and cdba-power on,   *)
(* which waits for its end, has started one if the board has power control.*)
SequenceTicks ==
  /\ proc \in {"ready", "waiting"} /\ state \notin {"start", "running"}
       => ticks > 0
  /\ proc = "waiting" /\ "power" \in board.wired => state # "start"

(* cdba-power ends, if the board has power control. *)
ToolEnds ==
  (proc # "none" /\ who # "server" /\ "power" \in board.wired)
    ~> proc = "none"
=============================================================================
