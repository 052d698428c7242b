------------------------- MODULE ControllersProofs -------------------------
(***************************************************************************)
(* The controllers keep the contract of LineControl: for every set of      *)
(* boards whose FTDI lines do not share a pin, any number of processes,    *)
(* commands and crashes, and whatever commands are lost.                   *)
(***************************************************************************)
EXTENDS Controllers, SequenceTheorems, TLAPS

States == {"start", "connect", "press", "release_pwr", "release_fastboot",
           "running"}

(* gpio_lines carries every line as it was last told. *)
Carried ==
  \A l \in Lines : OnFtdi(l) /\ board.offset[l] \in Bits =>
    (board.offset[l] \in lines[board.iface[l]]
       <=> asked[l] # (l \in board.activeLow))

IInv == TypeOK /\ Carried

(* A list of lines makes a list of commands. *)
LEMMA TellType ==
  ASSUME NEW ls \in Seq(Lines), NEW on \in BOOLEAN
  PROVE  Tell(ls, on) \in Seq(Commands)
  <1>1. Len(ls) \in Nat /\ \A i \in 1 .. Len(ls) : ls[i] \in Lines
    OBVIOUS
  <1>2. \A i \in 1 .. Len(ls) : [line |-> ls[i], on |-> on] \in Commands
    BY <1>1 DEF Commands
  <1>3. [i \in 1 .. Len(ls) |-> [line |-> ls[i], on |-> on]]
          \in [1 .. Len(ls) -> Commands]
    BY <1>2
  <1>. QED  BY <1>1, <1>3, IsASeq DEF Tell

LEMMA CatType ==
  ASSUME NEW s \in Seq(Commands), NEW t \in Seq(Commands)
  PROVE  s \o t \in Seq(Commands)
  BY ConcatProperties

LEMMA LineLists ==
  /\ <<"power">> \in Seq(Lines) /\ <<"fastboot">> \in Seq(Lines)
  /\ <<"power_key">> \in Seq(Lines) /\ <<"output_enable">> \in Seq(Lines)
  /\ <<"usb0">> \in Seq(Lines) /\ <<"usb0", "usb1">> \in Seq(Lines)
  /\ UsbLines \in Seq(Lines)
  /\ <<"power", "fastboot", "power_key", "usb0">> \in Seq(Lines)
  /\ <<"usb0", "power", "power_key", "fastboot">> \in Seq(Lines)
  /\ <<"power_key", "fastboot", "power", "usb0">> \in Seq(Lines)
  BY DEF Lines, UsbLines

LEMMA KeyLists == ASSUME NEW k \in KeyLines PROVE <<k>> \in Seq(Lines)
  BY DEF KeyLines, Lines

LEMMA CmdTypes ==
  ASSUME NEW on \in BOOLEAN
  PROVE  PowerCmd(on) \in Seq(Commands) /\ UsbCmd(on) \in Seq(Commands)
  BY TellType, LineLists DEF PowerCmd, UsbCmd

LEMMA NoneOr ==
  ASSUME NEW u \in BOOLEAN, NEW s \in Seq(Commands)
  PROVE  /\ (IF u THEN <<>> ELSE s) \in Seq(Commands)
         /\ (IF u THEN s ELSE <<>>) \in Seq(Commands)
  <1>1. <<>> \in Seq(Commands)
    OBVIOUS
  <1>2. CASE u
    BY <1>1, <1>2
  <1>3. CASE ~u
    BY <1>1, <1>3
  <1>. QED  BY <1>2, <1>3

LEMMA CloseType ==
  ASSUME NEW u \in BOOLEAN, NEW p \in BOOLEAN
  PROVE  CloseCmds(u, p) \in Seq(Commands)
  <1>0. UsbCmd(FALSE) \in Seq(Commands) /\ PowerCmd(FALSE) \in Seq(Commands)
    BY CmdTypes
  <1>1. (IF u THEN <<>> ELSE UsbCmd(FALSE)) \in Seq(Commands)
    BY <1>0, NoneOr
  <1>2. (IF p THEN <<>> ELSE PowerCmd(FALSE)) \in Seq(Commands)
    BY <1>0, NoneOr
  <1>. QED  BY <1>1, <1>2, CatType DEF CloseCmds

LEMMA OpenType ==
  ASSUME board \in BoardType
  PROVE  DriverOpen(board) \in Seq(Commands)
  <1>1. board.usbAlwaysOn \in BOOLEAN
    BY DEF BoardType
  <1>. DEFINE oe == Tell(<<"output_enable">>, TRUE)
              pw == PowerCmd(FALSE)
              u2 == Tell(<<"usb0", "usb1">>, board.usbAlwaysOn)
              u1 == Tell(<<"usb0">>, board.usbAlwaysOn)
              l4 == Tell(<<"power", "fastboot", "power_key", "usb0">>, FALSE)
              c4 == Tell(<<"usb0", "power", "power_key", "fastboot">>, FALSE)
              q4 == Tell(<<"power_key", "fastboot", "power", "usb0">>, FALSE)
  <1>2. /\ oe \in Seq(Commands) /\ pw \in Seq(Commands)
        /\ u2 \in Seq(Commands) /\ u1 \in Seq(Commands)
        /\ l4 \in Seq(Commands) /\ c4 \in Seq(Commands)
        /\ q4 \in Seq(Commands)
    BY <1>1, TellType, LineLists, CmdTypes
  <1>. HIDE DEF oe, pw, u2, u1, l4, c4, q4
  <1>3. /\ oe \o pw \in Seq(Commands) /\ (oe \o pw) \o u2 \in Seq(Commands)
        /\ l4 \o pw \in Seq(Commands) /\ (l4 \o pw) \o u1 \in Seq(Commands)
        /\ pw \o u1 \in Seq(Commands)
    BY <1>2, CatType
  <1>. USE DEF oe, pw, u2, u1, l4, c4, q4
  <1>4. CASE board.driver = "ftdi_gpio"
    <2>1. DriverOpen(board) = (oe \o pw) \o u2
      BY <1>4 DEF DriverOpen, FtdiOpen
    <2>. QED  BY <1>3, <2>1
  <1>5. CASE board.driver = "local_gpio"
    <2>1. DriverOpen(board) = (l4 \o pw) \o u1
      BY <1>5 DEF DriverOpen, LocalGpioOpen, LocalGpioInit
    <2>. QED  BY <1>3, <2>1
  <1>6. CASE board.driver = "alpaca"
    <2>1. DriverOpen(board) = pw \o u1
      BY <1>6 DEF DriverOpen, AlpacaOpen
    <2>. QED  BY <1>3, <2>1
  <1>7. CASE board.driver = "cdb_assist"
    <2>1. DriverOpen(board) = c4
      BY <1>7 DEF DriverOpen, CdbAssistOpen
    <2>. QED  BY <1>2, <2>1
  <1>8. CASE board.driver = "qcomlt_dbg"
    <2>1. DriverOpen(board) = q4
      BY <1>8 DEF DriverOpen, QcomltOpen
    <2>. QED  BY <1>2, <2>1
  <1>9. CASE board.driver \notin {"ftdi_gpio", "local_gpio", "alpaca",
                                  "cdb_assist", "qcomlt_dbg"}
    <2>1. DriverOpen(board) = <<>>
      BY <1>9 DEF DriverOpen
    <2>. QED  BY <2>1
  <1>. QED  BY <1>4, <1>5, <1>6, <1>7, <1>8, <1>9
-----------------------------------------------------------------------------
(* What the actions have in store for todo. *)
LEMMA PowerOnType ==
  ASSUME TypeOK, PowerOn
  PROVE  /\ todo' \in Seq(Commands) /\ ticks' \in Nat
         /\ state' \in States
  <1>1. CASE "power" \in board.wired
    <2>1. board.fbTimeout \in BOOLEAN /\ HasPowerKey \in BOOLEAN
      BY ControllersAssumption DEF TypeOK, BoardType, HasPowerKey
    <2>2. /\ Tell(<<"fastboot">>, TRUE) \in Seq(Commands)
          /\ Tell(<<"power_key">>, FALSE) \in Seq(Commands)
      BY TellType, LineLists
    <2>3. /\ (IF board.fbTimeout THEN Tell(<<"fastboot">>, TRUE) ELSE <<>>)
               \in Seq(Commands)
          /\ (IF HasPowerKey THEN Tell(<<"power_key">>, FALSE) ELSE <<>>)
               \in Seq(Commands)
      BY <2>1, <2>2, NoneOr
    <2>4. todo' \in Seq(Commands)
      BY <1>1, <2>3, CatType DEF PowerOn
    <2>. QED  BY <1>1, <2>4 DEF PowerOn, TypeOK, States
  <1>2. CASE "power" \notin board.wired
    BY <1>2 DEF PowerOn, TypeOK, States
  <1>. QED  BY <1>1, <1>2

LEMMA TickType ==
  ASSUME TypeOK, TickActs
  PROVE  todo' \in Seq(Commands) /\ state' \in States
  <1>1. AfterKeys \in States
    BY DEF AfterKeys, States
  <1>2. /\ Tell(<<"power_key">>, TRUE) \in Seq(Commands)
        /\ Tell(<<"power_key">>, FALSE) \in Seq(Commands)
        /\ Tell(<<"fastboot">>, FALSE) \in Seq(Commands)
    BY TellType, LineLists
  <1>3. PowerCmd(TRUE) \o UsbCmd(TRUE) \in Seq(Commands)
    BY CmdTypes, CatType
  <1>4. state \in States /\ todo \in Seq(Commands)
    BY DEF TypeOK, States
  <1>5. CASE state = "connect"
    BY <1>1, <1>3, <1>5 DEF TickActs, States
  <1>6. CASE state = "press"
    BY <1>2, <1>6 DEF TickActs, States
  <1>7. CASE state = "release_pwr"
    BY <1>1, <1>2, <1>7 DEF TickActs
  <1>8. CASE state = "release_fastboot"
    BY <1>2, <1>8 DEF TickActs, States
  <1>9. CASE state \in {"start", "running"}
    BY <1>4, <1>9 DEF TickActs
  <1>. QED  BY <1>4, <1>5, <1>6, <1>7, <1>8, <1>9 DEF States

(* A byte stays a byte. *)
LEMMA ByteType ==
  ASSUME TypeOK, NEW l \in Lines, NEW on \in BOOLEAN
  PROVE  /\ ByteAfter(l, on) \in SUBSET Bits
         /\ board.iface[l] \in Interfaces
  BY ControllersAssumption DEF TypeOK, BoardType, ByteAfter

LEMMA IssueType ==
  ASSUME TypeOK, NEW c \in Commands, Issue(c), todo # <<>>
  PROVE  TypeOK'
  <1>1. c.line \in Lines /\ c.on \in BOOLEAN
    BY DEF Commands
  <1>2. todo' \in Seq(Commands)
    BY DEF TypeOK, Issue
  <1>3. asked' \in [Lines -> BOOLEAN]
    BY <1>1 DEF TypeOK, Issue
  <1>6. /\ board' \in Boards
        /\ proc' \in {"none", "opening", "ready", "waiting", "closing"}
        /\ who' \in {"server", "on", "off"}
        /\ state' \in {"start", "connect", "press", "release_pwr",
                       "release_fastboot", "running"}
        /\ ticks' \in Nat /\ ops' \in Nat /\ runs' \in Nat
        /\ fresh' \in BOOLEAN
        /\ ended' \in {"none", "on", "off", "server", "broken", "crash"}
    BY DEF TypeOK, Issue, control
  <1>4. CASE OnFtdi(c.line)
    <2>1. PICK byte : byte = ByteAfter(c.line, c.on)
      OBVIOUS
    <2>2. byte \in SUBSET Bits /\ board.iface[c.line] \in Interfaces
      BY <1>1, <2>1, ByteType
    <2>3. lines' = [lines EXCEPT ![board.iface[c.line]] = byte]
      BY <1>4, <2>1 DEF Issue, Toggle
    <2>4. lines' \in [Interfaces -> SUBSET Bits]
      BY <2>2, <2>3 DEF TypeOK
    <2>5. level' \in [Lines -> BOOLEAN]
      <3>1. \/ level' = level
            \/ level' = [m \in Lines |-> IF m \in Pins(board.iface[c.line])
                            THEN (board.offset[m] \in byte)
                                   # (m \in board.activeLow)
                            ELSE level[m]]
        BY <1>4, <2>1 DEF Issue, Toggle
      <3>. QED  BY <3>1 DEF TypeOK
    <2>6. lost' \in Nat
      BY <1>4 DEF Issue, Toggle, TypeOK
    <2>. QED  BY <1>2, <1>3, <1>6, <2>4, <2>5, <2>6 DEF TypeOK
  <1>5. CASE ~OnFtdi(c.line)
    <2>1. lines' = lines /\ lost' \in Nat
      BY <1>5 DEF Issue, Request, TypeOK
    <2>2. level' \in [Lines -> BOOLEAN]
      BY <1>1, <1>5 DEF Issue, Request, TypeOK
    <2>3. lines' \in [Interfaces -> SUBSET Bits]
      BY <2>1 DEF TypeOK
    <2>. QED  BY <1>2, <1>3, <1>6, <2>1, <2>2, <2>3 DEF TypeOK
  <1>. QED  BY <1>4, <1>5

LEMMA HeadType ==
  ASSUME TypeOK, todo # <<>>
  PROVE  Head(todo) \in Commands /\ Tail(todo) \in Seq(Commands)
  BY DEF TypeOK

LEMMA OpenKeeps ==
  ASSUME IInv, NEW w \in {"server", "on", "off"}, Open(w)
  PROVE  IInv'
  <1>1. board \in BoardType
    BY ControllersAssumption DEF IInv, TypeOK
  <1>2. todo' \in Seq(Commands)
    <2>1. board.powerAlwaysOn \in BOOLEAN /\ board.usbAlwaysOn \in BOOLEAN
      BY <1>1 DEF BoardType
    <2>2. PowerCmd(FALSE) \in Seq(Commands) /\ UsbCmd(TRUE) \in Seq(Commands)
      BY CmdTypes
    <2>3. PICK p : p = IF board.powerAlwaysOn THEN PowerCmd(FALSE) ELSE <<>>
      OBVIOUS
    <2>4. PICK u : u = IF board.usbAlwaysOn THEN UsbCmd(TRUE) ELSE <<>>
      OBVIOUS
    <2>5. p \in Seq(Commands) /\ u \in Seq(Commands)
      BY <2>1, <2>2, <2>3, <2>4, NoneOr
    <2>6. DriverOpen(board) \in Seq(Commands)
      BY <1>1, OpenType
    <2>7. todo' = (DriverOpen(board) \o p) \o u
      BY <2>3, <2>4 DEF Open
    <2>8. DriverOpen(board) \o p \in Seq(Commands)
      BY <2>5, <2>6, CatType
    <2>9. (DriverOpen(board) \o p) \o u \in Seq(Commands)
      BY <2>5, <2>8, CatType
    <2>. QED  BY <2>7, <2>9
  <1>3. asked' \in [Lines -> BOOLEAN]
    BY DEF IInv, TypeOK, Open, Low
  <1>4. lines' \in [Interfaces -> SUBSET Bits]
    BY DEF Open, NoLines
  <1>5. TypeOK'
    <2>1. /\ board' \in Boards /\ level' \in [Lines -> BOOLEAN]
          /\ proc' = "opening" /\ who' \in {"server", "on", "off"}
          /\ fresh' \in BOOLEAN /\ ended' = "none"
          /\ state' \in {"start", "connect", "press", "release_pwr",
                         "release_fastboot", "running"}
      BY DEF IInv, TypeOK, Open, control
    <2>2. /\ ticks' \in Nat /\ ops' \in Nat /\ runs' \in Nat
          /\ lost' \in Nat
      BY DEF IInv, TypeOK, Open, control
    <2>. QED  BY <1>2, <1>3, <1>4, <2>1, <2>2 DEF TypeOK
  <1>6. Carried'
    <2>1. SUFFICES ASSUME NEW l \in Lines, OnFtdi(l)', board'.offset[l] \in Bits
                   PROVE  board'.offset[l] \in lines'[board'.iface[l]]
                            <=> asked'[l] # (l \in board'.activeLow)
      BY DEF Carried
    <2>2. board' = board /\ OnFtdi(l)
      BY <2>1 DEF Open, OnFtdi
    <2>3. board.iface[l] \in Interfaces
      BY <1>1 DEF BoardType
    <2>4. lines'[board.iface[l]] = {}
      BY <2>3 DEF Open, NoLines
    <2>5. asked'[l] = (l \in board.activeLow)
      BY <2>2 DEF Open, Low
    <2>. QED  BY <2>2, <2>4, <2>5
  <1>. QED  BY <1>5, <1>6 DEF IInv

(* Writing the byte carries the line it is for and leaves its neighbours.  *)
LEMMA ToggleCarries ==
  ASSUME IInv, NEW c \in Commands, Issue(c), OnFtdi(c.line)
  PROVE  Carried'
  <1>1. board \in Boards /\ board \in BoardType /\ board' = board
    BY ControllersAssumption DEF IInv, TypeOK, Issue
  <1>2. PICK byte : byte = ByteAfter(c.line, c.on)
    OBVIOUS
  <1>3. c.line \in Lines /\ c.on \in BOOLEAN
        /\ board.iface[c.line] \in Interfaces
    BY <1>1 DEF Commands, BoardType
  <1>4. lines' = [lines EXCEPT ![board.iface[c.line]] = byte]
    BY <1>2 DEF Issue, Toggle
  <1>5. asked' = [asked EXCEPT ![c.line] = c.on]
    BY DEF Issue
  <1>6. SUFFICES ASSUME NEW l \in Lines, OnFtdi(l), board.offset[l] \in Bits
                 PROVE  board.offset[l] \in lines'[board.iface[l]]
                          <=> asked'[l] # (l \in board.activeLow)
    BY <1>1 DEF Carried, OnFtdi
  <1>7. board.iface[l] \in Interfaces
    BY <1>1 DEF BoardType
  <1>8. /\ lines \in [Interfaces -> SUBSET Bits]
        /\ asked \in [Lines -> BOOLEAN]
    BY DEF IInv, TypeOK
  <1>9. CASE l = c.line
    <2>1. lines'[board.iface[l]] = byte /\ asked'[l] = c.on
      BY <1>3, <1>4, <1>5, <1>8, <1>9
    <2>2. board.offset[l] \in byte <=> c.on # (l \in board.activeLow)
      BY <1>2, <1>6, <1>9 DEF ByteAfter
    <2>. QED  BY <2>1, <2>2
  <1>10. CASE l # c.line /\ board.iface[l] = board.iface[c.line]
    <2>1. board.offset[l] # board.offset[c.line]
      BY <1>1, <1>3, <1>6, <1>10, ControllersAssumption DEF OnFtdi
    <2>2. lines'[board.iface[l]] = byte /\ asked'[l] = asked[l]
      BY <1>3, <1>4, <1>5, <1>8, <1>10
    <2>3. board.offset[l] \in byte
            <=> board.offset[l] \in lines[board.iface[l]]
      BY <1>2, <1>6, <1>10, <2>1 DEF ByteAfter
    <2>. QED  BY <1>6, <2>2, <2>3 DEF IInv, Carried
  <1>11. CASE board.iface[l] # board.iface[c.line]
    <2>1. /\ lines'[board.iface[l]] = lines[board.iface[l]]
          /\ asked'[l] = asked[l]
      BY <1>3, <1>4, <1>5, <1>7, <1>8, <1>11
    <2>. QED  BY <1>6, <2>1 DEF IInv, Carried
  <1>. QED  BY <1>9, <1>10, <1>11

LEMMA IssueKeeps ==
  ASSUME IInv, NEW c \in Commands, Issue(c), todo # <<>>
  PROVE  IInv'
  <1>1. TypeOK'
    BY IssueType DEF IInv
  <1>2. CASE OnFtdi(c.line)
    BY <1>1, <1>2, ToggleCarries DEF IInv
  <1>3. CASE ~OnFtdi(c.line)
    <2>1. board' = board /\ lines' = lines
      BY <1>3 DEF Issue, Request
    <2>2. \A l \in Lines : OnFtdi(l) => asked'[l] = asked[l]
      BY <1>3 DEF IInv, TypeOK, Issue, Commands
    <2>3. Carried'
      BY <2>1, <2>2 DEF IInv, Carried, OnFtdi
    <2>. QED  BY <1>1, <2>3 DEF IInv
  <1>. QED  BY <1>2, <1>3

(* Everything else leaves the byte and what was asked alone. *)
LEMMA CarriedStays ==
  ASSUME Carried, UNCHANGED <<board, lines, asked>>
  PROVE  Carried'
  BY DEF Carried, OnFtdi

(* The actions that issue nothing keep the rest: what they change is typed *)
(* by the caller.                                                          *)
LEMMA QuietKeeps ==
  ASSUME IInv, UNCHANGED <<board, level, lines, asked, lost>>,
         todo' \in Seq(Commands), state' \in States, ticks' \in Nat,
         ops' \in Nat, runs' \in Nat, fresh' \in BOOLEAN,
         proc' \in {"none", "opening", "ready", "waiting", "closing"},
         who' \in {"server", "on", "off"},
         ended' \in {"none", "on", "off", "server", "broken", "crash"}
  PROVE  IInv'
  <1>1. Carried'
    BY CarriedStays DEF IInv
  <1>2. TypeOK'
    BY DEF IInv, TypeOK, States
  <1>. QED  BY <1>1, <1>2 DEF IInv

LEMMA CommandKeeps == ASSUME IInv, Command PROVE IInv'
  <1>1. TypeOK
    BY DEF IInv
  <1>2. /\ UNCHANGED <<board, level, lines, asked, lost, proc, who, runs,
                       ended>>
        /\ ops' = ops + 1 /\ fresh' = FALSE
    BY DEF Command
  <1>3. todo' \in Seq(Commands) /\ ticks' \in Nat /\ state' \in States
    <2>1. CASE PowerOn
      BY <1>1, <2>1, PowerOnType
    <2>2. CASE UNCHANGED control /\ todo' = PowerCmd(FALSE)
      BY <1>1, <2>2, CmdTypes DEF control, TypeOK, States
    <2>3. ASSUME NEW on \in BOOLEAN, UNCHANGED control, todo' = UsbCmd(on)
          PROVE  todo' \in Seq(Commands) /\ ticks' \in Nat
                   /\ state' \in States
      BY <1>1, <2>3, CmdTypes DEF control, TypeOK, States
    <2>4. ASSUME NEW k \in KeyLines, NEW on \in BOOLEAN, UNCHANGED control,
                 todo' = Tell(<<k>>, on)
          PROVE  todo' \in Seq(Commands) /\ ticks' \in Nat
                   /\ state' \in States
      BY <1>1, <2>4, KeyLists, TellType DEF control, TypeOK, States
    <2>. QED  BY <2>1, <2>2, <2>3, <2>4 DEF Command
  <1>4. /\ ops \in Nat /\ runs \in Nat
        /\ proc \in {"none", "opening", "ready", "waiting", "closing"}
        /\ who \in {"server", "on", "off"}
        /\ ended \in {"none", "on", "off", "server", "broken", "crash"}
    BY <1>1 DEF TypeOK
  <1>5. /\ runs' \in Nat /\ fresh' \in BOOLEAN
        /\ proc' \in {"none", "opening", "ready", "waiting", "closing"}
        /\ who' \in {"server", "on", "off"}
        /\ ended' \in {"none", "on", "off", "server", "broken", "crash"}
    BY <1>2, <1>4, Zenon
  <1>6. ops' \in Nat
    BY <1>2, <1>4
  <1>. QED  BY <1>2, <1>3, <1>5, <1>6, QuietKeeps

LEMMA TickKeeps == ASSUME IInv, Tick PROVE IInv'
  <1>1. TypeOK /\ TickActs
    BY DEF IInv, Tick
  <1>2. UNCHANGED <<board, level, lines, proc, who, ops, runs, hist>>
        /\ ticks > 0
        /\ (ticks' = ticks \/ ticks' = ticks - 1)
    BY DEF Tick
  <1>3. ticks' \in Nat
    BY <1>1, <1>2 DEF TypeOK
  <1>4. todo' \in Seq(Commands) /\ state' \in States
    BY <1>1, TickType
  <1>. QED  BY <1>1, <1>2, <1>3, <1>4, QuietKeeps DEF TypeOK, hist

(* The callbacks of the tools, the end of the server and of a process.     *)
LEMMA OthersKeep ==
  ASSUME IInv, \/ ToolOn \/ ToolReady \/ ToolOff \/ Opened \/ Exit
               \/ ToolBreaks \/ ServerCloses \/ Crash
               \/ (todo # <<>> /\ Refuse(Head(todo)))
  PROVE  IInv'
  <1>1. TypeOK /\ board.usbAlwaysOn \in BOOLEAN
          /\ board.powerAlwaysOn \in BOOLEAN
    BY ControllersAssumption DEF IInv, TypeOK, BoardType
  <1>2. <<>> \in Seq(Commands)
    OBVIOUS
  <1>3. CASE ToolOn
    <2>1. todo' \in Seq(Commands) /\ ticks' \in Nat /\ state' \in States
      BY <1>1, <1>3, PowerOnType DEF ToolOn
    <2>. QED  BY <1>1, <1>3, <2>1, QuietKeeps DEF ToolOn, TypeOK
  <1>4. CASE ToolReady \/ ToolBreaks
    <2>1. todo' \in Seq(Commands)
      BY <1>4, CloseType DEF ToolReady, ToolBreaks
    <2>. QED  BY <1>1, <1>4, <2>1, QuietKeeps
              DEF ToolReady, ToolBreaks, TypeOK, control, States
  <1>5. CASE ToolOff
    <2>1. CloseCmds(board.usbAlwaysOn, board.powerAlwaysOn) \in Seq(Commands)
      BY <1>1, CloseType
    <2>2. UsbCmd(FALSE) \in Seq(Commands) /\ PowerCmd(FALSE) \in Seq(Commands)
      BY CmdTypes
    <2>3. UsbCmd(FALSE) \o PowerCmd(FALSE) \in Seq(Commands)
      BY <2>2, CatType
    <2>4. (UsbCmd(FALSE) \o PowerCmd(FALSE))
             \o CloseCmds(board.usbAlwaysOn, board.powerAlwaysOn)
             \in Seq(Commands)
      BY <2>1, <2>3, CatType
    <2>5. todo' \in Seq(Commands)
      BY <1>5, <2>4 DEF ToolOff
    <2>. QED  BY <1>1, <1>5, <2>5, QuietKeeps
              DEF ToolOff, TypeOK, control, States
  <1>6. CASE ServerCloses
    <2>1. todo' \in Seq(Commands)
      BY <1>1, <1>6, CloseType DEF ServerCloses
    <2>. QED  BY <1>1, <1>6, <2>1, QuietKeeps
              DEF ServerCloses, TypeOK, control, States
  <1>7. CASE Opened
    BY <1>1, <1>7, QuietKeeps DEF Opened, TypeOK, control, hist, States
  <1>8. CASE Exit
    BY <1>1, <1>8, QuietKeeps DEF Exit, Gone, TypeOK, hist, States
  <1>9. CASE Crash
    <2>1. /\ UNCHANGED <<board, level, lines, asked, lost, who, ops, runs>>
          /\ todo' = <<>> /\ state' = "start" /\ ticks' = 0
          /\ fresh' = FALSE /\ proc' = "none" /\ ended' = "crash"
      BY <1>9 DEF Crash, Gone
    <2>2. todo' \in Seq(Commands) /\ state' \in States /\ ticks' \in Nat
      BY <1>2, <2>1 DEF States
    <2>3. ops' \in Nat /\ runs' \in Nat /\ who' \in {"server", "on", "off"}
      BY <1>1, <2>1 DEF TypeOK
    <2>. QED  BY <2>1, <2>2, <2>3, QuietKeeps
  <1>10. CASE todo # <<>> /\ Refuse(Head(todo))
    <2>1. todo' \in Seq(Commands)
      BY <1>1, <1>10, HeadType DEF Refuse
    <2>. QED  BY <1>1, <1>10, <2>1, QuietKeeps
              DEF Refuse, TypeOK, control, hist, States
  <1>. QED  BY <1>3, <1>4, <1>5, <1>6, <1>7, <1>8, <1>9, <1>10
-----------------------------------------------------------------------------
LEMMA InitIInv == Init => IInv
  <1>. SUFFICES ASSUME Init PROVE IInv
    OBVIOUS
  <1>1. <<>> \in Seq(Commands) /\ Low \in [Lines -> BOOLEAN]
    BY DEF Low
  <1>2. TypeOK
    BY <1>1 DEF Init, TypeOK, NoLines
  <1>3. Carried
    <2>1. SUFFICES ASSUME NEW l \in Lines, OnFtdi(l)
                   PROVE  board.offset[l] \in lines[board.iface[l]]
                            <=> asked[l] # (l \in board.activeLow)
      BY DEF Carried
    <2>2. lines[board.iface[l]] = {}
      BY ControllersAssumption DEF Init, NoLines, BoardType
    <2>3. asked[l] = (l \in board.activeLow)
      BY <2>1 DEF Init, Low
    <2>. QED  BY <2>2, <2>3
  <1>. QED  BY <1>2, <1>3 DEF IInv

LEMMA StepIInv == IInv /\ [Next]_vars => IInv'
  <1>. SUFFICES ASSUME IInv, [Next]_vars PROVE IInv'
    OBVIOUS
  <1>1. ASSUME NEW w \in {"server", "on", "off"}, Open(w) PROVE IInv'
    BY <1>1, OpenKeeps
  <1>2. CASE todo # <<>> /\ Issue(Head(todo))
    <2>1. Head(todo) \in Commands
      BY <1>2, HeadType DEF IInv
    <2>. QED  BY <1>2, <2>1, IssueKeeps
  <1>3. CASE Command
    BY <1>3, CommandKeeps
  <1>4. CASE Tick
    BY <1>4, TickKeeps
  <1>5. CASE \/ ToolOn \/ ToolReady \/ ToolOff \/ Opened \/ Exit
             \/ ToolBreaks \/ ServerCloses \/ Crash
             \/ (todo # <<>> /\ Refuse(Head(todo)))
    BY <1>5, OthersKeep
  <1>6. CASE UNCHANGED vars
    <2>1. UNCHANGED <<board, lines, asked>> /\ TypeOK'
      BY <1>6 DEF vars, IInv, TypeOK
    <2>. QED  BY <2>1, CarriedStays DEF IInv
  <1>. QED  BY <1>1, <1>2, <1>3, <1>4, <1>5, <1>6 DEF Next, Write, Tool

LEMMA AlwaysIInv == Spec => []IInv
  <1>. QED  BY InitIInv, StepIInv, PTL DEF Spec

(* Whatever is commanded and lost, the driver's byte stays a byte and its  *)
(* list of commands a list of commands.                                    *)
THEOREM Typed == Spec => []TypeOK
  <1>1. IInv => TypeOK
    BY DEF IInv
  <1>. QED  BY <1>1, AlwaysIInv, PTL

(* One line command is a command of the contract: with IInv a byte moves   *)
(* every pin it drives to what that pin's line was told.                   *)
LEMMA IssueMoves ==
  ASSUME IInv, IInv', NEW c \in Commands, Issue(c)
  PROVE  \A m \in Lines : level'[m] \in {level[m], asked'[m]}
  <1>1. SUFFICES ASSUME NEW m \in Lines
                 PROVE  level'[m] = level[m] \/ level'[m] = asked'[m]
    OBVIOUS
  <1>2. /\ level \in [Lines -> BOOLEAN] /\ asked' \in [Lines -> BOOLEAN]
        /\ asked \in [Lines -> BOOLEAN] /\ lines \in [Interfaces -> SUBSET Bits]
        /\ board \in BoardType /\ board' = board
    BY ControllersAssumption DEF IInv, TypeOK, Issue
  <1>3. CASE OnFtdi(c.line)
    <2>1. PICK byte : byte = ByteAfter(c.line, c.on)
      OBVIOUS
    <2>2. lines' = [lines EXCEPT ![board.iface[c.line]] = byte]
      BY <1>3, <2>1 DEF Issue, Toggle
    <2>3. CASE level' = level
      BY <2>3
    <2>4. CASE level' = [n \in Lines |-> IF n \in Pins(board.iface[c.line])
                            THEN (board.offset[n] \in byte)
                                   # (n \in board.activeLow)
                            ELSE level[n]]
      <3>1. CASE m \notin Pins(board.iface[c.line])
        BY <2>4, <3>1
      <3>2. CASE m \in Pins(board.iface[c.line])
        <4>1. level'[m] = ((board.offset[m] \in byte)
                             # (m \in board.activeLow))
          BY <2>4, <3>2
        <4>2. /\ OnFtdi(m) /\ board.iface[m] = board.iface[c.line]
              /\ board.offset[m] \in Bits /\ board.iface[m] \in Interfaces
          BY <1>2, <3>2 DEF Pins, BoardType
        <4>3. lines'[board.iface[m]] = byte
          BY <1>2, <2>2, <4>2
        <4>4. board.offset[m] \in byte
                <=> asked'[m] # (m \in board.activeLow)
          BY <1>2, <4>2, <4>3 DEF IInv, Carried, OnFtdi
        <4>5. asked'[m] \in BOOLEAN
          BY <1>2
        <4>. QED  BY <4>1, <4>4, <4>5
      <3>. QED  BY <3>1, <3>2
    <2>. QED  BY <1>3, <2>1, <2>3, <2>4 DEF Issue, Toggle
  <1>4. CASE ~OnFtdi(c.line)
    <2>1. level' = level \/ level' = [level EXCEPT ![c.line] = c.on]
      BY <1>4 DEF Issue, Request
    <2>2. asked' = [asked EXCEPT ![c.line] = c.on]
      BY DEF Issue
    <2>. QED  BY <1>2, <2>1, <2>2 DEF Commands
  <1>. QED  BY <1>3, <1>4

LEMMA StepFollows ==
  ASSUME IInv, IInv', [Next]_vars
  PROVE  [Control!Next]_(Control!vars)
  <1>1. CASE todo # <<>> /\ Issue(Head(todo))
    <2>1. PICK c \in Commands : c = Head(todo) /\ Issue(c)
      BY <1>1, HeadType DEF IInv
    <2>2. \A m \in Lines : level'[m] \in {level[m], asked'[m]}
      BY <2>1, IssueMoves
    <2>3. Low' = Low
      BY <2>1 DEF Issue, Low, OnFtdi
    <2>4. Control!Command(c.line, c.on)
      BY <2>1, <2>2, <2>3 DEF Control!Command, Issue
    <2>. QED  BY <2>4 DEF Control!Next, Commands
  <1>2. ASSUME NEW w \in {"server", "on", "off"}, Open(w)
        PROVE  Control!Forget
    <2>1. Low' = Low
      BY <1>2 DEF Open, Low, OnFtdi
    <2>2. \A l \in Lines : asked'[l] \in {asked[l], Low[l]}
      BY <1>2 DEF Open
    <2>3. level' = level
      BY <1>2 DEF Open
    <2>. QED  BY <2>1, <2>2, <2>3 DEF Control!Forget
  <1>3. CASE \/ Command \/ Tick \/ ToolOn \/ ToolReady \/ ToolOff
             \/ Opened \/ Exit \/ ToolBreaks \/ ServerCloses \/ Crash
             \/ (todo # <<>> /\ Refuse(Head(todo))) \/ UNCHANGED vars
    <2>1. board' = board /\ asked' = asked /\ level' = level
      BY <1>3 DEF Command, Tick, ToolOn, ToolReady, ToolOff, Opened, Exit,
         ToolBreaks, ServerCloses, Crash, Refuse, vars, hist
    <2>. QED  BY <2>1 DEF Control!vars, Low, OnFtdi
  <1>. QED  BY <1>1, <1>2, <1>3 DEF Next, Write, Tool, Control!Next

(* Every line only ever moves to what that line was last told.             *)
THEOREM LinesFollow == Spec => LinesAsTold
  <1>1. Init => Control!Init
    BY DEF Init, Control!Init
  <1>2. IInv /\ IInv' /\ [Next]_vars => [Control!Next]_(Control!vars)
    BY StepFollows
  <1>. QED  BY <1>1, <1>2, AlwaysIInv, PTL DEF Spec, LinesAsTold, Control!Spec

(* A write that reaches the chip puts every pin of its interface where the *)
(* pin's line was told.                                                    *)
LEMMA IssueRepairs ==
  ASSUME IInv, IInv', NEW c \in Commands, Issue(c), OnFtdi(c.line),
         lost' = lost, NEW l \in Pins(board.iface[c.line])
  PROVE  level'[l] = asked'[l]
  <1> DEFINE i == board.iface[c.line]
  <1>1. PICK byte : byte = ByteAfter(c.line, c.on)
    OBVIOUS
  <1>2. /\ lines' = [lines EXCEPT ![i] = byte]
        /\ level' = [m \in Lines |-> IF m \in Pins(i)
                       THEN (board.offset[m] \in byte)
                              # (m \in board.activeLow)
                       ELSE level[m]]
    <2>1. lost \in Nat /\ lost' # lost + 1
      BY DEF IInv, TypeOK
    <2>. QED  BY <1>1, <2>1 DEF Issue, Toggle
  <1>3. /\ board' = board /\ lines \in [Interfaces -> SUBSET Bits]
        /\ asked' \in [Lines -> BOOLEAN] /\ i \in Interfaces
    BY ControllersAssumption DEF IInv, TypeOK, Issue, BoardType, Commands
  <1>4. l \in Lines /\ OnFtdi(l) /\ board.iface[l] = i /\ board.offset[l] \in Bits
    BY DEF Pins
  <1> HIDE DEF i
  <1>5. board.offset[l] \in byte <=> asked'[l] # (l \in board.activeLow)
    BY <1>2, <1>3, <1>4 DEF IInv, Carried, OnFtdi
  <1>6. level'[l] = ((board.offset[l] \in byte) # (l \in board.activeLow))
    BY <1>2, <1>4 DEF i
  <1> QED  BY <1>3, <1>4, <1>5, <1>6

(* A write that reaches the chip makes good what was lost before it.       *)
THEOREM WritesRepair == Spec => WriteRepairs
  <1>1. ASSUME IInv, IInv', [Next]_vars, NEW i \in Interfaces, Reaches(i),
               NEW l \in Pins(i)
        PROVE  level'[l] = asked'[l]
    <2>1. PICK c \in Commands : c = Head(todo)
      BY <1>1, HeadType DEF IInv, Reaches
    <2>2. todo # <<>> /\ c.line \in Pins(i) /\ todo' = Tail(todo)
          /\ lost' = lost /\ proc' # "none"
      BY <1>1, <2>1 DEF Reaches
    <2>3. OnFtdi(c.line) /\ board.iface[c.line] = i /\ l \in Lines
          /\ OnFtdi(l) /\ board.iface[l] = i /\ board.offset[l] \in Bits
      BY <1>1, <2>2 DEF Pins
    <2>4. ~Refuse(c)
      BY <2>3 DEF Refuse, OnFtdi, OnChip
    <2>5. ~UNCHANGED vars
      <3>1. todo \in Seq(Commands) /\ todo' # todo
        BY <1>1, <2>2 DEF IInv, TypeOK
      <3>. QED  BY <3>1 DEF vars
    <2>6. Issue(c)
      BY <1>1, <2>1, <2>2, <2>4, <2>5
         DEF Next, Write, Tool, Idle, Open, Command, Tick, Opened, ToolOn,
             ToolReady, ToolBreaks, ToolOff, ServerCloses, Exit, Crash, Gone
    <2>. QED  BY <1>1, <2>2, <2>3, <2>6, IssueRepairs
  <1>2. IInv /\ IInv' /\ [Next]_vars
          => [\A i \in Interfaces : Reaches(i) =>
                \A l \in Pins(i) : level'[l] = asked'[l]]_vars
    BY <1>1
  <1>. QED  BY <1>2, AlwaysIInv, PTL DEF Spec, WriteRepairs
-----------------------------------------------------------------------------
(***************************************************************************)
(* Where the commands a callback has left to issue bring the lines.        *)
(***************************************************************************)

(* A list of commands tells line l nothing but v; tells it nothing; tells  *)
(* it v last.                                                              *)
Only(s, l, v) == \A i \in 1 .. Len(s) : s[i].line = l => s[i].on = v
Free(s, l) == \A i \in 1 .. Len(s) : s[i].line # l
Ends(s, l, v) ==
  \E i \in 1 .. Len(s) :
    /\ s[i].line = l
    /\ \A j \in i .. Len(s) : s[j].line = l => s[j].on = v

LEMMA OnlyEnds ==
  ASSUME NEW s \in Seq(Commands), NEW l, NEW v, Only(s, l, v)
  PROVE  Ends(s, l, v) \/ Free(s, l)
  <1> SUFFICES ASSUME NEW i \in 1 .. Len(s), s[i].line = l PROVE Ends(s, l, v)
    BY DEF Free
  <1>1. \A j \in i .. Len(s) : j \in 1 .. Len(s)
    OBVIOUS
  <1> QED BY <1>1 DEF Only, Ends

LEMMA TailEnds ==
  ASSUME NEW s \in Seq(Commands), s # <<>>, NEW l, NEW v
  PROVE  /\ Free(s, l) => Free(Tail(s), l) /\ s[1].line # l
         /\ Only(s, l, v) => Only(Tail(s), l, v)
         /\ Ends(s, l, v) => \/ Ends(Tail(s), l, v)
                             \/ s[1].line = l /\ s[1].on = v /\ Free(Tail(s), l)
  <1>1. /\ Len(s) \in Nat \ {0} /\ Len(Tail(s)) = Len(s) - 1
        /\ \A i \in 1 .. (Len(s) - 1) :
             Tail(s)[i] = s[i + 1] /\ i + 1 \in 2 .. Len(s)
        /\ Tail(s) \in Seq(Commands)
    OBVIOUS
  <1>2. /\ Free(s, l) => Free(Tail(s), l) /\ s[1].line # l
        /\ Only(s, l, v) => Only(Tail(s), l, v)
    BY <1>1 DEF Free, Only
  <1>3. ASSUME NEW i \in 2 .. Len(s), s[i].line = l,
               \A j \in i .. Len(s) : s[j].line = l => s[j].on = v
        PROVE  Ends(Tail(s), l, v)
    <2>1. i - 1 \in 1 .. Len(Tail(s)) /\ Tail(s)[i - 1].line = l
      BY <1>1, <1>3
    <2>2. ASSUME NEW j \in (i - 1) .. Len(Tail(s)), Tail(s)[j].line = l
          PROVE  Tail(s)[j].on = v
      <3>1. j \in 1 .. (Len(s) - 1) /\ j + 1 \in i .. Len(s)
        BY <1>1, <2>2
      <3> QED BY <1>1, <1>3, <2>2, <3>1
    <2> QED BY <2>1, <2>2 DEF Ends
  <1>4. ASSUME s[1].line = l, \A j \in 1 .. Len(s) : s[j].line = l => s[j].on = v
        PROVE  \/ Ends(Tail(s), l, v)
               \/ s[1].line = l /\ s[1].on = v /\ Free(Tail(s), l)
    <2>1. Only(Tail(s), l, v) /\ s[1].on = v
      BY <1>1, <1>4 DEF Only
    <2> QED BY <1>1, <1>4, <2>1, OnlyEnds
  <1>5. Ends(s, l, v) => \/ Ends(Tail(s), l, v)
                         \/ s[1].line = l /\ s[1].on = v /\ Free(Tail(s), l)
    <2> SUFFICES ASSUME NEW i \in 1 .. Len(s), s[i].line = l,
                        \A j \in i .. Len(s) : s[j].line = l => s[j].on = v
                 PROVE  \/ Ends(Tail(s), l, v)
                        \/ s[1].line = l /\ s[1].on = v /\ Free(Tail(s), l)
      BY DEF Ends
    <2>1. CASE i = 1
      BY <1>4, <2>1
    <2>2. CASE i # 1
      <3>1. i \in 2 .. Len(s)
        BY <1>1, <2>2
      <3> QED BY <1>3, <3>1
    <2> QED BY <2>1, <2>2
  <1> QED BY <1>2, <1>5

LEMMA CatEnds ==
  ASSUME NEW s \in Seq(Commands), NEW t \in Seq(Commands), NEW l, NEW v
  PROVE  /\ Ends(t, l, v) => Ends(s \o t, l, v)
         /\ Ends(s, l, v) /\ Only(t, l, v) => Ends(s \o t, l, v)
         /\ Only(s, l, v) /\ Only(t, l, v) => Only(s \o t, l, v)
         /\ Free(s, l) /\ Free(t, l) => Free(s \o t, l)
         /\ Free(t, l) => Only(t, l, v)
  <1> DEFINE c == s \o t
  <1>1. /\ Len(s) \in Nat /\ Len(t) \in Nat /\ Len(c) = Len(s) + Len(t)
        /\ \A i \in 1 .. Len(s) : c[i] = s[i]
        /\ \A i \in 1 .. Len(t) : c[Len(s) + i] = t[i]
    BY ConcatProperties
  <1> HIDE DEF c
  <1>2. \A j \in 1 .. Len(c) :
          j \in 1 .. Len(s) \/ (j - Len(s) \in 1 .. Len(t)
                                  /\ c[j] = t[j - Len(s)])
    <2> TAKE j \in 1 .. Len(c)
    <2>1. CASE j > Len(s)
      <3>1. j - Len(s) \in 1 .. Len(t) /\ j = Len(s) + (j - Len(s))
        BY <1>1, <2>1
      <3> QED BY <1>1, <3>1
    <2> QED BY <1>1, <2>1
  <1>3. Ends(t, l, v) => Ends(c, l, v)
    <2> SUFFICES ASSUME NEW i \in 1 .. Len(t), t[i].line = l,
                        \A j \in i .. Len(t) : t[j].line = l => t[j].on = v
                 PROVE  Ends(c, l, v)
      BY DEF Ends
    <2>1. Len(s) + i \in 1 .. Len(c) /\ c[Len(s) + i].line = l
      BY <1>1
    <2>2. ASSUME NEW j \in (Len(s) + i) .. Len(c), c[j].line = l
          PROVE  c[j].on = v
      <3>1. j - Len(s) \in i .. Len(t) /\ j \in 1 .. Len(c)
            /\ j \notin 1 .. Len(s)
        BY <1>1, <2>2
      <3> QED BY <1>2, <2>2, <3>1
    <2> QED BY <2>1, <2>2 DEF Ends
  <1>4. Ends(s, l, v) /\ Only(t, l, v) => Ends(c, l, v)
    <2> SUFFICES ASSUME NEW i \in 1 .. Len(s), s[i].line = l, Only(t, l, v),
                        \A j \in i .. Len(s) : s[j].line = l => s[j].on = v
                 PROVE  Ends(c, l, v)
      BY DEF Ends
    <2>1. i \in 1 .. Len(c) /\ c[i].line = l
      BY <1>1
    <2>2. ASSUME NEW j \in i .. Len(c), c[j].line = l
          PROVE  c[j].on = v
      <3>1. j \in 1 .. Len(c)
        BY <1>1, <2>2
      <3>2. CASE j \in 1 .. Len(s)
        <4>1. j \in i .. Len(s)
          BY <1>1, <3>2
        <4> QED BY <1>1, <2>2, <3>2, <4>1
      <3>3. CASE j \notin 1 .. Len(s)
        BY <1>2, <2>2, <3>1, <3>3 DEF Only
      <3> QED BY <3>2, <3>3
    <2> QED BY <2>1, <2>2 DEF Ends
  <1>5. /\ Only(s, l, v) /\ Only(t, l, v) => Only(c, l, v)
        /\ Free(s, l) /\ Free(t, l) => Free(c, l)
        /\ Free(t, l) => Only(t, l, v)
    BY <1>1, <1>2 DEF Only, Free
  <1> QED BY <1>3, <1>4, <1>5 DEF c

LEMMA TellEnds ==
  ASSUME NEW ls \in Seq(Lines), NEW on \in BOOLEAN
  PROVE  /\ \A l : Only(Tell(ls, on), l, on)
         /\ \A i \in 1 .. Len(ls) : Ends(Tell(ls, on), ls[i], on)
         /\ \A l : (\A i \in 1 .. Len(ls) : ls[i] # l) => Free(Tell(ls, on), l)
  <1> DEFINE s == Tell(ls, on)
  <1>1. /\ Len(ls) \in Nat /\ Len(s) = Len(ls) /\ s \in Seq(Commands)
        /\ \A i \in 1 .. Len(ls) : s[i].line = ls[i] /\ s[i].on = on
    BY TellType DEF Tell
  <1> HIDE DEF s
  <1>2. \A l : Only(s, l, on)
    BY <1>1 DEF Only
  <1>3. ASSUME NEW i \in 1 .. Len(ls) PROVE Ends(s, ls[i], on)
    BY <1>1, <1>2, OnlyEnds DEF Free
  <1>4. ASSUME NEW l, \A i \in 1 .. Len(ls) : ls[i] # l PROVE Free(s, l)
    BY <1>1, <1>4 DEF Free
  <1> QED BY <1>2, <1>3, <1>4 DEF s

LEMMA OneEnds ==
  ASSUME NEW k \in Lines, NEW on \in BOOLEAN
  PROVE  /\ Ends(Tell(<<k>>, on), k, on)
         /\ \A l : Only(Tell(<<k>>, on), l, on)
         /\ \A l : l # k => Free(Tell(<<k>>, on), l)
         /\ Tell(<<k>>, on) \in Seq(Commands)
  <1> DEFINE ls == <<k>>
  <1>1. ls \in Seq(Lines) /\ Len(ls) = 1 /\ ls[1] = k
        /\ \A i \in 1 .. 1 : i = 1
    OBVIOUS
  <1> HIDE DEF ls
  <1>2. 1 \in 1 .. Len(ls)
    BY <1>1
  <1>3. Ends(Tell(ls, on), ls[1], on)
    BY <1>1, <1>2, TellEnds
  <1>4. \A l : Only(Tell(ls, on), l, on)
    BY <1>1, TellEnds
  <1>5. ASSUME NEW l, l # k PROVE Free(Tell(ls, on), l)
    <2>1. \A i \in 1 .. Len(ls) : ls[i] # l
      BY <1>1, <1>5
    <2> QED BY <1>1, <2>1, TellEnds
  <1>6. Tell(ls, on) \in Seq(Commands)
    BY <1>1, TellType
  <1> QED BY <1>1, <1>3, <1>4, <1>5, <1>6 DEF ls

LEMMA OneTold ==
  ASSUME NEW k, NEW on
  PROVE  Len(Tell(<<k>>, on)) = 1 /\ Tell(<<k>>, on)[1].line = k
  BY DEF Tell

LEMMA PowerEnds ==
  ASSUME NEW on \in BOOLEAN
  PROVE  /\ Ends(PowerCmd(on), "power", on)
         /\ \A l : Only(PowerCmd(on), l, on)
         /\ \A l : l # "power" => Free(PowerCmd(on), l)
         /\ PowerCmd(on) \in Seq(Commands)
  BY OneEnds DEF PowerCmd, Lines

LEMMA UsbEnds ==
  ASSUME NEW on \in BOOLEAN
  PROVE  /\ \A l \in AllUsb : Ends(UsbCmd(on), l, on)
         /\ \A l : Only(UsbCmd(on), l, on)
         /\ \A l : l \notin AllUsb => Free(UsbCmd(on), l)
         /\ UsbCmd(on) \in Seq(Commands)
         /\ AllUsb = {"ppps", "ppps3", "usb0", "usb1"}
  <1> DEFINE ls == UsbLines
  <1>1. /\ ls \in Seq(Lines) /\ Len(ls) = 4
        /\ ls[1] = "ppps" /\ ls[2] = "ppps3" /\ ls[3] = "usb0" /\ ls[4] = "usb1"
        /\ \A i \in 1 .. 4 : i = 1 \/ i = 2 \/ i = 3 \/ i = 4
    BY LineLists DEF UsbLines
  <1>2. AllUsb = {"ppps", "ppps3", "usb0", "usb1"}
    BY DEF AllUsb, ToSet, UsbLines
  <1> HIDE DEF ls
  <1>3. UsbCmd(on) = Tell(ls, on)
    BY DEF UsbCmd, ls
  <1>4. \A l \in AllUsb : \E i \in 1 .. Len(ls) : ls[i] = l
    BY <1>1, <1>2
  <1>5. \A l : l \notin AllUsb => \A i \in 1 .. Len(ls) : ls[i] # l
    BY <1>1, <1>2
  <1>6. \A l \in AllUsb : Ends(UsbCmd(on), l, on)
    <2> TAKE l \in AllUsb
    <2>1. PICK i \in 1 .. Len(ls) : ls[i] = l
      BY <1>4
    <2> QED BY <1>1, <1>3, <2>1, TellEnds
  <1>7. \A l : l \notin AllUsb => Free(UsbCmd(on), l)
    BY <1>1, <1>3, <1>5, TellEnds
  <1>8. \A l : Only(UsbCmd(on), l, on)
    BY <1>1, <1>3, TellEnds
  <1> QED BY <1>2, <1>6, <1>7, <1>8, CmdTypes

LEMMA CloseEnds ==
  ASSUME NEW u \in BOOLEAN, NEW p \in BOOLEAN
  PROVE  /\ \A l : Only(CloseCmds(u, p), l, FALSE)
         /\ ~u => \A l \in AllUsb : Ends(CloseCmds(u, p), l, FALSE)
         /\ ~p => Ends(CloseCmds(u, p), "power", FALSE)
         /\ u /\ p => CloseCmds(u, p) = <<>>
  <1>0. PICK on \in BOOLEAN : on = FALSE
    OBVIOUS
  <1> DEFINE s == IF u THEN <<>> ELSE UsbCmd(on)
             t == IF p THEN <<>> ELSE PowerCmd(on)
  <1>1. CloseCmds(u, p) = s \o t
    BY <1>0 DEF CloseCmds
  <1>2. /\ s \in Seq(Commands) /\ t \in Seq(Commands)
        /\ \A l : Only(s, l, on) /\ Only(t, l, on)
        /\ u => s = <<>>
        /\ p => t = <<>>
        /\ ~u => \A l \in AllUsb : Ends(s, l, on)
        /\ ~p => Ends(t, "power", on)
    BY UsbEnds, PowerEnds, EmptySeq DEF Only
  <1> HIDE DEF s, t
  <1>3. /\ \A l : Only(s \o t, l, on)
        /\ ~u => \A l \in AllUsb : Ends(s \o t, l, on)
        /\ ~p => Ends(s \o t, "power", on)
        /\ u /\ p => s \o t = <<>>
    BY <1>2, CatEnds
  <1> QED BY <1>0, <1>1, <1>3

(* The byte of line m's interface carries line l, too. *)
SameByte(m, l) == OnFtdi(m) /\ board.iface[m] = board.iface[l]

(* Line l ends at v, if no command of todo is lost: it is told v last; or  *)
(* is not told anything, was told v, and is there or gets there with its   *)
(* interface.                                                              *)
EndsUp(l, v) ==
  \/ Ends(todo, l, v)
  \/ /\ Free(todo, l) /\ asked[l] = v
     /\ \/ level[l] = v
        \/ OnFtdi(l) /\ \E i \in 1 .. Len(todo) : SameByte(todo[i].line, l)

AllEnd(ls, v) == \A l \in ls : Moves(l) => EndsUp(l, v)

(* Every command brings the lines nearer to where they end. *)
LEMMA WriteEndsUp ==
  ASSUME IInv, IInv', Write, lost' = lost,
         NEW l \in Lines, NEW v \in BOOLEAN, Moves(l), EndsUp(l, v)
  PROVE  EndsUp(l, v)'
  <1>1. PICK c \in Commands : c = todo[1] /\ (Issue(c) \/ Refuse(c))
    BY HeadType DEF Write, IInv
  <1>2. todo # <<>> /\ todo \in Seq(Commands) /\ todo' = Tail(todo)
    BY DEF Write, Issue, Refuse, IInv, TypeOK
  <1>3. board' = board /\ asked \in [Lines -> BOOLEAN]
    BY <1>1 DEF Issue, Refuse, IInv, TypeOK
  <1>4. CASE c.line = l
    <2>1. Issue(c)
      BY <1>1, <1>4 DEF Refuse, Moves
    <2>2. asked'[l] = c.on
      BY <1>3, <1>4, <2>1 DEF Issue
    <2>3. level'[l] = c.on
      <3>1. CASE OnFtdi(l)
        <4>1. l \in Pins(board.iface[l])
          BY <3>1 DEF Moves, Pins
        <4> QED BY <1>4, <2>1, <2>2, <3>1, <4>1, IssueRepairs
      <3>2. CASE ~OnFtdi(l)
        <4>1. lost \in Nat /\ lost' # lost + 1 /\ level \in [Lines -> BOOLEAN]
          BY DEF IInv, TypeOK
        <4> QED BY <1>4, <2>1, <3>2, <4>1 DEF Issue, Request
      <3> QED BY <3>1, <3>2
    <2>4. Ends(todo, l, v)
      BY <1>1, <1>2, <1>4, TailEnds DEF EndsUp
    <2>5. Ends(todo', l, v) \/ (c.on = v /\ Free(todo', l))
      BY <1>1, <1>2, <2>4, TailEnds
    <2> QED BY <2>2, <2>3, <2>5 DEF EndsUp
  <1>5. CASE c.line # l
    <2>1. asked'[l] = asked[l] /\ level'[l] \in {level[l], asked'[l]}
      BY <1>1, <1>3, <1>5, IssueMoves DEF Issue, Refuse, hist
    <2>2. CASE Ends(todo, l, v)
      BY <1>1, <1>2, <1>5, <2>2, TailEnds DEF EndsUp
    <2>3. CASE Free(todo, l) /\ asked[l] = v /\ level[l] = v
      BY <1>2, <2>1, <2>3, TailEnds DEF EndsUp
    <2>4. ASSUME Free(todo, l), asked[l] = v, OnFtdi(l),
                 NEW i \in 1 .. Len(todo), SameByte(todo[i].line, l)
          PROVE  EndsUp(l, v)'
      <3>1. Free(todo', l) /\ asked'[l] = v
        BY <1>2, <2>1, <2>4, TailEnds
      <3>2. CASE i = 1
        <4>1. OnFtdi(c.line) /\ board.iface[l] = board.iface[c.line]
          BY <1>1, <2>4, <3>2 DEF SameByte
        <4>2. Issue(c)
          BY <1>1, <4>1 DEF Refuse, OnFtdi, OnChip
        <4>3. l \in Pins(board.iface[c.line])
          BY <2>4, <4>1 DEF Moves, Pins
        <4>4. level'[l] = asked'[l]
          BY <4>1, <4>2, <4>3, IssueRepairs
        <4> QED BY <3>1, <4>4 DEF EndsUp
      <3>3. CASE i # 1
        <4>1. i - 1 \in 1 .. Len(todo') /\ todo'[i - 1] = todo[i]
          BY <1>2, <3>3
        <4>2. PICK k \in 1 .. Len(todo') : todo'[k] = todo[i]
          BY <4>1
        <4>3. /\ OnChip(board', l) /\ OnChip(board', todo'[k].line)
              /\ board'.iface[todo'[k].line] = board'.iface[l]
          BY <1>3, <2>4, <4>2 DEF OnFtdi, SameByte
        <4> QED BY <3>1, <4>3 DEF EndsUp, SameByte, OnFtdi
      <3> QED BY <3>2, <3>3
    <2> QED BY <2>2, <2>3, <2>4 DEF EndsUp
  <1> QED BY <1>4, <1>5

LEMMA WriteAllEnd ==
  ASSUME IInv, IInv', Write, lost' = lost,
         NEW ls \in SUBSET Lines, NEW v \in BOOLEAN, AllEnd(ls, v)
  PROVE  AllEnd(ls, v)'
  <1>1. board' = board
    BY DEF Write, Issue, Refuse
  <1> SUFFICES ASSUME NEW l \in ls, Moves(l)' PROVE EndsUp(l, v)'
    BY DEF AllEnd
  <1>2. Moves(l)
    BY <1>1 DEF Moves, OnFtdi
  <1> QED BY <1>2, WriteEndsUp DEF AllEnd

(* A callback that has issued its commands leaves what it does not tell    *)
(* otherwise.                                                              *)
LEMMA IdleAllEnd ==
  ASSUME NEW ls, NEW v, AllEnd(ls, v), todo = <<>>,
         UNCHANGED <<board, level, asked>>, todo' \in Seq(Commands),
         \A l \in ls : Only(todo', l, v)
  PROVE  AllEnd(ls, v)'
  <1> SUFFICES ASSUME NEW l \in ls, Moves(l)' PROVE EndsUp(l, v)'
    BY DEF AllEnd
  <1>1. EndsUp(l, v)
    BY DEF AllEnd, Moves, OnFtdi
  <1>2. asked[l] = v /\ level[l] = v
    BY <1>1 DEF EndsUp, Ends
  <1>3. Ends(todo', l, v) \/ Free(todo', l)
    BY OnlyEnds
  <1> QED BY <1>2, <1>3 DEF EndsUp

LEMMA AllEndNow ==
  ASSUME NEW ls, NEW v, AllEnd(ls, v), todo = <<>>
  PROVE  \A l \in ls : Moves(l) => level[l] = v
  BY DEF AllEnd, EndsUp, Ends

EndsOn(ls) == AllEnd(ls, TRUE)
EndsOff(ls) == AllEnd(ls, FALSE)

LEMMA WriteEnds ==
  ASSUME IInv, IInv', Write, lost' = lost, NEW ls \in SUBSET Lines
  PROVE  /\ EndsOn(ls) => EndsOn(ls)'
         /\ EndsOff(ls) => EndsOff(ls)'
  <1>1. ASSUME NEW v \in BOOLEAN, AllEnd(ls, v) PROVE AllEnd(ls, v)'
    BY <1>1, WriteAllEnd
  <1>2. AllEnd(ls, TRUE) => AllEnd(ls, TRUE)'
    BY <1>1
  <1>3. AllEnd(ls, FALSE) => AllEnd(ls, FALSE)'
    BY <1>1
  <1> QED BY <1>2, <1>3 DEF EndsOn, EndsOff

LEMMA SameEnds ==
  ASSUME UNCHANGED <<board, level, asked, todo>>, NEW ls
  PROVE  EndsOn(ls)' = EndsOn(ls) /\ EndsOff(ls)' = EndsOff(ls)
  BY DEF EndsOn, EndsOff, AllEnd, Moves, OnFtdi, EndsUp, Ends, Free, SameByte

(* A callback that tells lines nothing else, or tells them last. *)
LEMMA IdleEnds ==
  ASSUME todo = <<>>, UNCHANGED <<board, level, asked>>,
         todo' \in Seq(Commands), NEW ls
  PROVE  /\ EndsOn(ls) /\ (\A l \in ls : Only(todo', l, TRUE)) => EndsOn(ls)'
         /\ EndsOff(ls) /\ (\A l \in ls : Only(todo', l, FALSE)) => EndsOff(ls)'
  <1>1. ASSUME NEW v \in BOOLEAN, AllEnd(ls, v), \A l \in ls : Only(todo', l, v)
        PROVE  AllEnd(ls, v)'
    BY <1>1, IdleAllEnd
  <1>2. AllEnd(ls, TRUE) /\ (\A l \in ls : Only(todo', l, TRUE))
          => AllEnd(ls, TRUE)'
    BY <1>1
  <1>3. AllEnd(ls, FALSE) /\ (\A l \in ls : Only(todo', l, FALSE))
          => AllEnd(ls, FALSE)'
    BY <1>1
  <1> QED BY <1>2, <1>3 DEF EndsOn, EndsOff

LEMMA ToldEnds ==
  ASSUME NEW ls
  PROVE  /\ (\A l \in ls : Ends(todo', l, TRUE)) => EndsOn(ls)'
         /\ (\A l \in ls : Ends(todo', l, FALSE)) => EndsOff(ls)'
  BY DEF EndsOn, EndsOff, AllEnd, EndsUp

(* Lists of commands with their values spelled out. *)
LEMMA OnEnd ==
  /\ \A l \in AllUsb : Ends(UsbCmd(TRUE), l, TRUE) /\ Ends(UsbCmd(FALSE), l, FALSE)
  /\ \A l : Only(UsbCmd(TRUE), l, TRUE) /\ Only(UsbCmd(FALSE), l, FALSE)
  /\ Ends(PowerCmd(TRUE), "power", TRUE) /\ Ends(PowerCmd(FALSE), "power", FALSE)
  /\ \A l : Only(PowerCmd(TRUE), l, TRUE) /\ Only(PowerCmd(FALSE), l, FALSE)
  BY UsbEnds, PowerEnds

(* Power is told before any other line of its byte. *)
Comes(s) ==
  \E i \in 1 .. Len(s) : /\ s[i].line = "power"
                         /\ \A j \in 1 .. (i - 1) : ~SameByte(s[j].line, "power")

LEMMA CatComes ==
  ASSUME NEW s \in Seq(Commands), NEW t \in Seq(Commands), Comes(s)
  PROVE  Comes(s \o t)
  <1> DEFINE c == s \o t
  <1>1. /\ Len(s) \in Nat /\ Len(t) \in Nat /\ Len(c) = Len(s) + Len(t)
        /\ \A i \in 1 .. Len(s) : c[i] = s[i]
    BY ConcatProperties
  <1> HIDE DEF c
  <1>2. PICK i \in 1 .. Len(s) :
          /\ s[i].line = "power"
          /\ \A j \in 1 .. (i - 1) : ~SameByte(s[j].line, "power")
    BY DEF Comes
  <1>3. i \in 1 .. Len(c) /\ c[i].line = "power"
    BY <1>1, <1>2
  <1>4. ASSUME NEW j \in 1 .. (i - 1) PROVE ~SameByte(c[j].line, "power")
    <2>1. j \in 1 .. Len(s) /\ c[j] = s[j]
      BY <1>1
    <2> QED BY <1>2, <2>1
  <1> QED BY <1>3, <1>4 DEF Comes, c

(* Where a driver's open brings the power line and the keys. *)
LEMMA FtdiOpens ==
  ASSUME NEW b \in BoardType
  PROVE  /\ Ends(FtdiOpen(b), "power", FALSE)
         /\ Only(FtdiOpen(b), "power", FALSE)
         /\ \A k \in KeyLines : Free(FtdiOpen(b), k)
         /\ ~SameByte("output_enable", "power") => Comes(FtdiOpen(b))
  <1> DEFINE oe == Tell(<<"output_enable">>, TRUE)
             pw == PowerCmd(FALSE)
             u2 == Tell(<<"usb0", "usb1">>, b.usbAlwaysOn)
  <1>1. /\ oe \in Seq(Commands) /\ Len(oe) = 1 /\ oe[1].line = "output_enable"
        /\ \A l : l # "output_enable" => Free(oe, l)
    <2>1. "output_enable" \in Lines
      BY DEF Lines
    <2>2. oe \in Seq(Commands) /\ \A l : l # "output_enable" => Free(oe, l)
      BY <2>1, OneEnds
    <2> QED BY <2>2, OneTold
  <1>2. /\ pw \in Seq(Commands) /\ Len(pw) = 1 /\ pw[1].line = "power"
        /\ \A l : l # "power" => Free(pw, l)
        /\ Ends(pw, "power", FALSE) /\ Only(pw, "power", FALSE)
    <2>1. Len(pw) = 1 /\ pw[1].line = "power"
      BY OneTold DEF PowerCmd
    <2> QED BY <2>1, PowerEnds, OnEnd
  <1>3. /\ u2 \in Seq(Commands)
        /\ \A l : l \notin {"usb0", "usb1"} => Free(u2, l)
    <2> DEFINE ls == <<"usb0", "usb1">>
    <2>1. /\ ls \in Seq(Lines) /\ b.usbAlwaysOn \in BOOLEAN
          /\ \A i \in 1 .. Len(ls) : ls[i] \in {"usb0", "usb1"}
      BY LineLists DEF BoardType
    <2> HIDE DEF ls
    <2>2. ASSUME NEW l, l \notin {"usb0", "usb1"}
          PROVE  Free(Tell(ls, b.usbAlwaysOn), l)
      <3>1. \A i \in 1 .. Len(ls) : ls[i] # l
        BY <2>1, <2>2
      <3> QED BY <2>1, <3>1, TellEnds
    <2>3. Tell(ls, b.usbAlwaysOn) \in Seq(Commands)
      BY <2>1, TellType
    <2> QED BY <2>2, <2>3 DEF ls
  <1>4. FtdiOpen(b) = (oe \o pw) \o u2
    BY DEF FtdiOpen
  <1> HIDE DEF oe, pw, u2
  <1> DEFINE op == oe \o pw
  <1>5. /\ op \in Seq(Commands) /\ Ends(op, "power", FALSE)
        /\ Only(op, "power", FALSE) /\ \A k \in KeyLines : Free(op, k)
        /\ Len(op) = 2 /\ op[1] = oe[1] /\ op[2] = pw[1]
    <2>1. op \in Seq(Commands) /\ Len(op) = 2 /\ op[1] = oe[1] /\ op[2] = pw[1]
      <3>0. oe \in Seq(Commands) /\ pw \in Seq(Commands)
        BY <1>1, <1>2
      <3>1. /\ Len(op) = Len(oe) + Len(pw) /\ op \in Seq(Commands)
            /\ \A i \in 1 .. Len(oe) : op[i] = oe[i]
            /\ \A i \in 1 .. Len(pw) : op[Len(oe) + i] = pw[i]
        BY <3>0, ConcatProperties
      <3> HIDE DEF op
      <3> QED BY <1>1, <1>2, <3>1
    <2>2. /\ Ends(op, "power", FALSE) /\ Only(op, "power", FALSE)
      BY <1>1, <1>2, CatEnds
    <2>3. \A k \in KeyLines : Free(op, k)
      BY <1>1, <1>2, CatEnds DEF KeyLines
    <2> QED BY <2>1, <2>2, <2>3
  <1> HIDE DEF op
  <1>6. Free(u2, "power") /\ \A k \in KeyLines : Free(u2, k)
    BY <1>3 DEF KeyLines
  <1>7. /\ Ends(op \o u2, "power", FALSE) /\ Only(op \o u2, "power", FALSE)
        /\ \A k \in KeyLines : Free(op \o u2, k)
    BY <1>3, <1>5, <1>6, CatEnds
  <1>8. ASSUME ~SameByte("output_enable", "power") PROVE Comes(op \o u2)
    <2>1. Comes(op)
      BY <1>1, <1>2, <1>5, <1>8 DEF Comes
    <2> QED BY <1>3, <1>5, <2>1, CatComes
  <1> QED BY <1>4, <1>7, <1>8 DEF op

LEMMA LocalGpioOpens ==
  ASSUME NEW b \in BoardType
  PROVE  /\ Ends(LocalGpioOpen(b), "power", FALSE)
         /\ Only(LocalGpioOpen(b), "power", FALSE)
         /\ \A k \in KeyLines : Ends(LocalGpioOpen(b), k, FALSE)
  <1> DEFINE ls == <<"power", "fastboot", "power_key", "usb0">>
             l4 == Tell(ls, FALSE)
             pw == PowerCmd(FALSE)
             u1 == Tell(<<"usb0">>, b.usbAlwaysOn)
  <1>1. /\ l4 \in Seq(Commands) /\ Only(l4, "power", FALSE)
        /\ \A k \in KeyLines : Ends(l4, k, FALSE)
    <2>1. /\ ls \in Seq(Lines) /\ Len(ls) = 4
          /\ ls[2] = "fastboot" /\ ls[3] = "power_key"
      BY LineLists
    <2> HIDE DEF ls
    <2>2. Tell(ls, FALSE) \in Seq(Commands) /\ Only(Tell(ls, FALSE), "power", FALSE)
      BY <2>1, TellType, TellEnds
    <2>3. 2 \in 1 .. Len(ls) /\ 3 \in 1 .. Len(ls)
      BY <2>1
    <2>4. \A i \in 1 .. Len(ls) : Ends(Tell(ls, FALSE), ls[i], FALSE)
      BY <2>1, TellEnds
    <2>5. /\ Ends(Tell(ls, FALSE), ls[2], FALSE)
          /\ Ends(Tell(ls, FALSE), ls[3], FALSE)
      BY <2>3, <2>4
    <2> QED BY <2>1, <2>2, <2>5 DEF KeyLines
  <1>2. /\ pw \in Seq(Commands) /\ Ends(pw, "power", FALSE)
        /\ Only(pw, "power", FALSE) /\ \A k \in KeyLines : Free(pw, k)
    BY PowerEnds, OnEnd DEF KeyLines
  <1>3. /\ u1 \in Seq(Commands) /\ \A l : l # "usb0" => Free(u1, l)
    BY OneEnds DEF BoardType, Lines
  <1>4. LocalGpioOpen(b) = (l4 \o pw) \o u1
    BY DEF LocalGpioOpen, LocalGpioInit
  <1> HIDE DEF l4, pw, u1
  <1> DEFINE lp == l4 \o pw
  <1>5. /\ lp \in Seq(Commands) /\ Ends(lp, "power", FALSE)
        /\ Only(lp, "power", FALSE)
        /\ \A k \in KeyLines : Ends(lp, k, FALSE)
    BY <1>1, <1>2, CatEnds, CatType
  <1> HIDE DEF lp
  <1>6. Free(u1, "power") /\ \A k \in KeyLines : Free(u1, k)
    BY <1>3 DEF KeyLines
  <1>7. /\ Ends(lp \o u1, "power", FALSE) /\ Only(lp \o u1, "power", FALSE)
        /\ \A k \in KeyLines : Ends(lp \o u1, k, FALSE)
    BY <1>3, <1>5, <1>6, CatEnds
  <1> QED BY <1>4, <1>7 DEF lp

LEMMA AlpacaOpens ==
  ASSUME NEW b \in BoardType
  PROVE  /\ Ends(AlpacaOpen(b), "power", FALSE)
         /\ Only(AlpacaOpen(b), "power", FALSE)
  <1> DEFINE pw == PowerCmd(FALSE)
             u1 == Tell(<<"usb0">>, b.usbAlwaysOn)
  <1>1. /\ pw \in Seq(Commands) /\ Ends(pw, "power", FALSE)
        /\ Only(pw, "power", FALSE)
    BY PowerEnds, OnEnd
  <1>2. u1 \in Seq(Commands) /\ Free(u1, "power")
    BY OneEnds DEF BoardType, Lines
  <1>3. AlpacaOpen(b) = pw \o u1
    BY DEF AlpacaOpen
  <1> HIDE DEF pw, u1
  <1> QED BY <1>1, <1>2, <1>3, CatEnds

LEMMA FourOpens ==
  ASSUME NEW ls \in Seq(Lines), \E i \in 1 .. Len(ls) : ls[i] = "power",
         \E i \in 1 .. Len(ls) : ls[i] = "fastboot",
         \E i \in 1 .. Len(ls) : ls[i] = "power_key"
  PROVE  /\ Ends(Tell(ls, FALSE), "power", FALSE)
         /\ Only(Tell(ls, FALSE), "power", FALSE)
         /\ \A k \in KeyLines : Ends(Tell(ls, FALSE), k, FALSE)
  BY TellEnds DEF KeyLines

LEMMA CdbOpens ==
  /\ Ends(CdbAssistOpen, "power", FALSE) /\ Only(CdbAssistOpen, "power", FALSE)
  /\ \A k \in KeyLines : Ends(CdbAssistOpen, k, FALSE)
  /\ Ends(QcomltOpen, "power", FALSE) /\ Only(QcomltOpen, "power", FALSE)
  /\ \A k \in KeyLines : Ends(QcomltOpen, k, FALSE)
  <1> DEFINE c == <<"usb0", "power", "power_key", "fastboot">>
             q == <<"power_key", "fastboot", "power", "usb0">>
  <1>1. /\ c \in Seq(Lines) /\ Len(c) = 4
        /\ c[2] = "power" /\ c[3] = "power_key" /\ c[4] = "fastboot"
    BY LineLists
  <1>2. /\ q \in Seq(Lines) /\ Len(q) = 4
        /\ q[3] = "power" /\ q[1] = "power_key" /\ q[2] = "fastboot"
    BY LineLists
  <1>3. CdbAssistOpen = Tell(c, FALSE) /\ QcomltOpen = Tell(q, FALSE)
    BY DEF CdbAssistOpen, QcomltOpen
  <1> HIDE DEF c, q
  <1>4. /\ Ends(Tell(c, FALSE), "power", FALSE)
        /\ Only(Tell(c, FALSE), "power", FALSE)
        /\ \A k \in KeyLines : Ends(Tell(c, FALSE), k, FALSE)
    <2>1. /\ \E i \in 1 .. Len(c) : c[i] = "power"
          /\ \E i \in 1 .. Len(c) : c[i] = "fastboot"
          /\ \E i \in 1 .. Len(c) : c[i] = "power_key"
      BY <1>1
    <2> QED BY <1>1, <2>1, FourOpens
  <1>5. /\ Ends(Tell(q, FALSE), "power", FALSE)
        /\ Only(Tell(q, FALSE), "power", FALSE)
        /\ \A k \in KeyLines : Ends(Tell(q, FALSE), k, FALSE)
    <2>1. /\ \E i \in 1 .. Len(q) : q[i] = "power"
          /\ \E i \in 1 .. Len(q) : q[i] = "fastboot"
          /\ \E i \in 1 .. Len(q) : q[i] = "power_key"
      BY <1>2
    <2> QED BY <1>2, <2>1, FourOpens
  <1> QED BY <1>3, <1>4, <1>5

LEMMA DriverOpens ==
  ASSUME board \in BoardType
  PROVE  /\ Only(DriverOpen(board), "power", FALSE)
         /\ board.driver \in {"ftdi_gpio", "local_gpio", "alpaca",
                              "cdb_assist", "qcomlt_dbg"}
              => Ends(DriverOpen(board), "power", FALSE)
         /\ board.driver \in {"local_gpio", "cdb_assist", "qcomlt_dbg"}
              => \A k \in KeyLines : Ends(DriverOpen(board), k, FALSE)
         /\ board.driver = "ftdi_gpio"
              => /\ \A k \in KeyLines : Free(DriverOpen(board), k)
                 /\ ~SameByte("output_enable", "power")
                      => Comes(DriverOpen(board))
  <1>1. CASE board.driver = "ftdi_gpio"
    BY <1>1, FtdiOpens DEF DriverOpen
  <1>2. CASE board.driver = "local_gpio"
    BY <1>2, LocalGpioOpens DEF DriverOpen
  <1>3. CASE board.driver = "alpaca"
    BY <1>3, AlpacaOpens DEF DriverOpen
  <1>4. CASE board.driver \in {"cdb_assist", "qcomlt_dbg"}
    BY <1>4, CdbOpens DEF DriverOpen
  <1>5. CASE board.driver \notin {"ftdi_gpio", "local_gpio", "alpaca",
                                 "cdb_assist", "qcomlt_dbg"}
    <2>1. DriverOpen(board) = <<>>
      BY <1>5 DEF DriverOpen
    <2>2. Only(DriverOpen(board), "power", FALSE)
      BY <2>1 DEF Only
    <2> QED BY <1>5, <2>2, Zenon
  <1> QED BY <1>1, <1>2, <1>3, <1>4, <1>5
-----------------------------------------------------------------------------
(* What a process has behind it and before it, which LeavesAsPromised and  *)
(* OpenStartsClean follow from once its last command is issued.            *)
Starts ==
  /\ proc \in {"none", "opening"} => state = "start" /\ ticks = 0
  /\ proc = "ready" /\ (who # "server" \/ fresh) => state = "start" /\ ticks = 0
  /\ proc = "none" \/ (proc = "ready" /\ fresh) => todo = <<>>
  /\ fresh => proc \in {"opening", "ready"}
  /\ ended # "none" => proc \in {"closing", "none"}

(* The commands of device_open. *)
OpenEnds ==
  fresh =>
    /\ board.usbAlwaysOn => EndsOn(AllUsb)
    /\ board.driver \in {"ftdi_gpio", "local_gpio", "alpaca", "cdb_assist",
                         "qcomlt_dbg"} \/ board.powerAlwaysOn
         => EndsOff({"power"})
    /\ \A k \in KeyLines : Rests(k) => EndsOff({k})

(* cdba-power on: the board is powered from the first tick on, and the     *)
(* keys are released in the states that follow.                            *)
PoweredAndKeysOff ==
  /\ state \notin {"start", "connect"} => EndsOn({"power"} \cup AllUsb)
  /\ HasPowerKey /\ state \in {"release_fastboot", "running"}
       => EndsOff({"power_key"})
  /\ board.fbTimeout /\ state = "running" => EndsOff({"fastboot"})

OnEnds ==
  /\ proc = "waiting" => PoweredAndKeysOff
  /\ ended = "on" => /\ EndsOn({"power"} \cup AllUsb)
                     /\ HasPowerKey => EndsOff({"power_key"})
                     /\ board.fbTimeout => EndsOff({"fastboot"})

OffEnds ==
  /\ ended = "off" => EndsOff({"power"} \cup AllUsb)
  /\ ended = "server" => /\ board.powerAlwaysOn \/ EndsOff({"power"})
                         /\ board.usbAlwaysOn \/ EndsOff(AllUsb)

(* While a board is opened, power is told to go off and nothing else, and  *)
(* before the byte that carries it is written for another line.            *)
NoPower ==
  proc = "opening" /\ ~Glitches =>
    /\ Only(todo, "power", FALSE)
    /\ OnFtdi("power") => ~asked["power"] \/ Comes(todo)

LInv == Starts /\ (lost = 0 => OpenEnds /\ OnEnds /\ OffEnds) /\ NoPower

LEMMA BoardFacts ==
  ASSUME TypeOK
  PROVE  /\ board \in BoardType /\ board.usbAlwaysOn \in BOOLEAN
         /\ board.powerAlwaysOn \in BOOLEAN /\ board.fbTimeout \in BOOLEAN
         /\ HasPowerKey \in BOOLEAN
         /\ {"power"} \cup AllUsb \in SUBSET Lines /\ AllUsb \in SUBSET Lines
         /\ {"power"} \in SUBSET Lines /\ KeyLines \in SUBSET Lines
         /\ \A k \in KeyLines : {k} \in SUBSET Lines
  <1>1. AllUsb = {"ppps", "ppps3", "usb0", "usb1"}
    BY UsbEnds
  <1>2. board \in BoardType /\ HasPowerKey \in BOOLEAN
    BY ControllersAssumption DEF TypeOK, HasPowerKey
  <1> QED BY <1>1, <1>2 DEF BoardType, Lines, KeyLines

LEMMA SameBoard ==
  ASSUME board' = board
  PROVE  /\ HasPowerKey' = HasPowerKey /\ Glitches' = Glitches
         /\ \A l : /\ Moves(l)' = Moves(l) /\ OnFtdi(l)' = OnFtdi(l)
                  /\ Rests(l)' = Rests(l)
         /\ \A s : Comes(s)' = Comes(s)
  BY DEF HasPowerKey, Glitches, Moves, OnFtdi, Rests, Comes, SameByte

LEMMA InitLInv == Init => LInv
  BY DEF Init, LInv, Starts, OpenEnds, OnEnds, OffEnds, NoPower

(* device_open *)
LEMMA OpenLInv ==
  ASSUME IInv, IInv', LInv, NEW w \in {"server", "on", "off"}, Open(w)
  PROVE  LInv'
  <1>0. TypeOK /\ board' = board
    BY DEF IInv, Open
  <1>1. PICK p : p = IF board.powerAlwaysOn THEN PowerCmd(FALSE) ELSE <<>>
    OBVIOUS
  <1>2. PICK u : u = IF board.usbAlwaysOn THEN UsbCmd(TRUE) ELSE <<>>
    OBVIOUS
  <1>3. PICK d : d = DriverOpen(board)
    OBVIOUS
  <1>4. /\ d \in Seq(Commands) /\ p \in Seq(Commands) /\ u \in Seq(Commands)
        /\ d \o p \in Seq(Commands)
        /\ todo' = (d \o p) \o u
    <2>1. todo' = (d \o p) \o u
      BY <1>1, <1>2, <1>3 DEF Open
    <2>2. PowerCmd(FALSE) \in Seq(Commands) /\ UsbCmd(TRUE) \in Seq(Commands)
      BY CmdTypes
    <2>3. p \in Seq(Commands) /\ u \in Seq(Commands)
      BY <1>0, <1>1, <1>2, <2>2, BoardFacts, NoneOr
    <2>4. d \in Seq(Commands)
      BY <1>0, <1>3, BoardFacts, OpenType
    <2> QED BY <2>1, <2>3, <2>4, CatType
  <1>5. /\ Only(p, "power", FALSE) /\ \A k \in KeyLines : Free(p, k)
        /\ board.powerAlwaysOn => Ends(p, "power", FALSE)
        /\ \A k \in KeyLines : Only(p, k, FALSE)
    <2>1. CASE board.powerAlwaysOn
      BY <1>1, <2>1, OnEnd, PowerEnds DEF KeyLines
    <2>2. CASE ~board.powerAlwaysOn
      <3>1. p = <<>>
        BY <1>1, <2>2
      <3>2. \A l : Free(p, l) /\ Only(p, l, FALSE)
        BY <3>1 DEF Only, Free
      <3> QED BY <2>2, <3>2, Zenon
    <2> QED BY <2>1, <2>2
  <1>6. /\ Free(u, "power") /\ \A k \in KeyLines : Free(u, k)
        /\ Only(u, "power", FALSE)
        /\ \A k \in KeyLines : Only(u, k, FALSE)
        /\ board.usbAlwaysOn => \A l \in AllUsb : Ends(u, l, TRUE)
    <2>1. CASE board.usbAlwaysOn
      <3>1. \A l : l \notin AllUsb => Free(UsbCmd(TRUE), l)
        BY UsbEnds
      <3>2. "power" \notin AllUsb /\ \A k \in KeyLines : k \notin AllUsb
        <4>1. AllUsb = {"ppps", "ppps3", "usb0", "usb1"}
          BY UsbEnds
        <4> QED BY <4>1 DEF KeyLines
      <3>3. Free(u, "power") /\ \A k \in KeyLines : Free(u, k)
        BY <1>2, <2>1, <3>1, <3>2
      <3>4. \A l \in AllUsb : Ends(u, l, TRUE)
        BY <1>2, <2>1, OnEnd
      <3> QED BY <3>3, <3>4 DEF Free, Only
    <2>2. CASE ~board.usbAlwaysOn
      <3>1. u = <<>>
        BY <1>2, <2>2
      <3>2. \A l : Free(u, l) /\ Only(u, l, FALSE)
        BY <3>1 DEF Only, Free
      <3> QED BY <2>2, <3>2, Zenon
    <2> QED BY <2>1, <2>2
  <1>7. Starts'
    BY DEF LInv, Starts, Open, control
  <1>8. OpenEnds'
    <2>1. ASSUME board.usbAlwaysOn PROVE EndsOn(AllUsb)'
      <3>1. \A l \in AllUsb : Ends(todo', l, TRUE)
        BY <1>4, <1>6, <2>1, CatEnds
      <3> QED BY <3>1, ToldEnds
    <2>2. ASSUME board.driver \in {"ftdi_gpio", "local_gpio", "alpaca",
                                   "cdb_assist", "qcomlt_dbg"}
                   \/ board.powerAlwaysOn
          PROVE  EndsOff({"power"})'
      <3>1. Ends(d \o p, "power", FALSE)
        BY <1>0, <1>3, <1>4, <1>5, <2>2, DriverOpens, BoardFacts, CatEnds
      <3>2. Ends(todo', "power", FALSE)
        BY <1>4, <1>6, <3>1, CatEnds
      <3> QED BY <3>2, ToldEnds
    <2>3. ASSUME NEW k \in KeyLines, Rests(k) PROVE EndsOff({k})'
      <3>1. CASE board.driver \in {"local_gpio", "cdb_assist", "qcomlt_dbg"}
        <4>1. Ends(d \o p, k, FALSE)
          BY <1>0, <1>3, <1>4, <1>5, <3>1, DriverOpens, BoardFacts, CatEnds
        <4>2. Ends(todo', k, FALSE)
          BY <1>4, <1>6, <4>1, CatEnds
        <4> QED BY <4>2, ToldEnds
      <3>2. CASE board.driver \notin {"local_gpio", "cdb_assist", "qcomlt_dbg"}
        <4>1. /\ OnFtdi(k) /\ k \notin board.activeLow
              /\ "power" \in board.wired
              /\ board.iface[k] = board.iface["power"]
              /\ board.driver = "ftdi_gpio" /\ k \in Lines
          BY <2>3, <3>2, BoardFacts, <1>0 DEF Rests, OnFtdi, OnChip, KeyLines, Lines
        <4>2. Free(d, k) /\ Ends(d, "power", FALSE)
          BY <1>0, <1>3, <4>1, DriverOpens, BoardFacts
        <4>3. Free(d \o p, k) /\ Ends(d \o p, "power", FALSE)
          BY <1>4, <1>5, <4>2, CatEnds
        <4>4. Free(todo', k) /\ Ends(todo', "power", FALSE)
          BY <1>4, <1>6, <4>3, CatEnds
        <4>5. PICK i \in 1 .. Len(todo') : todo'[i].line = "power"
          BY <4>4 DEF Ends
        <4>6. asked'[k] = FALSE
          BY <4>1 DEF Open, Low
        <4>7. /\ OnChip(board', k) /\ OnChip(board', todo'[i].line)
              /\ board'.iface[todo'[i].line] = board'.iface[k]
          BY <1>0, <4>1, <4>5 DEF OnFtdi, OnChip
        <4>8. EndsUp(k, FALSE)'
          BY <4>4, <4>6, <4>7 DEF EndsUp, SameByte, OnFtdi
        <4> QED BY <4>8 DEF EndsOff, AllEnd
      <3> QED BY <3>1, <3>2
    <2> QED BY <1>0, <2>1, <2>2, <2>3, SameBoard DEF OpenEnds
  <1>9. OnEnds' /\ OffEnds'
    BY DEF OnEnds, OffEnds, Open
  <1>10. NoPower'
    <2> SUFFICES ASSUME ~Glitches
                 PROVE  /\ Only(todo', "power", FALSE)
                        /\ OnFtdi("power") => ~asked'["power"] \/ Comes(todo')
      BY <1>0, SameBoard DEF NoPower
    <2>1. Only(d \o p, "power", FALSE)
      BY <1>0, <1>3, <1>4, <1>5, DriverOpens, BoardFacts, CatEnds
    <2>2. Only(todo', "power", FALSE)
      BY <1>4, <1>6, <2>1, CatEnds
    <2>3. ASSUME OnFtdi("power") PROVE ~asked'["power"] \/ Comes(todo')
      <3>1. board.driver = "ftdi_gpio"
        BY <2>3 DEF OnFtdi, OnChip
      <3>2. CASE ~SameByte("output_enable", "power")
        <4>1. Comes(d)
          BY <1>0, <1>3, <3>1, <3>2, DriverOpens, BoardFacts
        <4> QED BY <1>4, <4>1, CatComes
      <3>3. CASE SameByte("output_enable", "power")
        <4>1. "power" \notin board.activeLow
          BY <2>3, <3>3 DEF Glitches, SameByte
        <4>2. "power" \in Lines
          BY DEF Lines
        <4>3. asked'["power"] = FALSE
          BY <2>3, <4>1, <4>2 DEF Open, Low
        <4> QED BY <4>3
      <3> QED BY <3>2, <3>3
    <2> QED BY <2>2, <2>3
  <1> QED BY <1>7, <1>8, <1>9, <1>10 DEF LInv

(* A line command. *)
LEMMA WriteNoPower ==
  ASSUME IInv, IInv', Write, NoPower
  PROVE  NoPower'
  <1>1. PICK c \in Commands : c = todo[1] /\ (Issue(c) \/ Refuse(c))
    BY HeadType DEF Write, IInv
  <1>2. /\ todo # <<>> /\ todo \in Seq(Commands) /\ todo' = Tail(todo)
        /\ proc' = proc
    BY DEF Write, Issue, Refuse, IInv, TypeOK
  <1>3. board' = board /\ asked \in [Lines -> BOOLEAN]
    BY <1>1 DEF Issue, Refuse, IInv, TypeOK
  <1> SUFFICES ASSUME proc = "opening", ~Glitches
               PROVE  /\ Only(todo', "power", FALSE)
                      /\ OnFtdi("power") => ~asked'["power"] \/ Comes(todo')
    BY <1>2, <1>3, SameBoard DEF NoPower
  <1>4. /\ Only(todo, "power", FALSE)
        /\ OnFtdi("power") => ~asked["power"] \/ Comes(todo)
    BY DEF NoPower
  <1>5. Only(todo', "power", FALSE)
    BY <1>2, <1>4, TailEnds
  <1>6. ASSUME OnFtdi("power") PROVE ~asked'["power"] \/ Comes(todo')
    <2>1. CASE c.line = "power"
      <3>1. Issue(c) /\ c.line \in Lines
        BY <1>1, <1>6, <2>1 DEF Refuse, OnFtdi, OnChip, Commands
      <3>2. 1 \in 1 .. Len(todo)
        BY <1>2
      <3>3. c.on = FALSE
        BY <1>1, <1>4, <2>1, <3>2 DEF Only
      <3>4. asked'["power"] = FALSE
        BY <1>3, <2>1, <3>1, <3>3 DEF Issue
      <3> QED BY <3>4
    <2>2. CASE c.line # "power"
      <3>1. asked'["power"] = asked["power"]
        <4>1. "power" \in Lines
          BY DEF Lines
        <4> QED BY <1>1, <1>3, <2>2, <4>1 DEF Issue, Refuse, hist
      <3>2. ASSUME Comes(todo) PROVE Comes(todo')
        <4>1. PICK i \in 1 .. Len(todo) :
                /\ todo[i].line = "power"
                /\ \A j \in 1 .. (i - 1) : ~SameByte(todo[j].line, "power")
          BY <3>2 DEF Comes
        <4>2. /\ i # 1 /\ Len(todo') = Len(todo) - 1
              /\ \A j \in 1 .. (Len(todo) - 1) : todo'[j] = todo[j + 1]
          BY <1>1, <1>2, <2>2, <4>1
        <4>3. i - 1 \in 1 .. Len(todo') /\ todo'[i - 1].line = "power"
          BY <1>2, <4>1, <4>2
        <4>4. ASSUME NEW j \in 1 .. ((i - 1) - 1)
              PROVE  ~SameByte(todo'[j].line, "power")
          <5>1. j + 1 \in 1 .. (i - 1) /\ todo'[j] = todo[j + 1]
            BY <1>2, <4>2
          <5> QED BY <4>1, <5>1
        <4> QED BY <4>3, <4>4 DEF Comes
      <3> QED BY <1>4, <1>6, <3>1, <3>2
    <2> QED BY <2>1, <2>2
  <1> QED BY <1>5, <1>6

LEMMA WriteLInv ==
  ASSUME IInv, IInv', LInv, Write
  PROVE  LInv'
  <1>1. /\ TypeOK /\ board' = board /\ todo # <<>>
        /\ UNCHANGED <<proc, who, state, ticks, fresh, ended>>
        /\ lost' = lost \/ lost' = lost + 1
    BY DEF IInv, Write, Issue, Refuse, Toggle, Request, control, hist
  <1>2. Starts'
    BY <1>1 DEF LInv, Starts
  <1>3. NoPower'
    BY WriteNoPower DEF LInv
  <1>4. ASSUME lost' = 0 PROVE OpenEnds' /\ OnEnds' /\ OffEnds'
    <2>1. lost' = lost /\ OpenEnds /\ OnEnds /\ OffEnds
      BY <1>1, <1>4 DEF LInv, TypeOK
    <2>2. ASSUME NEW ls \in SUBSET Lines
          PROVE  /\ EndsOn(ls) => EndsOn(ls)'
                 /\ EndsOff(ls) => EndsOff(ls)'
      BY <2>1, WriteEnds
    <2>3. /\ EndsOn({"power"} \cup AllUsb) => EndsOn({"power"} \cup AllUsb)'
          /\ EndsOff({"power"} \cup AllUsb) => EndsOff({"power"} \cup AllUsb)'
          /\ EndsOn(AllUsb) => EndsOn(AllUsb)'
          /\ EndsOff(AllUsb) => EndsOff(AllUsb)'
          /\ EndsOff({"power"}) => EndsOff({"power"})'
      BY <1>1, <2>2, BoardFacts
    <2>4. ASSUME NEW k \in KeyLines PROVE EndsOff({k}) => EndsOff({k})'
      BY <1>1, <2>2, BoardFacts
    <2>5. /\ EndsOff({"power_key"}) => EndsOff({"power_key"})'
          /\ EndsOff({"fastboot"}) => EndsOff({"fastboot"})'
      BY <2>4 DEF KeyLines
    <2>6. OpenEnds'
      BY <1>1, <2>1, <2>3, <2>4, SameBoard DEF OpenEnds
    <2>7. PoweredAndKeysOff => PoweredAndKeysOff'
      BY <1>1, <2>3, <2>5, SameBoard DEF PoweredAndKeysOff
    <2>8. OnEnds' /\ OffEnds'
      BY <1>1, <2>1, <2>3, <2>5, <2>7, SameBoard DEF OnEnds, OffEnds
    <2> QED BY <2>6, <2>8
  <1> QED BY <1>2, <1>3, <1>4 DEF LInv

(* The timers of cdba-power on, and of a server, which promises nothing    *)
(* while it runs.                                                          *)
LEMMA TickLInv ==
  ASSUME IInv, IInv', LInv, Tick
  PROVE  LInv'
  <1>1. /\ TypeOK /\ TypeOK' /\ board' = board /\ todo = <<>> /\ ticks > 0
        /\ UNCHANGED <<board, level, asked>>
        /\ UNCHANGED <<proc, who, fresh, ended, lost>>
        /\ proc \in {"ready", "waiting"} /\ TickActs
    BY DEF IInv, Tick, Idle, hist
  <1>2. ~fresh /\ (proc = "ready" => who = "server") /\ ended = "none"
    BY <1>1 DEF LInv, Starts, TypeOK
  <1>3. Starts' /\ NoPower' /\ OpenEnds' /\ OffEnds'
    BY <1>1, <1>2 DEF Starts, NoPower, OpenEnds, OffEnds
  <1>4. ASSUME lost = 0, proc = "waiting" PROVE PoweredAndKeysOff'
    <2>1. PoweredAndKeysOff /\ todo' \in Seq(Commands)
      BY <1>1, <1>4 DEF LInv, OnEnds, TypeOK
    <2>2. ASSUME NEW ls
          PROVE  /\ EndsOn(ls) /\ (\A l \in ls : Only(todo', l, TRUE))
                      => EndsOn(ls)'
                 /\ EndsOff(ls) /\ (\A l \in ls : Only(todo', l, FALSE))
                      => EndsOff(ls)'
      BY <1>1, <2>1, IdleEnds
    <2>3. HasPowerKey' = HasPowerKey /\ board' = board
      BY <1>1, SameBoard
    <2> DEFINE all == {"power"} \cup AllUsb
    <2>4. CASE state = "connect"
      <3>1. /\ todo' = PowerCmd(TRUE) \o UsbCmd(TRUE)
            /\ state' = IF HasPowerKey THEN "press" ELSE AfterKeys
        BY <1>1, <2>4 DEF TickActs
      <3>2. \A l \in all : Ends(todo', l, TRUE)
        <4>1. \A l : Only(UsbCmd(TRUE), l, TRUE)
          BY OnEnd
        <4>2. /\ PowerCmd(TRUE) \in Seq(Commands) /\ UsbCmd(TRUE) \in Seq(Commands)
              /\ Ends(PowerCmd(TRUE), "power", TRUE)
              /\ \A l \in AllUsb : Ends(UsbCmd(TRUE), l, TRUE)
          BY CmdTypes, OnEnd
        <4> QED BY <3>1, <4>1, <4>2, CatEnds
      <3>3. EndsOn(all)'
        BY <3>2, ToldEnds
      <3>4. HasPowerKey => state' = "press"
        BY <3>1
      <3>5. ~HasPowerKey => state' = AfterKeys
        BY <3>1
      <3>6. board.fbTimeout => AfterKeys # "running"
        BY DEF AfterKeys
      <3> QED BY <2>3, <3>3, <3>4, <3>5, <3>6 DEF PoweredAndKeysOff
    <2>5. CASE state = "press"
      <3>1. todo' = Tell(<<"power_key">>, TRUE) /\ state' = "release_pwr"
        BY <1>1, <2>5 DEF TickActs
      <3>2. \A l : Only(todo', l, TRUE)
        BY <3>1, OneEnds DEF Lines
      <3>3. EndsOn(all)'
        BY <2>1, <2>2, <2>5, <3>2 DEF PoweredAndKeysOff
      <3> QED BY <3>1, <3>3 DEF PoweredAndKeysOff
    <2>6. CASE state = "release_pwr"
      <3>1. todo' = Tell(<<"power_key">>, FALSE) /\ state' = AfterKeys
        BY <1>1, <2>6 DEF TickActs
      <3>2. /\ \A l : l # "power_key" => Free(todo', l)
            /\ Ends(todo', "power_key", FALSE)
        BY <3>1, OneEnds DEF Lines
      <3>3. \A l \in all : Only(todo', l, TRUE)
        <4>0. AllUsb = {"ppps", "ppps3", "usb0", "usb1"}
          BY UsbEnds
        <4>1. "power_key" \notin all
          BY <4>0
        <4> QED BY <3>2, <4>1 DEF Only, Free
      <3>4. EndsOn(all)' /\ EndsOff({"power_key"})'
        BY <2>1, <2>2, <2>6, <3>2, <3>3, ToldEnds DEF PoweredAndKeysOff
      <3>5. board.fbTimeout => AfterKeys # "running"
        BY DEF AfterKeys
      <3> QED BY <2>3, <3>1, <3>4, <3>5 DEF PoweredAndKeysOff
    <2>7. CASE state = "release_fastboot"
      <3>1. todo' = Tell(<<"fastboot">>, FALSE) /\ state' = "running"
        BY <1>1, <2>7 DEF TickActs
      <3>2. /\ \A l : l # "fastboot" => Free(todo', l)
            /\ Ends(todo', "fastboot", FALSE)
        BY <3>1, OneEnds DEF Lines
      <3>3. /\ \A l \in all : Only(todo', l, TRUE)
            /\ \A l \in {"power_key"} : Only(todo', l, FALSE)
        <4>0. AllUsb = {"ppps", "ppps3", "usb0", "usb1"}
          BY UsbEnds
        <4>1. "fastboot" \notin all
          BY <4>0
        <4> QED BY <3>2, <4>1 DEF Only, Free
      <3>4. EndsOn(all)' /\ EndsOff({"fastboot"})'
        BY <2>1, <2>2, <2>7, <3>2, <3>3, ToldEnds DEF PoweredAndKeysOff
      <3>5. HasPowerKey => EndsOff({"power_key"})'
        BY <2>1, <2>2, <2>7, <3>3 DEF PoweredAndKeysOff
      <3> QED BY <2>3, <3>1, <3>4, <3>5 DEF PoweredAndKeysOff
    <2>8. CASE state \in {"start", "running"}
      <3>1. todo' = todo /\ state' = state
        BY <1>1, <2>8 DEF TickActs
      <3>2. \A ls : EndsOn(ls)' = EndsOn(ls) /\ EndsOff(ls)' = EndsOff(ls)
        BY <1>1, <3>1, SameEnds
      <3> QED BY <2>1, <2>3, <3>1, <3>2 DEF PoweredAndKeysOff
    <2> QED BY <1>1, <2>4, <2>5, <2>6, <2>7, <2>8 DEF TypeOK
  <1>5. lost' = 0 => OnEnds'
    BY <1>1, <1>2, <1>4 DEF OnEnds
  <1> QED BY <1>3, <1>5 DEF LInv

(* The end of cdba-power off and of a server. *)
LEMMA CloseLInv ==
  ASSUME IInv, IInv', LInv, ToolOff \/ ServerCloses
  PROVE  LInv'
  <1>1. /\ TypeOK /\ todo = <<>> /\ board' = board
        /\ proc' = "closing" /\ ended' \in {"off", "server"} /\ fresh' = FALSE
    BY DEF IInv, ToolOff, ServerCloses, Idle
  <1>2. Starts' /\ NoPower' /\ OpenEnds' /\ OnEnds'
    BY <1>1 DEF Starts, NoPower, OpenEnds, OnEnds
  <1>3. PICK k \in Seq(Commands) :
          /\ k = CloseCmds(board.usbAlwaysOn, board.powerAlwaysOn)
          /\ \A l : Only(k, l, FALSE)
          /\ ~board.usbAlwaysOn => \A l \in AllUsb : Ends(k, l, FALSE)
          /\ ~board.powerAlwaysOn => Ends(k, "power", FALSE)
    BY <1>1, BoardFacts, CloseEnds, CloseType
  <1>4. CASE ToolOff
    <2>1. PICK o : o = UsbCmd(FALSE) \o PowerCmd(FALSE)
      OBVIOUS
    <2>2. /\ UsbCmd(FALSE) \in Seq(Commands) /\ PowerCmd(FALSE) \in Seq(Commands)
          /\ \A l : Only(PowerCmd(FALSE), l, FALSE)
          /\ \A l \in AllUsb : Ends(UsbCmd(FALSE), l, FALSE)
          /\ Ends(PowerCmd(FALSE), "power", FALSE)
      BY CmdTypes, OnEnd
    <2>3. o \in Seq(Commands) /\ \A l \in {"power"} \cup AllUsb : Ends(o, l, FALSE)
      BY <2>1, <2>2, CatEnds, CatType
    <2>4. \A l \in {"power"} \cup AllUsb : Ends(o \o k, l, FALSE)
      BY <1>3, <2>3, CatEnds
    <2>5. todo' = o \o k /\ ended' = "off"
      BY <1>3, <1>4, <2>1 DEF ToolOff
    <2>6. EndsOff({"power"} \cup AllUsb)'
      BY <2>4, <2>5, ToldEnds
    <2>7. OffEnds'
      BY <2>5, <2>6 DEF OffEnds
    <2> QED BY <1>2, <2>7 DEF LInv
  <1>5. CASE ServerCloses
    <2>1. todo' = k /\ ended' = "server"
      BY <1>3, <1>5 DEF ServerCloses
    <2>2. ~board.powerAlwaysOn => EndsOff({"power"})'
      BY <1>3, <2>1, ToldEnds
    <2>3. ~board.usbAlwaysOn => EndsOff(AllUsb)'
      BY <1>3, <2>1, ToldEnds
    <2>4. OffEnds'
      BY <1>1, <2>1, <2>2, <2>3 DEF OffEnds
    <2> QED BY <1>2, <2>4 DEF LInv
  <1> QED BY <1>4, <1>5

(* The steps that issue no command. *)
LEMMA QuietLInv ==
  ASSUME IInv, IInv', LInv,
         \/ ToolOn \/ ToolReady \/ ToolBreaks \/ Opened \/ Exit \/ Crash
         \/ Command \/ UNCHANGED vars
  PROVE  LInv'
  <1>0. TypeOK /\ TypeOK'
    BY DEF IInv
  <1>1. /\ UNCHANGED <<board, level, asked, lost>>
    BY DEF ToolOn, ToolReady, ToolBreaks, Opened, Exit, Crash, Command, vars, hist
  <1>2. CASE Command
    <2>1. /\ fresh' = FALSE /\ proc = "ready" /\ proc' = "ready"
          /\ who = "server" /\ who' = who /\ ended' = ended
      BY <1>2 DEF Command
    <2>2. ended = "none"
      BY <2>1 DEF LInv, Starts
    <2> QED BY <2>1, <2>2 DEF LInv, Starts, OpenEnds, OnEnds, OffEnds, NoPower
  <1>3. CASE ToolOn
    <2>1. /\ fresh' = FALSE /\ proc = "ready" /\ proc' = "waiting"
          /\ who = "on" /\ ended' = ended
          /\ state' \in {state, "connect"}
      BY <1>3 DEF ToolOn, PowerOn
    <2>2. ended = "none" /\ state = "start"
      BY <2>1 DEF LInv, Starts
    <2>3. PoweredAndKeysOff'
      BY <2>1, <2>2 DEF PoweredAndKeysOff
    <2> QED BY <2>1, <2>2, <2>3 DEF LInv, Starts, OpenEnds, OnEnds, OffEnds, NoPower
  <1>4. CASE Crash
    <2>1. /\ fresh' = FALSE /\ proc' = "none" /\ ended' = "crash"
          /\ state' = "start" /\ ticks' = 0 /\ todo' = <<>>
      BY <1>4 DEF Crash, Gone
    <2> QED BY <2>1 DEF LInv, Starts, OpenEnds, OnEnds, OffEnds, NoPower
  <1>5. CASE ToolBreaks
    <2>1. /\ fresh' = fresh /\ proc = "waiting" /\ proc' = "closing"
          /\ ended' = "broken"
      BY <1>5 DEF ToolBreaks
    <2>2. ~fresh
      BY <2>1 DEF LInv, Starts
    <2> QED BY <2>1, <2>2 DEF LInv, Starts, OpenEnds, OnEnds, OffEnds, NoPower
  <1>6. ASSUME ToolReady \/ Opened \/ Exit \/ UNCHANGED vars
        PROVE  /\ todo' = todo
               /\ \A ls : EndsOn(ls)' = EndsOn(ls) /\ EndsOff(ls)' = EndsOff(ls)
               /\ HasPowerKey' = HasPowerKey /\ Glitches' = Glitches
               /\ \A l : OnFtdi(l)' = OnFtdi(l) /\ Rests(l)' = Rests(l)
               /\ \A s : Comes(s)' = Comes(s)
    <2>1. CloseCmds(TRUE, TRUE) = <<>>
      BY DEF CloseCmds
    <2>2. todo' = todo
      BY <1>6, <2>1 DEF ToolReady, Opened, Exit, Idle, vars
    <2> QED BY <1>1, <2>2, SameEnds, SameBoard
  <1>7. CASE ToolReady
    <2>1. /\ proc = "waiting" /\ state = "running" /\ state' = state
          /\ proc' = "closing" /\ ended' = "on" /\ fresh' = fresh
      BY <1>7 DEF ToolReady, control
    <2>2. ~fresh
      BY <2>1 DEF LInv, Starts
    <2>3. ASSUME lost = 0 PROVE OnEnds'
      <3>1. PoweredAndKeysOff
        BY <2>1, <2>3 DEF LInv, OnEnds
      <3>2. /\ EndsOn({"power"} \cup AllUsb)
            /\ HasPowerKey => EndsOff({"power_key"})
            /\ board.fbTimeout => EndsOff({"fastboot"})
        BY <2>1, <3>1 DEF PoweredAndKeysOff
      <3> QED BY <1>1, <1>6, <1>7, <2>1, <3>2 DEF OnEnds
    <2> QED BY <1>1, <2>1, <2>2, <2>3 DEF LInv, Starts, OpenEnds, OffEnds, NoPower
  <1>8. CASE Opened
    <2>1. /\ proc = "opening" /\ proc' = "ready" /\ todo = <<>>
          /\ UNCHANGED <<who, state, ticks, fresh, ended>>
      BY <1>8 DEF Opened, Idle, control, hist
    <2>2. ended = "none"
      BY <2>1 DEF LInv, Starts
    <2>3. Starts' /\ NoPower' /\ OnEnds' /\ OffEnds'
      BY <1>6, <1>8, <2>1, <2>2 DEF LInv, Starts, NoPower, OnEnds, OffEnds
    <2>4. OpenEnds => OpenEnds'
      BY <1>1, <1>6, <1>8, <2>1 DEF OpenEnds
    <2> QED BY <1>1, <2>3, <2>4 DEF LInv
  <1>9. CASE Exit
    <2>1. /\ proc = "closing" /\ proc' = "none" /\ todo = <<>>
          /\ state' = "start" /\ ticks' = 0
          /\ UNCHANGED <<fresh, ended>>
      BY <1>9 DEF Exit, Idle, Gone, hist
    <2>2. ~fresh
      BY <2>1 DEF LInv, Starts
    <2>3. Starts' /\ NoPower' /\ OpenEnds'
      BY <1>6, <1>9, <2>1, <2>2 DEF LInv, Starts, NoPower, OpenEnds
    <2>4. /\ OnEnds => OnEnds'
          /\ OffEnds => OffEnds'
      BY <1>1, <1>6, <1>9, <2>1 DEF OnEnds, OffEnds
    <2> QED BY <1>1, <2>3, <2>4 DEF LInv
  <1>10. CASE UNCHANGED vars
    <2>1. UNCHANGED <<proc, who, state, ticks, fresh, ended>>
      BY <1>10 DEF vars
    <2>2. Starts' /\ NoPower'
      BY <1>1, <1>6, <1>10, <2>1 DEF LInv, Starts, NoPower
    <2>3. /\ OpenEnds => OpenEnds'
          /\ PoweredAndKeysOff => PoweredAndKeysOff'
      BY <1>1, <1>6, <1>10, <2>1 DEF OpenEnds, PoweredAndKeysOff
    <2>4. /\ OnEnds => OnEnds'
          /\ OffEnds => OffEnds'
      BY <1>1, <1>6, <1>10, <2>1, <2>3 DEF OnEnds, OffEnds
    <2> QED BY <1>1, <2>2, <2>3, <2>4 DEF LInv
  <1> QED BY <1>2, <1>3, <1>4, <1>5, <1>7, <1>8, <1>9, <1>10

LEMMA StepLInv == IInv /\ IInv' /\ LInv /\ [Next]_vars => LInv'
  <1> SUFFICES ASSUME IInv, IInv', LInv, [Next]_vars PROVE LInv'
    OBVIOUS
  <1>1. ASSUME NEW w \in {"server", "on", "off"}, Open(w) PROVE LInv'
    BY <1>1, OpenLInv
  <1>2. CASE Write
    BY <1>2, WriteLInv
  <1>3. CASE Tick
    BY <1>3, TickLInv
  <1>4. CASE ToolOff \/ ServerCloses
    BY <1>4, CloseLInv
  <1>5. CASE \/ ToolOn \/ ToolReady \/ ToolBreaks \/ Opened \/ Exit \/ Crash
             \/ Command \/ UNCHANGED vars
    BY <1>5, QuietLInv
  <1> QED BY <1>1, <1>2, <1>3, <1>4, <1>5 DEF Next, Tool

LEMMA AlwaysLInv == Spec => []LInv
  <1> QED BY InitLInv, StepLInv, AlwaysIInv, PTL DEF Spec

(* Lines whose last command is issued are where they end. *)
LEMMA EndsNow ==
  ASSUME todo = <<>>, TypeOK, NEW ls \in SUBSET Lines
  PROVE  /\ EndsOn(ls) => On(ls)
         /\ EndsOff(ls) => Off(ls)
  <1>1. ASSUME AllEnd(ls, TRUE) PROVE On(ls)
    BY <1>1, AllEndNow DEF On
  <1>2. ASSUME AllEnd(ls, FALSE) PROVE Off(ls)
    BY <1>2, AllEndNow DEF Off
  <1> QED BY <1>1, <1>2 DEF EndsOn, EndsOff

(* Every tick but the one that ends the sequence schedules the next.       *)
LEMMA TickTicks ==
  ASSUME TypeOK, SequenceTicks, Tick
  PROVE  SequenceTicks'
  <1>0. /\ ticks \in Nat /\ ticks > 0 /\ state \in States /\ proc' = proc
        /\ board' = board /\ TickActs
        /\ ticks' = IF state = "running" \/ state' = "running" THEN ticks - 1
                                                               ELSE ticks
    BY DEF TypeOK, Tick, States
  <1>1. state' = "start" => state = "start"
    <2>1. AfterKeys # "start"
      BY DEF AfterKeys
    <2>. QED  BY <1>0, <2>1 DEF TickActs, States
  <1>2. state = "running" => state' = "running"
    BY <1>0 DEF TickActs
  <1>. QED  BY <1>0, <1>1, <1>2 DEF SequenceTicks

LEMMA StepTicks == IInv /\ LInv /\ SequenceTicks /\ [Next]_vars => SequenceTicks'
  <1>. SUFFICES ASSUME IInv, LInv, SequenceTicks, [Next]_vars
                PROVE  SequenceTicks'
    OBVIOUS
  <1>0. /\ TypeOK /\ ticks \in Nat
        /\ proc = "opening" => state = "start"
    BY DEF IInv, LInv, Starts, TypeOK
  <1>1. CASE Tick
    BY <1>0, <1>1, TickTicks
  <1>2. CASE Write
    <2>1. UNCHANGED <<board, proc, control>>
      BY <1>2 DEF Write, Issue, Refuse, Toggle, Request
    <2>. QED  BY <2>1 DEF control, SequenceTicks
  <1>3. CASE Command \/ ToolOn
    <2>1. /\ board' = board /\ proc \in {"ready"} /\ proc' \in {"ready", "waiting"}
          /\ PowerOn \/ (proc' = "ready" /\ UNCHANGED control)
      BY <1>3 DEF Command, ToolOn
    <2>2. CASE PowerOn
      <3>1. CASE "power" \in board.wired
        <4>1. state' = "connect" /\ ticks' = ticks + 1
          BY <2>2, <3>1 DEF PowerOn
        <4>. QED  BY <1>0, <4>1 DEF SequenceTicks
      <3>2. CASE "power" \notin board.wired
        <4>1. state' = state /\ ticks' = ticks
          BY <2>2, <3>2 DEF PowerOn
        <4>. QED  BY <2>1, <3>2, <4>1 DEF SequenceTicks
      <3>. QED  BY <3>1, <3>2
    <2>3. CASE proc' = "ready" /\ UNCHANGED control
      BY <2>1, <2>3 DEF control, SequenceTicks
    <2>. QED  BY <2>1, <2>2, <2>3
  <1>4. CASE Opened
    BY <1>0, <1>4 DEF Opened, control, SequenceTicks
  <1>5. ASSUME NEW w \in {"server", "on", "off"}, Open(w)
        PROVE  SequenceTicks'
    BY <1>5 DEF Open, SequenceTicks
  <1>6. CASE ToolReady \/ ToolBreaks \/ ToolOff \/ ServerCloses \/ Exit \/ Crash
    BY <1>6 DEF ToolReady, ToolBreaks, ToolOff, ServerCloses, Exit, Crash,
                Gone, SequenceTicks
  <1>7. CASE UNCHANGED vars
    BY <1>7 DEF vars, control, SequenceTicks
  <1>. QED  BY <1>1, <1>2, <1>3, <1>4, <1>5, <1>6, <1>7 DEF Next, Tool

(* cdba-power on never waits without a tick to come, whatever is lost, for *)
(* every board that has power control.                                     *)
THEOREM ToolNeverStuck == Spec => []SequenceTicks
  <1>1. Init => SequenceTicks
    BY DEF Init, SequenceTicks
  <1>. QED  BY <1>1, StepTicks, AlwaysIInv, AlwaysLInv, PTL DEF Spec

(* Whatever was lost or left behind by processes before it, a process that *)
(* ends in order and loses no command of its own leaves the board as the   *)
(* three kinds of process promise.                                         *)
THEOREM PromisesAreKept == Spec => []LeavesAsPromised
  <1>1. IInv /\ LInv => LeavesAsPromised
    <2> SUFFICES ASSUME IInv, LInv PROVE LeavesAsPromised
      OBVIOUS
    <2>0. TypeOK
      BY DEF IInv
    <2> SUFFICES ASSUME proc = "none", lost = 0 PROVE LeavesAsPromised
      BY DEF LeavesAsPromised, Clean
    <2>1. todo = <<>> /\ OnEnds /\ OffEnds
      BY DEF LInv, Starts
    <2>2. ASSUME NEW ls \in SUBSET Lines
          PROVE  /\ EndsOn(ls) => On(ls)
                 /\ EndsOff(ls) => Off(ls)
      BY <2>0, <2>1, EndsNow
    <2>3. /\ EndsOn({"power"} \cup AllUsb) => On({"power"} \cup AllUsb)
          /\ EndsOff({"power"} \cup AllUsb) => Off({"power"} \cup AllUsb)
          /\ EndsOff({"power"}) => Off({"power"})
          /\ EndsOff(AllUsb) => Off(AllUsb)
      BY <2>0, <2>2, BoardFacts
    <2>4. ASSUME NEW k \in KeyLines PROVE EndsOff({k}) => Off({k})
      BY <2>0, <2>2, BoardFacts
    <2>5. /\ EndsOff({"power_key"}) => Off({"power_key"})
          /\ EndsOff({"fastboot"}) => Off({"fastboot"})
      BY <2>4 DEF KeyLines
    <2> QED BY <2>1, <2>3, <2>5 DEF LeavesAsPromised, Clean, OnEnds, OffEnds
  <1> QED BY <1>1, AlwaysIInv, AlwaysLInv, PTL

(* Whatever an earlier process left pressed or powered, a board whose open *)
(* lost no command starts as OpenStartsClean says.                         *)
THEOREM StartsClean == Spec => []OpenStartsClean
  <1>1. IInv /\ LInv => OpenStartsClean
    <2> SUFFICES ASSUME IInv, LInv, proc = "ready", fresh, lost = 0
                 PROVE  OpenStartsClean
      BY DEF OpenStartsClean
    <2>0. TypeOK
      BY DEF IInv
    <2>1. todo = <<>> /\ OpenEnds
      BY DEF LInv, Starts
    <2>2. ASSUME NEW ls \in SUBSET Lines
          PROVE  /\ EndsOn(ls) => On(ls)
                 /\ EndsOff(ls) => Off(ls)
      BY <2>0, <2>1, EndsNow
    <2>3. /\ EndsOn(AllUsb) => On(AllUsb)
          /\ EndsOff({"power"}) => Off({"power"})
          /\ \A k \in KeyLines : EndsOff({k}) => Off({k})
      BY <2>0, <2>2, BoardFacts
    <2> QED BY <2>1, <2>3 DEF OpenStartsClean, OpenEnds
  <1> QED BY <1>1, AlwaysIInv, AlwaysLInv, PTL

(* Opening a board never switches its power on, whatever is lost meanwhile *)
(* and whatever was lost before.                                           *)
THEOREM OpeningIsSafe == Spec => OpeningNeverPowers
  <1>1. ASSUME IInv, IInv', LInv, [Next]_vars, proc = "opening", ~Glitches
        PROVE  level'["power"] => level["power"]
    <2>1. CASE todo # <<>> /\ Issue(Head(todo))
      <3>1. PICK c \in Commands : c = todo[1] /\ Issue(c)
        BY <1>1, <2>1, HeadType DEF IInv
      <3>2. /\ Only(todo, "power", FALSE) /\ 1 \in 1 .. Len(todo)
            /\ OnFtdi("power") => ~asked["power"] \/ Comes(todo)
            /\ "power" \in Lines /\ asked \in [Lines -> BOOLEAN]
            /\ level \in [Lines -> BOOLEAN]
        <4>1. /\ Only(todo, "power", FALSE)
              /\ OnFtdi("power") => ~asked["power"] \/ Comes(todo)
          BY <1>1 DEF LInv, NoPower
        <4>2. 1 \in 1 .. Len(todo) /\ "power" \in Lines
          BY <1>1, <2>1 DEF IInv, TypeOK, Lines
        <4>3. asked \in [Lines -> BOOLEAN] /\ level \in [Lines -> BOOLEAN]
          BY <1>1 DEF IInv, TypeOK
        <4> QED BY <4>1, <4>2, <4>3
      <3>3. level'["power"] \in {level["power"], asked'["power"]}
        BY <1>1, <3>1, <3>2, IssueMoves
      <3>4. CASE c.line = "power"
        <4>1. c.on = FALSE
          BY <3>1, <3>2, <3>4 DEF Only
        <4>2. asked'["power"] = FALSE
          BY <3>1, <3>2, <3>4, <4>1 DEF Issue
        <4> QED BY <3>3, <4>2
      <3>5. CASE c.line # "power" /\ ~SameByte(c.line, "power")
        <4>1. "power" \notin Pins(board.iface[c.line]) \/ ~OnFtdi(c.line)
          BY <3>5 DEF Pins, SameByte
        <4>2. level'["power"] = level["power"]
          BY <3>1, <3>2, <3>5, <4>1 DEF Issue, Toggle, Request
        <4> QED BY <4>2
      <3>6. CASE c.line # "power" /\ SameByte(c.line, "power")
        <4>1. asked'["power"] = asked["power"]
          BY <3>1, <3>2, <3>6 DEF Issue
        <4>2. CASE OnFtdi("power")
          <5>1. ~Comes(todo)
            BY <3>1, <3>6 DEF Comes
          <5> QED BY <3>2, <3>3, <4>1, <4>2, <5>1
        <4>3. CASE ~OnFtdi("power")
          <5>1. "power" \notin Pins(board.iface[c.line]) /\ OnFtdi(c.line)
            BY <3>6, <4>3 DEF Pins, SameByte
          <5>2. level'["power"] = level["power"]
            BY <3>1, <3>2, <5>1 DEF Issue, Toggle
          <5> QED BY <5>2
        <4> QED BY <4>2, <4>3
      <3> QED BY <3>4, <3>5, <3>6
    <2>2. CASE \/ \E w \in {"server", "on", "off"} : Open(w)
               \/ Command \/ Tick \/ ToolOn \/ ToolReady \/ ToolOff
               \/ Opened \/ Exit \/ ToolBreaks \/ ServerCloses \/ Crash
               \/ (todo # <<>> /\ Refuse(Head(todo))) \/ UNCHANGED vars
      <3>1. level' = level
        BY <2>2 DEF Open, Command, Tick, ToolOn, ToolReady, ToolOff, Opened,
           Exit, ToolBreaks, ServerCloses, Crash, Refuse, vars
      <3> QED BY <3>1
    <2> QED BY <1>1, <2>1, <2>2 DEF Next, Write, Tool
  <1>2. IInv /\ IInv' /\ LInv /\ [Next]_vars
          => [proc = "opening" /\ ~Glitches
                => (level'["power"] => level["power"])]_vars
    BY <1>1
  <1> QED BY <1>2, AlwaysIInv, AlwaysLInv, PTL DEF Spec, OpeningNeverPowers
=============================================================================
