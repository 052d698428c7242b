---------------------------- MODULE BoardConfig ----------------------------
(***************************************************************************)
(* The configuration file: device_parser.c turns a YAML file, one event at *)
(* a time, into the list of boards; the parse_options operations of the    *)
(* drivers read the nested mappings.  Whatever is wrong anywhere in the    *)
(* file ends the process.  Then one user, $CDBA_USER, asks for the list,   *)
(* for the description of a board and for a board (device.c).              *)
(*                                                                         *)
(* An entry of the file is <<key, value>>; values are strings, and a list  *)
(* of users is a set.  The history `text` holds the entries read for the   *)
(* board, so that what it became can be compared with what they say.       *)
(***************************************************************************)
EXTENDS Naturals, Sequences, FiniteSets

CONSTANTS
  Files,         \* [entries, boards, most]: what a file's entries are drawn
                 \*   from, and how many boards and entries of each it has
  LineEntries,   \* the entries that may describe a line of a GPIO driver
  LegacyTexts,   \* one-string values of ftdi_gpio: [bank, lines]
  Callers,       \* the users that may ask
  Names,         \* the names of boards the caller may ask for
  MaxLines       \* entries in the mapping of a GPIO driver

ASSUME BoardConfigAssumption ==
  /\ \A f \in Files : f.boards \in Nat /\ f.most \in Nat
  /\ MaxLines \in Nat
  /\ \A t \in LegacyTexts :
       t.lines \in Seq([gpio : STRING, offset : STRING, low : BOOLEAN])

None == "none"

VARIABLES
  phase,     \* "file", "board", "options", "line", "serving" or "exited"
  file,
  dev,       \* the board being read: struct device
  text,      \* history: the entries read for it
  options,   \* the result of parse_options so far: [driver, gpios, entries]
  gpio,      \* the line whose mapping is being read
  devices,   \* the list of boards
  caller,
  shown,     \* history: the boards device_list_devices named to the caller
  described, \* history: the boards whose description the caller was given
  opened     \* what device_open gave: [name, index], index 0 for NULL

vars == <<phase, file, dev, text, options, gpio, devices, caller,
          shown, described, opened>>

-----------------------------------------------------------------------------
(* What a key sets. *)

Fields == {"board", "name", "control_dev", "console_dev", "voltage", "serial",
           "set_active", "description", "fastboot_key_timeout",
           "usb_always_on", "power_always_on", "ppps_path", "ppps3_path",
           "status_cmd"}

Flags == {"usb_always_on", "power_always_on"}
SameName == Fields \ {"control_dev", "console_dev", "serial", "set_active",
                      "status_cmd"}
SerialControls == {"cdba", "alpaca", "external", "qcomlt_debug_board"}
GpioDrivers == {"local_gpio", "ftdi_gpio"}
OptionDrivers == GpioDrivers \cup {"laurent"}

Stores(key) ==
  CASE key \in SerialControls -> {"control_dev"}
    [] key = "conmux" -> {"control_dev", "console_dev"}
    [] key = "console" -> {"console_dev"}
    [] key = "fastboot" -> {"serial"}
    [] key = "fastboot_set_active" -> {"set_active"}
    [] key = "status-cmd" -> {"status_cmd"}
    [] OTHER -> {key} \cap SameName

Known(key) == Stores(key) # {} \/ key = "broken_fastboot_boot"

ControlOf(key) ==
  IF key \in SerialControls \cup {"conmux"} THEN key ELSE None
ConsoleOf(key) == IF key \in {"conmux", "console"} THEN key ELSE None

(* Flags compare with "true"; fastboot_set_active: true means slot a. *)
Converted(key, value) ==
  CASE key \in Flags -> IF value = "true" THEN "true" ELSE "false"
    [] key = "fastboot_set_active" -> IF value = "true" THEN "a" ELSE value
    [] OTHER -> value

Blank == [field |-> [f \in Fields |-> IF f \in Flags THEN "false" ELSE None],
          control |-> None, console |-> None, boot |-> None,
          limited |-> FALSE, users |-> {}, driver |-> None, gpios |-> <<>>]

(* set_control_ops and set_console_ops end the process on a second choice. *)
Taken(key) == \/ ControlOf(key) # None /\ dev.control # None
              \/ ConsoleOf(key) # None /\ dev.console # None

(* Seeded fault: fastboot decides. *)
BootAfterFastboot(key, value, boot) ==
  CASE key = "fastboot" -> "boot"
    [] key = "broken_fastboot_boot" -> IF value = "true" THEN "flash" ELSE boot
    [] OTHER -> boot

BootAfter(key, value, boot) ==
  CASE key = "fastboot" -> IF boot = None THEN "boot" ELSE boot
    [] key = "broken_fastboot_boot" -> IF value = "true" THEN "flash" ELSE boot
    [] OTHER -> boot

With(key, value) ==
  [dev EXCEPT
     !.field = [f \in Fields |->
                  IF f \in Stores(key) THEN Converted(key, value) ELSE @[f]],
     !.control = IF ControlOf(key) # None THEN ControlOf(key) ELSE @,
     !.console = IF ConsoleOf(key) # None THEN ConsoleOf(key) ELSE @,
     !.boot = BootAfter(key, value, @)]

-----------------------------------------------------------------------------
(* The lines of a GPIO driver. *)

Gpios(driver) ==
  {"power", "fastboot_key", "power_key", "usb0"} \cup
  (IF driver = "ftdi_gpio" THEN {"usb1", "output_enable"} ELSE {})

LineOf(driver, key) ==
  CASE key = "usb_disconnect" -> "usb0"
    [] key = "usb0_disconnect" /\ driver = "ftdi_gpio" -> "usb0"
    [] key = "usb1_disconnect" /\ driver = "ftdi_gpio" -> "usb1"
    [] key \in Gpios(driver) \ {"usb0", "usb1"} -> key
    [] OTHER -> None

(* bank: the interface of an FTDI chip, or the GPIO chip. *)
BankKey(driver) == IF driver = "ftdi_gpio" THEN "interface" ELSE "chip"

BlankGpios(driver) ==
  [g \in Gpios(driver) |->
     [present |-> FALSE, offset |-> "0", low |-> FALSE,
      bank |-> IF driver = "ftdi_gpio" THEN "A" ELSE None]]

Accepts(driver, key, value) ==
  \/ key \in {"line", "active_low"}
  \/ /\ key = BankKey(driver)
     /\ driver = "ftdi_gpio" => value \in {"A", "B", "C", "D"}

Put(line, key, value) ==
  CASE key = "line" -> [line EXCEPT !.offset = value]
    [] key = "active_low" -> [line EXCEPT !.low = @ \/ value = "true"]
    [] OTHER -> [line EXCEPT !.bank = value]

-----------------------------------------------------------------------------
(* Reading the file. *)

Answers == <<shown, described, opened>>
Settled == <<file, devices, caller, Answers>>

NoOptions == [driver |-> None, gpios |-> <<>>, entries |-> 0]

Init == /\ phase = "file"
        /\ file \in Files
        /\ dev = Blank /\ text = <<>> /\ options = NoOptions /\ gpio = None
        /\ devices = <<>>
        /\ caller \in Callers
        /\ shown = {} /\ described = {} /\ opened = [name |-> None, index |-> 0]

(* fprintf and exit(1), errx: nothing of the file is used. *)
Exit == /\ phase' = "exited"
        /\ dev' = Blank /\ text' = <<>> /\ options' = NoOptions
        /\ gpio' = None
        /\ UNCHANGED Settled

StartBoard ==
  /\ phase = "file" /\ Len(devices) < file.boards
  /\ phase' = "board"
  /\ UNCHANGED <<dev, text, options, gpio, Settled>>

Entry(key, value) ==
  /\ phase = "board" /\ Len(text) < file.most
  /\ text' = Append(text, <<key, value>>)
  /\ UNCHANGED <<gpio, Settled>>

(* A users key with nothing behind it leaves an empty list, like []. *)
UsersKey(names) ==
  /\ Entry("users", names)
  /\ dev' = [dev EXCEPT !.limited = TRUE, !.users = names]
  /\ UNCHANGED <<phase, options>>

ScalarKey(key, value) ==
  /\ Known(key) /\ ~Taken(key)
  /\ Entry(key, value)
  /\ dev' = With(key, value)
  /\ UNCHANGED <<phase, options>>

BadKey(key) ==
  /\ phase = "board" /\ Len(text) < file.most
  /\ ~Known(key) \/ Taken(key)
  /\ Exit

BeginOptions(driver) ==
  /\ Entry(driver, "options")
  /\ phase' = "options"
  /\ options' = [driver |-> driver, entries |-> 0,
                 gpios |-> IF driver \in GpioDrivers THEN BlankGpios(driver)
                           ELSE <<>>]
  /\ UNCHANGED dev

OneMoreEntry ==
  /\ options.driver \in GpioDrivers /\ options.entries < MaxLines
  /\ UNCHANGED <<dev, text, Settled>>

BeginLine(key) ==
  /\ phase = "options"
  /\ LineOf(options.driver, key) # None
  /\ OneMoreEntry
  /\ phase' = "line" /\ gpio' = LineOf(options.driver, key)
  /\ UNCHANGED options

LineEntry(key, value) ==
  /\ phase = "line"
  /\ Accepts(options.driver, key, value)
  /\ OneMoreEntry
  /\ options' = [options EXCEPT !.gpios[gpio] = Put(@, key, value),
                                !.entries = @ + 1]
  /\ UNCHANGED <<phase, gpio>>

(* How to find the FTDI chip, among its lines. *)
Finds(driver, key) ==
  /\ driver = "ftdi_gpio"
  /\ key \in {"vendor", "product", "index", "serial", "devicenode"}

ChipEntry(key) ==
  /\ phase = "options"
  /\ Finds(options.driver, key)
  /\ OneMoreEntry
  /\ options' = [options EXCEPT !.entries = @ + 1]
  /\ UNCHANGED <<phase, gpio>>

EndLine ==
  /\ phase = "line"
  /\ OneMoreEntry
  /\ options' = [options EXCEPT !.gpios[gpio].present = TRUE,
                                !.entries = @ + 1]
  /\ phase' = "options" /\ gpio' = None

BadLine(key, value) ==
  /\ \/ /\ phase = "options" /\ options.driver \in GpioDrivers
        /\ LineOf(options.driver, key) = None /\ ~Finds(options.driver, key)
     \/ phase = "line" /\ ~Accepts(options.driver, key, value)
  /\ Exit

(* parse_options is done: the driver is selected if none was before. *)
SelectDriver(gpios) ==
  \/ dev.control # None /\ Exit
  \/ /\ dev.control = None
     /\ dev' = [dev EXCEPT !.control = options.driver,
                           !.driver = options.driver, !.gpios = gpios]
     /\ phase' = "board" /\ options' = NoOptions
     /\ UNCHANGED <<text, gpio, Settled>>

EndOptions ==
  /\ phase = "options"
  /\ SelectDriver(options.gpios)

(* laurent insists on a server; its other keys are only stored. *)
NoServer == /\ phase = "options" /\ options.driver = "laurent"
            /\ Exit

(* The one-string form of ftdi_gpio: one interface, checked lines, the     *)
(* last of two entries for one line, and no name for a second USB line.    *)
LegacyGpios(t) ==
  [g \in Gpios("ftdi_gpio") |->
     LET at == {i \in DOMAIN t.lines : t.lines[i].gpio = g}
         last == t.lines[CHOOSE i \in at : \A j \in at : j <= i]
     IN IF at = {} THEN BlankGpios("ftdi_gpio")[g]
        ELSE [present |-> TRUE, offset |-> last.offset, low |-> last.low,
              bank |-> t.bank]]

LegacyFtdi(t) ==
  /\ phase = "options" /\ options.driver = "ftdi_gpio"
  /\ options.entries = 0
  /\ IF \A i \in DOMAIN t.lines : /\ t.lines[i].gpio # "usb1"
                                  /\ t.lines[i].offset \in {"0", "1", "7"}
     THEN SelectDriver(LegacyGpios(t))
     ELSE Exit

(* Seeded fault: no fastboot is needed. *)
EndBoardNoSerial ==
  /\ phase = "board"
  /\ IF \E f \in {"board", "console_dev"} : dev.field[f] = None
     THEN Exit
     ELSE /\ devices' = Append(devices, dev)
          /\ phase' = "file" /\ dev' = Blank /\ text' = <<>>
          /\ UNCHANGED <<options, gpio, file, caller, Answers>>

EndBoard ==
  /\ phase = "board"
  /\ IF \E f \in {"board", "serial", "console_dev"} : dev.field[f] = None
     THEN Exit
     ELSE /\ devices' = Append(devices, dev)
          /\ phase' = "file" /\ dev' = Blank /\ text' = <<>>
          /\ UNCHANGED <<options, gpio, file, caller, Answers>>

EndFile ==
  /\ phase = "file"
  /\ phase' = "serving"
  /\ UNCHANGED <<dev, text, options, gpio, Settled>>

-----------------------------------------------------------------------------
(* Serving the caller. *)

CheckAccess(device) == ~device.limited \/ caller \in device.users

Named(n) == {i \in DOMAIN devices : devices[i].field["board"] = n}
First(is) == IF is = {} THEN 0 ELSE CHOOSE i \in is : \A j \in is : i <= j

Served == phase = "serving" /\ UNCHANGED <<phase, file, dev, text,
                                           options, gpio, devices, caller>>

ListDevices ==
  /\ Served
  /\ shown' = {i \in DOMAIN devices : CheckAccess(devices[i])}
  /\ UNCHANGED <<described, opened>>

(* Seeded fault: the access check is of the first board. *)
InfoOfFirst(n) ==
  /\ Served
  /\ LET f == First(Named(n))
         i == First({i \in Named(n) : /\ CheckAccess(devices[f])
                                      /\ devices[i].field["description"] # None})
     IN described' = described \cup ({i} \ {0})
  /\ UNCHANGED <<shown, opened>>

(* The first board of that name that the caller may use and that has one. *)
Info(n) ==
  /\ Served
  /\ LET i == First({i \in Named(n) : /\ CheckAccess(devices[i])
                                      /\ devices[i].field["description"] # None})
     IN described' = described \cup ({i} \ {0})
  /\ UNCHANGED <<shown, opened>>

(* The first board of that name, whoever may use it. *)
Open(n) ==
  /\ Served
  /\ opened.name = None
  /\ LET i == First(Named(n))
     IN opened' = [name |-> n,
                   index |-> IF i # 0 /\ CheckAccess(devices[i]) THEN i ELSE 0]
  /\ UNCHANGED <<shown, described>>

-----------------------------------------------------------------------------

Next ==
  \/ StartBoard \/ EndBoard \/ EndFile
  \/ \E e \in file.entries :
       \/ e[1] = "users" /\ UsersKey(e[2])
       \/ e[1] \in OptionDrivers /\ BeginOptions(e[1])
       \/ /\ e[1] \notin OptionDrivers \cup {"users"}
          /\ ScalarKey(e[1], e[2]) \/ BadKey(e[1])
  \/ \E key \in {"power", "usb_disconnect", "usb1_disconnect"} : BeginLine(key)
  \/ \E e \in LineEntries :
       LineEntry(e[1], e[2]) \/ ChipEntry(e[1]) \/ BadLine(e[1], e[2])
  \/ EndLine \/ EndOptions \/ NoServer
  \/ \E t \in LegacyTexts : LegacyFtdi(t)
  \/ ListDevices
  \/ \E n \in Names : Info(n) \/ Open(n)

Spec == Init /\ [][Next]_vars

-----------------------------------------------------------------------------
(* Properties. *)

Lines(gpios) ==
  gpios = <<>> \/ \A g \in DOMAIN gpios : /\ gpios[g].present \in BOOLEAN
                                          /\ gpios[g].low \in BOOLEAN

(* Types of the parser's state and of the list it builds. *)
TypeOK ==
  /\ phase \in {"file", "board", "options", "line", "serving", "exited"}
  /\ file \in Files /\ caller \in Callers
  /\ DOMAIN dev.field = Fields
  /\ dev.boot \in {None, "boot", "flash"} /\ dev.limited \in BOOLEAN
  /\ Len(text) <= file.most /\ Len(devices) <= file.boards
  /\ options.driver \in OptionDrivers \cup {None}
  /\ options.entries \in 0 .. MaxLines
  /\ Lines(options.gpios) /\ Lines(dev.gpios)
  /\ gpio # None <=> phase = "line"
  /\ shown \cup described \subseteq DOMAIN devices
  /\ opened.index \in 0 .. Len(devices)

Read(key) == {i \in DOMAIN text : text[i][1] = key}
LastOf(is) == CHOOSE i \in is : \A j \in is : j <= i

(* What parse_board makes of a board does not depend on the order of its   *)
(* keys: a broken fastboot boot flashes wherever it is said, the last list *)
(* of users counts, even an empty one, and the device node of control and  *)
(* console is the one given with the driver that was selected.             *)
MeansItsText ==
  /\ TypeOK
  /\ phase = "board" =>
    /\ dev.boot = IF \E i \in Read("broken_fastboot_boot") : text[i][2] = "true"
                  THEN "flash"
                  ELSE IF Read("fastboot") # {} THEN "boot" ELSE None
    /\ dev.limited = (Read("users") # {})
    /\ dev.limited => dev.users = text[LastOf(Read("users"))][2]
    /\ \A i \in DOMAIN text :
         LET key == text[i][1]
         IN /\ ControlOf(key) # None =>
                 dev.control = key /\ dev.field["control_dev"] = text[i][2]
            /\ ConsoleOf(key) # None =>
                 dev.console = key /\ dev.field["console_dev"] = text[i][2]

(* The open operation of a driver casts control_options to its own type:   *)
(* the options a board ends with were parsed by the driver it ends with.   *)
OptionsFitDriver ==
  \A i \in DOMAIN devices :
    /\ devices[i].control \in OptionDrivers =>
         devices[i].driver = devices[i].control
    /\ devices[i].driver # None => devices[i].driver = devices[i].control

(* device_open asserts console_ops, device_boot calls boot and the hot-plug *)
(* search compares serials, all unguarded: every board that made it to the  *)
(* list has them, and the options of its own driver, whatever keys led      *)
(* there.                                                                   *)
ListedIsUsable ==
  /\ OptionsFitDriver
  /\ \A i \in DOMAIN devices : /\ devices[i].console # None
                               /\ devices[i].boot # None
                               /\ devices[i].field["serial"] # None

(* With a users key, a board is named, described and opened only for the   *)
(* users in it - also where two boards share a name.                       *)
OnlyAllowed ==
  \A i \in shown \cup described \cup ({opened.index} \ {0}) :
    devices[i].limited => caller \in devices[i].users

(* A board the list named to the caller can be opened by that name,        *)
(* provided no two boards have it.                                         *)
ListedOpens ==
  \A i \in shown :
    LET n == devices[i].field["board"]
    IN (opened.name = n /\ Named(n) = {i}) => opened.index = i
=============================================================================
