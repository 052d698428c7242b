------------------------- MODULE BoardConfigProofs -------------------------
(***************************************************************************)
(* What the list of boards promises the code that uses it, for every set   *)
(* of files, users and names: the invariant is about the board that is     *)
(* being read, since a board is in the list as it was when its mapping     *)
(* ended.                                                                  *)
(***************************************************************************)
EXTENDS BoardConfig, SequenceTheorems, WellFoundedInduction, TLAPS

(* The structures have their fields. *)
Shape ==
  /\ DOMAIN dev = {"field", "control", "console", "boot", "limited", "users",
                   "driver", "gpios"}
  /\ DOMAIN dev.field = Fields
  /\ DOMAIN options = {"driver", "gpios", "entries"}

Fits(d) == /\ d.control \in OptionDrivers => d.driver = d.control
           /\ d.driver # None => d.driver = d.control

Usable(d) == /\ d.field["console_dev"] # None => d.console # None
             /\ d.field["serial"] # None => d.boot # None

Complete(d) == \A f \in {"board", "serial", "console_dev"} : d.field[f] # None

Reading == phase \in {"options", "line"} => options.driver \in OptionDrivers

IsList == \E S : devices \in Seq(S)

Listed == \A i \in DOMAIN devices :
            Fits(devices[i]) /\ Usable(devices[i]) /\ Complete(devices[i])

(* Nobody is answered before the whole file is read, and a board is opened *)
(* if it is the first of its name and the caller may use it.               *)
Answered ==
  /\ phase # "serving" => shown = {} /\ described = {} /\ opened.name = None
  /\ opened.name = None => opened.index = 0
  /\ \A i \in shown \cup described : i \in DOMAIN devices
                                       /\ CheckAccess(devices[i])
  /\ opened.name # None =>
       LET i == First(Named(opened.name))
       IN opened.index = IF i # 0 /\ CheckAccess(devices[i]) THEN i ELSE 0

CInv == /\ Shape /\ Fits(dev) /\ Usable(dev) /\ Reading /\ IsList /\ Listed
        /\ Answered
-----------------------------------------------------------------------------
LEMMA Least ==
  ASSUME NEW T \in SUBSET Nat, T # {}
  PROVE  \E x \in T : \A y \in T : x <= y
  <1>. DEFINE R == OpToRel(<, Nat)
  <1>1. IsWellFoundedOn(R, Nat)
    BY NatLessThanWellFounded
  <1>2. PICK x \in T : \A y \in T : ~(<<y, x>> \in R)
    <2>. HIDE DEF R
    <2>. QED  BY <1>1, WFMin
  <1>3. \A y \in T : ~(y < x)
    BY <1>2, Zenon DEF OpToRel
  <1>. QED  BY <1>3

(* The first board of a set is one of it. *)
LEMMA FirstIn ==
  ASSUME NEW is \in SUBSET Nat
  PROVE  First(is) \in is \cup {0}
  <1>1. CASE is # {}
    <2>1. \E i \in is : \A j \in is : i <= j
      BY <1>1, Least
    <2>. QED  BY <1>1, <2>1 DEF First
  <1>2. CASE is = {}
    BY <1>2 DEF First
  <1>. QED  BY <1>1, <1>2

LEMMA FirstOfOne ==
  ASSUME NEW i \in Nat
  PROVE  First({i}) = i
  <1>1. First({i}) \in {i} \cup {0} /\ {i} # {}
    BY FirstIn
  <1>2. \E j \in {i} : \A k \in {i} : j <= k
    BY Least
  <1>. QED  BY <1>2 DEF First

LEMMA Positions == IsList => DOMAIN devices \subseteq Nat \ {0}
  BY DEF IsList

(* The list of boards grows at its end. *)
LEMMA Grows ==
  ASSUME IsList, devices' = Append(devices, dev)
  PROVE  /\ IsList'
         /\ \A i \in DOMAIN devices' :
              \/ i \in DOMAIN devices /\ devices'[i] = devices[i]
              \/ devices'[i] = dev
  <1>1. PICK S : devices \in Seq(S)
    BY DEF IsList
  <1>. DEFINE T == S \cup {dev}
  <1>2. devices \in Seq(T) /\ dev \in T
    <2>1. S \subseteq T
      OBVIOUS
    <2>. QED  BY <1>1, <2>1
  <1>. HIDE DEF T
  <1>3. /\ Append(devices, dev) \in Seq(T)
        /\ Len(Append(devices, dev)) = Len(devices) + 1
        /\ \A i \in 1 .. Len(devices) : Append(devices, dev)[i] = devices[i]
        /\ Append(devices, dev)[Len(devices) + 1] = dev
    BY <1>2, AppendProperties
  <1>4. IsList'
    BY <1>3 DEF IsList
  <1>5. DOMAIN devices = 1 .. Len(devices) /\ Len(devices) \in Nat
        /\ DOMAIN Append(devices, dev) = 1 .. Len(devices) + 1
    BY <1>2, <1>3
  <1>. QED  BY <1>3, <1>4, <1>5
-----------------------------------------------------------------------------
(* A key keeps a board's drivers and options in step, and with its device  *)
(* node comes the driver that uses it.                                     *)
LEMMA KeyKeeps ==
  ASSUME CInv, NEW key, NEW value, ~Taken(key), dev' = With(key, value)
  PROVE  /\ DOMAIN dev' = DOMAIN dev /\ DOMAIN dev'.field = Fields
         /\ Fits(dev') /\ Usable(dev')
  <1>. DEFINE fs == [f \in Fields |-> IF f \in Stores(key)
                       THEN Converted(key, value) ELSE dev.field[f]]
              co == IF ControlOf(key) # None THEN ControlOf(key)
                                             ELSE dev.control
              cs == IF ConsoleOf(key) # None THEN ConsoleOf(key)
                                             ELSE dev.console
              bt == BootAfter(key, value, dev.boot)
  <1>1. /\ DOMAIN dev' = DOMAIN dev
        /\ dev'.field = fs /\ dev'.control = co /\ dev'.console = cs
        /\ dev'.boot = bt /\ dev'.driver = dev.driver
    BY DEF CInv, Shape, With
  <1>2. DOMAIN fs = Fields
    OBVIOUS
  <1>3. Fits(dev')
    <2>1. CASE ControlOf(key) = None
      BY <1>1, <2>1 DEF CInv, Fits
    <2>2. CASE ControlOf(key) # None
      <3>1. dev.control = None
        BY <2>2 DEF Taken
      <3>2. dev.driver = None
        BY <3>1 DEF CInv, Fits
      <3>3. ControlOf(key) \notin OptionDrivers
        BY DEF ControlOf, OptionDrivers, GpioDrivers, SerialControls, None
      <3>. QED  BY <1>1, <2>2, <3>2, <3>3 DEF Fits
    <2>. QED  BY <2>1, <2>2
  <1>4. dev'.field["console_dev"] # None => dev'.console # None
    <2>1. CASE "console_dev" \in Stores(key)
      <3>1. key \in {"conmux", "console"}
        BY <2>1 DEF Stores, SameName, SerialControls
      <3>. QED  BY <1>1, <3>1 DEF ConsoleOf, None
    <2>2. CASE "console_dev" \notin Stores(key)
      <3>1. fs["console_dev"] = dev.field["console_dev"]
        BY <2>2 DEF Fields
      <3>2. dev.console # None => cs # None
        OBVIOUS
      <3>. QED  BY <1>1, <3>1, <3>2 DEF CInv, Usable
    <2>. QED  BY <2>1, <2>2
  <1>5. dev'.field["serial"] # None => dev'.boot # None
    <2>0. dev.boot # None => bt # None
      BY DEF BootAfter, None
    <2>1. CASE "serial" \in Stores(key)
      <3>1. key = "fastboot"
        BY <2>1 DEF Stores, SameName, SerialControls
      <3>. QED  BY <1>1, <3>1 DEF BootAfter, None
    <2>2. CASE "serial" \notin Stores(key)
      <3>1. fs["serial"] = dev.field["serial"]
        BY <2>2 DEF Fields
      <3>. QED  BY <1>1, <2>0, <3>1 DEF CInv, Usable
    <2>. QED  BY <2>1, <2>2
  <1>. QED  BY <1>1, <1>2, <1>3, <1>4, <1>5 DEF Usable

LEMMA UsersKeep ==
  ASSUME CInv, NEW names,
         dev' = [dev EXCEPT !.limited = TRUE, !.users = names]
  PROVE  /\ DOMAIN dev' = DOMAIN dev /\ DOMAIN dev'.field = Fields
         /\ Fits(dev') /\ Usable(dev')
  <1>1. /\ DOMAIN dev' = DOMAIN dev
        /\ dev'.field = dev.field /\ dev'.control = dev.control
        /\ dev'.console = dev.console /\ dev'.boot = dev.boot
        /\ dev'.driver = dev.driver
    BY DEF CInv, Shape
  <1>. QED  BY <1>1 DEF CInv, Shape, Fits, Usable

LEMMA SelectKeeps ==
  ASSUME CInv, NEW gpios, phase = "options",
         dev' = [dev EXCEPT !.control = options.driver,
                            !.driver = options.driver, !.gpios = gpios]
  PROVE  /\ DOMAIN dev' = DOMAIN dev /\ DOMAIN dev'.field = Fields
         /\ Fits(dev') /\ Usable(dev')
  <1>1. /\ DOMAIN dev' = DOMAIN dev
        /\ dev'.field = dev.field /\ dev'.control = options.driver
        /\ dev'.console = dev.console /\ dev'.boot = dev.boot
        /\ dev'.driver = options.driver
    BY DEF CInv, Shape
  <1>. QED  BY <1>1 DEF CInv, Shape, Fits, Usable

LEMMA BlankIsFine ==
  ASSUME dev' = Blank
  PROVE  /\ DOMAIN dev' = {"field", "control", "console", "boot", "limited",
                           "users", "driver", "gpios"}
         /\ DOMAIN dev'.field = Fields
         /\ Fits(dev') /\ Usable(dev')
  BY DEF Blank, Fits, Usable, Fields, Flags, None, OptionDrivers, GpioDrivers
-----------------------------------------------------------------------------
(* While the file is read nobody is answered. *)
LEMMA NotServing ==
  ASSUME CInv, phase # "serving", UNCHANGED Answers
  PROVE  Answered'
  <1>1. /\ shown' = {} /\ described' = {}
        /\ opened'.name = None /\ opened'.index = 0
    BY DEF CInv, Answered, Answers
  <1>. QED  BY <1>1 DEF Answered

(* The list of boards is as it was. *)
LEMMA SameList ==
  ASSUME CInv, UNCHANGED devices
  PROVE  IsList' /\ Listed'
  BY DEF CInv, IsList, Listed, Fits, Usable, Complete

LEMMA Start == Init => CInv
  <1>. SUFFICES ASSUME Init PROVE CInv
    OBVIOUS
  <1>1. Shape /\ Fits(dev) /\ Usable(dev)
    BY DEF Init, Shape, Blank, NoOptions, Fits, Usable, Fields, Flags, None,
           OptionDrivers, GpioDrivers
  <1>2. Reading
    BY DEF Init, Reading
  <1>3. devices \in Seq({})
    BY DEF Init
  <1>4. IsList /\ Listed
    BY <1>3 DEF IsList, Listed, Init
  <1>5. Answered
    BY DEF Init, Answered
  <1>. QED  BY <1>1, <1>2, <1>4, <1>5 DEF CInv
-----------------------------------------------------------------------------
(* A step that reads the file and leaves the list alone. *)
LEMMA Reads ==
  ASSUME CInv, phase # "serving", UNCHANGED Settled,
         DOMAIN dev' = DOMAIN dev, DOMAIN dev'.field = Fields,
         Fits(dev'), Usable(dev'),
         DOMAIN options' = {"driver", "gpios", "entries"}, Reading'
  PROVE  CInv'
  <1>1. IsList' /\ Listed'
    BY SameList DEF Settled
  <1>2. Answered'
    BY NotServing DEF Settled
  <1>3. Shape'
    BY DEF CInv, Shape
  <1>4. Fits(dev)' /\ Usable(dev)'
    BY DEF Fits, Usable
  <1>. QED  BY <1>1, <1>2, <1>3, <1>4 DEF CInv

(* ... and the board, too. *)
LEMMA ReadsOn ==
  ASSUME CInv, phase # "serving", UNCHANGED <<dev, Settled>>,
         DOMAIN options' = {"driver", "gpios", "entries"}, Reading'
  PROVE  CInv'
  BY Reads DEF CInv, Shape

LEMMA ExitKeeps ==
  ASSUME CInv, phase # "serving", Exit
  PROVE  CInv'
  <1>1. /\ DOMAIN dev' = DOMAIN dev /\ DOMAIN dev'.field = Fields
        /\ Fits(dev') /\ Usable(dev')
    BY BlankIsFine DEF Exit, CInv, Shape
  <1>2. DOMAIN options' = {"driver", "gpios", "entries"}
    BY DEF Exit, NoOptions
  <1>3. Reading' /\ UNCHANGED Settled
    BY DEF Reading, Exit
  <1>. QED  BY <1>1, <1>2, <1>3, Reads

LEMMA EntryKeeps ==
  ASSUME CInv, NEW e,
         \/ e[1] = "users" /\ UsersKey(e[2])
         \/ e[1] \in OptionDrivers /\ BeginOptions(e[1])
         \/ ScalarKey(e[1], e[2]) \/ BadKey(e[1])
  PROVE  CInv'
  <1>1. CASE UsersKey(e[2])
    <2>1. phase # "serving" /\ UNCHANGED <<phase, options, Settled>>
      BY <1>1 DEF UsersKey, Entry
    <2>2. Reading' /\ DOMAIN options' = {"driver", "gpios", "entries"}
      BY <2>1 DEF CInv, Reading, Shape
    <2>. QED  BY <1>1, <2>1, <2>2, UsersKeep, Reads DEF UsersKey
  <1>2. CASE e[1] \in OptionDrivers /\ BeginOptions(e[1])
    <2>1. phase # "serving" /\ UNCHANGED <<dev, Settled>>
      BY <1>2 DEF BeginOptions, Entry
    <2>2. Reading' /\ DOMAIN options' = {"driver", "gpios", "entries"}
      BY <1>2 DEF BeginOptions, Reading
    <2>. QED  BY <2>1, <2>2, ReadsOn
  <1>3. CASE ScalarKey(e[1], e[2])
    <2>1. phase # "serving" /\ UNCHANGED <<phase, options, Settled>>
      BY <1>3 DEF ScalarKey, Entry
    <2>2. Reading' /\ DOMAIN options' = {"driver", "gpios", "entries"}
      BY <2>1 DEF CInv, Reading, Shape
    <2>. QED  BY <1>3, <2>1, <2>2, KeyKeeps, Reads DEF ScalarKey
  <1>4. CASE BadKey(e[1])
    BY <1>4, ExitKeeps DEF BadKey
  <1>. QED  BY <1>1, <1>2, <1>3, <1>4

LEMMA LineKeeps ==
  ASSUME CInv, NEW key, NEW value,
         \/ BeginLine(key) \/ LineEntry(key, value) \/ ChipEntry(key)
         \/ BadLine(key, value) \/ EndLine
  PROVE  CInv'
  <1>1. CASE BeginLine(key)
    <2>1. /\ phase # "serving" /\ UNCHANGED <<dev, options, Settled>>
          /\ phase = "options"
      BY <1>1 DEF BeginLine, OneMoreEntry
    <2>2. Reading' /\ DOMAIN options' = {"driver", "gpios", "entries"}
      BY <2>1 DEF CInv, Reading, Shape
    <2>. QED  BY <2>1, <2>2, ReadsOn
  <1>2. CASE LineEntry(key, value)
    <2>1. phase = "line" /\ UNCHANGED <<phase, dev, Settled>>
      BY <1>2 DEF LineEntry, OneMoreEntry
    <2>2. /\ DOMAIN options' = {"driver", "gpios", "entries"}
          /\ options'.driver = options.driver
      BY <1>2 DEF LineEntry, CInv, Shape
    <2>. QED  BY <2>1, <2>2, ReadsOn DEF CInv, Reading
  <1>3. CASE BadLine(key, value)
    BY <1>3, ExitKeeps DEF BadLine
  <1>4. CASE EndLine
    <2>1. phase = "line" /\ UNCHANGED <<dev, Settled>>
      BY <1>4 DEF EndLine, OneMoreEntry
    <2>2. /\ DOMAIN options' = {"driver", "gpios", "entries"}
          /\ options'.driver = options.driver
      BY <1>4 DEF EndLine, CInv, Shape
    <2>. QED  BY <2>1, <2>2, ReadsOn DEF CInv, Reading
  <1>5. CASE ChipEntry(key)
    <2>1. phase = "options" /\ UNCHANGED <<phase, dev, Settled>>
      BY <1>5 DEF ChipEntry, OneMoreEntry
    <2>2. /\ DOMAIN options' = {"driver", "gpios", "entries"}
          /\ options'.driver = options.driver
      BY <1>5 DEF ChipEntry, CInv, Shape
    <2>. QED  BY <2>1, <2>2, ReadsOn DEF CInv, Reading
  <1>. QED  BY <1>1, <1>2, <1>3, <1>4, <1>5

LEMMA DriverKeeps ==
  ASSUME CInv, NEW gpios, phase = "options", SelectDriver(gpios)
  PROVE  CInv'
  <1>1. CASE Exit
    BY <1>1, ExitKeeps
  <1>2. CASE ~Exit
    <2>1. /\ dev' = [dev EXCEPT !.control = options.driver,
                                !.driver = options.driver, !.gpios = gpios]
          /\ phase' = "board" /\ options' = NoOptions /\ UNCHANGED Settled
      BY <1>2 DEF SelectDriver
    <2>2. Reading' /\ DOMAIN options' = {"driver", "gpios", "entries"}
      BY <2>1 DEF Reading, NoOptions
    <2>. QED  BY <2>1, <2>2, SelectKeeps, Reads
  <1>. QED  BY <1>1, <1>2

LEMMA BoardKeeps ==
  ASSUME CInv, EndBoard
  PROVE  CInv'
  <1>1. phase = "board"
    BY DEF EndBoard
  <1>2. CASE ~Complete(dev)
    BY <1>1, <1>2, ExitKeeps DEF EndBoard, Complete
  <1>3. CASE Complete(dev)
    <2>1. /\ devices' = Append(devices, dev) /\ phase' = "file"
          /\ dev' = Blank /\ UNCHANGED <<options, caller, Answers>>
      BY <1>3 DEF EndBoard, Complete
    <2>2. IsList' /\ \A i \in DOMAIN devices' :
             \/ i \in DOMAIN devices /\ devices'[i] = devices[i]
             \/ devices'[i] = dev
      BY <2>1, Grows DEF CInv
    <2>3. Listed'
      <3>. SUFFICES ASSUME NEW i \in DOMAIN devices'
                    PROVE  Fits(devices'[i]) /\ Usable(devices'[i])
                             /\ Complete(devices'[i])
        BY DEF Listed, Fits, Usable, Complete
      <3>1. CASE i \in DOMAIN devices /\ devices'[i] = devices[i]
        BY <3>1 DEF CInv, Listed
      <3>2. CASE devices'[i] = dev
        BY <1>3, <3>2 DEF CInv
      <3>. QED  BY <2>2, <3>1, <3>2
    <2>4. Shape' /\ Fits(dev)' /\ Usable(dev)'
      BY <2>1, BlankIsFine DEF CInv, Shape, Fits, Usable
    <2>5. Reading'
      BY <2>1 DEF Reading
    <2>6. Answered'
      BY <1>1, <2>1, NotServing
    <2>. QED  BY <2>2, <2>3, <2>4, <2>5, <2>6 DEF CInv
  <1>. QED  BY <1>2, <1>3
-----------------------------------------------------------------------------
(* An answer leaves everything else alone. *)
LEMMA Answering ==
  ASSUME CInv, Served, Answered'
  PROVE  CInv'
  <1>1. UNCHANGED <<phase, dev, options, devices>>
    BY DEF Served
  <1>2. IsList' /\ Listed'
    BY <1>1, SameList
  <1>3. Shape' /\ Fits(dev)' /\ Usable(dev)' /\ Reading'
    BY <1>1 DEF CInv, Shape, Fits, Usable, Reading
  <1>. QED  BY <1>2, <1>3 DEF CInv

LEMMA ServedKeeps ==
  ASSUME CInv, NEW n, ListDevices \/ Info(n) \/ Open(n)
  PROVE  CInv'
  <1>1. /\ Served /\ UNCHANGED <<devices, caller, phase>>
        /\ phase = "serving"
    BY DEF ListDevices, Info, Open, Served
  <1>2. /\ \A d : CheckAccess(d)' <=> CheckAccess(d)
        /\ \A m : Named(m)' = Named(m)
    BY <1>1 DEF CheckAccess, Named
  <1>3. CASE ListDevices
    <2>1. Answered'
      BY <1>1, <1>2, <1>3 DEF ListDevices, CInv, Answered, CheckAccess, Named
    <2>. QED  BY <1>1, <2>1, Answering
  <1>4. CASE Info(n)
    <2>. DEFINE f == First(Named(n))
                is == {i \in Named(n) : /\ CheckAccess(devices[i])
                         /\ devices[i].field["description"] # None}
    <2>1. is \in SUBSET Nat
      BY Positions DEF CInv, Named
    <2>2. First(is) \in is \cup {0}
      BY <2>1, FirstIn
    <2>3. described' = described \cup ({First(is)} \ {0})
            /\ UNCHANGED <<shown, opened>>
      BY <1>4 DEF Info
    <2>4. \A i \in described' : i \in DOMAIN devices
                                  /\ CheckAccess(devices[i])
      <3>. HIDE DEF f
      <3>. QED  BY <2>2, <2>3 DEF CInv, Answered, Named
    <2>. HIDE DEF is, f
    <2>5. Answered'
      BY <1>1, <1>2, <2>3, <2>4 DEF CInv, Answered, CheckAccess, Named
    <2>. QED  BY <1>1, <2>5, Answering
  <1>5. CASE Open(n)
    <2>. DEFINE i == First(Named(n))
                to == IF i # 0 /\ CheckAccess(devices[i]) THEN i ELSE 0
    <2>1. /\ opened'.name = n /\ opened'.index = to
          /\ UNCHANGED <<shown, described>>
      BY <1>5 DEF Open
    <2>2. n = None => i = 0
      BY DEF CInv, Listed, Complete, Named, First
    <2>. HIDE DEF i
    <2>3. n = None => to = 0
      BY <2>2
    <2>4. n # None => LET k == First(Named(opened'.name))
                      IN opened'.index = IF k # 0 /\ CheckAccess(devices[k])
                                           THEN k ELSE 0
      BY <2>1 DEF i
    <2>. HIDE DEF to
    <2>5. Answered'
      BY <1>1, <1>2, <2>1, <2>3, <2>4
         DEF CInv, Answered, CheckAccess, Named
    <2>. QED  BY <1>1, <2>5, Answering
  <1>. QED  BY <1>3, <1>4, <1>5

LEMMA Keeps == CInv /\ [Next]_vars => CInv'
  <1>. SUFFICES ASSUME CInv, [Next]_vars
                PROVE  CInv'
    OBVIOUS
  <1>1. CASE StartBoard
    BY <1>1, ReadsOn DEF StartBoard, Settled, CInv, Shape, Reading
  <1>2. CASE EndBoard
    BY <1>2, BoardKeeps
  <1>3. CASE EndFile
    <2>1. phase # "serving" /\ UNCHANGED <<dev, options, Settled>>
      BY <1>3 DEF EndFile
    <2>2. Reading' /\ DOMAIN options' = {"driver", "gpios", "entries"}
      BY <1>3, <2>1 DEF EndFile, CInv, Reading, Shape
    <2>. QED  BY <2>1, <2>2, ReadsOn
  <1>4. ASSUME NEW e \in file.entries,
               \/ e[1] = "users" /\ UsersKey(e[2])
               \/ e[1] \in OptionDrivers /\ BeginOptions(e[1])
               \/ /\ e[1] \notin OptionDrivers \cup {"users"}
                  /\ ScalarKey(e[1], e[2]) \/ BadKey(e[1])
        PROVE  CInv'
    BY <1>4, EntryKeeps
  <1>5. ASSUME NEW key, BeginLine(key)
        PROVE  CInv'
    BY <1>5, LineKeeps
  <1>6. ASSUME NEW e \in LineEntries,
               \/ LineEntry(e[1], e[2]) \/ ChipEntry(e[1])
               \/ BadLine(e[1], e[2])
        PROVE  CInv'
    BY <1>6, LineKeeps
  <1>7. CASE EndLine
    BY <1>7, LineKeeps
  <1>8. CASE EndOptions
    BY <1>8, DriverKeeps DEF EndOptions
  <1>9. CASE NoServer
    BY <1>9, ExitKeeps DEF NoServer
  <1>10. ASSUME NEW t \in LegacyTexts, LegacyFtdi(t)
         PROVE  CInv'
    <2>1. phase = "options"
      BY <1>10 DEF LegacyFtdi
    <2>2. Exit \/ SelectDriver(LegacyGpios(t))
      BY <1>10 DEF LegacyFtdi
    <2>. QED  BY <2>1, <2>2, ExitKeeps, DriverKeeps
  <1>11. ASSUME NEW n, ListDevices \/ Info(n) \/ Open(n)
         PROVE  CInv'
    BY <1>11, ServedKeeps
  <1>12. CASE ListDevices
    BY <1>12, <1>11
  <1>13. CASE UNCHANGED vars
    <2>1. IsList' /\ Listed'
      BY <1>13, SameList DEF vars
    <2>2. Shape' /\ Fits(dev)' /\ Usable(dev)' /\ Reading' /\ Answered'
      BY <1>13 DEF vars, CInv, Shape, Fits, Usable, Reading, Answered,
                  CheckAccess, Named
    <2>. QED  BY <2>1, <2>2 DEF CInv
  <1>. QED  BY <1>1, <1>2, <1>3, <1>4, <1>5, <1>6, <1>7, <1>8, <1>9, <1>10,
               <1>11, <1>12, <1>13 DEF Next

LEMMA Invariance == Spec => []CInv
  <1>1. Init => CInv
    BY Start
  <1>2. CInv /\ [Next]_vars => CInv'
    BY Keeps
  <1>. QED  BY <1>1, <1>2, PTL DEF Spec
-----------------------------------------------------------------------------
(* The options a driver casts to its own type are of that driver. *)
THEOREM OptionsFit == Spec => []OptionsFitDriver
  <1>1. CInv => OptionsFitDriver
    BY DEF CInv, Listed, Fits, OptionsFitDriver
  <1>. QED  BY <1>1, Invariance, PTL

(* A board in the list has what device_open and device_boot call. *)
THEOREM BoardsAreUsable == Spec => []ListedIsUsable
  <1>1. CInv => ListedIsUsable
    BY DEF CInv, Listed, Fits, Usable, Complete, OptionsFitDriver,
           ListedIsUsable
  <1>. QED  BY <1>1, Invariance, PTL

(* A board with a list of users is for these users. *)
THEOREM AccessIsChecked == Spec => []OnlyAllowed
  <1>1. CInv => OnlyAllowed
    <2>. SUFFICES ASSUME CInv PROVE OnlyAllowed
      OBVIOUS
    <2>1. \A i \in shown \cup described : CheckAccess(devices[i])
      BY DEF CInv, Answered
    <2>2. opened.index # 0 => CheckAccess(devices[opened.index])
      BY DEF CInv, Answered
    <2>. QED  BY <2>1, <2>2 DEF OnlyAllowed, CheckAccess
  <1>. QED  BY <1>1, Invariance, PTL

(* What the list names can be opened. *)
THEOREM WhatIsListedOpens == Spec => []ListedOpens
  <1>1. CInv => ListedOpens
    <2>. SUFFICES ASSUME CInv, NEW i \in shown,
                         opened.name = devices[i].field["board"],
                         Named(opened.name) = {i}
                  PROVE  opened.index = i
      BY DEF ListedOpens
    <2>1. i \in DOMAIN devices /\ CheckAccess(devices[i])
      BY DEF CInv, Answered
    <2>2. i \in Nat \ {0} /\ opened.name # None
      BY <2>1, Positions DEF CInv, Listed, Complete
    <2>3. First(Named(opened.name)) = i
      BY <2>2, FirstOfOne
    <2>. QED  BY <2>1, <2>2, <2>3 DEF CInv, Answered
  <1>. QED  BY <1>1, Invariance, PTL
-----------------------------------------------------------------------------
(***************************************************************************)
(* What the keys of a board make of it.  The second invariant holds while  *)
(* the first does: the types of what is parsed, and that the board at any  *)
(* moment says what the entries read for it say.                           *)
(***************************************************************************)
Line(l) == /\ DOMAIN l = {"present", "offset", "low", "bank"}
           /\ l.present \in BOOLEAN /\ l.low \in BOOLEAN

AllLines(gs) == gs = <<>> \/ \A g \in DOMAIN gs : Line(gs[g])

IsText == \E S : text \in Seq(S)

Parsed ==
  /\ phase \in {"file", "board", "options", "line", "serving", "exited"}
  /\ file \in Files /\ caller \in Callers
  /\ dev.boot \in {None, "boot", "flash"} /\ dev.limited \in BOOLEAN
  /\ IsText /\ Len(text) <= file.most /\ Len(devices) <= file.boards
  /\ phase \in {"board", "options", "line"} => Len(devices) < file.boards
  /\ options.driver \in OptionDrivers \cup {None}
  /\ options.entries \in 0 .. MaxLines
  /\ AllLines(options.gpios) /\ AllLines(dev.gpios)
  /\ gpio # None <=> phase = "line"

Flashes == \E i \in Read("broken_fastboot_boot") : text[i][2] = "true"

BootSays == dev.boot = IF Flashes THEN "flash"
                       ELSE IF Read("fastboot") # {} THEN "boot" ELSE None

UsersSay == /\ dev.limited = (Read("users") # {})
            /\ dev.limited => dev.users = text[LastOf(Read("users"))][2]

NodesSay ==
  \A i \in DOMAIN text :
    /\ ControlOf(text[i][1]) # None =>
         dev.control = text[i][1] /\ dev.field["control_dev"] = text[i][2]
    /\ ConsoleOf(text[i][1]) # None =>
         dev.console = text[i][1] /\ dev.field["console_dev"] = text[i][2]

(* No key of a board says anything of what another key has set. *)
Says == BootSays /\ UsersSay /\ NodesSay

TInv == CInv /\ Parsed /\ Says

LEMMA TInvMeans == TInv => MeansItsText
  <1>. SUFFICES ASSUME TInv PROVE MeansItsText
    OBVIOUS
  <1>1. Lines(options.gpios) /\ Lines(dev.gpios)
    BY DEF TInv, Parsed, AllLines, Line, Lines
  <1>2. /\ shown \cup described \subseteq DOMAIN devices
        /\ opened.index \in 0 .. Len(devices)
    <2>1. PICK S : devices \in Seq(S)
      BY DEF TInv, CInv, IsList
    <2>2. DOMAIN devices = 1 .. Len(devices) /\ Len(devices) \in Nat
      BY <2>1
    <2>3. shown \cup described \subseteq DOMAIN devices
      BY DEF TInv, CInv, Answered
    <2>4. First(Named(opened.name)) \in DOMAIN devices \cup {0}
      <3>1. Named(opened.name) \in SUBSET Nat
        BY <2>2 DEF Named
      <3>. QED  BY <3>1, FirstIn DEF Named
    <2>5. opened.index \in DOMAIN devices \cup {0}
      BY <2>4 DEF TInv, CInv, Answered
    <2>. QED  BY <2>2, <2>3, <2>5
  <1>3. TypeOK
    BY <1>1, <1>2 DEF TInv, Parsed, CInv, Shape, TypeOK
  <1>. QED  BY <1>3 DEF TInv, Says, MeansItsText, BootSays, Flashes, UsersSay, NodesSay
-----------------------------------------------------------------------------
(* A bounded set of numbers has a last one. *)
LEMMA LastIn ==
  ASSUME NEW n \in Nat, NEW is \in SUBSET (1 .. n), is # {}
  PROVE  LastOf(is) \in is /\ \A j \in is : j <= LastOf(is)
  <1>. DEFINE T == {n - x : x \in is}
  <1>1. T \in SUBSET Nat /\ T # {}
    <2>1. \A x \in is : n - x \in Nat
      OBVIOUS
    <2>2. \E x : x \in is
      OBVIOUS
    <2>. QED  BY <2>1, <2>2
  <1>2. PICK m \in T : \A y \in T : m <= y
    BY <1>1, Least
  <1>3. PICK i \in is : m = n - i
    BY <1>2
  <1>4. \A j \in is : j <= i
    <2>. TAKE j \in is
    <2>1. n - j \in T /\ i \in 1 .. n /\ j \in 1 .. n
      OBVIOUS
    <2>2. n - i <= n - j
      BY <1>2, <1>3, <2>1
    <2>. QED  BY <2>1, <2>2
  <1>. QED  BY <1>4 DEF LastOf

LEMMA TextGrows ==
  ASSUME IsText, NEW key, NEW value, text' = Append(text, <<key, value>>)
  PROVE  /\ IsText' /\ Len(text) \in Nat /\ Len(text') = Len(text) + 1
         /\ DOMAIN text = 1 .. Len(text)
         /\ DOMAIN text' = DOMAIN text \cup {Len(text')}
         /\ text'[Len(text')] = <<key, value>>
         /\ \A i \in DOMAIN text : text'[i] = text[i] /\ i # Len(text')
         /\ \A k : Read(k)' = Read(k) \cup (IF key = k THEN {Len(text')} ELSE {})
  <1>1. PICK S : text \in Seq(S)
    BY DEF IsText
  <1>. DEFINE e == <<key, value>>
              T == S \cup {e}
  <1>2. text \in Seq(T) /\ e \in T
    <2>1. S \subseteq T
      OBVIOUS
    <2>. QED  BY <1>1, <2>1
  <1>. HIDE DEF T, e
  <1>3. text' = Append(text, e)
    BY DEF e
  <1>4. /\ text' \in Seq(T) /\ Len(text') = Len(text) + 1
        /\ \A i \in 1 .. Len(text) : text'[i] = text[i]
        /\ text'[Len(text) + 1] = e
    BY <1>2, <1>3, AppendProperties
  <1>5. /\ DOMAIN text = 1 .. Len(text) /\ Len(text) \in Nat
        /\ DOMAIN text' = 1 .. Len(text) + 1
    BY <1>2, <1>4, LenProperties
  <1>6. /\ DOMAIN text' = DOMAIN text \cup {Len(text')}
        /\ text'[Len(text')] = e
        /\ \A i \in DOMAIN text : text'[i] = text[i] /\ i # Len(text')
    BY <1>4, <1>5
  <1>7. ASSUME NEW k
        PROVE  Read(k)' = Read(k) \cup (IF key = k THEN {Len(text')} ELSE {})
    <2>1. e[1] = key
      BY DEF e
    <2>2. Read(k)' = {i \in DOMAIN text' : text'[i][1] = k}
      BY DEF Read
    <2>3. Read(k) = {i \in DOMAIN text : text[i][1] = k}
      BY DEF Read
    <2>. QED  BY <1>6, <2>1, <2>2, <2>3
  <1>8. IsText'
    BY <1>4 DEF IsText
  <1>. QED  BY <1>4, <1>5, <1>6, <1>7, <1>8 DEF e

(* What a key says of the device nodes, the boot operation and the users.  *)
LEMMA KeyFacts ==
  ASSUME NEW key, NEW value
  PROVE  /\ "control_dev" \in Stores(key) <=> ControlOf(key) # None
         /\ "console_dev" \in Stores(key) <=> ConsoleOf(key) # None
         /\ ControlOf(key) # None => ControlOf(key) = key
         /\ ConsoleOf(key) # None => ConsoleOf(key) = key
         /\ ControlOf(key) # None \/ ConsoleOf(key) # None
              => Converted(key, value) = value
         /\ Known(key) => key # "users"
  <1>1. CASE key \in SerialControls
    BY <1>1 DEF SerialControls, Stores, ControlOf, ConsoleOf, None, Converted,
                Flags, Known
  <1>2. CASE key \in {"conmux", "console"}
    BY <1>2 DEF SerialControls, Stores, ControlOf, ConsoleOf, None, Converted,
                Flags, Known
  <1>3. CASE key \notin SerialControls \cup {"conmux", "console"}
    <2>1. ControlOf(key) = None /\ ConsoleOf(key) = None
      BY <1>3 DEF ControlOf, ConsoleOf
    <2>2. "control_dev" \notin Stores(key) /\ "console_dev" \notin Stores(key)
      BY <1>3 DEF Stores, SameName
    <2>3. Known(key) => key # "users"
      BY DEF Known, Stores, SameName, Fields, SerialControls
    <2>. QED  BY <2>1, <2>2, <2>3
  <1>. QED  BY <1>1, <1>2, <1>3
-----------------------------------------------------------------------------
LEMMA SameSays ==
  ASSUME Says, UNCHANGED <<dev, text>>
  PROVE  Says'
  BY DEF Says, BootSays, Flashes, UsersSay, NodesSay, Read

LEMMA BlankSays ==
  ASSUME dev' = Blank, text' = <<>>
  PROVE  /\ Says' /\ IsText' /\ Len(text') = 0 /\ AllLines(dev'.gpios)
         /\ dev'.boot \in {None, "boot", "flash"} /\ dev'.limited \in BOOLEAN
  <1>1. DOMAIN text' = {} /\ text' \in Seq({}) /\ Len(text') = 0
    OBVIOUS
  <1>2. \A k : Read(k)' = {}
    BY <1>1 DEF Read
  <1>3. /\ dev'.boot = None /\ dev'.limited = FALSE /\ dev'.gpios = <<>>
    BY DEF Blank
  <1>4. BootSays' /\ UsersSay' /\ NodesSay'
    BY <1>1, <1>2, <1>3 DEF BootSays, Flashes, UsersSay, NodesSay
  <1>. QED  BY <1>1, <1>3, <1>4 DEF Says, IsText, AllLines

LEMMA UsersSays ==
  ASSUME CInv, Says, IsText, NEW names, text' = Append(text, <<"users", names>>),
         dev' = [dev EXCEPT !.limited = TRUE, !.users = names]
  PROVE  Says'
  <1>. PICK n : n = Len(text')
    OBVIOUS
  <1>1. /\ Len(text) \in Nat /\ n = Len(text) + 1 /\ DOMAIN text = 1 .. Len(text)
        /\ DOMAIN text' = DOMAIN text \cup {n} /\ text'[n] = <<"users", names>>
        /\ \A i \in DOMAIN text : text'[i] = text[i]
        /\ \A k : Read(k)' = Read(k) \cup (IF "users" = k THEN {n} ELSE {})
    BY TextGrows
  <1>2. /\ dev'.field = dev.field /\ dev'.control = dev.control
        /\ dev'.console = dev.console /\ dev'.boot = dev.boot
        /\ dev'.limited = TRUE /\ dev'.users = names
    BY DEF CInv, Shape
  <1>3. BootSays'
    <2>1. /\ Read("broken_fastboot_boot")' = Read("broken_fastboot_boot")
          /\ Read("fastboot")' = Read("fastboot")
      BY <1>1
    <2>2. \A i \in Read("broken_fastboot_boot") : text'[i] = text[i]
      BY <1>1 DEF Read
    <2>. QED  BY <1>2, <2>1, <2>2 DEF Says, BootSays, Flashes
  <1>4. UsersSay'
    <2>. PICK is : is = Read("users")'
      OBVIOUS
    <2>1. n \in is /\ \A j \in is : j <= n /\ j \in Nat
      <3>1. \A j \in Read("users") : j \in 1 .. Len(text)
        BY <1>1 DEF Read
      <3>. QED  BY <1>1, <3>1
    <2>2. LastOf(is) = n
      BY <1>1, <2>1 DEF LastOf
    <2>3. text'[LastOf(is)][2] = names /\ is # {}
      BY <1>1, <2>1, <2>2
    <2>. QED  BY <1>2, <2>3 DEF UsersSay
  <1>5. NodesSay'
    <2>1. ControlOf("users") = None /\ ConsoleOf("users") = None
      BY DEF ControlOf, ConsoleOf, SerialControls
    <2>. QED  BY <1>1, <1>2, <2>1 DEF Says, NodesSay
  <1>. QED  BY <1>3, <1>4, <1>5 DEF Says

(* The users stay with an entry of another key. *)
LEMMA OthersUsers ==
  ASSUME Says, IsText, NEW key, NEW value, key # "users",
         text' = Append(text, <<key, value>>),
         dev'.limited = dev.limited, dev'.users = dev.users
  PROVE  UsersSay'
  <1>1. /\ Len(text) \in Nat /\ DOMAIN text = 1 .. Len(text)
        /\ \A i \in DOMAIN text : text'[i] = text[i]
        /\ Read("users")' = Read("users")
    <2>1. \A k : Read(k)' = Read(k) \cup (IF key = k THEN {Len(text')} ELSE {})
      BY TextGrows
    <2>2. /\ Len(text) \in Nat /\ DOMAIN text = 1 .. Len(text)
          /\ \A i \in DOMAIN text : text'[i] = text[i]
      BY TextGrows
    <2>. QED  BY <2>1, <2>2
  <1>2. Read("users") \in SUBSET (1 .. Len(text))
    BY <1>1 DEF Read
  <1>3. Read("users") # {} => LastOf(Read("users")) \in 1 .. Len(text)
    BY <1>1, <1>2, LastIn
  <1>. QED  BY <1>1, <1>3 DEF Says, UsersSay

LEMMA BeginSays ==
  ASSUME Says, IsText, NEW driver \in OptionDrivers, dev' = dev,
         text' = Append(text, <<driver, "options">>)
  PROVE  Says'
  <1>. PICK n : n = Len(text')
    OBVIOUS
  <1>1. /\ DOMAIN text' = DOMAIN text \cup {n} /\ text'[n] = <<driver, "options">>
        /\ \A i \in DOMAIN text : text'[i] = text[i]
        /\ \A k : Read(k)' = Read(k) \cup (IF driver = k THEN {n} ELSE {})
    BY TextGrows
  <1>2. /\ driver \notin {"broken_fastboot_boot", "fastboot", "users"}
        /\ ControlOf(driver) = None /\ ConsoleOf(driver) = None
    BY DEF OptionDrivers, GpioDrivers, ControlOf, ConsoleOf, SerialControls
  <1>3. BootSays'
    <2>1. /\ Read("broken_fastboot_boot")' = Read("broken_fastboot_boot")
          /\ Read("fastboot")' = Read("fastboot")
      BY <1>1, <1>2
    <2>2. \A i \in Read("broken_fastboot_boot") : text'[i] = text[i]
      BY <1>1 DEF Read
    <2>. QED  BY <2>1, <2>2 DEF Says, BootSays, Flashes
  <1>4. UsersSay'
    BY <1>2, OthersUsers
  <1>5. NodesSay'
    BY <1>1, <1>2 DEF Says, NodesSay
  <1>. QED  BY <1>3, <1>4, <1>5 DEF Says

LEMMA SelectSays ==
  ASSUME CInv, Says, NEW driver, NEW gpios, dev.control = None, text' = text,
         dev' = [dev EXCEPT !.control = driver, !.driver = driver, !.gpios = gpios]
  PROVE  Says' /\ dev'.gpios = gpios /\ dev'.boot = dev.boot
           /\ dev'.limited = dev.limited
  <1>1. /\ dev'.field = dev.field /\ dev'.console = dev.console
        /\ dev'.boot = dev.boot /\ dev'.limited = dev.limited
        /\ dev'.users = dev.users /\ dev'.gpios = gpios
    BY DEF CInv, Shape
  <1>2. \A k : Read(k)' = Read(k)
    BY DEF Read
  <1>3. \A i \in DOMAIN text : ControlOf(text[i][1]) = None
    <2>1. \A k : ControlOf(k) # None => ControlOf(k) = k
      BY KeyFacts
    <2>. QED  BY <2>1 DEF Says, NodesSay
  <1>4. BootSays' /\ UsersSay' /\ NodesSay'
    BY <1>1, <1>2, <1>3 DEF Says, BootSays, Flashes, UsersSay, NodesSay
  <1>. QED  BY <1>1, <1>4 DEF Says

LEMMA KeySays ==
  ASSUME CInv, Says, IsText, NEW key, NEW value, Known(key), ~Taken(key),
         text' = Append(text, <<key, value>>), dev' = With(key, value)
  PROVE  /\ Says' /\ dev'.gpios = dev.gpios /\ dev'.limited = dev.limited
         /\ dev'.boot \in {dev.boot, "boot", "flash"}
  <1>. PICK n : n = Len(text')
    OBVIOUS
  <1>1. /\ DOMAIN text' = DOMAIN text \cup {n} /\ text'[n] = <<key, value>>
        /\ \A i \in DOMAIN text : text'[i] = text[i]
        /\ \A k : Read(k)' = Read(k) \cup (IF key = k THEN {n} ELSE {})
    BY TextGrows
  <1>. DEFINE fs == [f \in Fields |-> IF f \in Stores(key)
                       THEN Converted(key, value) ELSE dev.field[f]]
              co == IF ControlOf(key) # None THEN ControlOf(key)
                                             ELSE dev.control
              cs == IF ConsoleOf(key) # None THEN ConsoleOf(key)
                                             ELSE dev.console
              bt == BootAfter(key, value, dev.boot)
  <1>2. /\ dev'.field = fs /\ dev'.control = co /\ dev'.console = cs
        /\ dev'.boot = bt /\ dev'.limited = dev.limited
        /\ dev'.users = dev.users /\ dev'.gpios = dev.gpios
    BY DEF CInv, Shape, With
  <1>3. /\ fs["control_dev"] = IF ControlOf(key) # None THEN value
                              ELSE dev.field["control_dev"]
        /\ fs["console_dev"] = IF ConsoleOf(key) # None THEN value
                              ELSE dev.field["console_dev"]
    BY KeyFacts DEF Fields
  <1>4. UsersSay'
    BY <1>2, KeyFacts, OthersUsers
  <1>5. bt \in {dev.boot, "boot", "flash"}
    BY DEF BootAfter
  <1>6. BootSays'
    <2>1. \A i \in Read("broken_fastboot_boot") : text'[i] = text[i] /\ i # n
      <3>1. \A i \in DOMAIN text : i # n
        BY TextGrows
      <3>. QED  BY <1>1, <3>1 DEF Read
    <2>2. Flashes' <=> Flashes \/ (key = "broken_fastboot_boot" /\ value = "true")
      <3>1. CASE key = "broken_fastboot_boot"
        <4>1. text'[n][2] = value
          BY <1>1
        <4>2. Read("broken_fastboot_boot")' = Read("broken_fastboot_boot") \cup {n}
          BY <1>1, <3>1
        <4>3. Flashes' <=> \E i \in Read("broken_fastboot_boot")' : text'[i][2] = "true"
          BY DEF Flashes
        <4>. QED  BY <2>1, <3>1, <4>1, <4>2, <4>3 DEF Flashes
      <3>2. CASE key # "broken_fastboot_boot"
        BY <1>1, <2>1, <3>2 DEF Flashes
      <3>. QED  BY <3>1, <3>2
    <2>3. Read("fastboot")' # {} <=> Read("fastboot") # {} \/ key = "fastboot"
      BY <1>1
    <2>4. CASE key = "broken_fastboot_boot"
      BY <1>2, <2>2, <2>3, <2>4 DEF Says, BootSays, BootAfter
    <2>5. CASE key = "fastboot"
      BY <1>2, <2>2, <2>3, <2>5 DEF Says, BootSays, BootAfter, None
    <2>6. CASE key \notin {"broken_fastboot_boot", "fastboot"}
      BY <1>2, <2>2, <2>3, <2>6 DEF Says, BootSays, BootAfter
    <2>. QED  BY <2>4, <2>5, <2>6
  <1>7. NodesSay'
    <2>. SUFFICES ASSUME NEW i \in DOMAIN text'
                  PROVE  /\ ControlOf(text'[i][1]) # None =>
                              /\ dev'.control = text'[i][1]
                              /\ dev'.field["control_dev"] = text'[i][2]
                         /\ ConsoleOf(text'[i][1]) # None =>
                              /\ dev'.console = text'[i][1]
                              /\ dev'.field["console_dev"] = text'[i][2]
      BY DEF NodesSay
    <2>1. CASE i = n
      BY <1>1, <1>2, <1>3, <2>1, KeyFacts
    <2>2. CASE i # n
      <3>1. i \in DOMAIN text /\ text'[i] = text[i]
        BY <1>1, <2>2
      <3>. PICK k, v : k = text[i][1] /\ v = text[i][2]
        OBVIOUS
      <3>2. /\ ControlOf(k) # None =>
                  dev.control = k /\ dev.field["control_dev"] = v
            /\ ConsoleOf(k) # None =>
                  dev.console = k /\ dev.field["console_dev"] = v
        BY <3>1 DEF Says, NodesSay
      <3>3. /\ ControlOf(k) # None => dev.control # None
            /\ ConsoleOf(k) # None => dev.console # None
        BY <3>2, KeyFacts
      <3>4. /\ ControlOf(k) # None => ControlOf(key) = None
            /\ ConsoleOf(k) # None => ConsoleOf(key) = None
        BY <3>3 DEF Taken
      <3>. QED  BY <1>2, <1>3, <3>1, <3>2, <3>4
    <2>. QED  BY <2>1, <2>2
  <1>. QED  BY <1>2, <1>4, <1>5, <1>6, <1>7 DEF Says
-----------------------------------------------------------------------------
LEMMA Bounds ==
  ASSUME TInv
  PROVE  /\ file.most \in Nat /\ file.boards \in Nat /\ MaxLines \in Nat
         /\ Len(text) \in Nat /\ Len(devices) \in Nat
  <1>1. file \in Files
    BY DEF TInv, Parsed
  <1>2. file.most \in Nat /\ file.boards \in Nat /\ MaxLines \in Nat
    BY <1>1, BoardConfigAssumption
  <1>3. Len(text) \in Nat
    BY LenProperties DEF TInv, Parsed, IsText
  <1>4. Len(devices) \in Nat
    BY LenProperties DEF TInv, CInv, IsList
  <1>. QED  BY <1>2, <1>3, <1>4

LEMMA ExitParsed ==
  ASSUME TInv, Exit
  PROVE  Parsed' /\ Says'
  <1>1. /\ Says' /\ IsText' /\ Len(text') = 0 /\ AllLines(dev'.gpios)
        /\ dev'.boot \in {None, "boot", "flash"} /\ dev'.limited \in BOOLEAN
    BY BlankSays DEF Exit
  <1>2. /\ phase' = "exited" /\ gpio' = None /\ options' = NoOptions
        /\ file' = file /\ caller' = caller /\ devices' = devices
    BY DEF Exit, Settled
  <1>3. options'.driver = None /\ options'.entries = 0 /\ options'.gpios = <<>>
    BY <1>2 DEF NoOptions
  <1>4. options'.entries \in 0 .. MaxLines /\ Len(text') <= file.most
    BY <1>1, <1>3, Bounds
  <1>5. AllLines(options'.gpios)
    BY <1>3 DEF AllLines
  <1>. QED  BY <1>1, <1>2, <1>3, <1>4, <1>5 DEF TInv, Parsed, AllLines

LEMMA BlankLines ==
  ASSUME NEW driver
  PROVE  AllLines(BlankGpios(driver))
  BY DEF AllLines, Line, BlankGpios

LEMMA EntryParsed ==
  ASSUME TInv, NEW e,
         \/ e[1] = "users" /\ UsersKey(e[2])
         \/ e[1] \in OptionDrivers /\ BeginOptions(e[1])
         \/ ScalarKey(e[1], e[2])
  PROVE  Parsed' /\ Says'
  <1>0. CInv /\ Says /\ IsText /\ Parsed
    BY DEF TInv, Parsed
  <1>1. PICK value : /\ text' = Append(text, <<e[1], value>>) /\ Len(text) < file.most
                     /\ phase = "board" /\ file' = file /\ caller' = caller
                     /\ devices' = devices /\ gpio' = gpio
    BY DEF UsersKey, BeginOptions, ScalarKey, Entry, Settled
  <1>2. IsText' /\ Len(text') = Len(text) + 1
    BY <1>0, <1>1, TextGrows
  <1>3. Len(text') <= file.most
    BY <1>1, <1>2, Bounds
  <1>4. CASE e[1] = "users" /\ UsersKey(e[2])
    <2>1. /\ text' = Append(text, <<"users", e[2]>>) /\ UNCHANGED <<phase, options>>
          /\ dev' = [dev EXCEPT !.limited = TRUE, !.users = e[2]]
      BY <1>4 DEF UsersKey, Entry
    <2>2. Says'
      BY <1>0, <2>1, UsersSays
    <2>3. dev'.boot = dev.boot /\ dev'.limited = TRUE /\ dev'.gpios = dev.gpios
      BY <1>0, <2>1 DEF CInv, Shape
    <2>. QED  BY <1>0, <1>1, <1>2, <1>3, <2>1, <2>2, <2>3 DEF Parsed, AllLines
  <1>5. CASE e[1] \in OptionDrivers /\ BeginOptions(e[1])
    <2>1. /\ text' = Append(text, <<e[1], "options">>) /\ phase' = "options"
          /\ dev' = dev /\ options'.driver = e[1] /\ options'.entries = 0
          /\ options'.gpios = IF e[1] \in GpioDrivers THEN BlankGpios(e[1]) ELSE <<>>
      BY <1>5 DEF BeginOptions, Entry
    <2>2. Says'
      BY <1>0, <1>5, <2>1, BeginSays
    <2>3. AllLines(options'.gpios)
      BY <2>1, BlankLines DEF AllLines
    <2>4. options'.entries \in 0 .. MaxLines
      BY <2>1, Bounds
    <2>. QED  BY <1>0, <1>1, <1>2, <1>3, <1>5, <2>1, <2>2, <2>3, <2>4
              DEF Parsed, AllLines
  <1>6. CASE ScalarKey(e[1], e[2])
    <2>1. /\ text' = Append(text, <<e[1], e[2]>>) /\ UNCHANGED <<phase, options>>
          /\ dev' = With(e[1], e[2]) /\ Known(e[1]) /\ ~Taken(e[1])
      BY <1>6 DEF ScalarKey, Entry
    <2>2. /\ Says' /\ dev'.gpios = dev.gpios /\ dev'.limited = dev.limited
          /\ dev'.boot \in {dev.boot, "boot", "flash"}
      BY <1>0, <2>1, KeySays
    <2>. QED  BY <1>0, <1>1, <1>2, <1>3, <2>1, <2>2 DEF Parsed, AllLines
  <1>. QED  BY <1>4, <1>5, <1>6

LEMMA LineParsed ==
  ASSUME TInv, NEW key, NEW value,
         BeginLine(key) \/ LineEntry(key, value) \/ ChipEntry(key) \/ EndLine
  PROVE  Parsed' /\ Says'
  <1>0. CInv /\ Says /\ IsText /\ Parsed
    BY DEF TInv, Parsed
  <1>1. /\ UNCHANGED <<dev, text, file, caller, devices>>
        /\ options.entries < MaxLines
    BY DEF BeginLine, LineEntry, ChipEntry, EndLine, OneMoreEntry, Settled
  <1>2. Says' /\ IsText'
    BY <1>0, <1>1, SameSays DEF IsText
  <1>3. /\ options.entries \in Nat /\ options.entries + 1 \in 0 .. MaxLines
        /\ options.entries \in 0 .. MaxLines /\ AllLines(options.gpios)
    BY <1>0, <1>1, Bounds DEF Parsed
  <1>4. CASE BeginLine(key)
    <2>1. gpio' # None /\ phase' = "line" /\ options' = options /\ phase = "options"
      BY <1>4 DEF BeginLine
    <2>. QED  BY <1>0, <1>1, <1>2, <2>1 DEF Parsed, AllLines
  <1>5. CASE ChipEntry(key)
    <2>1. /\ phase' = phase /\ gpio' = gpio
          /\ options' = [options EXCEPT !.entries = @ + 1]
      BY <1>5 DEF ChipEntry
    <2>2. /\ options'.entries = options.entries + 1 /\ options'.driver = options.driver
          /\ options'.gpios = options.gpios
      BY <1>0, <2>1 DEF CInv, Shape
    <2>. QED  BY <1>0, <1>1, <1>2, <1>3, <2>1, <2>2 DEF Parsed, AllLines
  <1>6. ASSUME NEW l, Line(options.gpios[gpio]) => Line(l),
               options' = [options EXCEPT !.gpios[gpio] = l, !.entries = @ + 1]
        PROVE  /\ options'.entries = options.entries + 1
               /\ options'.driver = options.driver /\ AllLines(options'.gpios)
    <2>. DEFINE gs == [options.gpios EXCEPT ![gpio] = l]
    <2>1. /\ options'.entries = options.entries + 1 /\ options'.driver = options.driver
          /\ options'.gpios = gs
      BY <1>0, <1>6 DEF CInv, Shape
    <2>2. DOMAIN gs = DOMAIN options.gpios
      OBVIOUS
    <2>3. \A g \in DOMAIN options.gpios : Line(options.gpios[g])
      <3>1. options.gpios = <<>> => DOMAIN options.gpios = {}
        OBVIOUS
      <3>. QED  BY <1>3, <3>1 DEF AllLines
    <2>4. \A g \in DOMAIN gs : Line(gs[g])
      BY <1>6, <2>2, <2>3
    <2>. QED  BY <2>1, <2>4 DEF AllLines
  <1>7. CASE LineEntry(key, value)
    <2>. DEFINE l == Put(options.gpios[gpio], key, value)
    <2>1. /\ phase' = phase /\ gpio' = gpio
          /\ options' = [options EXCEPT !.gpios[gpio] = l, !.entries = @ + 1]
      BY <1>7 DEF LineEntry
    <2>2. Line(options.gpios[gpio]) => Line(l)
      BY DEF Line, Put
    <2>. HIDE DEF l
    <2>3. /\ options'.entries = options.entries + 1
          /\ options'.driver = options.driver /\ AllLines(options'.gpios)
      BY <1>6, <2>1, <2>2
    <2>. QED  BY <1>0, <1>1, <1>2, <1>3, <2>1, <2>3 DEF Parsed, AllLines
  <1>8. CASE EndLine
    <2>. DEFINE l == [options.gpios[gpio] EXCEPT !.present = TRUE]
    <2>1. /\ phase' = "options" /\ gpio' = None /\ phase = "line"
          /\ options' = [options EXCEPT !.gpios[gpio] = l, !.entries = @ + 1]
      BY <1>8 DEF EndLine
    <2>2. Line(options.gpios[gpio]) => Line(l)
      BY DEF Line
    <2>. HIDE DEF l
    <2>3. /\ options'.entries = options.entries + 1
          /\ options'.driver = options.driver /\ AllLines(options'.gpios)
      BY <1>6, <2>1, <2>2
    <2>. QED  BY <1>0, <1>1, <1>2, <1>3, <2>1, <2>3 DEF Parsed, AllLines
  <1>. QED  BY <1>4, <1>5, <1>7, <1>8

LEMMA LegacyLines ==
  ASSUME NEW t \in LegacyTexts
  PROVE  AllLines(LegacyGpios(t))
  <1>. PICK lines : lines = t.lines
    OBVIOUS
  <1>1. lines \in Seq([gpio : STRING, offset : STRING, low : BOOLEAN])
    BY BoardConfigAssumption
  <1>2. /\ DOMAIN lines = 1 .. Len(lines) /\ Len(lines) \in Nat
        /\ \A i \in DOMAIN lines : lines[i].low \in BOOLEAN
    <2>. PICK R : R = [gpio : STRING, offset : STRING, low : BOOLEAN]
      OBVIOUS
    <2>1. \A r \in R : r.low \in BOOLEAN
      OBVIOUS
    <2>2. lines \in Seq(R)
      BY <1>1
    <2>3. /\ DOMAIN lines = 1 .. Len(lines) /\ Len(lines) \in Nat
          /\ lines \in [1 .. Len(lines) -> R]
      BY <2>2, LenProperties
    <2>4. \A i \in DOMAIN lines : lines[i] \in R
      BY <2>3
    <2>. QED  BY <2>1, <2>3, <2>4
  <1>3. ASSUME NEW g \in Gpios("ftdi_gpio")
        PROVE  Line(LegacyGpios(t)[g])
    <2>. DEFINE is == {i \in DOMAIN lines : lines[i].gpio = g}
                last == lines[LastOf(is)]
    <2>1. LegacyGpios(t)[g]
            = IF is = {} THEN BlankGpios("ftdi_gpio")[g]
              ELSE [present |-> TRUE, offset |-> last.offset, low |-> last.low,
                    bank |-> t.bank]
      BY <1>3 DEF LegacyGpios, LastOf
    <2>2. is \in SUBSET (1 .. Len(lines))
      BY <1>2
    <2>3. is # {} => LastOf(is) \in DOMAIN lines
      <3>. HIDE DEF is
      <3>. QED  BY <1>2, <2>2, LastIn
    <2>4. is # {} => last.low \in BOOLEAN
      BY <1>2, <2>3
    <2>5. Line(BlankGpios("ftdi_gpio")[g])
      BY <1>3 DEF BlankGpios, Line
    <2>. HIDE DEF is, last
    <2>6. CASE is # {}
      <3>. DEFINE r == [present |-> TRUE, offset |-> last.offset,
                        low |-> last.low, bank |-> t.bank]
      <3>1. LegacyGpios(t)[g] = r
        BY <2>1, <2>6
      <3>2. r.present = TRUE /\ r.low = last.low
        OBVIOUS
      <3>3. DOMAIN r = {"present", "offset", "low", "bank"}
        OBVIOUS
      <3>. HIDE DEF r
      <3>. QED  BY <2>4, <2>6, <3>1, <3>2, <3>3 DEF Line
    <2>7. CASE is = {}
      BY <2>1, <2>5, <2>7
    <2>. QED  BY <2>6, <2>7
  <1>4. DOMAIN LegacyGpios(t) = Gpios("ftdi_gpio")
    BY DEF LegacyGpios
  <1>. QED  BY <1>3, <1>4 DEF AllLines

LEMMA DriverParsed ==
  ASSUME TInv, NEW gpios, AllLines(gpios), phase = "options", SelectDriver(gpios)
  PROVE  Parsed' /\ Says'
  <1>0. CInv /\ Says /\ IsText /\ Parsed
    BY DEF TInv, Parsed
  <1>1. CASE Exit
    BY <1>1, ExitParsed
  <1>2. CASE ~Exit
    <2>1. /\ dev.control = None
          /\ dev' = [dev EXCEPT !.control = options.driver,
                                !.driver = options.driver, !.gpios = gpios]
          /\ phase' = "board" /\ options' = NoOptions
          /\ UNCHANGED <<text, gpio, file, caller, devices>>
      BY <1>2 DEF SelectDriver, Settled
    <2>2. /\ Says' /\ dev'.gpios = gpios /\ dev'.boot = dev.boot
          /\ dev'.limited = dev.limited
      BY <1>0, <2>1, SelectSays
    <2>3. options'.driver = None /\ options'.entries = 0 /\ options'.gpios = <<>>
      BY <2>1 DEF NoOptions
    <2>4. options'.entries \in 0 .. MaxLines /\ AllLines(options'.gpios)
      BY <2>3, Bounds DEF AllLines
    <2>. QED  BY <1>0, <2>1, <2>2, <2>3, <2>4 DEF Parsed, IsText, AllLines
  <1>. QED  BY <1>1, <1>2

LEMMA BoardParsed ==
  ASSUME TInv, EndBoard
  PROVE  Parsed' /\ Says'
  <1>0. CInv /\ Says /\ IsText /\ Parsed
    BY DEF TInv, Parsed
  <1>1. CASE Exit
    BY <1>1, ExitParsed
  <1>2. CASE ~Exit
    <2>1. /\ devices' = Append(devices, dev) /\ phase' = "file" /\ phase = "board"
          /\ dev' = Blank /\ text' = <<>>
          /\ UNCHANGED <<options, gpio, file, caller>>
      BY <1>2 DEF EndBoard
    <2>2. /\ Says' /\ IsText' /\ Len(text') = 0 /\ AllLines(dev'.gpios)
          /\ dev'.boot \in {None, "boot", "flash"} /\ dev'.limited \in BOOLEAN
      BY <2>1, BlankSays
    <2>3. Len(devices') = Len(devices) + 1
      <3>1. PICK S : devices \in Seq(S)
        BY <1>0 DEF CInv, IsList
      <3>2. devices \in Seq(S \cup {dev}) /\ dev \in S \cup {dev}
        <4>1. S \subseteq S \cup {dev}
          OBVIOUS
        <4>. QED  BY <3>1, <4>1
      <3>. QED  BY <2>1, <3>2, AppendProperties
    <2>4. Len(devices') <= file.boards /\ Len(text') <= file.most
      BY <1>0, <2>1, <2>2, <2>3, Bounds DEF Parsed
    <2>. QED  BY <1>0, <2>1, <2>2, <2>4 DEF Parsed, AllLines
  <1>. QED  BY <1>1, <1>2

LEMMA TKeeps == TInv /\ [Next]_vars => TInv'
  <1>. SUFFICES ASSUME TInv, [Next]_vars
                PROVE  Parsed' /\ Says'
    BY Keeps DEF TInv
  <1>0. CInv /\ Says /\ IsText /\ Parsed
    BY DEF TInv, Parsed
  <1>1. CASE UNCHANGED <<dev, text, options, gpio, file, devices, caller>>
               /\ \/ phase' = phase
                  \/ phase = "file" /\ phase' = "serving"
                  \/ /\ phase = "file" /\ phase' = "board"
                     /\ Len(devices) < file.boards
    <2>1. Says'
      BY <1>0, <1>1, SameSays
    <2>. QED  BY <1>0, <1>1, <2>1 DEF Parsed, IsText, AllLines
  <1>2. CASE StartBoard \/ EndFile
    BY <1>1, <1>2 DEF StartBoard, EndFile, Settled
  <1>3. CASE EndBoard
    BY <1>3, BoardParsed
  <1>4. ASSUME NEW e \in file.entries,
               \/ e[1] = "users" /\ UsersKey(e[2])
               \/ e[1] \in OptionDrivers /\ BeginOptions(e[1])
               \/ /\ e[1] \notin OptionDrivers \cup {"users"}
                  /\ ScalarKey(e[1], e[2]) \/ BadKey(e[1])
        PROVE  Parsed' /\ Says'
    BY <1>4, EntryParsed, ExitParsed DEF BadKey
  <1>5. ASSUME NEW key, BeginLine(key)
        PROVE  Parsed' /\ Says'
    BY <1>5, LineParsed
  <1>6. ASSUME NEW e \in LineEntries,
               \/ LineEntry(e[1], e[2]) \/ ChipEntry(e[1])
               \/ BadLine(e[1], e[2])
        PROVE  Parsed' /\ Says'
    BY <1>6, LineParsed, ExitParsed DEF BadLine
  <1>7. CASE EndLine
    BY <1>7, LineParsed
  <1>8. CASE EndOptions
    BY <1>0, <1>8, DriverParsed DEF EndOptions, Parsed
  <1>9. CASE NoServer
    BY <1>9, ExitParsed DEF NoServer
  <1>10. ASSUME NEW t \in LegacyTexts, LegacyFtdi(t)
         PROVE  Parsed' /\ Says'
    <2>1. phase = "options" /\ (Exit \/ SelectDriver(LegacyGpios(t)))
      BY <1>10 DEF LegacyFtdi
    <2>. QED  BY <2>1, ExitParsed, DriverParsed, LegacyLines
  <1>11. ASSUME NEW n, ListDevices \/ Info(n) \/ Open(n)
         PROVE  Parsed' /\ Says'
    BY <1>1, <1>11 DEF ListDevices, Info, Open, Served
  <1>12. CASE ListDevices
    BY <1>12, <1>11
  <1>13. CASE UNCHANGED vars
    BY <1>1, <1>13 DEF vars
  <1>. QED  BY <1>2, <1>3, <1>4, <1>5, <1>6, <1>7, <1>8, <1>9, <1>10, <1>11,
               <1>12, <1>13 DEF Next

LEMMA TStart == Init => TInv
  <1>. SUFFICES ASSUME Init PROVE TInv
    OBVIOUS
  <1>1. CInv
    BY Start
  <1>2. /\ phase = "file" /\ file \in Files /\ caller \in Callers /\ dev = Blank
        /\ text = <<>> /\ options = NoOptions /\ gpio = None /\ devices = <<>>
    BY DEF Init
  <1>3. file.most \in Nat /\ file.boards \in Nat /\ MaxLines \in Nat
    BY <1>2, BoardConfigAssumption
  <1>4. DOMAIN text = {} /\ text \in Seq({}) /\ Len(text) = 0 /\ Len(devices) = 0
    BY <1>2
  <1>5. \A k : Read(k) = {}
    BY <1>4 DEF Read
  <1>6. dev.boot = None /\ dev.limited = FALSE /\ dev.gpios = <<>>
    BY <1>2 DEF Blank
  <1>7. Says
    BY <1>4, <1>5, <1>6 DEF Says, BootSays, Flashes, UsersSay, NodesSay
  <1>8. options.driver = None /\ options.entries = 0 /\ options.gpios = <<>>
    BY <1>2 DEF NoOptions
  <1>9. Parsed
    <2>1. Len(text) <= file.most /\ Len(devices) <= file.boards
      BY <1>3, <1>4
    <2>2. options.entries \in 0 .. MaxLines
      BY <1>3, <1>8
    <2>3. AllLines(options.gpios) /\ AllLines(dev.gpios)
      BY <1>6, <1>8 DEF AllLines
    <2>4. IsText
      BY <1>4 DEF IsText
    <2>5. /\ phase \in {"file", "board", "options", "line", "serving", "exited"}
          /\ phase \notin {"board", "options", "line"}
          /\ gpio = None /\ phase # "line"
      BY <1>2
    <2>6. /\ options.driver \in OptionDrivers \cup {None}
          /\ dev.boot \in {None, "boot", "flash"} /\ dev.limited \in BOOLEAN
      BY <1>6, <1>8
    <2>7. file \in Files /\ caller \in Callers
      BY <1>2
    <2>. QED  BY <2>1, <2>2, <2>3, <2>4, <2>5, <2>6, <2>7 DEF Parsed
  <1>. QED  BY <1>1, <1>7, <1>9 DEF TInv

LEMMA TextInvariance == Spec => []TInv
  BY TStart, TKeeps, PTL DEF Spec

(* What parse_board makes of the keys of a board does not depend on their  *)
(* order, for every configuration file: how it boots, who may use it, and  *)
(* that the device nodes are those given with the drivers it ends with.    *)
THEOREM BoardMeansItsText == Spec => []MeansItsText
  BY TInvMeans, TextInvariance, PTL
=============================================================================
