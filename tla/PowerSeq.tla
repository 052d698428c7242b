------------------------------ MODULE PowerSeq ------------------------------
(***************************************************************************)
(* How cdba-server drives the power, USB and key lines of one board:       *)
(* the main loop of watch.c, the timer-driven power-on sequence of         *)
(* device.c (device_tick) and the commands of handle_stdin that touch the  *)
(* lines, over the life of several server processes.  The lines are        *)
(* hardware: they keep their level when a server exits or dies.            *)
(*                                                                         *)
(* The server is a single thread, so a callback is one step; but time      *)
(* passes at any moment, timers may be found late, and between the passes  *)
(* over the timers any number of commands is handled.                      *)
(***************************************************************************)
EXTENDS Watch

CONSTANTS
  Devices,       \* the configurations considered (fields: DeviceType)
  ConnectDelay,  \* 10 ms: START to CONNECT
  PressDelay,    \* 250 ms: CONNECT to PRESS
  PulseDelay,    \* 100 ms: PRESS to RELEASE_PWR, and a key pulse
  FbDelay,       \* fastboot_key_timeout * 1000 ms, when it is set
  MaxOps         \* bound: commands, crashes and sessions in a behaviour

Keys == {"fastboot", "power"}
TickStates == {"connect", "press", "release_pwr", "release_fastboot"}
States == TickStates \cup {"start", "running"}
Callbacks == {"tick"} \cup Keys       \* device_tick, or msg_key_release(key)

DeviceType == [hasKey : BOOLEAN,        \* control_ops->key
               hasPowerKey : BOOLEAN,   \* has_power_key
               fbTimeout : BOOLEAN,     \* fastboot_key_timeout # 0
               usbAlwaysOn : BOOLEAN, powerAlwaysOn : BOOLEAN]

ASSUME PowerAssumption ==
  /\ Devices \subseteq DeviceType
  /\ \A d \in Devices : d.hasPowerKey => d.hasKey
  /\ ConnectDelay \in Nat \ {0} /\ PressDelay \in Nat \ {0}
  /\ PulseDelay \in Nat \ {0} /\ FbDelay \in Nat \ {0}
  /\ MaxOps \in Nat

VARIABLES
  dev,        \* the board's configuration
  key, power, usb,          \* the board's lines
  phase,      \* "exited", "crashed" (no server), "select", "timers", "fds"
  now,        \* gettimeofday()
  timers,     \* timer_watches
  cursor, cutoff,           \* watch_timer_invoke's position and its now
  state,      \* device->state
  statusOn,   \* device->status_enabled
  ops,        \* bound on the environment
  owed,       \* history: a MSG_POWER_ON has not reached CONNECT yet
  last,       \* history: last power command of the session; "off_owed" is a
              \* MSG_POWER_OFF that arrived while a power-on was owed
  touched,    \* history: the user moved this key since the last power-on
  overlap,    \* history: a power-on began with a tick still pending
  connectAt   \* history: when CONNECT last ran

hw == <<key, power, usb>>
loop == <<phase, now, cursor, cutoff>>
hist == <<owed, last, touched, overlap, connectAt>>
vars == <<dev, key, power, usb, phase, now, timers, cursor, cutoff, state,
          statusOn, ops, owed, last, touched, overlap, connectAt>>

Init ==
  /\ dev \in Devices
  /\ key = [k \in Keys |-> FALSE] /\ power = FALSE /\ usb = FALSE
  /\ phase = "exited" /\ now = 0 /\ timers = <<>> /\ cursor = 1 /\ cutoff = 0
  /\ state = "start" /\ statusOn = FALSE
  /\ ops = 0
  /\ owed = FALSE /\ last = "none" /\ touched = [k \in Keys |-> TRUE]
  /\ overlap = FALSE /\ connectAt = 0
-----------------------------------------------------------------------------
Up == phase \notin {"exited", "crashed"}
TickPending == Pending(timers, "tick")

(* device_key: ignored by a controller without key control *)
WithKey(ks, k, v) == IF dev.hasKey THEN [ks EXCEPT ![k] = v] ELSE ks

(* The power key when device_tick runs in this state. *)
TickPower(ks) ==
  CASE state = "press" -> WithKey(ks, "power", TRUE)
    [] state = "release_pwr" -> WithKey(ks, "power", FALSE)
    [] OTHER -> ks

(* Seeded fault: the last state is taken for the first. *)
AfterTickAgain ==
  LET fb == IF dev.fbTimeout THEN "release_fastboot" ELSE "connect"
  IN CASE state = "connect" -> IF dev.hasPowerKey THEN "press" ELSE fb
       [] state = "press" -> "release_pwr"
       [] state = "release_pwr" -> fb
       [] OTHER -> "running"

(* The state a scheduled device_tick moves to; a tick that finds RUNNING   *)
(* does nothing.  START is left within device_power_on, never by a timer.  *)
AfterTick ==
  LET fb == IF dev.fbTimeout THEN "release_fastboot" ELSE "running"
  IN CASE state = "connect" -> IF dev.hasPowerKey THEN "press" ELSE fb
       [] state = "press" -> "release_pwr"
       [] state = "release_pwr" -> fb
       [] OTHER -> "running"

(* Seeded fault: seconds are taken for milliseconds. *)
DelayToShort(s) == CASE s = "press" -> PressDelay
                     [] s = "release_pwr" -> PulseDelay
                     [] OTHER -> ConnectDelay

(* The delay of the tick device_tick schedules as it moves to state s. *)
DelayTo(s) == CASE s = "connect" -> ConnectDelay
                [] s = "press" -> PressDelay
                [] s = "release_pwr" -> PulseDelay
                [] OTHER -> FbDelay

(* Seeded fault: no second tick while one is on the list. *)
ScheduleOnce(ts, s) ==
  IF s = "running" \/ TickPending THEN ts
  ELSE TimerAdd(ts, now, DelayTo(s), "tick")

(* The timer list after device_tick moved to state s. *)
Schedule(ts, s) ==
  IF s = "running" THEN ts ELSE TimerAdd(ts, now, DelayTo(s), "tick")

(* Seeded fault: START does not release the power key. *)
PowerOnKeyAsIs ==
  /\ state' = "connect"
  /\ key' = IF dev.fbTimeout THEN WithKey(key, "fastboot", TRUE) ELSE key
  /\ timers' = Schedule(timers, "connect")
  /\ owed' = TRUE /\ last' = "on"
  /\ touched' = [k \in Keys |-> Pending(timers, k)]
  /\ overlap' = TickPending
  /\ UNCHANGED <<power, usb, statusOn, connectAt>>

(* device_power_on: state = START and device_tick called at once. *)
PowerOn ==
  /\ state' = "connect"
  /\ key' = LET f == IF dev.fbTimeout THEN WithKey(key, "fastboot", TRUE)
                                      ELSE key
            IN IF dev.hasPowerKey THEN WithKey(f, "power", FALSE) ELSE f
  /\ timers' = Schedule(timers, "connect")
  /\ owed' = TRUE /\ last' = "on"
  /\ touched' = [k \in Keys |-> Pending(timers, k)]
  /\ overlap' = TickPending
  /\ UNCHANGED <<power, usb, statusOn, connectAt>>

(* device_power_off: the line only; ticks stay scheduled. *)
PowerOff ==
  /\ power' = FALSE
  /\ last' = IF owed THEN "off_owed" ELSE "off"
  /\ UNCHANGED <<key, usb, timers, state, statusOn, owed, touched, overlap,
                 connectAt>>

(* device_usb *)
Usb(on) ==
  /\ usb' = on
  /\ UNCHANGED <<key, power, timers, state, statusOn, hist>>

(* msg_key_press *)
KeyPress(k, s) ==
  /\ key' = WithKey(key, k, s # "release")
  /\ timers' = IF s = "pulse" THEN TimerAdd(timers, now, PulseDelay, k)
                              ELSE timers
  /\ touched' = [touched EXCEPT ![k] = TRUE]
  /\ UNCHANGED <<power, usb, state, statusOn, owed, last, overlap, connectAt>>

(* device_status_enable *)
StatusEnable ==
  /\ statusOn' = TRUE
  /\ UNCHANGED <<hw, timers, state, hist>>

(* The end of device_boot. *)
Boot ==
  /\ usb' = IF statusOn /\ ~dev.usbAlwaysOn THEN FALSE ELSE usb
  /\ UNCHANGED <<key, power, timers, state, statusOn, hist>>

(* handle_stdin: one command of the client. *)
Command ==
  /\ phase = "fds" /\ ops < MaxOps
  /\ ops' = ops + 1
  /\ \/ PowerOn
     \/ PowerOff
     \/ \E on \in BOOLEAN : Usb(on)
     \/ \E k \in Keys, s \in {"press", "release", "pulse"} : KeyPress(k, s)
     \/ StatusEnable
     \/ Boot
  /\ UNCHANGED <<dev, loop>>
-----------------------------------------------------------------------------
(* watch_main_loop: select() returns - a timer is due, or a descriptor is  *)
(* readable - and watch_timer_invoke takes the time once.                  *)
Select ==
  /\ phase = "select"
  /\ phase' = "timers" /\ cursor' = 1 /\ cutoff' = now
  /\ UNCHANGED <<dev, hw, now, timers, state, statusOn, ops, hist>>

AtTimer == phase = "timers" /\ cursor <= Len(timers)

(* A timer that is not due is passed over. *)
SkipTimer ==
  /\ AtTimer /\ ~Due(timers[cursor], cutoff)
  /\ cursor' = cursor + 1
  /\ UNCHANGED <<dev, hw, phase, now, cutoff, timers, state, statusOn, ops,
                 hist>>

(* device_tick called from its timer.  The callback may append to the list *)
(* before its own timer is deleted.                                        *)
FireTick ==
  /\ AtTimer /\ Due(timers[cursor], cutoff) /\ timers[cursor].cb = "tick"
  /\ state' = AfterTick
  /\ key' = IF state = "release_fastboot" THEN WithKey(key, "fastboot", FALSE)
                                          ELSE TickPower(key)
  /\ IF state = "connect"
       THEN power' = TRUE /\ usb' = TRUE /\ owed' = FALSE /\ connectAt' = now
       ELSE UNCHANGED <<power, usb, owed, connectAt>>
  /\ timers' = TimerDel(IF state = "running" THEN timers
                                             ELSE Schedule(timers, AfterTick),
                        cursor)
  /\ UNCHANGED <<dev, loop, statusOn, ops, last, touched, overlap>>

(* msg_key_release called from its timer. *)
FireRelease ==
  /\ AtTimer /\ Due(timers[cursor], cutoff) /\ timers[cursor].cb \in Keys
  /\ key' = WithKey(key, timers[cursor].cb, FALSE)
  /\ timers' = TimerDel(timers, cursor)
  /\ UNCHANGED <<dev, power, usb, loop, state, statusOn, ops, hist>>

(* The pass over the timers ends, the descriptors are next. *)
TimersDone ==
  /\ phase = "timers" /\ cursor > Len(timers)
  /\ phase' = "fds" /\ cursor' = 1 /\ cutoff' = 0
  /\ UNCHANGED <<dev, hw, now, timers, state, statusOn, ops, hist>>

FdsDone ==
  /\ phase = "fds"
  /\ phase' = "select"
  /\ UNCHANGED <<dev, hw, now, cursor, cutoff, timers, state, statusOn, ops,
                 hist>>

(* Time passes, until every timer is due: later moments are all alike. *)
Advance ==
  /\ Up /\ \E i \in 1 .. Len(timers) : timers[i].due >= now
  /\ now' = now + 1
  /\ UNCHANGED <<dev, hw, phase, cursor, cutoff, timers, state, statusOn, ops,
                 hist>>
-----------------------------------------------------------------------------
(* The process is gone, and its timers with it.                            *)
Gone ==
  /\ timers' = <<>> /\ cursor' = 1 /\ cutoff' = 0 /\ now' = 0
  /\ state' = "start" /\ statusOn' = FALSE
  /\ owed' = FALSE /\ last' = "none" /\ touched' = [k \in Keys |-> TRUE]
  /\ overlap' = FALSE /\ connectAt' = 0
  /\ UNCHANGED <<dev, key>>

(* handle_stdin fails or watch_quit is called: main ends with device_close.*)
Close ==
  /\ phase = "fds"
  /\ phase' = "exited"
  /\ usb' = (usb /\ dev.usbAlwaysOn)
  /\ power' = (power /\ dev.powerAlwaysOn)
  /\ Gone /\ UNCHANGED ops

(* The server is killed, or leaves through err() or exit(). *)
Crash ==
  /\ Up /\ ops < MaxOps
  /\ phase' = "crashed" /\ ops' = ops + 1
  /\ Gone /\ UNCHANGED <<power, usb>>

(* A server opens the board: device_open in a fresh process. *)
Open ==
  /\ ~Up /\ ops < MaxOps
  /\ phase' = "fds" /\ ops' = ops + 1
  /\ power' = (power /\ ~dev.powerAlwaysOn)
  /\ usb' = (usb \/ dev.usbAlwaysOn)
  /\ last' = IF dev.powerAlwaysOn THEN "off" ELSE "none"
  /\ UNCHANGED <<dev, key, now, timers, cursor, cutoff, state, statusOn, owed,
                 touched, overlap, connectAt>>

Pass == SkipTimer \/ FireTick \/ FireRelease \/ TimersDone

Next == Command \/ Select \/ Pass \/ FdsDone \/ Advance \/ Close \/ Crash
        \/ Open

(* The loop runs and time passes; nobody has to send commands. *)
Fairness == WF_vars(Select) /\ WF_vars(Pass) /\ WF_vars(FdsDone)
            /\ WF_vars(Advance)

Spec == Init /\ [][Next]_vars
FairSpec == Spec /\ Fairness
-----------------------------------------------------------------------------
TypeOK ==
  /\ dev \in Devices
  /\ key \in [Keys -> BOOLEAN] /\ power \in BOOLEAN /\ usb \in BOOLEAN
  /\ phase \in {"exited", "crashed", "select", "timers", "fds"}
  /\ now \in Nat /\ cutoff \in Nat /\ cursor \in Nat \ {0}
  /\ timers \in Seq([due : Nat, cb : Callbacks])
  /\ state \in States /\ statusOn \in BOOLEAN
  /\ ops \in Nat
  /\ owed \in BOOLEAN /\ last \in {"none", "on", "off", "off_owed"}
  /\ touched \in [Keys -> BOOLEAN] /\ overlap \in BOOLEAN
  /\ connectAt \in Nat

(* The sequence never stalls half way with a key held or the board not     *)
(* connected: while it is unfinished a tick is scheduled, however many     *)
(* power-ons, power-offs and chains of ticks overlap (device_tick).        *)
NeverStuck == state \in TickStates => TickPending

(* Power follows the last command.  Once MSG_POWER_OFF is handled the board*)
(* stays off until the next MSG_POWER_ON - unless a power-on had not       *)
(* reached CONNECT, whose tick device_power_off leaves scheduled - and a   *)
(* board that is RUNNING after MSG_POWER_ON is powered.                    *)
PowerFollowsCommand ==
  /\ last = "off" => ~power
  /\ last = "on" /\ state = "running" => power

(* The keys the sequence drives are where the sequence has them, unless    *)
(* the user moved them: in particular a RUNNING board has both released,   *)
(* whatever an earlier session or a crash left behind.                     *)
KeysMatchState ==
  dev.hasKey /\ state # "start" =>
    /\ dev.hasPowerKey /\ ~touched["power"] =>
         (key["power"] <=> state = "release_pwr")
    /\ dev.fbTimeout /\ ~touched["fastboot"] =>
         (key["fastboot"] <=> state # "running")

ReleasesFastboot == state = "release_fastboot" /\ state' = "running"

(* The fastboot key stays pressed for fastboot_key_timeout after the board *)
(* is connected, if the power-ons do not overlap.                          *)
HoldsFastbootKeyAlone ==
  [][ReleasesFastboot /\ ~overlap => now - connectAt >= FbDelay]_vars

(* A power-on sequence ends, unless its server does. *)
ReachesRunning == (Up /\ state \in TickStates) ~> (state = "running" \/ ~Up)
=============================================================================
