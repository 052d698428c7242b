----------------------------- MODULE BoardLock -----------------------------
(***************************************************************************)
(* Several users ask for one board: a cdba-server each, which device_open  *)
(* makes take turns with flock() on /tmp/cdba-<board>.lock (device_lock).  *)
(* The descriptor is never closed: the kernel drops the lock when the last *)
(* process that has it - the server, or a child it forked that has not     *)
(* reached exec() yet (O_CLOEXEC) - is gone.                               *)
(*                                                                         *)
(* A step is one system call of one server; the power-on sequence of       *)
(* PowerSeq is one step here.                                              *)
(***************************************************************************)
EXTENDS Integers

CONSTANTS
  Servers,     \* slots for server processes
  None,        \* no server
  MsgLen,      \* bytes of a message on the wire
  MaxBytes,    \* bound: bytes waiting in a server's stdin
  MaxSessions  \* bound: processes started in a slot

ASSUME LockAssumption == /\ None \notin Servers
                         /\ MsgLen \in Nat \ {0}
                         /\ MaxBytes \in Nat /\ MaxSessions \in Nat

VARIABLES
  alwaysOn,  \* power_always_on of the board
  power,     \* the board's power line
  lock,      \* who has the flock
  pc,        \* where each server is
  forking,   \* it has a forked child that has not called exec() yet
  last,      \* the last power command of its session
  stdin,     \* number of unread bytes in its stdin
  hungup,    \* its client closed the connection
  eaten,     \* history: bytes of a message were read by device_lock
  sessions,  \* bound on restarts
  dirty      \* history: a holder died without device_close

procs == <<pc, forking, last, stdin, hungup, eaten, sessions>>
vars == <<alwaysOn, power, lock, pc, forking, last, stdin, hungup, eaten,
          sessions, dirty>>

PC == {"absent", "fresh", "flock", "sleep", "check", "open", "serve", "close",
       "exit"}
Driving(s) == pc[s] \in {"open", "serve", "close", "exit"}
Waiting(s) == pc[s] \in {"flock", "sleep", "check"}

Init ==
  /\ alwaysOn \in BOOLEAN
  /\ power = FALSE /\ lock = None /\ dirty = FALSE
  /\ pc = [s \in Servers |-> "absent"]
  /\ forking = [s \in Servers |-> FALSE]
  /\ last = [s \in Servers |-> "none"]
  /\ stdin = [s \in Servers |-> 0]
  /\ hungup = [s \in Servers |-> FALSE]
  /\ eaten = [s \in Servers |-> FALSE]
  /\ sessions = [s \in Servers |-> 0]
-----------------------------------------------------------------------------
(* The client: it starts a server, sends messages, closes the connection.  *)
Start(s) ==
  /\ pc[s] = "absent" /\ ~forking[s] /\ sessions[s] < MaxSessions
  /\ pc' = [pc EXCEPT ![s] = "fresh"]
  /\ sessions' = [sessions EXCEPT ![s] = @ + 1]
  /\ last' = [last EXCEPT ![s] = "none"]
  /\ stdin' = [stdin EXCEPT ![s] = 0]
  /\ hungup' = [hungup EXCEPT ![s] = FALSE]
  /\ eaten' = [eaten EXCEPT ![s] = FALSE]
  /\ UNCHANGED <<alwaysOn, power, lock, forking, dirty>>

Send(s) ==
  /\ pc[s] \notin {"absent", "fresh"} /\ ~hungup[s]
  /\ stdin[s] + MsgLen <= MaxBytes
  /\ stdin' = [stdin EXCEPT ![s] = @ + MsgLen]
  /\ UNCHANGED <<alwaysOn, power, lock, pc, forking, last, hungup, eaten,
                 sessions, dirty>>

HangUp(s) ==
  /\ pc[s] # "absent" /\ ~hungup[s]
  /\ hungup' = [hungup EXCEPT ![s] = TRUE]
  /\ UNCHANGED <<alwaysOn, power, lock, pc, forking, last, stdin, eaten,
                 sessions, dirty>>
-----------------------------------------------------------------------------
Goto(s, label) == pc' = [pc EXCEPT ![s] = label]

(* MSG_SELECT_BOARD of a board that exists and the user may use. *)
SelectBoard(s) ==
  /\ pc[s] = "fresh"
  /\ Goto(s, "flock")
  /\ UNCHANGED <<alwaysOn, power, lock, forking, last, stdin, hungup, eaten,
                 sessions, dirty>>

(* Seeded fault: the lock is asked for shared. *)
FlockShared(s) ==
  /\ pc[s] = "flock"
  /\ Goto(s, "open") /\ lock' = s
  /\ UNCHANGED <<alwaysOn, power, forking, last, stdin, hungup, eaten,
                 sessions, dirty>>

(* flock(fd, LOCK_EX | LOCK_NB) *)
Flock(s) ==
  /\ pc[s] = "flock"
  /\ IF lock = None THEN lock' = s /\ Goto(s, "open")
                    ELSE Goto(s, "sleep") /\ UNCHANGED lock
  /\ UNCHANGED <<alwaysOn, power, forking, last, stdin, hungup, eaten,
                 sessions, dirty>>

(* sleep(3) *)
Wake(s) ==
  /\ pc[s] = "sleep"
  /\ Goto(s, "check")
  /\ UNCHANGED <<alwaysOn, power, lock, forking, last, stdin, hungup, eaten,
                 sessions, dirty>>

(* Seeded fault: stdin is not O_NONBLOCK. *)
CheckBlocks(s) ==
  /\ pc[s] = "check" /\ (stdin[s] > 0 \/ hungup[s])
  /\ IF stdin[s] = 0 THEN Goto(s, "absent") ELSE Goto(s, "flock")
  /\ stdin' = [stdin EXCEPT ![s] = IF @ > 0 THEN @ - 1 ELSE 0]
  /\ eaten' = [eaten EXCEPT ![s] = @ \/ stdin[s] > 0]
  /\ UNCHANGED <<alwaysOn, power, lock, forking, last, hungup, sessions,
                 dirty>>

(* Seeded fault: end of file is not told from an empty stdin. *)
CheckNotEOF(s) ==
  /\ pc[s] = "check"
  /\ Goto(s, "flock")
  /\ stdin' = [stdin EXCEPT ![s] = IF @ > 0 THEN @ - 1 ELSE 0]
  /\ eaten' = [eaten EXCEPT ![s] = @ \/ stdin[s] > 0]
  /\ UNCHANGED <<alwaysOn, power, lock, forking, last, hungup, sessions,
                 dirty>>

(* read(STDIN_FILENO, &c, 1) == 0 means the client is gone; a byte that was*)
(* there to read is read, and dropped.                                     *)
Check(s) ==
  /\ pc[s] = "check"
  /\ IF stdin[s] = 0 /\ hungup[s] THEN Goto(s, "absent") ELSE Goto(s, "flock")
  /\ stdin' = [stdin EXCEPT ![s] = IF @ > 0 THEN @ - 1 ELSE 0]
  /\ eaten' = [eaten EXCEPT ![s] = @ \/ stdin[s] > 0]
  /\ UNCHANGED <<alwaysOn, power, lock, forking, last, hungup, sessions,
                 dirty>>
-----------------------------------------------------------------------------
(* A process is gone: its descriptors are closed.  The lock stays with a   *)
(* child that has a copy.                                                  *)
Gone(s) ==
  /\ Goto(s, "absent")
  /\ lock' = IF lock = s /\ ~forking[s] THEN None ELSE lock

(* The rest of device_open: power off a board that is always on, or err()  *)
(* if the controller or the console cannot be opened.                      *)
Open(s) ==
  /\ pc[s] = "open"
  /\ Goto(s, "serve")
  /\ power' = (power /\ ~alwaysOn)
  /\ UNCHANGED <<alwaysOn, lock, forking, last, stdin, hungup, eaten,
                 sessions, dirty>>

OpenFails(s) ==
  /\ pc[s] = "open"
  /\ Gone(s)
  /\ UNCHANGED <<alwaysOn, power, forking, last, stdin, hungup, eaten,
                 sessions, dirty>>

(* A message is taken from stdin.  Once a byte is missing, what is taken   *)
(* for one begins and ends anywhere.                                       *)
TakeMessage(s) ==
  /\ pc[s] = "serve"
  /\ \E n \in 1 .. stdin[s] :
       /\ n = MsgLen \/ eaten[s]
       /\ stdin' = [stdin EXCEPT ![s] = @ - n]

(* MSG_POWER_ON, MSG_POWER_OFF *)
Power(s, on) ==
  /\ TakeMessage(s)
  /\ power' = on
  /\ last' = [last EXCEPT ![s] = IF on THEN "on" ELSE "off"]
  /\ UNCHANGED <<alwaysOn, lock, pc, forking, hungup, eaten, sessions, dirty>>

(* MSG_STATUS_UPDATE, or any line of a board with an external controller:  *)
(* fork().                                                                 *)
Fork(s) ==
  /\ TakeMessage(s) /\ ~forking[s]
  /\ forking' = [forking EXCEPT ![s] = TRUE]
  /\ UNCHANGED <<alwaysOn, power, lock, pc, last, hungup, eaten, sessions,
                 dirty>>

(* Bytes out of place that are none of these commands: they change nothing *)
(* here, or are of no known type, or select a board that does not exist -  *)
(* and then the server ends without device_close.                          *)
Garbled(s) ==
  /\ TakeMessage(s) /\ eaten[s]
  /\ \/ UNCHANGED <<pc, lock, dirty>>
     \/ Gone(s) /\ dirty' = TRUE
  /\ UNCHANGED <<alwaysOn, power, forking, last, hungup, eaten, sessions>>

(* Seeded fault: the lock is inherited across exec(). *)
ExecKeepsLock(s) ==
  /\ forking[s]
  /\ forking' = [forking EXCEPT ![s] = FALSE]
  /\ UNCHANGED <<alwaysOn, power, lock, pc, last, stdin, hungup, eaten,
                 sessions, dirty>>

(* The child calls exec(): O_CLOEXEC drops its copy of the descriptor. *)
Exec(s) ==
  /\ forking[s]
  /\ forking' = [forking EXCEPT ![s] = FALSE]
  /\ lock' = IF lock = s /\ pc[s] = "absent" THEN None ELSE lock
  /\ UNCHANGED <<alwaysOn, power, pc, last, stdin, hungup, eaten, sessions,
                 dirty>>

(* End of file, or SIGPIPE: watch_run returns.  Messages that came with the*)
(* end of file are not looked at (MsgStream).                              *)
Leave(s) ==
  /\ pc[s] = "serve" /\ hungup[s]
  /\ Goto(s, "close")
  /\ UNCHANGED <<alwaysOn, power, lock, forking, last, stdin, hungup, eaten,
                 sessions, dirty>>

(* Seeded fault: only boards that are always on are powered off. *)
CloseInverted(s) ==
  /\ pc[s] = "close"
  /\ power' = (power /\ ~alwaysOn)
  /\ dirty' = FALSE
  /\ Goto(s, "exit")
  /\ UNCHANGED <<alwaysOn, lock, forking, last, stdin, hungup, eaten,
                 sessions>>

(* device_close *)
Close(s) ==
  /\ pc[s] = "close"
  /\ power' = (power /\ alwaysOn)
  /\ dirty' = FALSE
  /\ Goto(s, "exit")
  /\ UNCHANGED <<alwaysOn, lock, forking, last, stdin, hungup, eaten,
                 sessions>>

(* main returns *)
Exit(s) ==
  /\ pc[s] = "exit"
  /\ Gone(s)
  /\ UNCHANGED <<alwaysOn, power, forking, last, stdin, hungup, eaten,
                 sessions, dirty>>

(* The server is killed, or leaves through err() or exit(). *)
Crash(s) ==
  /\ pc[s] # "absent"
  /\ Gone(s)
  /\ dirty' = (dirty \/ pc[s] \in {"serve", "close"})
  /\ UNCHANGED <<alwaysOn, power, forking, last, stdin, hungup, eaten,
                 sessions>>
-----------------------------------------------------------------------------
Server(s) ==
  \/ SelectBoard(s) \/ Flock(s) \/ Wake(s) \/ Check(s) \/ Open(s)
  \/ OpenFails(s) \/ (\E on \in BOOLEAN : Power(s, on)) \/ Fork(s)
  \/ Garbled(s) \/ Leave(s) \/ Close(s) \/ Exit(s)

Next == \E s \in Servers :
          Start(s) \/ Send(s) \/ HangUp(s) \/ Server(s) \/ Exec(s) \/ Crash(s)

(* Servers run and children reach exec(); clients need not do anything. *)
Fairness == \A s \in Servers : WF_vars(Server(s)) /\ WF_vars(Exec(s))

Spec == Init /\ [][Next]_vars
FairSpec == Spec /\ Fairness
-----------------------------------------------------------------------------
TypeOK ==
  /\ alwaysOn \in BOOLEAN /\ power \in BOOLEAN /\ dirty \in BOOLEAN
  /\ lock \in Servers \cup {None}
  /\ pc \in [Servers -> PC]
  /\ forking \in [Servers -> BOOLEAN]
  /\ last \in [Servers -> {"none", "on", "off"}]
  /\ stdin \in [Servers -> Nat]
  /\ hungup \in [Servers -> BOOLEAN] /\ eaten \in [Servers -> BOOLEAN]
  /\ sessions \in [Servers -> Nat]

(* The power line is where this session's last command put it: no other    *)
(* server's device_open or device_close moves it meanwhile.                *)
PowerIsMine ==
  \A s \in Servers : pc[s] \in {"serve", "close"} =>
    /\ last[s] = "on" => power
    /\ last[s] = "off" => ~power

(* A board nobody holds is off, unless its last holder died without        *)
(* device_close or the board is always on.                                 *)
OffWhenFree == lock = None /\ ~dirty /\ ~alwaysOn => ~power

(* The lock is never held by nobody: by a server in its session, or for one*)
(* that is gone by its child, which has not reached exec() yet.            *)
HeldBySomebody == lock = None \/ Driving(lock)
                    \/ (pc[lock] = "absent" /\ forking[lock])

(* Sessions on the board are serial, whoever comes, waits, leaves or dies. *)
Active == {s \in Servers : Driving(s)}

Sessions == INSTANCE BoardSessions WITH active <- Active

SessionsAreSerial == Sessions!Spec

(* The lock of a server that is gone is released, a forked child or not.   *)
LockIsFreed ==
  \A s \in Servers : (lock = s /\ pc[s] = "absent") ~> (lock # s)

(* A user who waits for ever waits for somebody: the lock is not free for  *)
(* good while a server polls it.                                           *)
WaitsForSomebody ==
  \A s \in Servers : <>[]Waiting(s) => []<>(lock # None)

(* "check that connection isn't gone": a server whose client has left      *)
(* stops waiting, whatever the client had sent before.                     *)
GoneClientIsNoticed ==
  \A s \in Servers : (Waiting(s) /\ hungup[s]) ~> ~Waiting(s)
=============================================================================
