-------------------------- MODULE BoardLockProofs --------------------------
(***************************************************************************)
(* For any number of servers, sessions and messages: sessions on a board   *)
(* are serial, nobody moves the power line of another's session, and a free*)
(* board is off unless a server died in its session.                       *)
(***************************************************************************)
EXTENDS BoardLock, TLAPS

(* Whoever drives the lines has the lock. *)
DriverHasLock == \A s \in Servers : Driving(s) => lock = s

(* A session starts without a power command. *)
NoCommandYet ==
  \A s \in Servers : pc[s] \in {"fresh", "flock", "sleep", "check", "open"}
                       => last[s] = "none"

(* Power that device_close will turn off is some session's. *)
PowerIsOwned ==
  power /\ ~dirty /\ ~alwaysOn =>
    \E s \in Servers : pc[s] \in {"serve", "close"}

LInv == TypeOK /\ DriverHasLock /\ NoCommandYet /\ PowerIsOwned /\ PowerIsMine
-----------------------------------------------------------------------------
LEMMA InitLock == Init => LInv
  <1>. SUFFICES ASSUME Init PROVE LInv
    OBVIOUS
  <1>1. forking \in [Servers -> BOOLEAN] /\ hungup \in [Servers -> BOOLEAN]
        /\ eaten \in [Servers -> BOOLEAN]
    BY Zenon DEF Init
  <1>2. TypeOK
    BY <1>1 DEF Init, TypeOK, PC
  <1>3. DriverHasLock /\ NoCommandYet /\ PowerIsOwned /\ PowerIsMine
    BY DEF Init, DriverHasLock, NoCommandYet, PowerIsOwned, PowerIsMine,
           Driving
  <1>. QED  BY <1>2, <1>3 DEF LInv

(* Steps outside a session, and of a client. *)
LEMMA WaitingInv ==
  ASSUME LInv, NEW s \in Servers,
         Start(s) \/ Send(s) \/ HangUp(s) \/ SelectBoard(s) \/ Wake(s)
         \/ Check(s)
  PROVE  LInv'
  <1>1. TypeOK'
    <2>1. CASE Start(s)
      BY <2>1 DEF LInv, TypeOK, Start, PC
    <2>4. CASE HangUp(s) \/ SelectBoard(s) \/ Wake(s)
      BY <2>4 DEF LInv, TypeOK, HangUp, SelectBoard, Wake, Goto, PC
    <2>2. CASE Send(s)
      BY <2>2, LockAssumption DEF LInv, TypeOK, Send
    <2>3. CASE Check(s)
      <3>1. stdin' \in [Servers -> Nat]
        BY <2>3 DEF LInv, TypeOK, Check
      <3>2. eaten' \in [Servers -> BOOLEAN]
        BY <2>3 DEF LInv, TypeOK, Check
      <3>3. pc' \in [Servers -> PC]
        BY <2>3 DEF LInv, TypeOK, Check, Goto, PC
      <3>. QED  BY <2>3, <3>1, <3>2, <3>3 DEF LInv, TypeOK, Check
    <2>. QED  BY <2>1, <2>2, <2>3, <2>4
  <1>2. DriverHasLock'
    BY DEF LInv, TypeOK, DriverHasLock, Driving, Start, Send, HangUp,
           SelectBoard, Wake, Check, Goto
  <1>3. NoCommandYet'
    BY DEF LInv, TypeOK, NoCommandYet, Start, Send, HangUp, SelectBoard,
           Wake, Check, Goto
  <1>4. PowerIsOwned'
    BY DEF LInv, TypeOK, PowerIsOwned, Start, Send, HangUp, SelectBoard,
           Wake, Check, Goto
  <1>5. PowerIsMine'
    BY DEF LInv, TypeOK, PowerIsMine, Start, Send, HangUp, SelectBoard,
           Wake, Check, Goto
  <1>. QED  BY <1>1, <1>2, <1>3, <1>4, <1>5 DEF LInv

(* A message is never longer than what there is to read. *)
LEMMA TakenFacts ==
  ASSUME TypeOK, NEW s \in Servers, TakeMessage(s)
  PROVE  stdin' \in [Servers -> Nat]
  <1>1. stdin \in [Servers -> Nat] /\ stdin[s] \in Nat
    BY DEF TypeOK
  <1>2. PICK n \in 1 .. stdin[s] : stdin' = [stdin EXCEPT ![s] = @ - n]
    BY DEF TakeMessage
  <1>3. stdin[s] - n \in Nat
    BY <1>1, <1>2
  <1>. QED  BY <1>1, <1>2, <1>3

(* Steps of a server that is in its session, and of its child. *)
LEMMA SessionInv ==
  ASSUME LInv, NEW s \in Servers,
         Flock(s) \/ Open(s) \/ (\E on \in BOOLEAN : Power(s, on)) \/ Fork(s)
         \/ Leave(s) \/ Close(s) \/ Exec(s)
  PROVE  LInv'
  <1>1. TypeOK'
    <2>1. CASE Flock(s) \/ Open(s) \/ Leave(s) \/ Close(s) \/ Exec(s)
      BY <2>1 DEF LInv, TypeOK, Flock, Open, Leave, Close, Exec, Goto, PC
    <2>2. CASE Fork(s)
      BY <2>2, TakenFacts DEF LInv, TypeOK, Fork
    <2>3. ASSUME NEW on \in BOOLEAN, Power(s, on) PROVE TypeOK'
      BY <2>3, TakenFacts DEF LInv, TypeOK, Power
    <2>. QED  BY <2>1, <2>2, <2>3
  <1>2. DriverHasLock'
    BY LockAssumption
       DEF LInv, TypeOK, DriverHasLock, Driving, Flock, Open, Power, Fork,
           Leave, Close, Exec, Goto, TakeMessage
  <1>3. NoCommandYet'
    BY DEF LInv, TypeOK, NoCommandYet, Flock, Open, Power, Fork, Leave, Close,
           Exec, Goto, TakeMessage
  <1>4. PowerIsOwned'
    BY DEF LInv, TypeOK, PowerIsOwned, Flock, Open, Power, Fork, Leave, Close,
           Exec, Goto, TakeMessage
  <1>5. PowerIsMine'
    BY DEF LInv, TypeOK, PowerIsMine, DriverHasLock, Driving, NoCommandYet,
           Flock, Open, Power, Fork, Leave, Close, Exec, Goto, TakeMessage
  <1>. QED  BY <1>1, <1>2, <1>3, <1>4, <1>5 DEF LInv

(* Steps that end a server. *)
LEMMA GoneInv ==
  ASSUME LInv, NEW s \in Servers,
         OpenFails(s) \/ Garbled(s) \/ Exit(s) \/ Crash(s)
  PROVE  LInv'
  <1>1. TypeOK'
    <2>1. CASE OpenFails(s) \/ Exit(s)
      BY <2>1 DEF LInv, TypeOK, OpenFails, Exit, Gone, Goto, PC
    <2>3. CASE Crash(s)
      <3>1. pc' \in [Servers -> PC] /\ lock' \in Servers \cup {None}
        BY <2>3 DEF LInv, TypeOK, Crash, Gone, Goto, PC
      <3>2. dirty' \in BOOLEAN
        BY <2>3 DEF LInv, TypeOK, Crash
      <3>. QED  BY <2>3, <3>1, <3>2 DEF LInv, TypeOK, Crash
    <2>2. CASE Garbled(s)
      <3>1. stdin' \in [Servers -> Nat]
        BY <2>2, TakenFacts DEF LInv, Garbled
      <3>2. pc' \in [Servers -> PC] /\ lock' \in Servers \cup {None}
        BY <2>2 DEF LInv, TypeOK, Garbled, Gone, Goto, PC
      <3>3. dirty' \in BOOLEAN
        BY <2>2 DEF LInv, TypeOK, Garbled
      <3>. QED  BY <2>2, <3>1, <3>2, <3>3 DEF LInv, TypeOK, Garbled
    <2>. QED  BY <2>1, <2>2, <2>3
  <1>2. DriverHasLock'
    BY DEF LInv, TypeOK, DriverHasLock, Driving, OpenFails, Garbled, Exit,
           Crash, Gone, Goto, TakeMessage
  <1>3. NoCommandYet'
    BY DEF LInv, TypeOK, NoCommandYet, OpenFails, Garbled, Exit, Crash, Gone,
           Goto, TakeMessage
  <1>4. PowerIsOwned'
    BY DEF LInv, TypeOK, PowerIsOwned, OpenFails, Garbled, Exit, Crash, Gone,
           Goto, TakeMessage
  <1>5. PowerIsMine'
    BY DEF LInv, TypeOK, PowerIsMine, OpenFails, Garbled, Exit, Crash, Gone,
           Goto, TakeMessage
  <1>. QED  BY <1>1, <1>2, <1>3, <1>4, <1>5 DEF LInv

LEMMA NextLock == LInv /\ [Next]_vars => LInv'
  <1>. SUFFICES ASSUME LInv, [Next]_vars PROVE LInv'
    OBVIOUS
  <1>1. CASE UNCHANGED vars
    BY <1>1 DEF vars, LInv, TypeOK, DriverHasLock, Driving, NoCommandYet,
                PowerIsOwned, PowerIsMine
  <1>2. CASE Next
    BY <1>2, WaitingInv, SessionInv, GoneInv DEF Next, Server
  <1>. QED  BY <1>1, <1>2

(* The invariant holds in every behaviour. *)
THEOREM Invariance == Spec => []LInv
  BY InitLock, NextLock, PTL DEF Spec

(* Type correctness of the servers and the lock. *)
THEOREM TypeCorrect == Spec => []TypeOK
  <1>1. LInv => TypeOK
    BY DEF LInv
  <1>. QED  BY <1>1, Invariance, PTL

(* No server's device_open or device_close moves the power line of another *)
(* server's session.                                                       *)
THEOREM PowerIsTheHolders == Spec => []PowerIsMine
  <1>1. LInv => PowerIsMine
    BY DEF LInv
  <1>. QED  BY <1>1, Invariance, PTL

(* A board nobody holds is off, unless a server died holding it.           *)
THEOREM FreeBoardIsOff == Spec => []OffWhenFree
  <1>1. LInv => OffWhenFree
    BY LockAssumption DEF LInv, PowerIsOwned, DriverHasLock, Driving,
                          OffWhenFree
  <1>. QED  BY <1>1, Invariance, PTL

(* Only what a server or its child does to its own lock can change who     *)
(* holds it, and it gives the lock back with its last descriptor.          *)
LEMMA HeldStep ==
  ASSUME TypeOK, HeldBySomebody, NEW s \in Servers,
         \/ Start(s) \/ Send(s) \/ HangUp(s) \/ Server(s) \/ Exec(s)
         \/ Crash(s)
  PROVE  HeldBySomebody'
  <1>. USE LockAssumption DEF TypeOK, HeldBySomebody, Driving
  <1>1. CASE \/ Start(s) \/ Send(s) \/ HangUp(s) \/ SelectBoard(s) \/ Wake(s)
             \/ Check(s)
    BY <1>1 DEF Start, Send, HangUp, SelectBoard, Wake, Check, Goto
  <1>2. CASE Flock(s) \/ Open(s) \/ Leave(s) \/ Close(s)
    BY <1>2 DEF Flock, Open, Leave, Close, Goto
  <1>3. ASSUME \/ \E on \in BOOLEAN : Power(s, on)
               \/ Fork(s)
        PROVE  HeldBySomebody'
    BY <1>3 DEF Power, Fork, TakeMessage
  <1>4. CASE OpenFails(s) \/ Exit(s) \/ Crash(s) \/ Garbled(s)
    <2>1. forking' = forking /\ (UNCHANGED <<pc, lock>> \/ Gone(s))
      BY <1>4 DEF OpenFails, Exit, Crash, Garbled
    <2>. QED  BY <2>1 DEF Gone, Goto
  <1>5. CASE Exec(s)
    BY <1>5 DEF Exec
  <1>. QED  BY <1>1, <1>2, <1>3, <1>4, <1>5 DEF Server

(* A lock that is taken is a living server's or a forked child's: who waits*)
(* for the board waits for somebody.                                       *)
THEOREM LockHasHolder == Spec => []HeldBySomebody
  <1>1. Init => HeldBySomebody
    BY DEF Init, HeldBySomebody
  <1>2. TypeOK /\ HeldBySomebody /\ [Next]_vars => HeldBySomebody'
    <2>. SUFFICES ASSUME TypeOK, HeldBySomebody, [Next]_vars
                  PROVE  HeldBySomebody'
      OBVIOUS
    <2>1. CASE UNCHANGED vars
      BY <2>1 DEF vars, HeldBySomebody, Driving
    <2>2. CASE Next
      BY <2>2, HeldStep DEF Next
    <2>. QED  BY <2>1, <2>2
  <1>. QED  BY <1>1, <1>2, TypeCorrect, PTL DEF Spec
-----------------------------------------------------------------------------
(* Who is in a session, given the lock. *)
LEMMA ActiveFacts ==
  ASSUME LInv
  PROVE  /\ lock = None => Active = {}
         /\ \A s \in Servers : Driving(s) => Active = {s}
  <1>1. lock = None => Active = {}
    BY LockAssumption DEF LInv, DriverHasLock, Active
  <1>2. ASSUME NEW s \in Servers, Driving(s) PROVE Active = {s}
    BY <1>2 DEF LInv, DriverHasLock, Active
  <1>. QED  BY <1>1, <1>2

(* A step that leaves one server's pc outside the session, or changes none *)
(* at all, leaves Active alone.                                            *)
LEMMA SameActive ==
  ASSUME LInv, NEW s \in Servers,
         \A t \in Servers \ {s} : pc'[t] = pc[t],
         Driving(s)' <=> Driving(s)
  PROVE  Active' = Active
  BY DEF Active, Driving

(* Every step of the servers is a step of the serial sessions or invisible.*)
LEMMA StepIsSerial ==
  ASSUME LInv, NEW s \in Servers,
         \/ Start(s) \/ Send(s) \/ HangUp(s) \/ Server(s) \/ Exec(s)
         \/ Crash(s)
  PROVE  [Sessions!Next]_<<Active, power>>
  <1>1. \A t \in Servers \ {s} : pc'[t] = pc[t]
    BY DEF LInv, TypeOK, Start, Send, HangUp, Server, Exec, Crash, SelectBoard,
           Flock, Wake, Check, Open, OpenFails, Power, Fork, Garbled, Leave,
           Close, Exit, Gone, Goto, TakeMessage
  <1>2. CASE \/ Start(s) \/ Send(s) \/ HangUp(s) \/ SelectBoard(s) \/ Wake(s)
             \/ Check(s) \/ Fork(s) \/ Leave(s) \/ Exec(s)
    <2>1. Driving(s)' <=> Driving(s)
      BY <1>2 DEF LInv, TypeOK, Driving, Start, Send, HangUp, SelectBoard,
                  Wake, Check, Fork, Leave, Exec, Goto, TakeMessage
    <2>2. power' = power
      BY <1>2 DEF Start, Send, HangUp, SelectBoard, Wake, Check, Fork, Leave,
                  Exec
    <2>. QED  BY <1>1, <2>1, <2>2, SameActive
  <1>3. CASE Flock(s)
    <2>1. CASE lock = None
      <3>1. Active = {} /\ power' = power
        BY <1>3, <2>1, ActiveFacts DEF Flock
      <3>2. Driving(s)'
        BY <1>3, <2>1 DEF LInv, TypeOK, Driving, Flock, Goto
      <3>3. Active' = {s}
        BY <1>1, <3>1, <3>2 DEF Active, Driving
      <3>. QED  BY <3>1, <3>3 DEF Sessions!Next, Sessions!Begin
    <2>2. CASE lock # None
      <3>1. (Driving(s)' <=> Driving(s)) /\ power' = power
        BY <1>3, <2>2 DEF LInv, TypeOK, Driving, Flock, Goto
      <3>. QED  BY <1>1, <3>1, SameActive
    <2>. QED  BY <2>1, <2>2
  <1>4. CASE Open(s) \/ (\E on \in BOOLEAN : Power(s, on)) \/ Close(s)
    <2>1. Driving(s) /\ Driving(s)' /\ power' \in BOOLEAN
      BY <1>4 DEF LInv, TypeOK, Driving, Open, Power, Close, Goto, TakeMessage
    <2>2. Active = {s} /\ Active' = Active
      BY <1>1, <2>1, ActiveFacts, SameActive
    <2>. QED  BY <2>1, <2>2 DEF Sessions!Next, Sessions!Drive
  <1>5. CASE OpenFails(s) \/ Garbled(s) \/ Exit(s) \/ Crash(s)
    <2>1. power' = power
      BY <1>5 DEF OpenFails, Garbled, Exit, Crash
    <2>2. CASE Driving(s)' <=> Driving(s)
      BY <1>1, <2>1, <2>2, SameActive
    <2>3. CASE ~(Driving(s)' <=> Driving(s))
      <3>1. Driving(s) /\ ~Driving(s)'
        BY <1>5, <2>3 DEF LInv, TypeOK, Driving, OpenFails, Garbled, Exit,
                          Crash, Gone, Goto, TakeMessage
      <3>2. Active = {s}
        BY <3>1, ActiveFacts
      <3>3. Active' = {}
        BY <1>1, <3>1, <3>2 DEF Active, Driving
      <3>. QED  BY <2>1, <3>2, <3>3 DEF Sessions!Next, Sessions!End
    <2>. QED  BY <2>2, <2>3
  <1>. QED  BY <1>2, <1>3, <1>4, <1>5 DEF Server

(* device_lock implements serial sessions. *)
THEOREM LockIsSerial == Spec => SessionsAreSerial
  <1>1. Init => Sessions!Init
    BY DEF Init, Sessions!Init, Active, Driving
  <1>2. LInv /\ [Next]_vars => [Sessions!Next]_<<Active, power>>
    <2>. SUFFICES ASSUME LInv, [Next]_vars
                  PROVE  [Sessions!Next]_<<Active, power>>
      OBVIOUS
    <2>1. CASE UNCHANGED vars
      BY <2>1 DEF vars, Active, Driving
    <2>2. CASE Next
      BY <2>2, StepIsSerial DEF Next
    <2>. QED  BY <2>1, <2>2
  <1>. QED
    BY <1>1, <1>2, Invariance, PTL DEF Spec, SessionsAreSerial, Sessions!Spec
=============================================================================
