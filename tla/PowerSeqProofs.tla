--------------------------- MODULE PowerSeqProofs ---------------------------
(***************************************************************************)
(* The power-on sequence, for every set of board configurations, all       *)
(* delays and any number of commands, crashes and sessions.                *)
(***************************************************************************)
EXTENDS PowerSeq, SequenceTheorems, TLAPS

Timer == [due : Nat, cb : Callbacks]

(* list_add at the tail. *)
LEMMA AddFacts ==
  ASSUME NEW ts \in Seq(Timer), NEW t \in Nat, NEW d \in Nat,
         NEW cb \in Callbacks
  PROVE  /\ TimerAdd(ts, t, d, cb) \in Seq(Timer)
         /\ Len(TimerAdd(ts, t, d, cb)) = Len(ts) + 1
         /\ TimerAdd(ts, t, d, cb)[Len(ts) + 1] = [due |-> t + d, cb |-> cb]
         /\ \A i \in 1 .. Len(ts) : TimerAdd(ts, t, d, cb)[i] = ts[i]
  <1>1. [due |-> t + d, cb |-> cb] \in Timer
    BY DEF Timer
  <1>. QED  BY <1>1 DEF TimerAdd

(* list_del of the timer at position i. *)
LEMMA DelFacts ==
  ASSUME NEW ts \in Seq(Timer), NEW i \in 1 .. Len(ts)
  PROVE  /\ TimerDel(ts, i) \in Seq(Timer)
         /\ Len(TimerDel(ts, i)) = Len(ts) - 1
         /\ \A j \in 1 .. (i - 1) : TimerDel(ts, i)[j] = ts[j]
         /\ \A j \in i .. (Len(ts) - 1) : TimerDel(ts, i)[j] = ts[j + 1]
  <1>. DEFINE a == SubSeq(ts, 1, i - 1)
              b == SubSeq(ts, i + 1, Len(ts))
  <1>1. a \in Seq(Timer) /\ Len(a) = i - 1 /\ \A j \in 1 .. (i - 1) : a[j] = ts[j]
    OBVIOUS
  <1>2. b \in Seq(Timer) /\ Len(b) = Len(ts) - i
        /\ \A j \in 1 .. (Len(ts) - i) : b[j] = ts[i + j]
    OBVIOUS
  <1>3. TimerDel(ts, i) = a \o b
    BY DEF TimerDel, RemoveAt
  <1>. HIDE DEF a, b
  <1>4. a \o b \in Seq(Timer) /\ Len(a \o b) = Len(ts) - 1
    <2>1. a \o b \in Seq(Timer) /\ Len(a \o b) = Len(a) + Len(b)
      BY <1>1, <1>2, ConcatProperties
    <2>2. Len(ts) \in Nat /\ i \in Nat
      OBVIOUS
    <2>. QED  BY <1>1, <1>2, <2>1, <2>2
  <1>5. \A j \in 1 .. (i - 1) : (a \o b)[j] = ts[j]
    BY <1>1, <1>2
  <1>6. \A j \in i .. (Len(ts) - 1) : (a \o b)[j] = ts[j + 1]
    <2>1. TAKE j \in i .. (Len(ts) - 1)
    <2>2. (a \o b)[j] = b[j - (i - 1)]
      BY <1>1, <1>2
    <2>3. b[j - (i - 1)] = ts[i + (j - (i - 1))]
      BY <1>2
    <2>. QED  BY <2>2, <2>3
  <1>. QED  BY <1>3, <1>4, <1>5, <1>6

(* The timers left when the one at position i is deleted: the others, each *)
(* at its place or one place earlier.                                      *)
Before(m, i) == IF m < i THEN m ELSE m + 1

LEMMA DelMembers ==
  ASSUME NEW ts \in Seq(Timer), NEW i \in 1 .. Len(ts)
  PROVE  /\ \A m \in 1 .. Len(TimerDel(ts, i)) :
              /\ Before(m, i) \in 1 .. Len(ts)
              /\ Before(m, i) # i
              /\ TimerDel(ts, i)[m] = ts[Before(m, i)]
         /\ \A j \in 1 .. Len(ts) : j # i =>
              \E m \in 1 .. Len(TimerDel(ts, i)) : TimerDel(ts, i)[m] = ts[j]
  <1>. DEFINE D == TimerDel(ts, i)
  <1>1. /\ Len(D) = Len(ts) - 1
        /\ \A j \in 1 .. (i - 1) : D[j] = ts[j]
        /\ \A j \in i .. (Len(ts) - 1) : D[j] = ts[j + 1]
    BY DelFacts
  <1>. HIDE DEF D
  <1>2. ASSUME NEW m \in 1 .. Len(D)
        PROVE  /\ Before(m, i) \in 1 .. Len(ts)
               /\ Before(m, i) # i
               /\ D[m] = ts[Before(m, i)]
    <2>1. CASE m < i
      BY <1>1, <2>1 DEF Before
    <2>2. CASE m >= i
      BY <1>1, <2>2 DEF Before
    <2>. QED  BY <2>1, <2>2
  <1>3. ASSUME NEW j \in 1 .. Len(ts), j # i
        PROVE  \E m \in 1 .. Len(D) : D[m] = ts[j]
    <2>1. CASE j < i
      BY <1>1, <2>1
    <2>2. CASE j > i
      <3>1. j - 1 \in 1 .. Len(D) /\ D[j - 1] = ts[j]
        BY <1>1, <2>2
      <3>. QED  BY <3>1
    <2>. QED  BY <1>3, <2>1, <2>2
  <1>. QED  BY <1>2, <1>3 DEF D
-----------------------------------------------------------------------------
(* A power-on is owed from START until CONNECT runs. *)
OwedUntilConnect == owed <=> state = "connect"

PowerInv == /\ last = "off" => ~power /\ ~owed
            /\ last = "on" => power \/ owed

(* A key nobody moved has no release of a pulse outstanding. *)
TouchedInv == \A k \in Keys : Pending(timers, k) => touched[k]

StartInv == state = "start" => ~TickPending

(* Between sessions no power-on is under way. *)
DownInv == ~Up => state = "start"

(* Without overlap there is one chain of ticks, and its last tick is not   *)
(* due before the fastboot key was held long enough.                       *)
HoldInv ==
  /\ cutoff <= now /\ connectAt <= now
  /\ ~overlap =>
       /\ \A i, j \in 1 .. Len(timers) :
            timers[i].cb = "tick" /\ timers[j].cb = "tick" => i = j
       /\ state = "release_fastboot" =>
            \A i \in 1 .. Len(timers) :
              timers[i].cb = "tick" => timers[i].due >= connectAt + FbDelay

PInv == TypeOK /\ OwedUntilConnect /\ NeverStuck /\ PowerInv /\ KeysMatchState
        /\ TouchedInv /\ StartInv /\ HoldInv /\ DownInv
-----------------------------------------------------------------------------
LEMMA InitPInv == Init => PInv
  <1>. SUFFICES ASSUME Init PROVE PInv
    OBVIOUS
  <1>1. TypeOK
    <2>1. timers \in Seq([due : Nat, cb : Callbacks])
      BY DEF Init
    <2>2. key \in [Keys -> BOOLEAN] /\ touched \in [Keys -> BOOLEAN]
      BY Zenon DEF Init
    <2>3. power \in BOOLEAN /\ usb \in BOOLEAN /\ owed \in BOOLEAN
          /\ statusOn \in BOOLEAN /\ overlap \in BOOLEAN
      BY Zenon DEF Init
    <2>. QED  BY <2>1, <2>2, <2>3 DEF Init, TypeOK, States, TickStates
  <1>2. timers = <<>> /\ Len(timers) = 0
    BY DEF Init
  <1>3. \A cb : ~Pending(timers, cb)
    BY <1>2 DEF Pending
  <1>4. KeysMatchState /\ NeverStuck /\ StartInv /\ TouchedInv
    BY <1>3 DEF Init, KeysMatchState, NeverStuck, StartInv, TouchedInv,
                TickPending, TickStates
  <1>5. OwedUntilConnect /\ PowerInv /\ HoldInv /\ DownInv
    BY <1>2 DEF Init, OwedUntilConnect, PowerInv, HoldInv, DownInv
  <1>. QED  BY <1>1, <1>4, <1>5 DEF PInv

(* Steps that leave the state machine, its timers and the keys alone.      *)
LEMMA QuietInv ==
  ASSUME PInv, TypeOK',
         UNCHANGED <<dev, key, timers, state, owed, overlap, connectAt>>,
         UNCHANGED <<power, last>>
           \/ (last' # "on" /\ (last' = "off" => ~power' /\ ~owed)),
         touched' = touched,
         cutoff' <= now' /\ connectAt <= now',
         Up'
  PROVE  PInv'
  <1>1. OwedUntilConnect' /\ NeverStuck' /\ KeysMatchState' /\ TouchedInv'
        /\ StartInv'
    BY DEF PInv, OwedUntilConnect, NeverStuck, KeysMatchState, TouchedInv,
           StartInv, TickPending, Pending
  <1>2. PowerInv'
    BY DEF PInv, PowerInv
  <1>3. HoldInv' /\ DownInv'
    BY DEF PInv, HoldInv, DownInv
  <1>. QED  BY <1>1, <1>2, <1>3 DEF PInv

(* device_power_on starts a chain of its own.                              *)
LEMMA PowerOnInv ==
  ASSUME PInv, PowerOn, UNCHANGED <<dev, loop>>, ops' \in Nat, Up
  PROVE  PInv'
  <1>. DEFINE n == Len(timers)
  <1>0. TypeOK /\ timers \in Seq(Timer) /\ now \in Nat /\ ConnectDelay \in Nat
        /\ "tick" \in Callbacks /\ Keys \subseteq Callbacks
    BY PowerAssumption DEF PInv, TypeOK, Timer, Callbacks
  <1>1. timers' = TimerAdd(timers, now, ConnectDelay, "tick")
    BY DEF PowerOn, Schedule, DelayTo
  <1>2. /\ timers' \in Seq(Timer) /\ Len(timers') = n + 1
        /\ timers'[n + 1].cb = "tick"
        /\ \A i \in 1 .. n : timers'[i] = timers[i]
    <2>1. timers'[n + 1] = [due |-> now + ConnectDelay, cb |-> "tick"]
      BY <1>0, <1>1, AddFacts
    <2>2. timers' \in Seq(Timer)
      BY <1>0, <1>1, AddFacts
    <2>3. Len(timers') = n + 1
      BY <1>0, <1>1, AddFacts
    <2>4. \A i \in 1 .. n : timers'[i] = timers[i]
      BY <1>0, <1>1 DEF TimerAdd
    <2>. QED  BY <2>1, <2>2, <2>3, <2>4
  <1>3. TypeOK'
    <2>1. key' \in [Keys -> BOOLEAN]
      BY <1>0 DEF PowerOn, WithKey, TypeOK, Keys
    <2>2. touched' \in [Keys -> BOOLEAN] /\ overlap' \in BOOLEAN
      BY DEF PowerOn, TickPending, Pending
    <2>. QED  BY <1>0, <1>2, <2>1, <2>2
              DEF TypeOK, PowerOn, loop, Timer, States, TickStates
  <1>4. OwedUntilConnect' /\ PowerInv'
    BY DEF PowerOn, OwedUntilConnect, PowerInv
  <1>5. TickPending'
    <2>1. n + 1 \in 1 .. Len(timers')
      BY <1>0, <1>2
    <2>. QED  BY <1>2, <2>1 DEF TickPending, Pending
  <1>6. NeverStuck' /\ StartInv'
    BY <1>5 DEF PowerOn, NeverStuck, StartInv
  <1>7. KeysMatchState'
    BY <1>0 DEF PowerOn, KeysMatchState, WithKey, Keys, TypeOK
  <1>8. TouchedInv'
    <2>1. SUFFICES ASSUME NEW k \in Keys, NEW i \in 1 .. Len(timers'),
                          timers'[i].cb = k
                   PROVE  Pending(timers, k)
      BY DEF PowerOn, TouchedInv, Pending
    <2>2. i # n + 1
      BY <1>2, <2>1 DEF Keys
    <2>3. i \in 1 .. n
      BY <1>0, <1>2, <2>2
    <2>. QED  BY <1>2, <2>1, <2>3 DEF Pending
  <1>9. HoldInv'
    <2>1. cutoff' <= now' /\ connectAt' <= now'
      BY DEF PInv, HoldInv, PowerOn, loop
    <2>2. state' # "release_fastboot"
      BY DEF PowerOn
    <2>3. ASSUME ~overlap', NEW i \in 1 .. Len(timers'), timers'[i].cb = "tick"
          PROVE  i = n + 1
      <3>1. ~TickPending
        BY <2>3 DEF PowerOn
      <3>2. i \in 1 .. n => timers[i].cb = "tick"
        BY <1>2, <2>3
      <3>. QED  BY <1>0, <1>2, <2>3, <3>1, <3>2 DEF TickPending, Pending
    <2>. QED  BY <2>1, <2>2, <2>3 DEF HoldInv
  <1>17. DownInv'
    BY DEF DownInv, Up, loop
  <1>. QED  BY <1>17, <1>3, <1>4, <1>6, <1>7, <1>8, <1>9 DEF PInv

(* msg_key_press moves one key, and a pulse schedules its release.         *)
LEMMA KeyPressInv ==
  ASSUME PInv, NEW k \in Keys, NEW s \in {"press", "release", "pulse"},
         KeyPress(k, s), UNCHANGED <<dev, loop>>, ops' \in Nat, Up
  PROVE  PInv'
  <1>. DEFINE n == Len(timers)
  <1>0. TypeOK /\ timers \in Seq(Timer) /\ now \in Nat /\ PulseDelay \in Nat
        /\ k \in Callbacks /\ k # "tick" /\ n \in Nat
    BY PowerAssumption DEF PInv, TypeOK, Timer, Callbacks, Keys
  <1>1. \/ timers' = timers
        \/ timers' = TimerAdd(timers, now, PulseDelay, k)
    BY DEF KeyPress
  <1>2. /\ timers' \in Seq(Timer)
        /\ \A i \in 1 .. n : timers'[i] = timers[i]
        /\ Len(timers') = n \/ (Len(timers') = n + 1 /\ timers'[n + 1].cb = k)
    <2>1. CASE timers' = timers
      BY <1>0, <2>1
    <2>2. CASE timers' = TimerAdd(timers, now, PulseDelay, k)
      <3>1. timers'[n + 1] = [due |-> now + PulseDelay, cb |-> k]
        BY <1>0, <2>2, AddFacts
      <3>2. timers' \in Seq(Timer)
        BY <1>0, <2>2, AddFacts
      <3>3. Len(timers') = n + 1
        BY <1>0, <2>2, AddFacts
      <3>4. \A i \in 1 .. n : timers'[i] = timers[i]
        BY <1>0, <2>2 DEF TimerAdd
      <3>. QED  BY <3>1, <3>2, <3>3, <3>4
    <2>. QED  BY <1>1, <2>1, <2>2
  <1>3. TypeOK'
    <2>1. key' \in [Keys -> BOOLEAN] /\ touched' \in [Keys -> BOOLEAN]
      BY <1>0 DEF KeyPress, WithKey, TypeOK
    <2>. QED  BY <1>0, <1>2, <2>1 DEF TypeOK, KeyPress, loop, Timer
  <1>4. OwedUntilConnect' /\ PowerInv'
    BY DEF PInv, KeyPress, OwedUntilConnect, PowerInv
  <1>5. TickPending' <=> TickPending
    <2>1. \A i \in 1 .. Len(timers') : timers'[i].cb = "tick" => i \in 1 .. n
      BY <1>0, <1>2
    <2>2. \A i \in 1 .. n : i \in 1 .. Len(timers')
      BY <1>0, <1>2
    <2>. QED  BY <1>2, <2>1, <2>2 DEF TickPending, Pending
  <1>6. NeverStuck' /\ StartInv'
    BY <1>5 DEF PInv, KeyPress, NeverStuck, StartInv
  <1>7. KeysMatchState'
    BY <1>0 DEF PInv, KeyPress, KeysMatchState, WithKey, TypeOK, Keys
  <1>8. TouchedInv'
    <2>1. SUFFICES ASSUME NEW q \in Keys, NEW i \in 1 .. Len(timers'),
                          timers'[i].cb = q
                   PROVE  touched'[q]
      BY DEF TouchedInv, Pending
    <2>2. CASE i \in 1 .. n
      <3>1. Pending(timers, q)
        BY <1>2, <2>1, <2>2 DEF Pending
      <3>2. touched[q]
        BY <3>1 DEF PInv, TouchedInv
      <3>. QED  BY <1>0, <3>2 DEF KeyPress, TypeOK
    <2>3. CASE i \notin 1 .. n
      <3>1. q = k
        BY <1>0, <1>2, <2>1, <2>3
      <3>. QED  BY <1>0, <3>1 DEF KeyPress, TypeOK
    <2>. QED  BY <2>2, <2>3
  <1>9. HoldInv'
    <2>1. UNCHANGED <<cutoff, now, connectAt, state, overlap>>
      BY DEF KeyPress, loop
    <2>2. \A i \in 1 .. Len(timers') :
            timers'[i].cb = "tick" => i \in 1 .. n /\ timers[i] = timers'[i]
      BY <1>0, <1>2
    <2>. QED  BY <2>1, <2>2 DEF PInv, HoldInv
  <1>17. DownInv'
    BY DEF DownInv, Up, loop
  <1>. QED  BY <1>17, <1>3, <1>4, <1>6, <1>7, <1>8, <1>9 DEF PInv

(* What FireTick does to the list: its own timer goes, and unless the      *)
(* sequence is over the next tick has been put at the tail.                *)
LEMMA FireTickTimers ==
  ASSUME TypeOK, FireTick
  PROVE  \E ts \in Seq(Timer) :
           /\ timers' = TimerDel(ts, cursor)
           /\ cursor \in 1 .. Len(timers) /\ cursor \in 1 .. Len(ts)
           /\ \A i \in 1 .. Len(timers) : ts[i] = timers[i]
           /\ state' = "running" => Len(ts) = Len(timers)
           /\ state' # "running" =>
                /\ Len(ts) = Len(timers) + 1
                /\ ts[Len(timers) + 1] =
                     [due |-> now + DelayTo(state'), cb |-> "tick"]
  <1>0. timers \in Seq(Timer) /\ cursor \in 1 .. Len(timers) /\ now \in Nat
        /\ "tick" \in Callbacks /\ DelayTo(state') \in Nat
    BY PowerAssumption
       DEF TypeOK, FireTick, AtTimer, Timer, Callbacks, DelayTo
  <1>1. CASE state' = "running"
    <2>1. timers' = TimerDel(timers, cursor)
      BY <1>1 DEF FireTick, Schedule
    <2>. QED  BY <1>0, <1>1, <2>1
  <1>2. CASE state' # "running"
    <2>. DEFINE ts == TimerAdd(timers, now, DelayTo(state'), "tick")
    <2>1. timers' = TimerDel(ts, cursor)
      BY <1>2 DEF FireTick, Schedule, AfterTick
    <2>2. ts \in Seq(Timer)
      BY <1>0, AddFacts
    <2>3. Len(ts) = Len(timers) + 1
      BY <1>0, AddFacts
    <2>4. ts[Len(timers) + 1] = [due |-> now + DelayTo(state'), cb |-> "tick"]
      BY <1>0 DEF TimerAdd
    <2>5. \A i \in 1 .. Len(timers) : ts[i] = timers[i]
      BY <1>0 DEF TimerAdd
    <2>. HIDE DEF ts
    <2>6. cursor \in 1 .. Len(ts)
      BY <1>0, <2>3
    <2>. QED  BY <1>0, <1>2, <2>1, <2>2, <2>3, <2>4, <2>5, <2>6
  <1>. QED  BY <1>1, <1>2

(* A scheduled device_tick.                                                *)
LEMMA FireTickInv ==
  ASSUME PInv, FireTick
  PROVE  PInv'
  <1>0. PICK ts \in Seq(Timer) :
           /\ timers' = TimerDel(ts, cursor)
           /\ cursor \in 1 .. Len(timers) /\ cursor \in 1 .. Len(ts)
           /\ \A i \in 1 .. Len(timers) : ts[i] = timers[i]
           /\ state' = "running" => Len(ts) = Len(timers)
           /\ state' # "running" =>
                /\ Len(ts) = Len(timers) + 1
                /\ ts[Len(timers) + 1] =
                     [due |-> now + DelayTo(state'), cb |-> "tick"]
    BY FireTickTimers DEF PInv
  <1>1. PICK n \in Nat, c \in Nat :
             n = Len(timers) /\ c = cursor /\ c \in 1 .. n
    <2>1. Len(timers) \in Nat
      BY DEF PInv, TypeOK
    <2>. QED  BY <1>0, <2>1
  <1>2. TypeOK /\ timers[c].cb = "tick" /\ timers[c].due < cutoff
        /\ timers \in Seq(Timer) /\ cutoff \in Nat /\ now \in Nat
        /\ timers[c].due \in Nat
    <2>1. TypeOK /\ timers \in Seq(Timer) /\ cutoff \in Nat /\ now \in Nat
      BY DEF PInv, TypeOK, Timer
    <2>2. timers[c] \in Timer
      BY <1>1, <2>1
    <2>3. timers[c].due \in Nat
      BY <2>2 DEF Timer
    <2>4. timers[c].cb = "tick" /\ timers[c].due < cutoff
      BY <1>1 DEF FireTick, Due
    <2>. QED  BY <2>1, <2>3, <2>4
  <1>3. TickPending
    BY <1>1, <1>2 DEF TickPending, Pending
  <1>4. state \in TickStates \cup {"running"}
    BY <1>2, <1>3 DEF PInv, StartInv, TypeOK, States
  <1>5. timers' \in Seq(Timer)
    BY <1>0, DelFacts
  <1>6. \A m \in 1 .. Len(timers') :
          /\ Before(m, c) \in 1 .. Len(ts) /\ Before(m, c) # c
          /\ timers'[m] = ts[Before(m, c)]
    BY <1>0, <1>1, DelMembers
  <1>7. \A j \in 1 .. Len(ts) : j # c =>
          \E m \in 1 .. Len(timers') : timers'[m] = ts[j]
    BY <1>0, <1>1, DelMembers
  <1>8. state' = AfterTick /\ state' \in States
    BY <1>4 DEF FireTick, AfterTick, States, TickStates
  <1>9. TypeOK'
    <2>1. key' \in [Keys -> BOOLEAN]
      BY <1>2 DEF FireTick, WithKey, TickPower, TypeOK, Keys
    <2>. QED  BY <1>2, <1>5, <1>8, <2>1 DEF TypeOK, FireTick, loop, Timer
  <1>10. OwedUntilConnect' /\ PowerInv'
    BY <1>2, <1>4 DEF PInv, FireTick, AfterTick, OwedUntilConnect, PowerInv, TypeOK,
                TickStates
  <1>11. state' # "running" => TickPending'
    <2>1. SUFFICES ASSUME state' # "running" PROVE TickPending'
      OBVIOUS
    <2>2. n + 1 \in 1 .. Len(ts) /\ n + 1 # c /\ ts[n + 1].cb = "tick"
      BY <1>0, <1>1, <2>1
    <2>. QED  BY <1>7, <2>2 DEF TickPending, Pending
  <1>12. NeverStuck' /\ StartInv'
    BY <1>4, <1>8, <1>11 DEF NeverStuck, StartInv, TickStates, AfterTick
  <1>13. KeysMatchState'
    BY <1>2, <1>4, <1>8
       DEF PInv, FireTick, AfterTick, TickPower, KeysMatchState, WithKey,
           TypeOK, Keys, TickStates
  <1>14. \A m \in 1 .. Len(timers') :
           \/ timers'[m].cb = "tick" /\ m = n /\ state' # "running"
                /\ timers'[m].due = now + DelayTo(state')
           \/ Before(m, c) \in 1 .. n /\ Before(m, c) # c
                /\ timers'[m] = timers[Before(m, c)]
    <2>1. TAKE m \in 1 .. Len(timers')
    <2>2. CASE Before(m, c) \in 1 .. n
      BY <1>0, <1>1, <1>6, <2>2
    <2>3. CASE Before(m, c) \notin 1 .. n
      <3>1. state' # "running" /\ Before(m, c) = n + 1
        BY <1>0, <1>1, <1>6, <2>3
      <3>2. m = n
        BY <1>1, <3>1 DEF Before
      <3>3. timers'[m] = [due |-> now + DelayTo(state'), cb |-> "tick"]
        BY <1>0, <1>1, <1>6, <3>1
      <3>. QED  BY <3>1, <3>2, <3>3
    <2>. QED  BY <2>2, <2>3
  <1>15. TouchedInv'
    <2>1. SUFFICES ASSUME NEW k \in Keys, NEW m \in 1 .. Len(timers'),
                          timers'[m].cb = k
                   PROVE  touched[k]
      BY DEF FireTick, TouchedInv, Pending
    <2>2. k # "tick"
      BY DEF Keys
    <2>3. Pending(timers, k)
      BY <1>1, <1>14, <2>1, <2>2 DEF Pending
    <2>. QED  BY <2>3 DEF PInv, TouchedInv
  <1>16. HoldInv'
    <2>1. cutoff' <= now' /\ connectAt' <= now'
      BY <1>2 DEF PInv, HoldInv, FireTick, loop
    <2>2. ASSUME ~overlap', NEW m \in 1 .. Len(timers'),
                 timers'[m].cb = "tick"
          PROVE  m = n /\ state' # "running"
                   /\ timers'[m].due = now + DelayTo(state')
      <3>1. ~overlap
        BY <2>2 DEF FireTick
      <3>2. \A i \in 1 .. n : timers[i].cb = "tick" => i = c
        BY <1>1, <1>2, <3>1 DEF PInv, HoldInv
      <3>. QED  BY <1>14, <2>2, <3>2
    <2>3. state' = "release_fastboot" =>
            now + DelayTo(state') >= connectAt' + FbDelay
      <3>1. SUFFICES ASSUME state' = "release_fastboot"
                     PROVE  now + FbDelay >= connectAt' + FbDelay
        BY DEF DelayTo
      <3>2. connectAt' \in Nat /\ now' = now /\ FbDelay \in Nat
        BY <1>9, PowerAssumption DEF TypeOK, FireTick, loop
      <3>3. connectAt' <= now
        BY <2>1, <3>2
      <3>4. now \in Nat
        BY <1>2
      <3>5. \A x, y, z \in Nat : x <= y => y + z >= x + z
        OBVIOUS
      <3>. QED  BY <3>2, <3>3, <3>4, <3>5
    <2>. QED  BY <2>1, <2>2, <2>3 DEF HoldInv
  <1>17. DownInv'
    BY DEF DownInv, Up, loop, FireTick, AtTimer
  <1>. QED  BY <1>17, <1>9, <1>10, <1>12, <1>13, <1>15, <1>16 DEF PInv

(* The release that ends a key pulse.                                      *)
LEMMA FireReleaseInv ==
  ASSUME PInv, FireRelease
  PROVE  PInv'
  <1>1. PICK n \in Nat, c \in Nat :
             n = Len(timers) /\ c = cursor /\ c \in 1 .. n
    <2>1. Len(timers) \in Nat
      BY DEF PInv, TypeOK
    <2>. QED  BY <2>1 DEF PInv, TypeOK, FireRelease, AtTimer
  <1>2. TypeOK /\ timers \in Seq(Timer) /\ timers[c].cb \in Keys
        /\ timers' = TimerDel(timers, c)
    BY <1>1 DEF PInv, TypeOK, FireRelease, Timer
  <1>3. touched[timers[c].cb]
    BY <1>1, <1>2 DEF PInv, TouchedInv, Pending
  <1>4. timers' \in Seq(Timer)
    BY <1>1, <1>2, DelFacts
  <1>5. \A m \in 1 .. Len(timers') :
          /\ Before(m, c) \in 1 .. n /\ Before(m, c) # c
          /\ timers'[m] = timers[Before(m, c)]
    BY <1>1, <1>2, DelMembers
  <1>6. \A j \in 1 .. n : j # c =>
          \E m \in 1 .. Len(timers') : timers'[m] = timers[j]
    BY <1>1, <1>2, DelMembers
  <1>7. TypeOK'
    <2>1. key' \in [Keys -> BOOLEAN]
      BY <1>2 DEF FireRelease, WithKey, TypeOK
    <2>. QED  BY <1>2, <1>4, <2>1 DEF TypeOK, FireRelease, loop, hist, Timer
  <1>8. OwedUntilConnect' /\ PowerInv'
    BY DEF PInv, FireRelease, hist, OwedUntilConnect, PowerInv
  <1>9. TickPending' <=> TickPending
    <2>1. TickPending' => TickPending
      BY <1>1, <1>5 DEF TickPending, Pending
    <2>2. TickPending => TickPending'
      <3>1. SUFFICES ASSUME NEW j \in 1 .. n, timers[j].cb = "tick"
                     PROVE  TickPending'
        BY <1>1 DEF TickPending, Pending
      <3>2. j # c
        BY <1>2, <3>1 DEF Keys
      <3>. QED  BY <1>6, <3>1, <3>2 DEF TickPending, Pending
    <2>. QED  BY <2>1, <2>2
  <1>10. NeverStuck' /\ StartInv'
    BY <1>9 DEF PInv, FireRelease, NeverStuck, StartInv
  <1>11. KeysMatchState'
    BY <1>1, <1>2, <1>3 DEF PInv, FireRelease, hist, KeysMatchState, WithKey,
                            TypeOK, Keys
  <1>12. TouchedInv'
    BY <1>1, <1>5 DEF PInv, TouchedInv, Pending, FireRelease, hist
  <1>13. HoldInv'
    <2>1. UNCHANGED <<cutoff, now, connectAt, state, overlap>>
      BY DEF FireRelease, loop, hist
    <2>2. \A m, p \in 1 .. Len(timers') : Before(m, c) = Before(p, c) => m = p
      BY <1>1 DEF Before
    <2>. QED  BY <1>1, <1>5, <2>1, <2>2 DEF PInv, HoldInv
  <1>17. DownInv'
    BY DEF DownInv, Up, loop, FireRelease, AtTimer
  <1>. QED  BY <1>17, <1>7, <1>8, <1>10, <1>11, <1>12, <1>13 DEF PInv
-----------------------------------------------------------------------------
(* The other commands of the client.                                       *)
LEMMA CommandInv == PInv /\ Command => PInv'
  <1>. SUFFICES ASSUME PInv, Command PROVE PInv'
    OBVIOUS
  <1>0. UNCHANGED <<dev, loop>> /\ ops' \in Nat /\ TypeOK /\ Up /\ Up'
    BY DEF Command, PInv, TypeOK, Up, loop
  <1>1. CASE PowerOn
    BY <1>0, <1>1, PowerOnInv
  <1>2. CASE PowerOff
    <2>1. TypeOK'
      <3>1. last' \in {"none", "on", "off", "off_owed"}
        BY <1>2 DEF PowerOff
      <3>. QED  BY <1>0, <1>2, <3>1 DEF PowerOff, TypeOK, loop
    <2>2. last' # "on" /\ (last' = "off" => ~power' /\ ~owed)
      BY <1>2 DEF PowerOff
    <2>3. cutoff' <= now' /\ connectAt <= now'
      BY <1>0 DEF PInv, HoldInv, loop
    <2>. QED  BY <1>0, <1>2, <2>1, <2>2, <2>3, QuietInv DEF PowerOff
  <1>3. ASSUME NEW on \in BOOLEAN, Usb(on) PROVE PInv'
    <2>1. TypeOK'
      BY <1>0, <1>3 DEF Usb, TypeOK, loop, hist
    <2>2. cutoff' <= now' /\ connectAt <= now'
      BY <1>0 DEF PInv, HoldInv, loop
    <2>. QED  BY <1>0, <1>3, <2>1, <2>2, QuietInv DEF Usb, hist
  <1>4. ASSUME NEW k \in Keys, NEW s \in {"press", "release", "pulse"},
               KeyPress(k, s)
        PROVE  PInv'
    BY <1>0, <1>4, KeyPressInv
  <1>5. CASE StatusEnable \/ Boot
    <2>1. TypeOK'
      BY <1>0, <1>5 DEF StatusEnable, Boot, TypeOK, loop, hist, hw
    <2>2. cutoff' <= now' /\ connectAt <= now'
      BY <1>0 DEF PInv, HoldInv, loop
    <2>3. UNCHANGED <<key, power, timers, state, owed, last, touched, overlap,
                      connectAt>>
      BY <1>5 DEF StatusEnable, Boot, hist, hw
    <2>. QED  BY <1>0, <2>1, <2>2, <2>3, QuietInv
  <1>. QED  BY <1>1, <1>2, <1>3, <1>4, <1>5 DEF Command

(* The loop itself, and the passing of time.                               *)
LEMMA LoopInv ==
  PInv /\ (Select \/ SkipTimer \/ TimersDone \/ FdsDone \/ Advance) => PInv'
  <1>. SUFFICES ASSUME PInv,
                       Select \/ SkipTimer \/ TimersDone \/ FdsDone \/ Advance
                PROVE  PInv'
    OBVIOUS
  <1>1. UNCHANGED <<dev, hw, timers, state, statusOn, ops, hist>>
    BY DEF Select, SkipTimer, TimersDone, FdsDone, Advance
  <1>2. cursor \in Nat \ {0} /\ now \in Nat /\ cutoff \in Nat
        /\ cutoff <= now /\ connectAt <= now /\ connectAt \in Nat
    BY DEF PInv, TypeOK, HoldInv
  <1>3. /\ now' \in Nat /\ cutoff' \in Nat /\ cursor' \in Nat \ {0}
        /\ cutoff' <= now' /\ connectAt <= now'
        /\ phase' \in {"exited", "crashed", "select", "timers", "fds"}
    <2>1. CASE Select
      BY <1>2, <2>1 DEF Select
    <2>2. CASE SkipTimer
      BY <1>2, <2>2 DEF SkipTimer, AtTimer
    <2>3. CASE TimersDone
      BY <1>2, <2>3 DEF TimersDone
    <2>4. CASE FdsDone
      BY <1>2, <2>4 DEF FdsDone
    <2>5. CASE Advance
      BY <1>2, <2>5 DEF Advance, PInv, TypeOK
    <2>. QED  BY <2>1, <2>2, <2>3, <2>4, <2>5
  <1>4. TypeOK'
    BY <1>1, <1>3 DEF PInv, TypeOK, hw, hist
  <1>5. Up'
    BY DEF Up, Select, SkipTimer, AtTimer, TimersDone, FdsDone, Advance
  <1>. QED  BY <1>1, <1>3, <1>4, <1>5, QuietInv DEF hw, hist

(* A process ends: its timers go with it, the lines stay.                  *)
LEMMA EndInv == PInv /\ (Close \/ Crash) => PInv'
  <1>. SUFFICES ASSUME PInv, Close \/ Crash PROVE PInv'
    OBVIOUS
  <1>1. Gone /\ TypeOK /\ phase' \in {"exited", "crashed"} /\ ops' \in Nat
    BY DEF Close, Crash, PInv, TypeOK
  <1>2. usb' \in BOOLEAN /\ power' \in BOOLEAN
    BY <1>1 DEF Close, Crash, TypeOK
  <1>3. timers' = <<>> /\ Len(timers') = 0
    BY <1>1 DEF Gone
  <1>4. \A cb : ~Pending(timers', cb)
    BY <1>3 DEF Pending
  <1>5. TypeOK'
    <2>1. touched' \in [Keys -> BOOLEAN]
      BY <1>1, Zenon DEF Gone
    <2>2. timers' \in Seq([due : Nat, cb : Callbacks])
      BY <1>3
    <2>3. statusOn' \in BOOLEAN /\ owed' \in BOOLEAN /\ overlap' \in BOOLEAN
      BY <1>1, Zenon DEF Gone
    <2>4. dev' \in Devices /\ key' \in [Keys -> BOOLEAN]
      BY <1>1 DEF Gone, TypeOK
    <2>5. now' \in Nat /\ cutoff' \in Nat /\ cursor' \in Nat \ {0}
          /\ connectAt' \in Nat
      BY <1>1 DEF Gone
    <2>6. state' \in States /\ last' \in {"none", "on", "off", "off_owed"}
      BY <1>1 DEF Gone, States
    <2>. QED  BY <1>1, <1>2, <2>1, <2>2, <2>3, <2>4, <2>5, <2>6 DEF TypeOK
  <1>6. NeverStuck' /\ TouchedInv' /\ StartInv' /\ KeysMatchState'
    <2>1. ~TickPending' /\ \A k \in Keys : ~Pending(timers', k)
      BY <1>4 DEF TickPending
    <2>. QED  BY <1>1, <2>1
              DEF Gone, NeverStuck, TouchedInv, StartInv, KeysMatchState,
                  TickStates, Pending
  <1>7. OwedUntilConnect' /\ PowerInv' /\ HoldInv' /\ DownInv'
    BY <1>1, <1>3 DEF Gone, OwedUntilConnect, PowerInv, HoldInv, DownInv
  <1>. QED  BY <1>5, <1>6, <1>7 DEF PInv

(* A new process opens the board. *)
LEMMA OpenInv == PInv /\ Open => PInv'
  <1>. SUFFICES ASSUME PInv, Open PROVE PInv'
    OBVIOUS
  <1>1. TypeOK'
    <2>1. last' \in {"none", "on", "off", "off_owed"} /\ ops' \in Nat
      BY DEF Open, PInv, TypeOK
    <2>. QED  BY <2>1 DEF Open, PInv, TypeOK
  <1>2. ~owed
    BY DEF PInv, Open, DownInv, OwedUntilConnect
  <1>3. last' # "on" /\ (last' = "off" => ~power' /\ ~owed)
    BY <1>2 DEF Open
  <1>4. cutoff' <= now' /\ connectAt <= now'
    BY DEF PInv, HoldInv, Open
  <1>5. Up'
    BY DEF Open, Up
  <1>. QED  BY <1>1, <1>3, <1>4, <1>5, QuietInv DEF Open

(* Every step preserves the invariant. *)
LEMMA NextPInv == PInv /\ [Next]_vars => PInv'
  <1>. SUFFICES ASSUME PInv, [Next]_vars PROVE PInv'
    OBVIOUS
  <1>1. CASE UNCHANGED vars
    <2>1. TypeOK' /\ OwedUntilConnect' /\ PowerInv' /\ KeysMatchState'
      BY <1>1 DEF vars, PInv, TypeOK, OwedUntilConnect, PowerInv,
                  KeysMatchState
    <2>2. NeverStuck' /\ TouchedInv' /\ StartInv' /\ HoldInv' /\ DownInv'
      BY <1>1 DEF vars, PInv, NeverStuck, TouchedInv, StartInv, HoldInv,
                  DownInv, Up, TickPending, Pending
    <2>. QED  BY <2>1, <2>2 DEF PInv
  <1>2. CASE Command
    BY <1>2, CommandInv
  <1>3. CASE Select \/ SkipTimer \/ TimersDone \/ FdsDone \/ Advance
    BY <1>3, LoopInv
  <1>4. CASE FireTick
    BY <1>4, FireTickInv
  <1>5. CASE FireRelease
    BY <1>5, FireReleaseInv
  <1>6. CASE Close \/ Crash
    BY <1>6, EndInv
  <1>7. CASE Open
    BY <1>7, OpenInv
  <1>. QED  BY <1>1, <1>2, <1>3, <1>4, <1>5, <1>6, <1>7 DEF Next, Pass

(* The invariant holds in every behaviour. *)
THEOREM Invariance == Spec => []PInv
  <1>. QED  BY InitPInv, NextPInv, PTL DEF Spec

(* Type correctness of the power sequencing. *)
THEOREM TypeCorrect == Spec => []TypeOK
  <1>1. PInv => TypeOK
    BY DEF PInv
  <1>. QED  BY <1>1, Invariance, PTL

(* device_tick always leaves a tick scheduled until RUNNING, however many  *)
(* chains of ticks overlap.                                                *)
THEOREM SequenceNeverStuck == Spec => []NeverStuck
  <1>1. PInv => NeverStuck
    BY DEF PInv
  <1>. QED  BY <1>1, Invariance, PTL

(* After MSG_POWER_OFF the board stays off unless CONNECT was still owed,  *)
(* and a board RUNNING after MSG_POWER_ON is powered.                      *)
THEOREM PowerIsAsCommanded == Spec => []PowerFollowsCommand
  <1>1. PInv => PowerFollowsCommand
    BY DEF PInv, PowerInv, OwedUntilConnect, PowerFollowsCommand
  <1>. QED  BY <1>1, Invariance, PTL

(* The keys the sequence drives are where device->state has them, whatever *)
(* earlier sessions and crashes left on the lines.                         *)
THEOREM KeysAreAsSequenced == Spec => []KeysMatchState
  <1>1. PInv => KeysMatchState
    BY DEF PInv
  <1>. QED  BY <1>1, Invariance, PTL

(* A power-on that overlaps no other holds the fastboot key for the whole  *)
(* of fastboot_key_timeout, however late the timers are found.             *)
THEOREM FastbootKeyIsHeld == Spec => HoldsFastbootKeyAlone
  <1>1. PInv /\ [Next]_vars =>
          (ReleasesFastboot /\ ~overlap => now - connectAt >= FbDelay)
    <2>1. SUFFICES ASSUME PInv, [Next]_vars, ReleasesFastboot, ~overlap
                   PROVE  now - connectAt >= FbDelay
      OBVIOUS
    <2>2. FireTick
      BY <2>1 DEF ReleasesFastboot, Next, vars, Command, PowerOn, PowerOff,
                  Usb, KeyPress, StatusEnable, Boot, Select, Pass, SkipTimer,
                  FireRelease, TimersDone, FdsDone, Advance, Close, Crash,
                  Open, Gone, hist
    <2>3. timers[cursor].cb = "tick" /\ timers[cursor].due < cutoff
          /\ cursor \in 1 .. Len(timers)
      BY <2>1, <2>2 DEF FireTick, AtTimer, Due, PInv, TypeOK
    <2>4. timers[cursor].due >= connectAt + FbDelay /\ cutoff <= now
      BY <2>1, <2>3 DEF PInv, HoldInv, ReleasesFastboot
    <2>5. cutoff \in Nat /\ now \in Nat /\ connectAt \in Nat
          /\ FbDelay \in Nat
      BY <2>1, PowerAssumption DEF PInv, TypeOK
    <2>6. timers \in Seq([due : Nat, cb : Callbacks])
      BY <2>1 DEF PInv, TypeOK
    <2>7. timers[cursor] \in [due : Nat, cb : Callbacks]
      BY <2>3, <2>6, ElementOfSeq
    <2>8. timers[cursor].due \in Nat
      BY <2>7
    <2>. QED  BY <2>3, <2>4, <2>5, <2>8
  <1>. QED  BY <1>1, Invariance, PTL DEF Spec, HoldsFastbootKeyAlone
=============================================================================
