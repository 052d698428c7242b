-------------------------- MODULE ServerLoopProofs --------------------------
(***************************************************************************)
(* What the loop of cdba-server keeps for every set of boards, console     *)
(* answers, read sizes and bounds: it never blocks in a callback, ends     *)
(* only for a cause, asks the debug board with one timer, and reports what *)
(* that board has measured.                                                *)
(***************************************************************************)
EXTENDS ServerLoop, SequenceTheorems, WellFoundedInduction, TLAPS

(* A set of numbers that is not empty has a least one, which Min is. *)
LEMMA Least ==
  ASSUME NEW S \in SUBSET Nat, S # {}
  PROVE  Min(S) \in S /\ \A m \in S : Min(S) <= m
  <1>. DEFINE R == OpToRel(<, Nat)
  <1>1. R = {ss \in Nat \X Nat : ss[1] < ss[2]}
    BY DEF OpToRel
  <1>2. IsWellFoundedOn(R, Nat)
    BY NatLessThanWellFounded
  <1>. HIDE DEF R
  <1>3. PICK n \in S : \A m \in S : ~(<<m, n>> \in R)
    BY <1>2, WFMin
  <1>4. ASSUME NEW m \in S PROVE n <= m
    <2>1. m \in Nat /\ n \in Nat /\ <<m, n>> \notin R
      BY <1>3
    <2>. QED  BY <2>1, <1>1
  <1>. QED  BY <1>4 DEF Min

LEMMA CatSet ==
  ASSUME NEW S, NEW s \in Seq(S), NEW t \in Seq(S)
  PROVE  /\ ToSet(s) = {s[i] : i \in 1 .. Len(s)}
         /\ ToSet(s \o t) = ToSet(s) \cup ToSet(t)
  <1>. DEFINE c == s \o t
  <1>1. /\ c \in Seq(S) /\ Len(c) = Len(s) + Len(t)
        /\ Len(s) \in Nat /\ Len(t) \in Nat
        /\ \A i \in 1 .. Len(s) : c[i] = s[i]
        /\ \A i \in 1 .. Len(t) : c[Len(s) + i] = t[i]
    BY ConcatProperties
  <1>. HIDE DEF c
  <1>2. /\ ToSet(s) = {s[i] : i \in 1 .. Len(s)}
        /\ ToSet(t) = {t[i] : i \in 1 .. Len(t)}
        /\ ToSet(c) = {c[i] : i \in 1 .. Len(c)}
    <2>1. /\ DOMAIN s = 1 .. Len(s) /\ DOMAIN t = 1 .. Len(t)
          /\ DOMAIN c = 1 .. Len(c)
      BY <1>1, LenProperties
    <2>. QED  BY <2>1 DEF ToSet
  <1>3. ASSUME NEW i \in 1 .. Len(c) PROVE c[i] \in ToSet(s) \cup ToSet(t)
    <2>1. CASE i <= Len(s)
      BY <1>1, <1>2, <2>1
    <2>2. CASE i > Len(s)
      <3>1. i - Len(s) \in 1 .. Len(t) /\ i = Len(s) + (i - Len(s))
        BY <1>1, <2>2
      <3>. QED  BY <1>1, <1>2, <3>1
    <2>. QED  BY <2>1, <2>2
  <1>4. ASSUME NEW i \in 1 .. Len(s) PROVE s[i] \in ToSet(c)
    BY <1>1, <1>2
  <1>5. ASSUME NEW i \in 1 .. Len(t) PROVE t[i] \in ToSet(c)
    <2>1. Len(s) + i \in 1 .. Len(c)
      BY <1>1
    <2>. QED  BY <1>1, <1>2, <2>1
  <1>. QED  BY <1>2, <1>3, <1>4, <1>5 DEF c
-----------------------------------------------------------------------------
QcomltType == [state : QcomltStates, mv : Nat, ma : Nat, out : Seq(Nat \X Nat)]
CdbType == [state : CdbStates, num : [1 .. 2 -> Nat], voltage : BOOLEAN,
            voltage_set : Nat, current_actual : Nat, vref : Nat]

LEMMA ValType == \A ch \in Digits : Val(ch) \in 0 .. 9
  <1>. TAKE ch \in Digits
  <1>1. \E i \in 1 .. 10 : DigitChars[i] = ch
    BY DEF Digits, ToSet, DigitChars
  <1>2. (CHOOSE i \in 1 .. 10 : DigitChars[i] = ch) \in 1 .. 10
    BY <1>1
  <1>. QED  BY <1>2 DEF Val

(* A character leaves a parser a parser. *)
LEMMA QcomltPushType ==
  ASSUME NEW p \in QcomltType, NEW ch
  PROVE  QcomltPush(p, ch) \in QcomltType
  <1>1. ASSUME NEW s \in QcomltStates
        PROVE  /\ To(p, s) \in QcomltType
               /\ \A x \in Nat : /\ [To(p, s) EXCEPT !.mv = x] \in QcomltType
                               /\ [To(p, s) EXCEPT !.ma = x] \in QcomltType
    BY DEF To, QcomltType
  <1>2. QcomltStates = {"start", "num", "num_m", "num_mV", "num_mV_num",
                        "num_mV_num_m", "err"}
    BY DEF QcomltStates
  <1>3. /\ \A x \in Nat : /\ [p EXCEPT !.mv = x] \in QcomltType
                         /\ [p EXCEPT !.ma = x] \in QcomltType
    BY DEF QcomltType
  <1>9. /\ p.mv \in Nat /\ p.ma \in Nat /\ p.state \in QcomltStates
        /\ p.out \in Seq(Nat \X Nat)
    BY DEF QcomltType
  <1>4. ASSUME ch \in Digits
        PROVE  /\ [To(p, "num") EXCEPT !.mv = Val(ch)] \in QcomltType
               /\ FirstOfMa(p, ch) \in QcomltType
               /\ [p EXCEPT !.mv = 10 * @ + Val(ch)] \in QcomltType
               /\ [p EXCEPT !.ma = 10 * @ + Val(ch)] \in QcomltType
    <2>0. PICK v \in 0 .. 9 : v = Val(ch)
      BY <1>4, ValType
    <2>1. /\ Val(ch) \in Nat /\ 10 * p.mv + Val(ch) \in Nat
          /\ 10 * p.ma + Val(ch) \in Nat
      BY <1>9, <2>0
    <2>. QED  BY <1>1, <1>2, <1>3, <2>1 DEF FirstOfMa
  <1>5. [p EXCEPT !.out = Append(@, <<p.mv, p.ma>>)] \in QcomltType
    <2>1. Append(p.out, <<p.mv, p.ma>>) \in Seq(Nat \X Nat)
      BY <1>9
    <2>. QED  BY <2>1 DEF QcomltType
  <1>6. CASE p.state \in {"start", "num", "num_m"}
    BY <1>1, <1>2, <1>4, <1>6 DEF QcomltPush
  <1>7. CASE p.state \in {"num_mV", "num_mV_num"}
    BY <1>1, <1>2, <1>4, <1>7 DEF QcomltPush
  <1>8. CASE p.state \in {"num_mV_num_m", "err"}
    BY <1>1, <1>2, <1>5, <1>8 DEF QcomltPush, Resync
  <1>. QED  BY <1>2, <1>9, <1>6, <1>7, <1>8

LEMMA CdbPushType ==
  ASSUME NEW p \in CdbType, NEW ch
  PROVE  CdbPush(p, ch) \in CdbType
  <1>0. CdbStates = {"start", "key", "key_bool", "key_value", "key_o", "key_of",
                     "key_num", "key_num_m", "num", "num_m", "num_mX",
                     "num_mX_", "num_num_m"}
    BY DEF CdbStates
  <1>1. ASSUME NEW s \in CdbStates
        PROVE  /\ To(p, s) \in CdbType
               /\ \A r \in [1 .. 2 -> Nat] : [To(p, s) EXCEPT !.num = r] \in CdbType
               /\ \A v \in BOOLEAN : [To(p, s) EXCEPT !.voltage = v] \in CdbType
               /\ \A x \in Nat :
                    /\ [To(p, s) EXCEPT !.voltage_set = x] \in CdbType
                    /\ [To(p, s) EXCEPT !.current_actual = x] \in CdbType
                    /\ [To(p, s) EXCEPT !.vref = x] \in CdbType
    BY DEF To, CdbType
  <1>2. /\ \A r \in [1 .. 2 -> Nat] : [p EXCEPT !.num = r] \in CdbType
        /\ p.num \in [1 .. 2 -> Nat] /\ p.num[1] \in Nat /\ p.num[2] \in Nat
        /\ p.state \in CdbStates /\ \A s : To(p, s).num = p.num
    BY DEF CdbType, To
  <1>3. ASSUME NEW i \in 1 .. 2, ch \in Digits
        PROVE  /\ Digit(p, i, ch) \in CdbType
               /\ \A s \in CdbStates :
                    [To(p, s) EXCEPT !.num[i] = Val(ch)] \in CdbType
    <2>1. Val(ch) \in Nat /\ 10 * p.num[i] + Val(ch) \in Nat
      BY <1>2, <1>3, ValType
    <2>2. \A x \in Nat : [p.num EXCEPT ![i] = x] \in [1 .. 2 -> Nat]
      BY <1>2
    <2>3. Digit(p, i, ch) \in CdbType
      BY <1>2, <2>1, <2>2 DEF Digit
    <2>4. ASSUME NEW s \in CdbStates
          PROVE  [To(p, s) EXCEPT !.num[i] = Val(ch)] \in CdbType
      BY <1>1, <1>2, <2>1, <2>2
    <2>. QED  BY <2>3, <2>4
  <1>10. 1 \in 1 .. 2 /\ 2 \in 1 .. 2 /\ "num" \in CdbStates /\ "key_num" \in CdbStates
    <2>1. 1 \in 1 .. 2 /\ 2 \in 1 .. 2
      OBVIOUS
    <2>2. "num" \in CdbStates /\ "key_num" \in CdbStates
      BY <1>0
    <2>. QED  BY <2>1, <2>2
  <1>4. Second(p) \in CdbType
    <2>1. [p.num EXCEPT ![2] = 0] \in [1 .. 2 -> Nat] /\ "num_mX_" \in CdbStates
      BY <1>0, <1>2
    <2>. QED  BY <1>1, <1>2, <2>1 DEF Second
  <1>5. CASE p.state \in {"start", "num", "num_m"}
    <2>1. (ch = "v") \in BOOLEAN
      OBVIOUS
    <2>2. [To(p, "num_mX") EXCEPT !.voltage = (ch = "v")] \in CdbType
      BY <1>0, <1>1, <2>1
    <2>3. ch \in Digits
            => /\ [To(p, "num") EXCEPT !.num[1] = Val(ch)] \in CdbType
               /\ Digit(p, 1, ch) \in CdbType
      BY <1>3, <1>10, Zenon
    <2>4. /\ To(p, "key") \in CdbType /\ To(p, "num_m") \in CdbType
          /\ To(p, "start") \in CdbType
      BY <1>0, <1>1
    <2>. QED  BY <1>5, <2>2, <2>3, <2>4 DEF CdbPush
  <1>6. CASE p.state \in {"num_mX", "num_mX_"}
    <2>1. ch \in Digits => Digit(p, 2, ch) \in CdbType
      BY <1>3, <1>10, Zenon
    <2>2. To(p, "num_num_m") \in CdbType /\ To(p, "start") \in CdbType
      BY <1>0, <1>1
    <2>. QED  BY <1>4, <1>6, <2>1, <2>2 DEF CdbPush
  <1>7. CASE p.state = "num_num_m"
    BY <1>0, <1>1, <1>2, <1>7 DEF CdbPush
  <1>8. CASE p.state \in {"key", "key_bool", "key_o", "key_of"}
    BY <1>0, <1>1, <1>8 DEF CdbPush
  <1>9. CASE p.state \in {"key_value", "key_num", "key_num_m"}
    <2>1. ch \in Digits
            => /\ [To(p, "key_num") EXCEPT !.num[1] = Val(ch)] \in CdbType
               /\ Digit(p, 1, ch) \in CdbType
      BY <1>3, <1>10, Zenon
    <2>2. /\ To(p, "key_num_m") \in CdbType /\ To(p, "start") \in CdbType
          /\ [To(p, "start") EXCEPT !.vref = p.num[1]] \in CdbType
      BY <1>0, <1>1, <1>2
    <2>. QED  BY <1>9, <2>1, <2>2 DEF CdbPush
  <1>. QED  BY <1>0, <1>2, <1>5, <1>6, <1>7, <1>8, <1>9
-----------------------------------------------------------------------------
(***************************************************************************)
(* The inductive invariant.                                                *)
(***************************************************************************)
(* What is read of a descriptor, a piece at a time. *)
Texts == Cx!Words \cup {"select", "status", "other"} \cup Digits
           \cup {"m", "V", "sp", "A", "x", "v", "/", "a", ":", "o", "n", "="}

Distinct == \A i, j \in 1 .. Len(watches) : watches[i] = watches[j] => i = j

Typed ==
  /\ dev \in Devices /\ watches \in Seq(Fds) /\ Distinct
  /\ rfds \subseteq Fds /\ pc \in {"select", "visit", "stdin", "control", "ended"}
  /\ at \in 1 .. Len(watches) + 1 /\ left \in Nat /\ quit \in BOOLEAN
  /\ end \in {"", "quit", "select", "client", "console", "control", "status",
              "open"}
  /\ selected \in BOOLEAN /\ enabled \in BOOLEAN /\ gone \in BOOLEAN
  /\ polls \in Nat /\ prints \in Nat
  /\ qcomlt \in QcomltType /\ cdb \in CdbType
  /\ inbox \in [Fds -> Seq(Texts)] /\ hung \in [Fds -> {"open", "eof", "err"}]
  /\ polled \in BOOLEAN /\ noisy \in BOOLEAN
  /\ lines \in 0 .. MaxLines[dev.control]
  /\ msgs \in 0 .. MaxMsgs[dev.control]
  /\ texts \in 0 .. MaxText[dev.control]

(* Before a board is selected only the client is watched; what a client    *)
(* can enable later is not watched yet.                                    *)
Watching ==
  /\ ~selected => ~enabled /\ ToSet(watches) = {"stdin"}
  /\ ~enabled => "status" \notin ToSet(watches)
  /\ ~enabled /\ dev.control = "qcomlt_dbg" => "control" \notin ToSet(watches)

(* A board is selected once, and a console answers once. *)
Streams ==
  /\ ~selected => /\ inbox["stdin"] \in {<<>>, <<"select">>}
                  /\ inbox["console"] = <<>>
  /\ selected => "select" \notin ToSet(inbox["stdin"]) /\ AnswerIsRead

(* Where the loop is: a callback that reads a part at a time belongs to    *)
(* the watch it visits, and what it and the watches ahead of it in this    *)
(* pass have to read is still there.                                       *)
Pass ==
  /\ pc \in {"stdin", "control"} =>
       Set # {} /\ watches[Min(Set)] = pc /\ left \in 1 .. Len(inbox[pc])
  /\ pc \in {"visit", "stdin", "control"} =>
       \A i \in Set : pc = "visit" \/ i # Min(Set) => Readable(watches[i])
  /\ pc \in {"visit", "stdin", "control"} \/ ToSet(watches) # {"stdin"} =>
       rfds \subseteq ToSet(watches)

Timers ==
  /\ polls = IF enabled /\ dev.control = "qcomlt_dbg" THEN 1 ELSE 0
  /\ prints <= 1

(* Why the loop was asked to quit. *)
Causes ==
  /\ hung["stdin"] # "open" => gone
  /\ quit => \/ gone
             \/ ~selected /\ inbox["stdin"] = <<>>
             \/ dev.console = "conmux" /\ hung["console"] = "eof"
  /\ EndsForCause

LInv == Typed /\ Watching /\ Streams /\ Pass /\ Timers /\ Causes

LEMMA TypedOK == Typed => TypeOK
  <1>. SUFFICES ASSUME Typed PROVE TypeOK
    OBVIOUS
  <1>0. watches \in Seq(Fds)
    BY DEF Typed
  <1>1. ToSet(watches) \subseteq Fds
    BY <1>0, LenProperties DEF ToSet
  <1>2. \A i, j \in 1 .. Len(watches) : watches[i] = watches[j] => i = j
    BY DEF Typed, Distinct
  <1>3. qcomlt.state \in QcomltStates /\ cdb.state \in CdbStates
    BY DEF Typed, QcomltType, CdbType
  <1>4. \A f \in Fds : hung[f] \in {"open", "eof", "err"}
    BY DEF Typed
  <1>. QED  BY <1>1, <1>2, <1>3, <1>4 DEF TypeOK, Typed

LEMMA DeviceFacts ==
  ASSUME Typed
  PROVE  /\ dev \in DeviceType /\ dev.control \in Controls
         /\ MaxMsgs[dev.control] \in Nat /\ MaxText[dev.control] \in Nat
         /\ MaxLines[dev.control] \in 0 .. 9
         /\ dev.control = "conmux" <=> dev.console = "conmux"
  BY ServerLoopAssumption DEF Typed, DeviceType

(* Watches are only added, at the end of the list, and are new. *)
Grows ==
  /\ watches' \in Seq(Fds) /\ Len(watches) <= Len(watches')
  /\ \A i \in 1 .. Len(watches) : watches'[i] = watches[i]
  /\ \A i \in 1 .. Len(watches') :
       i \notin 1 .. Len(watches) => watches'[i] \notin ToSet(watches)

LEMMA SetFacts ==
  ASSUME Typed
  PROVE  /\ Set \subseteq 1 .. Len(watches) /\ Set \in SUBSET Nat
         /\ Len(watches) \in Nat
         /\ \A i \in 1 .. Len(watches) : watches[i] \in ToSet(watches)
         /\ Set # {} => /\ Min(Set) \in Set /\ Min(Set) \in at .. Len(watches)
                        /\ \A i \in Set : Min(Set) <= i
  <1>0. watches \in Seq(Fds) /\ at \in 1 .. Len(watches) + 1
    BY DEF Typed
  <1>1. Len(watches) \in Nat /\ at \in Nat /\ at >= 1 /\ DOMAIN watches = 1 .. Len(watches)
    BY <1>0, LenProperties
  <1>2. Set \subseteq 1 .. Len(watches) /\ Set \in SUBSET Nat /\ Set \subseteq at .. Len(watches)
    BY <1>1 DEF Set
  <1>3. Set # {} => Min(Set) \in Set /\ \A i \in Set : Min(Set) <= i
    BY <1>2, Least
  <1>4. \A i \in 1 .. Len(watches) : watches[i] \in ToSet(watches)
    BY <1>1 DEF ToSet
  <1>. QED  BY <1>1, <1>2, <1>3, <1>4

(* The watches that are left to visit after the next one, and after none.  *)
LEMMA SetAfter ==
  ASSUME Typed, Grows, rfds' = rfds, rfds \subseteq ToSet(watches), Set # {}
  PROVE  /\ at' = Min(Set) + 1
              => Set' = Set \ {Min(Set)} /\ at' \in 1 .. Len(watches') + 1
         /\ at' = at => Set' = Set /\ at' \in 1 .. Len(watches') + 1
  <1>. PICK m : m = Min(Set)
    OBVIOUS
  <1>1. /\ Set \subseteq 1 .. Len(watches) /\ Len(watches) \in Nat
        /\ m \in Set /\ m \in at .. Len(watches) /\ \A i \in Set : m <= i
    BY SetFacts
  <1>0. /\ at \in 1 .. Len(watches) + 1 /\ watches' \in Seq(Fds)
        /\ Len(watches) <= Len(watches')
    BY DEF Typed, Grows
  <1>2. at \in Nat /\ at >= 1 /\ Len(watches') \in Nat /\ Len(watches') >= Len(watches)
    BY <1>0, <1>1, LenProperties
  <1>3. Set = {i \in at .. Len(watches) : watches[i] \in rfds}
    BY DEF Set
  <1>4. Set' = {i \in at' .. Len(watches') : watches'[i] \in rfds}
    BY DEF Set
  <1>5. \A i \in 1 .. Len(watches') : watches'[i] \in rfds
          <=> i \in 1 .. Len(watches) /\ watches[i] \in rfds
    BY DEF Grows
  <1>6. ASSUME at' = m + 1
        PROVE  Set' = Set \ {m} /\ at' \in 1 .. Len(watches') + 1
    <2>1. at' \in 1 .. Len(watches') + 1 /\ at' > at
      BY <1>1, <1>2, <1>6
    <2>2. \A i \in at' .. Len(watches') : i \in 1 .. Len(watches') /\ i > m
      BY <1>1, <1>2, <1>6
    <2>3. \A i \in Set' : i \in Set \ {m}
      <3>. TAKE i \in Set'
      <3>1. i \in 1 .. Len(watches) /\ watches[i] \in rfds /\ i > m
        BY <1>4, <1>5, <2>2
      <3>2. i \in at .. Len(watches)
        BY <1>1, <1>2, <3>1
      <3>. QED  BY <1>3, <3>1, <3>2
    <2>4. \A i \in Set \ {m} : i \in Set'
      <3>. TAKE i \in Set \ {m}
      <3>1. i \in 1 .. Len(watches) /\ watches[i] \in rfds /\ i >= m /\ i # m
        BY <1>1, <1>3
      <3>2. i \in at' .. Len(watches') /\ i \in 1 .. Len(watches')
        BY <1>1, <1>2, <1>6, <3>1
      <3>. QED  BY <1>4, <1>5, <3>1, <3>2
    <2>. QED  BY <2>1, <2>3, <2>4
  <1>7. ASSUME at' = at
        PROVE  Set' = Set /\ at' \in 1 .. Len(watches') + 1
    <2>1. at' \in 1 .. Len(watches') + 1
      BY <1>1, <1>2, <1>7
    <2>2. \A i \in at' .. Len(watches') : i \in 1 .. Len(watches')
      BY <1>1, <1>2, <1>7
    <2>3. \A i \in Set' : i \in Set
      <3>. TAKE i \in Set'
      <3>1. i \in 1 .. Len(watches) /\ watches[i] \in rfds /\ i \in at' .. Len(watches')
        BY <1>4, <1>5, <2>2
      <3>2. i \in at .. Len(watches)
        BY <1>1, <1>2, <1>7, <3>1
      <3>. QED  BY <1>3, <3>1, <3>2
    <2>4. \A i \in Set : i \in Set'
      <3>. TAKE i \in Set
      <3>1. i \in 1 .. Len(watches) /\ watches[i] \in rfds /\ i \in at .. Len(watches)
        BY <1>1, <1>3
      <3>2. i \in at' .. Len(watches') /\ i \in 1 .. Len(watches')
        BY <1>1, <1>2, <1>7, <3>1
      <3>. QED  BY <1>4, <1>5, <3>1, <3>2
    <2>. QED  BY <2>1, <2>3, <2>4
  <1>. QED  BY <1>6, <1>7

(* A callback that reads its own descriptor takes nothing from the others. *)
LEMMA CallbackPass ==
  ASSUME Typed, Pass, pc \in {"visit", "stdin", "control"}, Set # {},
         NEW f \in Fds, f = watches[Min(Set)],
         Grows, rfds' = rfds, hung' = hung,
         \A g \in ToSet(watches) : g # f => inbox'[g] = inbox[g],
         \/ pc' = "visit" /\ at' = Min(Set) + 1
         \/ /\ pc' = f /\ f \in {"stdin", "control"} /\ at' = at
            /\ left' \in 1 .. Len(inbox'[f])
         \/ pc' = "ended" /\ at' = at
  PROVE  Pass' /\ at' \in 1 .. Len(watches') + 1
  <1>. PICK m : m = Min(Set)
    OBVIOUS
  <1>. PICK S : S = Set
    OBVIOUS
  <1>1. /\ S \subseteq 1 .. Len(watches) /\ Len(watches) \in Nat
        /\ m \in S /\ S \in SUBSET Nat /\ S # {}
        /\ \A i \in 1 .. Len(watches) : watches[i] \in ToSet(watches)
    BY SetFacts
  <1>2. /\ rfds \subseteq ToSet(watches)
        /\ \A i \in S : i # m => Readable(watches[i])
    BY DEF Pass
  <1>3. ToSet(watches) \subseteq ToSet(watches')
    <2>1. /\ watches \in Seq(Fds) /\ watches' \in Seq(Fds)
          /\ Len(watches) <= Len(watches')
          /\ \A i \in 1 .. Len(watches) : watches'[i] = watches[i]
      BY DEF Grows, Typed
    <2>2. /\ DOMAIN watches = 1 .. Len(watches) /\ Len(watches) \in Nat
          /\ DOMAIN watches' = 1 .. Len(watches') /\ Len(watches') \in Nat
      BY <2>1, LenProperties
    <2>3. \A i \in 1 .. Len(watches) : i \in 1 .. Len(watches')
      BY <2>1, <2>2
    <2>. QED  BY <2>1, <2>2, <2>3 DEF ToSet
  <1>4. \A i \in S : i # m => /\ watches'[i] = watches[i]
                             /\ inbox'[watches[i]] = inbox[watches[i]]
    <2>. TAKE i \in S
    <2>1. ASSUME i # m PROVE watches[i] # f /\ watches[i] \in ToSet(watches)
      BY <1>1, <2>1 DEF Typed, Distinct
    <2>. QED  BY <1>1, <2>1 DEF Grows
  <1>5. \A i \in S : i # m => Readable(watches[i])'
    BY <1>2, <1>4 DEF Readable
  <1>6. CASE pc' = "visit" /\ at' = m + 1
    <2>1. Set' = S \ {m} /\ at' \in 1 .. Len(watches') + 1
      BY <1>1, <1>2, <1>6, SetAfter
    <2>. QED  BY <1>2, <1>3, <1>5, <1>6, <2>1 DEF Pass
  <1>7. CASE /\ pc' = f /\ f \in {"stdin", "control"} /\ at' = at
             /\ left' \in 1 .. Len(inbox'[f])
    <2>1. Set' = S /\ at' \in 1 .. Len(watches') + 1
      BY <1>1, <1>2, <1>7, SetAfter
    <2>2. Min(Set') = m /\ watches'[m] = f
      BY <1>1, <2>1 DEF Grows
    <2>. QED  BY <1>1, <1>2, <1>3, <1>5, <1>7, <2>1, <2>2 DEF Pass
  <1>8. CASE pc' = "ended" /\ at' = at
    <2>1. at' \in 1 .. Len(watches') + 1
      BY <1>1, <1>2, <1>8, SetAfter
    <2>. QED  BY <1>2, <1>3, <1>8, <2>1 DEF Pass
  <1>. QED  BY <1>6, <1>7, <1>8

LEMMA ChosenFacts ==
  ASSUME Typed, NEW f, Chosen(f)
  PROVE  /\ pc = "visit" /\ Set # {} /\ f = watches[Min(Set)]
         /\ f \in ToSet(watches) /\ f \in Fds
  <1>1. pc = "visit" /\ Set # {} /\ f = watches[Min(Set)]
    BY DEF Chosen
  <1>2. Min(Set) \in Set /\ Set \subseteq 1 .. Len(watches)
    BY <1>1, SetFacts
  <1>3. f \in ToSet(watches)
    BY <1>1, <1>2, SetFacts
  <1>4. ToSet(watches) \subseteq Fds
    BY TypedOK DEF TypeOK
  <1>. QED  BY <1>1, <1>3, <1>4

LEMMA GrowsSame ==
  ASSUME Typed, watches' = watches
  PROVE  Grows /\ Distinct'
  <1>1. watches \in Seq(Fds) /\ Distinct
    BY DEF Typed
  <1>2. Len(watches) \in Nat
    BY <1>1, LenProperties
  <1>. QED  BY <1>1, <1>2 DEF Grows, Distinct

LEMMA GrowsBy ==
  ASSUME Typed, NEW t \in Seq(Fds), watches' = watches \o t,
         ToSet(t) \cap ToSet(watches) = {},
         \A i, j \in 1 .. Len(t) : t[i] = t[j] => i = j
  PROVE  Grows /\ Distinct' /\ ToSet(watches') = ToSet(watches) \cup ToSet(t)
  <1>0. watches \in Seq(Fds) /\ Distinct
    BY DEF Typed
  <1>1. /\ watches' \in Seq(Fds) /\ Len(watches') = Len(watches) + Len(t)
        /\ Len(watches) \in Nat /\ Len(t) \in Nat
        /\ \A i \in 1 .. Len(watches) : watches'[i] = watches[i]
        /\ \A i \in 1 .. Len(t) : watches'[Len(watches) + i] = t[i]
    BY <1>0, ConcatProperties
  <1>2. /\ ToSet(watches') = ToSet(watches) \cup ToSet(t)
        /\ ToSet(watches) = {watches[i] : i \in 1 .. Len(watches)}
        /\ ToSet(t) = {t[i] : i \in 1 .. Len(t)}
    <2>1. t \in Seq(Fds)
      OBVIOUS
    <2>. QED  BY <1>0, <2>1, CatSet
  <1>3. ASSUME NEW i \in 1 .. Len(watches'), i \notin 1 .. Len(watches)
        PROVE  /\ i - Len(watches) \in 1 .. Len(t)
               /\ watches'[i] = t[i - Len(watches)]
               /\ watches'[i] \notin ToSet(watches)
    <2>1. i - Len(watches) \in 1 .. Len(t) /\ i = Len(watches) + (i - Len(watches))
      BY <1>1, <1>3
    <2>2. watches'[i] = t[i - Len(watches)]
      BY <1>1, <2>1
    <2>. QED  BY <1>2, <2>1, <2>2
  <1>4. ASSUME NEW i \in 1 .. Len(watches'), NEW j \in 1 .. Len(watches'),
               watches'[i] = watches'[j]
        PROVE  i = j
    <2>1. CASE i \in 1 .. Len(watches) /\ j \in 1 .. Len(watches)
      BY <1>0, <1>1, <1>4, <2>1 DEF Distinct
    <2>2. CASE i \in 1 .. Len(watches) /\ j \notin 1 .. Len(watches)
      BY <1>1, <1>2, <1>3, <1>4, <2>2
    <2>3. CASE i \notin 1 .. Len(watches) /\ j \in 1 .. Len(watches)
      BY <1>1, <1>2, <1>3, <1>4, <2>3
    <2>4. CASE i \notin 1 .. Len(watches) /\ j \notin 1 .. Len(watches)
      <3>1. i - Len(watches) = j - Len(watches)
        BY <1>3, <1>4, <2>4
      <3>. QED  BY <1>1, <3>1
    <2>. QED  BY <2>1, <2>2, <2>3, <2>4
  <1>5. Len(watches) <= Len(watches')
    BY <1>1
  <1>. QED  BY <1>1, <1>2, <1>3, <1>4, <1>5 DEF Grows, Distinct

(* Before the loop waits: what it gives to select() is watched. *)
LEMMA ExaminedFacts ==
  ASSUME Typed, Pass
  PROVE  Examined \subseteq ToSet(watches) /\ ~Bad
  <1>1. Examined \subseteq ToSet(watches)
    BY DEF Examined, Pass
  <1>. QED  BY <1>1 DEF Bad, Watched
-----------------------------------------------------------------------------
(* The head of the loop. *)
LEMMA LeaveStep ==
  ASSUME LInv, Leave
  PROVE  LInv'
  <1>0. Typed /\ Pass /\ Causes
    BY DEF LInv
  <1>1. /\ pc = "select" /\ quit /\ pc' = "ended" /\ end' = "quit"
        /\ UNCHANGED <<watches, rfds, at, left, quit, inbox, hung, gone,
                       polled, lines, noisy, msgs, texts, qcomlt, cdb, dev,
                       selected, enabled, polls, prints>>
    BY <1>0, ExaminedFacts DEF Leave, Ended, dv, parsers, io, bounds
  <1>2. Typed'
    BY <1>0, <1>1 DEF Typed, Distinct
  <1>3. Pass'
    BY <1>0, <1>1 DEF Pass
  <1>4. Causes'
    BY <1>0, <1>1 DEF Causes, EndsForCause
  <1>. QED  BY <1>1, <1>2, <1>3, <1>4 DEF LInv, Watching, Streams, AnswerIsRead, Timers

LEMMA WakeStep ==
  ASSUME LInv, Wake, quit' = (quit \/ gone) \/ quit' = quit,
         polls' = polls, prints' \in {0, prints}, polled' \in BOOLEAN
  PROVE  LInv'
  <1>0. Typed /\ Pass /\ Causes /\ Timers
    BY DEF LInv
  <1>1. /\ pc = "select" /\ ~quit /\ pc' = "visit" /\ at' = 1
        /\ rfds' = {f \in Examined : Readable(f)}
        /\ UNCHANGED <<watches, left, end, dev, selected, enabled, inbox, hung,
                       gone, lines, noisy, msgs, texts, qcomlt, cdb>>
    BY DEF Wake, parsers, io, bounds
  <1>2. Examined \subseteq ToSet(watches) /\ ToSet(watches) \subseteq Fds
    BY <1>0, ExaminedFacts, TypedOK DEF TypeOK
  <1>3. rfds' \subseteq ToSet(watches) /\ \A f \in rfds' : Readable(f)'
    BY <1>1, <1>2 DEF Readable
  <1>4. Typed'
    <2>1. watches \in Seq(Fds) /\ prints \in Nat /\ quit \in BOOLEAN /\ gone \in BOOLEAN
      BY <1>0 DEF Typed
    <2>2. at' \in 1 .. Len(watches') + 1
      BY <1>1, <2>1, LenProperties
    <2>3. prints' \in Nat /\ quit' \in BOOLEAN /\ rfds' \subseteq Fds
      BY <1>2, <1>3, <2>1
    <2>. QED  BY <1>0, <1>1, <2>2, <2>3 DEF Typed, Distinct
  <1>5. Pass'
    <2>1. \A i \in Set' : watches'[i] \in rfds'
      BY DEF Set
    <2>. QED  BY <1>1, <1>3, <2>1 DEF Pass
  <1>6. Timers'
    BY <1>0, <1>1 DEF Timers
  <1>7. Causes'
    <2>1. quit' => gone
      BY <1>1
    <2>. QED  BY <1>0, <1>1, <2>1 DEF Causes, EndsForCause
  <1>. QED  BY <1>1, <1>4, <1>5, <1>6, <1>7
            DEF LInv, Watching, Streams, AnswerIsRead

LEMMA PassDoneStep ==
  ASSUME LInv, PassDone
  PROVE  LInv'
  <1>0. Typed /\ Pass /\ Causes
    BY DEF LInv
  <1>1. /\ pc = "visit" /\ pc' = "select" /\ at' = 1
        /\ UNCHANGED <<watches, rfds, left, quit, end, inbox, hung, gone,
                       polled, lines, noisy, msgs, texts, qcomlt, cdb, dev,
                       selected, enabled, polls, prints>>
    BY DEF PassDone, dv, parsers, io, bounds
  <1>2. Typed'
    <2>1. watches \in Seq(Fds)
      BY <1>0 DEF Typed
    <2>2. at' \in 1 .. Len(watches') + 1
      BY <1>1, <2>1, LenProperties
    <2>. QED  BY <1>0, <1>1, <2>2 DEF Typed, Distinct
  <1>3. Pass'
    BY <1>0, <1>1 DEF Pass
  <1>4. Causes'
    BY <1>0, <1>1 DEF Causes, EndsForCause
  <1>. QED  BY <1>1, <1>2, <1>3, <1>4 DEF LInv, Watching, Streams, AnswerIsRead, Timers
-----------------------------------------------------------------------------
(* The callbacks other than handle_stdin: each reads its own descriptor,   *)
(* and may ask the loop to quit or end it.                                 *)
LEMMA CallbackStep ==
  ASSUME LInv, NEW f, Chosen(f), f # "stdin",
         UNCHANGED <<watches, rfds, dv, hung, gone, polled, bounds, parsers>>,
         \/ inbox' = inbox
         \/ inbox' = [inbox EXCEPT ![f] = <<>>]
         \/ f = "udev" /\ inbox' = [inbox EXCEPT ![f] = Tail(@)] /\ inbox[f] # <<>>,
         \/ /\ Next1 /\ left' = left
            /\ \/ quit' = (quit \/ gone) \/ quit' = quit
               \/ quit' = TRUE /\ dev.console = "conmux" /\ hung["console"] = "eof"
         \/ /\ UNCHANGED <<quit, left>> /\ Fail(f)
            /\ hung[f] = "err" /\ f \in {"console", "control", "status"}
         \/ /\ f = "control" /\ UNCHANGED <<quit, at, end, inbox>> /\ pc' = "control"
            /\ left' \in 1 .. Len(inbox["control"])
  PROVE  LInv'
  <1>0. Typed /\ Pass /\ Causes /\ Watching /\ Streams /\ Timers
    BY DEF LInv
  <1>1. /\ pc = "visit" /\ Set # {} /\ f = watches[Min(Set)]
        /\ f \in ToSet(watches) /\ f \in Fds
    BY <1>0, ChosenFacts
  <1>2. UNCHANGED <<watches, rfds, hung, gone, polled, lines, noisy, msgs, texts,
                    qcomlt, cdb, dev, selected, enabled, polls, prints>>
    BY DEF dv, parsers, bounds
  <1>3. Grows /\ Distinct'
    BY <1>0, <1>2, GrowsSame
  <1>4. inbox \in [Fds -> Seq(Texts)] /\ left \in Nat
    BY <1>0 DEF Typed
  <1>5. /\ inbox' \in [Fds -> Seq(Texts)]
        /\ \A g \in Fds : g # f => inbox'[g] = inbox[g]
        /\ inbox'["stdin"] = inbox["stdin"]
        /\ inbox'["console"] \in {<<>>, inbox["console"]}
    <2>1. CASE inbox' = inbox
      BY <1>4, <2>1
    <2>2. CASE inbox' = [inbox EXCEPT ![f] = <<>>]
      <3>1. <<>> \in Seq(Texts)
        OBVIOUS
      <3>2. inbox' \in [Fds -> Seq(Texts)]
        BY <1>4, <2>2, <3>1
      <3>3. \A g \in Fds : inbox'[g] = IF g = f THEN <<>> ELSE inbox[g]
        BY <1>4, <2>2
      <3>4. "stdin" \in Fds /\ "console" \in Fds
        BY DEF Fds
      <3>. QED  BY <3>2, <3>3, <3>4
    <2>3. CASE f = "udev" /\ inbox' = [inbox EXCEPT ![f] = Tail(@)] /\ inbox[f] # <<>>
      <3>0. f = "udev" /\ inbox' = [inbox EXCEPT ![f] = Tail(@)] /\ inbox[f] # <<>>
        BY <2>3
      <3>1. inbox[f] \in Seq(Texts)
        BY <1>1, <1>4
      <3>. PICK s : s = inbox[f]
        OBVIOUS
      <3>2. Tail(inbox[f]) \in Seq(Texts)
        BY <3>0, <3>1, HeadTailProperties
      <3>3. \A g \in Fds : inbox'[g] = IF g = f THEN Tail(inbox[f]) ELSE inbox[g]
        BY <1>4, <3>0
      <3>4. inbox' \in [Fds -> Seq(Texts)]
        BY <1>4, <3>0, <3>2
      <3>5. "stdin" \in Fds /\ "console" \in Fds
        BY DEF Fds
      <3>. QED  BY <3>0, <3>3, <3>4, <3>5
    <2>. QED  BY <2>1, <2>2, <2>3
  <1>6. \/ /\ pc' = "visit" /\ at' = Min(Set) + 1 /\ end' = end /\ left' = left
           /\ \/ quit' = (quit \/ gone) \/ quit' = quit
              \/ quit' = TRUE /\ dev.console = "conmux" /\ hung["console"] = "eof"
        \/ /\ pc' = "ended" /\ at' = at /\ quit' = quit /\ left' = left
           /\ end' = f /\ hung[f] = "err" /\ f \in {"console", "control", "status"}
        \/ /\ pc' = "control" /\ at' = at /\ end' = end /\ f = "control"
           /\ quit' = quit /\ inbox' = inbox /\ left' \in 1 .. Len(inbox["control"])
    BY DEF Next1, Fail, Ended
  <1>7. ToSet(watches) \subseteq Fds
    BY <1>0, TypedOK DEF TypeOK
  <1>8. Pass' /\ at' \in 1 .. Len(watches') + 1
    <2>1. \A g \in ToSet(watches) : g # f => inbox'[g] = inbox[g]
      BY <1>5, <1>7
    <2>2. \/ pc' = "visit" /\ at' = Min(Set) + 1
          \/ /\ pc' = f /\ f \in {"stdin", "control"} /\ at' = at
             /\ left' \in 1 .. Len(inbox'[f])
          \/ pc' = "ended" /\ at' = at
      BY <1>6
    <2>. QED  BY <1>0, <1>1, <1>2, <1>3, <2>1, <2>2, CallbackPass
  <1>9. quit' => \/ quit
                 \/ gone
                 \/ dev.console = "conmux" /\ hung["console"] = "eof"
    BY <1>6
  <1>10. quit' \in BOOLEAN /\ left' \in Nat
    <2>1. quit \in BOOLEAN /\ gone \in BOOLEAN
      BY <1>0 DEF Typed
    <2>2. quit' \in BOOLEAN
      BY <1>6, <2>1
    <2>3. left' \in Nat
      BY <1>4, <1>6
    <2>. QED  BY <2>2, <2>3
  <1>11. /\ pc' \in {"select", "visit", "stdin", "control", "ended"}
         /\ end' \in {"", "quit", "select", "client", "console", "control",
                      "status", "open"}
    <2>1. end \in {"", "quit", "select", "client", "console", "control",
                      "status", "open"}
      BY <1>0 DEF Typed
    <2>. QED  BY <1>6, <2>1
  <1>12. Typed'
    BY <1>0, <1>2, <1>3, <1>5, <1>8, <1>10, <1>11 DEF Typed
  <1>13. Streams'
    <2>1. ToSet(<<>>) = {}
      BY DEF ToSet
    <2>2. ToSet(inbox'["console"]) \subseteq ToSet(inbox["console"])
      BY <1>5, <2>1
    <2>. QED  BY <1>0, <1>2, <1>5, <2>2 DEF Streams, AnswerIsRead
  <1>14. Causes'
    <2>1. EndsForCause'
      BY <1>1, <1>2, <1>6 DEF EndsForCause
    <2>. QED  BY <1>0, <1>2, <1>5, <1>9, <2>1 DEF Causes
  <1>15. Watching' /\ Timers'
    BY <1>0, <1>2 DEF Watching, Timers
  <1>. QED  BY <1>8, <1>12, <1>13, <1>14, <1>15 DEF LInv

LEMMA ConsoleDataStep ==
  ASSUME LInv, ConsoleData
  PROVE  LInv'
  <1>1. Chosen("console") /\ UNCHANGED <<watches, rfds, left, dv, hung, gone,
                                         polled, bounds, parsers>>
    BY DEF ConsoleData, Only
  <1>2. \/ /\ inbox' = inbox \/ inbox' = [inbox EXCEPT !["console"] = <<>>]
           /\ quit' = (quit \/ gone) /\ Next1
        \/ /\ hung["console"] = "err" /\ inbox' = inbox /\ quit' = quit
           /\ Fail("console")
    BY DEF ConsoleData, ReadAll, ReadEnd, Send
  <1>. QED  BY <1>1, <1>2, CallbackStep

LEMMA ConmuxDataStep ==
  ASSUME LInv, ConmuxData
  PROVE  LInv'
  <1>1. Chosen("console") /\ UNCHANGED <<watches, rfds, left, dv, hung, gone,
                                         polled, bounds, parsers>>
    BY DEF ConmuxData, Only
  <1>2. \/ /\ inbox' = inbox \/ inbox' = [inbox EXCEPT !["console"] = <<>>]
           /\ Next1
           /\ \/ quit' = (quit \/ gone)
              \/ quit' = TRUE /\ dev.console = "conmux" /\ hung["console"] = "eof"
        \/ /\ hung["console"] = "err" /\ inbox' = inbox /\ quit' = quit
           /\ Fail("console")
    BY DEF ConmuxData, ReadAll, ReadEnd, Send
  <1>. QED  BY <1>1, <1>2, CallbackStep

LEMMA StatusDataStep ==
  ASSUME LInv, StatusData
  PROVE  LInv'
  <1>1. Chosen("status") /\ UNCHANGED <<watches, rfds, left, dv, hung, gone,
                                        polled, bounds, parsers>>
    BY DEF StatusData, Only
  <1>2. \/ /\ inbox' = inbox \/ inbox' = [inbox EXCEPT !["status"] = <<>>]
           /\ quit' = (quit \/ gone) /\ Next1
        \/ /\ hung["status"] = "err" /\ inbox' = inbox /\ quit' = quit
           /\ Fail("status")
    BY DEF StatusData, ReadAll, ReadEnd, Send
  <1>. QED  BY <1>1, <1>2, CallbackStep

LEMMA UdevDataStep ==
  ASSUME LInv, UdevData
  PROVE  LInv'
  <1>1. Chosen("udev") /\ UNCHANGED <<watches, rfds, left, dv, hung, gone,
                                      polled, bounds, parsers>>
    BY DEF UdevData, Only
  <1>2. /\ inbox["udev"] # <<>>
        /\ inbox' = [inbox EXCEPT !["udev"] = Tail(@)]
        /\ quit' = (quit \/ gone) \/ quit' = quit
        /\ Next1
    BY DEF UdevData, Send
  <1>3. left' = left
    BY <1>1
  <1>. QED  BY <1>1, <1>2, <1>3, CallbackStep

(* A read of the parsers finds at least one character of the stream. *)
LEMMA PiecesFacts ==
  ASSUME Typed, NEW size \in Nat, NEW k \in Pieces(size)
  PROVE  k \in 1 .. Len(inbox["control"])
  <1>. PICK n : n = Len(inbox["control"])
    OBVIOUS
  <1>1. n \in Nat
    <2>1. inbox["control"] \in Seq(Texts)
      BY DEF Typed, Fds
    <2>. QED  BY <2>1, LenProperties
  <1>2. Min({n, size}) \in Nat /\ Min({n, size}) <= n
    <2>1. {n, size} \in SUBSET Nat /\ {n, size} # {}
      BY <1>1
    <2>2. Min({n, size}) \in {n, size} /\ \A m \in {n, size} : Min({n, size}) <= m
      BY <2>1, Least
    <2>. QED  BY <1>1, <2>2
  <1>3. \/ k \in ReadSizes /\ k <= Min({n, size})
        \/ k = Min({n, size}) /\ k # 0
    BY DEF Pieces
  <1>4. ReadSizes \subseteq Nat \ {0}
    BY ServerLoopAssumption
  <1>. PICK m : m = Min({n, size})
    OBVIOUS
  <1>5. m \in Nat /\ m <= n /\ ((k \in Nat \ {0} /\ k <= m) \/ (k = m /\ k # 0))
    BY <1>2, <1>3, <1>4
  <1>6. k \in Nat /\ 1 <= k /\ k <= n
    BY <1>1, <1>5
  <1>. QED  BY <1>1, <1>6

LEMMA CtrlDataStep ==
  ASSUME LInv, CtrlData
  PROVE  LInv'
  <1>1. Chosen("control") /\ UNCHANGED <<watches, rfds, quit, dv, hung, gone,
                                         polled, bounds, parsers>>
    BY DEF CtrlData
  <1>2. \/ /\ UNCHANGED <<at, end, inbox>> /\ pc' = "control"
           /\ left' \in 1 .. Len(inbox["control"])
        \/ inbox' = inbox /\ Next1 /\ left' = left
        \/ /\ hung["control"] = "err" /\ inbox' = inbox /\ left' = left
           /\ Fail("control")
    <2>1. ASSUME NEW k \in Pieces(IF dev.control = "cdb_assist" THEN 9 ELSE 64)
          PROVE  k \in 1 .. Len(inbox["control"])
      BY <2>1, PiecesFacts DEF LInv
    <2>. QED  BY <2>1 DEF CtrlData, ReadEnd
  <1>. QED  BY <1>1, <1>2, CallbackStep

LEMMA TailFacts ==
  ASSUME NEW S, NEW s \in Seq(S), s # <<>>
  PROVE  /\ Tail(s) \in Seq(S) /\ Len(Tail(s)) = Len(s) - 1
         /\ Len(s) \in Nat \ {0} /\ Head(s) \in ToSet(s)
         /\ ToSet(Tail(s)) \subseteq ToSet(s)
  <1>1. /\ Len(s) \in Nat \ {0} /\ DOMAIN s = 1 .. Len(s) /\ Head(s) = s[1]
        /\ Tail(s) \in Seq(S) /\ Len(Tail(s)) = Len(s) - 1
    BY LenProperties, HeadTailProperties, EmptySeq
  <1>2. \A i \in 1 .. Len(Tail(s)) : Tail(s)[i] = s[i + 1]
    BY HeadTailProperties
  <1>3. DOMAIN Tail(s) = 1 .. Len(Tail(s))
    BY <1>1, LenProperties
  <1>4. ASSUME NEW i \in DOMAIN Tail(s) PROVE Tail(s)[i] \in ToSet(s)
    <2>1. i + 1 \in DOMAIN s /\ Tail(s)[i] = s[i + 1]
      BY <1>1, <1>2, <1>3
    <2>. QED  BY <2>1 DEF ToSet
  <1>5. Head(s) \in ToSet(s)
    <2>1. 1 \in DOMAIN s
      BY <1>1
    <2>. QED  BY <1>1, <2>1 DEF ToSet
  <1>6. ToSet(Tail(s)) \subseteq ToSet(s)
    BY <1>4 DEF ToSet
  <1>. QED  BY <1>1, <1>5, <1>6

(* A callback that takes the first of what its read returned, and goes on  *)
(* with the rest, or returns, or fails.                                    *)
LEMMA PartPass ==
  ASSUME Typed, Pass, NEW f \in {"stdin", "control"}, pc = f, left' = left - 1,
         Grows, rfds' = rfds, hung' = hung,
         inbox'[f] = Tail(inbox[f]),
         \A g \in ToSet(watches) : g # f => inbox'[g] = inbox[g],
         More \/ Fail("open")
  PROVE  /\ Pass' /\ at' \in 1 .. Len(watches') + 1
         /\ left' \in Nat /\ inbox[f] # <<>> /\ Head(inbox[f]) \in ToSet(inbox[f])
         /\ inbox'[f] \in Seq(Texts) /\ ToSet(inbox'[f]) \subseteq ToSet(inbox[f])
         /\ \/ end' = end /\ pc' \in {"visit", f}
            \/ end' = "open" /\ pc' = "ended"
  <1>1. /\ Set # {} /\ watches[Min(Set)] = f /\ left \in 1 .. Len(inbox[f])
        /\ f \in Fds /\ pc \in {"visit", "stdin", "control"}
    BY DEF Pass, Fds
  <1>. PICK s : s = inbox[f]
    OBVIOUS
  <1>2. s \in Seq(Texts)
    BY <1>1 DEF Typed
  <1>3. Len(s) \in Nat /\ left \in 1 .. Len(s)
    BY <1>1, <1>2, LenProperties
  <1>4. s # <<>>
    <2>1. Len(s) # 0
      BY <1>3
    <2>. QED  BY <1>2, <2>1, EmptySeq
  <1>5. /\ Tail(s) \in Seq(Texts) /\ Len(Tail(s)) = Len(s) - 1
        /\ Head(s) \in ToSet(s) /\ ToSet(Tail(s)) \subseteq ToSet(s)
    BY <1>2, <1>4, TailFacts
  <1>6. left' \in Nat /\ (left > 1 => left' \in 1 .. Len(Tail(s)))
    BY <1>3, <1>5
  <1>7. \/ left > 1 /\ pc' = f /\ at' = at /\ end' = end
        \/ pc' = "visit" /\ at' = Min(Set) + 1 /\ end' = end
        \/ pc' = "ended" /\ at' = at /\ end' = "open"
    BY DEF More, Next1, Fail, Ended
  <1>8. Pass' /\ at' \in 1 .. Len(watches') + 1
    <2>1. \/ pc' = "visit" /\ at' = Min(Set) + 1
          \/ /\ pc' = f /\ f \in {"stdin", "control"} /\ at' = at
             /\ left' \in 1 .. Len(inbox'[f])
          \/ pc' = "ended" /\ at' = at
      BY <1>6, <1>7
    <2>. QED  BY <1>1, <2>1, CallbackPass
  <1>. QED  BY <1>4, <1>5, <1>6, <1>7, <1>8

LEMMA CtrlCharStep ==
  ASSUME LInv, CtrlChar
  PROVE  LInv'
  <1>0. Typed /\ Pass /\ Causes /\ Watching /\ Streams /\ Timers
    BY DEF LInv
  <1>1. /\ pc = "control" /\ left' = left - 1 /\ More
        /\ inbox' = [inbox EXCEPT !["control"] = Tail(inbox["control"])]
        /\ UNCHANGED <<watches, rfds, hung, gone, polled, lines, noisy, msgs,
                       texts, dev, selected, enabled, polls, prints>>
    BY DEF CtrlChar, dv, bounds
  <1>2. Grows /\ Distinct'
    BY <1>0, <1>1, GrowsSame
  <1>3. /\ inbox \in [Fds -> Seq(Texts)]
        /\ "control" \in Fds /\ "stdin" \in Fds /\ "console" \in Fds
    BY <1>0 DEF Typed, Fds
  <1>4. /\ inbox'["control"] = Tail(inbox["control"])
        /\ \A g \in Fds : g # "control" => inbox'[g] = inbox[g]
        /\ DOMAIN inbox' = Fds
    BY <1>1, <1>3
  <1>5. ToSet(watches) \subseteq Fds
    BY <1>0, TypedOK DEF TypeOK
  <1>6. /\ Pass' /\ at' \in 1 .. Len(watches') + 1 /\ left' \in Nat
        /\ inbox'["control"] \in Seq(Texts)
        /\ end' = end /\ pc' \in {"visit", "control"}
    <2>1. \A g \in ToSet(watches) : g # "control" => inbox'[g] = inbox[g]
      BY <1>4, <1>5
    <2>2. "control" \in {"stdin", "control"}
      OBVIOUS
    <2>3. end' = end /\ pc' \in {"visit", "control"}
      BY <1>1 DEF More, Next1
    <2>. QED  BY <1>0, <1>1, <1>2, <1>4, <2>1, <2>2, <2>3, PartPass
  <1>7. /\ inbox' \in [Fds -> Seq(Texts)]
        /\ inbox'["stdin"] = inbox["stdin"] /\ inbox'["console"] = inbox["console"]
    BY <1>1, <1>3, <1>4, <1>6
  <1>8. qcomlt' \in QcomltType /\ cdb' \in CdbType
    <2>1. qcomlt \in QcomltType /\ cdb \in CdbType
      BY <1>0 DEF Typed
    <2>2. /\ qcomlt' \in {qcomlt, QcomltPush(qcomlt, Head(inbox["control"]))}
          /\ cdb' \in {cdb, CdbPush(cdb, Head(inbox["control"]))}
      BY DEF CtrlChar
    <2>. QED  BY <2>1, <2>2, QcomltPushType, CdbPushType
  <1>9. quit' \in BOOLEAN /\ (quit' => quit \/ gone)
    <2>1. quit \in BOOLEAN /\ gone \in BOOLEAN
      BY <1>0 DEF Typed
    <2>2. quit' = (quit \/ gone) \/ quit' = quit
      BY DEF CtrlChar, Send
    <2>. QED  BY <2>1, <2>2
  <1>10. Typed'
    BY <1>0, <1>1, <1>2, <1>6, <1>7, <1>8, <1>9 DEF Typed
  <1>11. Streams'
    BY <1>0, <1>1, <1>7 DEF Streams, AnswerIsRead
  <1>12. Causes'
    BY <1>0, <1>1, <1>6, <1>7, <1>9 DEF Causes, EndsForCause
  <1>13. Watching' /\ Timers'
    BY <1>0, <1>1 DEF Watching, Timers
  <1>. QED  BY <1>6, <1>10, <1>11, <1>12, <1>13 DEF LInv
-----------------------------------------------------------------------------
(* handle_stdin *)
LEMMA StdinReadStep ==
  ASSUME LInv, StdinRead
  PROVE  LInv'
  <1>0. Typed /\ Pass /\ Causes /\ Watching /\ Streams /\ Timers
    BY DEF LInv
  <1>1. /\ Chosen("stdin")
        /\ UNCHANGED <<watches, rfds, quit, inbox, hung, gone, polled, lines,
                       noisy, msgs, texts, qcomlt, cdb, dev, selected, enabled,
                       polls, prints>>
    BY DEF StdinRead, dv, parsers, io, bounds
  <1>2. /\ pc = "visit" /\ Set # {} /\ "stdin" = watches[Min(Set)]
        /\ "stdin" \in ToSet(watches) /\ "stdin" \in Fds
    BY <1>0, <1>1, ChosenFacts
  <1>3. Grows /\ Distinct'
    BY <1>0, <1>1, GrowsSame
  <1>4. inbox["stdin"] \in Seq(Texts) /\ left \in Nat
    BY <1>0, <1>2 DEF Typed
  <1>5. \/ /\ left' \in 1 .. Len(inbox["stdin"]) /\ pc' = "stdin"
           /\ at' = at /\ end' = end
        \/ /\ inbox["stdin"] = <<>> \/ gone
           /\ pc' = "ended" /\ end' = "client"
           /\ at' = at /\ left' = left
    BY DEF StdinRead, Fail, Ended
  <1>6. left' \in Nat
    BY <1>4, <1>5, LenProperties
  <1>7. Pass' /\ at' \in 1 .. Len(watches') + 1
    <2>1. \/ /\ pc' = "stdin" /\ "stdin" \in {"stdin", "control"} /\ at' = at
             /\ left' \in 1 .. Len(inbox'["stdin"])
          \/ pc' = "ended" /\ at' = at
      BY <1>1, <1>5
    <2>2. \A g \in ToSet(watches) : g # "stdin" => inbox'[g] = inbox[g]
      BY <1>1
    <2>. QED  BY <1>0, <1>1, <1>2, <1>3, <2>1, <2>2, CallbackPass
  <1>8. Typed'
    BY <1>0, <1>1, <1>3, <1>5, <1>6, <1>7 DEF Typed
  <1>9. Causes'
    <2>1. Readable("stdin")
      <3>1. Min(Set) \in Set
        BY <1>0, <1>2, SetFacts
      <3>. QED  BY <1>0, <1>2, <3>1 DEF Pass
    <2>2. pc' = "ended" => gone
      BY <1>0, <1>5, <2>1 DEF Readable, Causes
    <2>3. EndsForCause'
      BY <1>1, <1>5, <2>2 DEF EndsForCause
    <2>. QED  BY <1>0, <1>1, <2>3 DEF Causes
  <1>10. Streams' /\ Watching' /\ Timers'
    BY <1>0, <1>1 DEF Streams, AnswerIsRead, Watching, Timers
  <1>. QED  BY <1>7, <1>8, <1>9, <1>10 DEF LInv

(* What is common to the messages. *)
LEMMA MessageStep ==
  ASSUME LInv, NEW m, Message(m), dev' = dev, Grows, Distinct',
         inbox' \in [Fds -> Seq(Texts)],
         inbox'["stdin"] = Tail(inbox["stdin"]),
         \A g \in ToSet(watches) : g # "stdin" => inbox'[g] = inbox[g],
         More \/ Fail("open"),
         selected' \in BOOLEAN, enabled' \in BOOLEAN, quit' \in BOOLEAN,
         polls' \in Nat, prints' \in Nat
  PROVE  /\ Typed' /\ Pass' /\ inbox["stdin"] # <<>>
         /\ ToSet(inbox'["stdin"]) \subseteq ToSet(inbox["stdin"])
         /\ m = "select" => ~selected /\ ~enabled /\ inbox["console"] = <<>>
         /\ ~selected => inbox'["stdin"] = <<>>
         /\ \/ end' = end /\ pc' \in {"visit", "stdin"}
            \/ end' = "open" /\ pc' = "ended"
  <1>0. Typed /\ Pass /\ Streams /\ Watching
    BY DEF LInv
  <1>1. /\ pc = "stdin" /\ Head(inbox["stdin"]) = m /\ left' = left - 1
        /\ UNCHANGED <<rfds, hung, gone, polled, lines, noisy, msgs, texts,
                       qcomlt, cdb>>
    BY DEF Message, parsers, bounds
  <1>2. /\ Pass' /\ at' \in 1 .. Len(watches') + 1
        /\ left' \in Nat /\ inbox["stdin"] # <<>>
        /\ Head(inbox["stdin"]) \in ToSet(inbox["stdin"])
        /\ ToSet(inbox'["stdin"]) \subseteq ToSet(inbox["stdin"])
        /\ \/ end' = end /\ pc' \in {"visit", "stdin"}
           \/ end' = "open" /\ pc' = "ended"
    <2>1. "stdin" \in {"stdin", "control"}
      OBVIOUS
    <2>. QED  BY <1>0, <1>1, <2>1, PartPass
  <1>3. watches' \in Seq(Fds)
    BY DEF Grows
  <1>4. Typed'
    <2>1. /\ pc' \in {"select", "visit", "stdin", "control", "ended"}
          /\ end' \in {"", "quit", "select", "client", "console", "control",
                       "status", "open"}
      <3>1. end \in {"", "quit", "select", "client", "console", "control",
                      "status", "open"}
        BY <1>0 DEF Typed
      <3>. QED  BY <1>2, <3>1
    <2>. QED  BY <1>0, <1>1, <1>2, <1>3, <2>1 DEF Typed
  <1>5. m = "select" => ~selected
    BY <1>0, <1>1, <1>2 DEF Streams
  <1>6. ~selected => ~enabled /\ inbox["console"] = <<>> /\ inbox["stdin"] = <<"select">>
    BY <1>0, <1>2 DEF Streams, Watching
  <1>7. ~selected => inbox'["stdin"] = <<>>
    <2>1. Tail(<<"select">>) = <<>>
      OBVIOUS
    <2>. QED  BY <1>6, <2>1
  <1>. QED  BY <1>2, <1>4, <1>5, <1>6, <1>7

LEMMA HandledFacts ==
  ASSUME Typed, inbox["stdin"] # <<>>, Handled
  PROVE  /\ inbox' \in [Fds -> Seq(Texts)]
         /\ inbox'["stdin"] = Tail(inbox["stdin"])
         /\ \A g \in ToSet(watches) : g # "stdin" => inbox'[g] = inbox[g]
         /\ inbox'["console"] = inbox["console"]
  <1>1. /\ inbox \in [Fds -> Seq(Texts)] /\ ToSet(watches) \subseteq Fds
        /\ inbox' = [inbox EXCEPT !["stdin"] = Tail(inbox["stdin"])]
        /\ "stdin" \in Fds /\ "console" \in Fds
    BY TypedOK DEF Handled, Typed, TypeOK, Fds
  <1>2. Tail(inbox["stdin"]) \in Seq(Texts)
    BY <1>1, TailFacts
  <1>. QED  BY <1>1, <1>2

LEMMA SomethingLeft ==
  ASSUME LInv, NEW m, Message(m)
  PROVE  inbox["stdin"] # <<>>
  <1>0. Typed /\ Pass
    BY DEF LInv
  <1>1. left \in 1 .. Len(inbox["stdin"]) /\ "stdin" \in Fds
    BY <1>0 DEF Pass, Message, Fds
  <1>2. inbox["stdin"] \in Seq(Texts)
    BY <1>0, <1>1 DEF Typed
  <1>3. Len(inbox["stdin"]) # 0
    BY <1>1, <1>2, LenProperties
  <1>. QED  BY <1>2, <1>3, EmptySeq

LEMMA EmptyHas == ToSet(<<>>) = {}
  BY DEF ToSet

LEMMA SelectFailsStep ==
  ASSUME LInv, SelectFails
  PROVE  LInv'
  <1>0. Typed /\ Pass /\ Causes /\ Watching /\ Streams /\ Timers
    BY DEF LInv
  <1>1. /\ Message("select") /\ quit' = TRUE /\ Handled /\ More
        /\ UNCHANGED <<watches, dev, selected, enabled, polls, prints, hung, gone>>
    BY DEF SelectFails, dv, Message
  <1>2. inbox["stdin"] # <<>>
    BY <1>1, SomethingLeft
  <1>3. Grows /\ Distinct'
    BY <1>0, <1>1, GrowsSame
  <1>4. /\ selected' \in BOOLEAN /\ enabled' \in BOOLEAN /\ quit' \in BOOLEAN
        /\ polls' \in Nat /\ prints' \in Nat
    BY <1>0, <1>1 DEF Typed
  <1>5. /\ Typed' /\ Pass' /\ ~selected /\ inbox'["stdin"] = <<>>
        /\ inbox'["console"] = <<>>
        /\ \/ end' = end /\ pc' \in {"visit", "stdin"}
           \/ end' = "open" /\ pc' = "ended"
    BY <1>0, <1>1, <1>2, <1>3, <1>4, MessageStep, HandledFacts
  <1>6. pc' # "ended"
    BY <1>1 DEF More, Next1, Message
  <1>7. Causes'
    BY <1>0, <1>1, <1>5, <1>6 DEF Causes, EndsForCause
  <1>8. Watching' /\ Streams' /\ Timers'
    BY <1>0, <1>1, <1>5 DEF Watching, Streams, Timers
  <1>. QED  BY <1>5, <1>7, <1>8 DEF LInv

LEMMA OtherMessageStep ==
  ASSUME LInv, OtherMessage
  PROVE  LInv'
  <1>0. Typed /\ Pass /\ Causes /\ Watching /\ Streams /\ Timers
    BY DEF LInv
  <1>1. /\ Message("other") /\ quit' = (quit \/ gone) /\ Handled /\ More
        /\ UNCHANGED <<watches, dev, selected, enabled, polls, prints, hung, gone>>
    BY DEF OtherMessage, dv, Message, Send
  <1>2. inbox["stdin"] # <<>>
    BY <1>1, SomethingLeft
  <1>3. Grows /\ Distinct'
    BY <1>0, <1>1, GrowsSame
  <1>4. /\ selected' \in BOOLEAN /\ enabled' \in BOOLEAN /\ quit' \in BOOLEAN
        /\ polls' \in Nat /\ prints' \in Nat
    BY <1>0, <1>1 DEF Typed
  <1>5. /\ Typed' /\ Pass'
        /\ ToSet(inbox'["stdin"]) \subseteq ToSet(inbox["stdin"])
        /\ ~selected => inbox'["stdin"] = <<>>
        /\ inbox'["console"] = inbox["console"]
    BY <1>0, <1>1, <1>2, <1>3, <1>4, MessageStep, HandledFacts
  <1>6. pc' # "ended"
    BY <1>1 DEF More, Next1, Message
  <1>7. Causes'
    <2>1. quit' => quit \/ gone
      BY <1>1
    <2>. QED  BY <1>0, <1>1, <1>2, <1>6, <2>1 DEF Causes, EndsForCause
  <1>8. Streams'
    BY <1>0, <1>1, <1>5 DEF Streams, AnswerIsRead
  <1>9. Watching' /\ Timers'
    BY <1>0, <1>1 DEF Watching, Timers
  <1>. QED  BY <1>5, <1>7, <1>8, <1>9 DEF LInv

(* The watches of an opened board: none of them is watched yet. *)
LEMMA Opens ==
  ASSUME Typed, Watching, ~selected, watches' = watches \o OpenWatches
  PROVE  /\ Grows /\ Distinct'
         /\ "status" \notin ToSet(watches')
         /\ dev.control = "qcomlt_dbg" => "control" \notin ToSet(watches')
  <1>1. ToSet(watches) = {"stdin"}
    BY DEF Watching
  <1>. PICK t : t = OpenWatches
    OBVIOUS
  <1>2. /\ t \in Seq(Fds) /\ ToSet(t) \subseteq {"control", "console", "udev"}
        /\ dev.control = "qcomlt_dbg" => ToSet(t) = {"console", "udev"}
        /\ \A i, j \in 1 .. Len(t) : t[i] = t[j] => i = j
    <2>1. CASE /\ t = <<"control", "console", "udev">>
               /\ dev.control = "cdb_assist"
      <3>1. /\ t \in Seq(Fds) /\ Len(t) = 3
            /\ t[1] = "control" /\ t[2] = "console" /\ t[3] = "udev"
        BY <2>1 DEF Fds
      <3>2. DOMAIN t = 1 .. 3
        BY <3>1, LenProperties
      <3>. QED  BY <2>1, <3>1, <3>2 DEF ToSet
    <2>2. CASE t = <<"console", "udev">>
      <3>1. t \in Seq(Fds) /\ Len(t) = 2 /\ t[1] = "console" /\ t[2] = "udev"
        BY <2>2 DEF Fds
      <3>2. DOMAIN t = 1 .. 2
        BY <3>1, LenProperties
      <3>. QED  BY <3>1, <3>2 DEF ToSet
    <2>. QED  BY <2>1, <2>2 DEF OpenWatches
  <1>3. ToSet(t) \cap ToSet(watches) = {}
    BY <1>1, <1>2
  <1>4. Grows /\ Distinct' /\ ToSet(watches') = ToSet(watches) \cup ToSet(t)
    BY <1>2, <1>3, GrowsBy
  <1>. QED  BY <1>1, <1>2, <1>4

LEMMA SelectBoardStep ==
  ASSUME LInv, SelectBoard
  PROVE  LInv'
  <1>0. Typed /\ Pass /\ Causes /\ Watching /\ Streams /\ Timers
    BY DEF LInv
  <1>1. /\ Message("select") /\ quit' = (quit \/ gone) /\ Handled /\ More
        /\ selected' = TRUE /\ watches' = watches \o OpenWatches
        /\ UNCHANGED <<dev, enabled, polls, prints, hung, gone>>
    BY DEF SelectBoard, Message, Send
  <1>2. inbox["stdin"] # <<>>
    BY <1>1, SomethingLeft
  <1>3. ~selected
    <2>1. Head(inbox["stdin"]) \in ToSet(inbox["stdin"])
      <3>1. inbox["stdin"] \in Seq(Texts)
        BY <1>0 DEF Typed, Fds
      <3>. QED  BY <1>2, <3>1, TailFacts
    <2>. QED  BY <1>0, <1>1, <2>1 DEF Streams, Message
  <1>4. /\ Grows /\ Distinct' /\ "status" \notin ToSet(watches')
        /\ dev.control = "qcomlt_dbg" => "control" \notin ToSet(watches')
    BY <1>0, <1>1, <1>3, Opens
  <1>5. /\ selected' \in BOOLEAN /\ enabled' \in BOOLEAN /\ quit' \in BOOLEAN
        /\ polls' \in Nat /\ prints' \in Nat
    BY <1>0, <1>1 DEF Typed
  <1>6. /\ Typed' /\ Pass' /\ inbox'["stdin"] = <<>> /\ inbox'["console"] = <<>>
    BY <1>0, <1>1, <1>2, <1>3, <1>4, <1>5, MessageStep, HandledFacts
  <1>7. pc' # "ended"
    BY <1>1 DEF More, Next1, Message
  <1>8. Causes'
    <2>1. quit' => quit \/ gone
      BY <1>1
    <2>. QED  BY <1>0, <1>1, <1>2, <1>7, <2>1 DEF Causes, EndsForCause
  <1>9. Streams' /\ Watching' /\ Timers'
    BY <1>0, <1>1, <1>4, <1>6, EmptyHas DEF Streams, AnswerIsRead, Watching, Timers
  <1>. QED  BY <1>6, <1>8, <1>9 DEF LInv

(* What is left of a greeting that was accepted holds no answer. *)
LEMMA AnswerOnce ==
  ASSUME NEW ws \in Greetings, NEW k \in 1 .. Len(ws),
         Cx!Accepts(SubSeq(ws, 1, k)),
         NEW rest, rest = SubSeq(ws, k + 1, Len(ws))
  PROVE  rest \in Seq(Texts) /\ {"ok", "refused"} \cap ToSet(rest) = {}
  <1>1. ws \in Seq(Cx!Words) /\ Cx!Words \subseteq Texts /\ k + 1 \in Int
    <2>1. Greetings \subseteq Seq(Cx!Words)
      BY ServerLoopAssumption
    <2>2. Cx!Words \subseteq Texts
      BY DEF Texts
    <2>. QED  BY <2>1, <2>2
  <1>2. Len(ws) \in Nat /\ \A i \in 1 .. Len(ws) : ws[i] \in Cx!Words
    BY <1>1, LenProperties
  <1>3. \A i, j \in 1 .. Len(ws) : {ws[i], ws[j]} \subseteq {"ok", "refused"} => i = j
    BY ServerLoopAssumption
  <1>. DEFINE head == SubSeq(ws, 1, k)
  <1>4. Len(head) = k /\ \A i \in 1 .. k : head[i] = ws[i]
    BY <1>1, <1>2, SubSeqProperties
  <1>5. PICK i \in 1 .. k : ws[i] = "ok"
    <2>1. \E i \in 1 .. Len(head) : head[i] = "ok"
      BY DEF Cx!Accepts, Cx!Status
    <2>. QED  BY <1>4, <2>1
  <1>6. /\ rest \in Seq(Cx!Words) /\ Len(rest) = Len(ws) - k /\ Len(rest) \in Nat
        /\ \A j \in 1 .. Len(ws) - k : rest[j] = ws[k + j]
    <2>1. /\ k + 1 \in 1 .. Len(ws) + 1 /\ Len(ws) \in (k + 1) - 1 .. Len(ws)
          /\ Len(ws) - (k + 1) + 1 = Len(ws) - k
          /\ \A j \in 1 .. Len(ws) - k : (k + 1) + j - 1 = k + j
          /\ \A j \in k + 1 .. Len(ws) : j \in 1 .. Len(ws)
          /\ k + 1 \in Int /\ Len(ws) \in Int
          /\ k + 1 > Len(ws) => Len(ws) - k = 0
      BY <1>2
    <2>2. \A j \in k + 1 .. Len(ws) : ws[j] \in Cx!Words
      BY <1>2, <2>1
    <2>3. /\ rest \in Seq(Cx!Words)
          /\ Len(rest) = IF k + 1 <= Len(ws) THEN Len(ws) - (k + 1) + 1 ELSE 0
          /\ \A j \in 1 .. Len(ws) - (k + 1) + 1 : rest[j] = ws[(k + 1) + j - 1]
      <3>. PICK m : m = k + 1
        OBVIOUS
      <3>. PICK n : n = Len(ws)
        OBVIOUS
      <3>1. m \in Int /\ n \in Int /\ \A j \in m .. n : ws[j] \in Cx!Words
        BY <2>1, <2>2
      <3>2. rest = SubSeq(ws, m, n)
        OBVIOUS
      <3>. HIDE DEF head
      <3>. QED  BY <3>1, <3>2, SubSeqProperties
    <2>. QED  BY <1>2, <2>1, <2>3
  <1>7. ASSUME NEW j \in 1 .. Len(rest) PROVE rest[j] \notin {"ok", "refused"}
    <2>1. /\ rest[j] = ws[k + j] /\ k + j \in 1 .. Len(ws) /\ k + j # i
          /\ i \in 1 .. Len(ws)
      BY <1>2, <1>5, <1>6
    <2>. QED  BY <1>3, <1>5, <2>1
  <1>8. DOMAIN rest = 1 .. Len(rest) /\ rest \in Seq(Texts)
    <2>1. DOMAIN rest = 1 .. Len(rest) /\ \A j \in 1 .. Len(rest) : rest[j] \in Texts
      BY <1>1, <1>6, LenProperties
    <2>2. rest \in Seq(Cx!Words) /\ Cx!Words \subseteq Texts
      BY <1>1, <1>6
    <2>. QED  BY <2>1, <2>2
  <1>. QED  BY <1>7, <1>8 DEF ToSet

LEMMA SelectConmuxStep ==
  ASSUME LInv, SelectConmux
  PROVE  LInv'
  <1>0. Typed /\ Pass /\ Causes /\ Watching /\ Streams /\ Timers
    BY DEF LInv
  <1>1. /\ Message("select") /\ dev.console = "conmux"
        /\ UNCHANGED <<dev, enabled, polls, prints, hung, gone>>
    BY DEF SelectConmux, Message
  <1>2. inbox["stdin"] # <<>>
    BY <1>1, SomethingLeft
  <1>3. /\ inbox \in [Fds -> Seq(Texts)] /\ "stdin" \in Fds /\ "console" \in Fds
        /\ selected \in BOOLEAN /\ enabled \in BOOLEAN /\ quit \in BOOLEAN
        /\ gone \in BOOLEAN /\ polls \in Nat /\ prints \in Nat
    BY <1>0 DEF Typed, Fds
  <1>4. /\ Head(inbox["stdin"]) \in ToSet(inbox["stdin"])
        /\ Tail(inbox["stdin"]) \in Seq(Texts)
    BY <1>2, <1>3, TailFacts
  <1>5. /\ ~selected /\ ToSet(watches) = {"stdin"}
    BY <1>0, <1>1, <1>4 DEF Streams, Watching, Message
  <1>6. CASE \E ws \in Greetings : \E k \in 1 .. Len(ws) :
          /\ Cx!Accepts(SubSeq(ws, 1, k))
          /\ selected' = TRUE /\ watches' = watches \o OpenWatches
          /\ inbox' = [inbox EXCEPT !["stdin"] = Tail(@),
                         !["console"] = SubSeq(ws, k + 1, Len(ws))]
          /\ quit' = (quit \/ gone) /\ More
    <2>1. PICK rest \in Seq(Texts) :
            /\ {"ok", "refused"} \cap ToSet(rest) = {}
            /\ selected' = TRUE /\ watches' = watches \o OpenWatches
            /\ inbox' = [inbox EXCEPT !["stdin"] = Tail(inbox["stdin"]),
                           !["console"] = rest]
            /\ quit' = (quit \/ gone) /\ More
      BY <1>6, AnswerOnce
    <2>2. /\ inbox' \in [Fds -> Seq(Texts)]
          /\ inbox'["stdin"] = Tail(inbox["stdin"]) /\ inbox'["console"] = rest
      BY <1>3, <1>4, <2>1
    <2>3. /\ Grows /\ Distinct' /\ "status" \notin ToSet(watches')
          /\ dev.control = "qcomlt_dbg" => "control" \notin ToSet(watches')
      BY <1>0, <1>5, <2>1, Opens
    <2>4. /\ selected' \in BOOLEAN /\ enabled' \in BOOLEAN /\ quit' \in BOOLEAN
          /\ polls' \in Nat /\ prints' \in Nat
      BY <1>1, <1>3, <2>1
    <2>5. \A g \in ToSet(watches) : g # "stdin" => inbox'[g] = inbox[g]
      BY <1>5
    <2>6. Typed' /\ Pass' /\ inbox'["stdin"] = <<>>
      BY <1>1, <1>5, <2>1, <2>2, <2>3, <2>4, <2>5, MessageStep
    <2>7. pc' # "ended"
      BY <1>1, <2>1 DEF More, Next1, Message
    <2>8. Causes'
      <3>1. quit' => quit \/ gone
        BY <2>1
      <3>. QED  BY <1>0, <1>1, <1>2, <2>7, <3>1 DEF Causes, EndsForCause
    <2>9. Streams' /\ Watching' /\ Timers'
      BY <1>0, <1>1, <2>1, <2>2, <2>3, <2>6, EmptyHas
         DEF Streams, AnswerIsRead, Watching, Timers
    <2>. QED  BY <2>6, <2>8, <2>9 DEF LInv
  <1>7. CASE Fail("open") /\ Handled /\ UNCHANGED <<selected, watches, quit>>
    <2>1. Grows /\ Distinct'
      BY <1>0, <1>7, GrowsSame
    <2>2. /\ selected' \in BOOLEAN /\ enabled' \in BOOLEAN /\ quit' \in BOOLEAN
          /\ polls' \in Nat /\ prints' \in Nat
      BY <1>1, <1>3, <1>7
    <2>3. /\ Typed' /\ Pass' /\ inbox'["stdin"] = <<>>
          /\ inbox'["console"] = inbox["console"]
      BY <1>0, <1>1, <1>2, <1>5, <1>7, <2>1, <2>2, MessageStep, HandledFacts
    <2>4. Causes'
      <3>1. end' = "open" /\ ~selected' /\ dev'.console = "conmux"
        BY <1>1, <1>5, <1>7 DEF Fail, Ended
      <3>. QED  BY <1>0, <1>1, <1>2, <1>7, <3>1 DEF Causes, EndsForCause
    <2>5. Streams' /\ Watching' /\ Timers'
      BY <1>0, <1>1, <1>5, <1>7, <2>3 DEF Streams, AnswerIsRead, Watching, Timers
    <2>. QED  BY <2>3, <2>4, <2>5 DEF LInv
  <1>. QED  BY <1>6, <1>7 DEF SelectConmux, Send

(* The watches that device_status_enable adds. *)
LEMMA Enables ==
  ASSUME Typed, Watching, selected, ~enabled,
         watches' = watches
           \o (IF dev.control = "qcomlt_dbg" THEN <<"control">> ELSE <<>>)
           \o (IF dev.statusCmd THEN <<"status">> ELSE <<>>)
  PROVE  Grows /\ Distinct'
  <1>. PICK a : a = IF dev.control = "qcomlt_dbg" THEN <<"control">> ELSE <<>>
    OBVIOUS
  <1>. PICK b : b = IF dev.statusCmd THEN <<"status">> ELSE <<>>
    OBVIOUS
  <1>. DEFINE t == a \o b
  <1>1. /\ a \in {<<>>, <<"control">>} /\ b \in {<<>>, <<"status">>}
        /\ dev.control # "qcomlt_dbg" => a = <<>>
    BY Zenon
  <1>2. /\ a \in Seq(Fds) /\ b \in Seq(Fds) /\ watches \in Seq(Fds)
        /\ t \in Seq(Fds) /\ watches' = watches \o t
    <2>1. watches \in Seq(Fds) /\ watches' = (watches \o a) \o b
      BY Zenon DEF Typed
    <2>2. a \in Seq(Fds) /\ b \in Seq(Fds)
      <3>1. <<>> \in Seq(Fds) /\ <<"control">> \in Seq(Fds) /\ <<"status">> \in Seq(Fds)
        BY DEF Fds
      <3>. QED  BY <1>1, <3>1
    <2>3. (watches \o a) \o b = watches \o t
      <3>1. ASSUME NEW x \in Seq(Fds), NEW y \in Seq(Fds), NEW z \in Seq(Fds)
            PROVE  (x \o y) \o z = x \o (y \o z)
        BY ConcatAssociative
      <3>. QED  BY <2>1, <2>2, <3>1, Zenon
    <2>4. t \in Seq(Fds)
      BY <2>2
    <2>. QED  BY <2>1, <2>2, <2>3, <2>4
  <1>3. /\ Len(a) \in {0, 1} /\ ToSet(a) \subseteq {"control"}
        /\ Len(a) = 1 => a[1] = "control"
        /\ a = <<>> => ToSet(a) = {}
        /\ Len(b) \in {0, 1} /\ ToSet(b) \subseteq {"status"}
        /\ Len(b) = 1 => b[1] = "status"
    <2>1. ASSUME NEW f, NEW s, s \in {<<>>, <<f>>}
          PROVE  /\ Len(s) \in {0, 1} /\ ToSet(s) \subseteq {f}
                 /\ Len(s) = 1 => s[1] = f
                 /\ s = <<>> => ToSet(s) = {}
      <3>1. CASE s = <<>>
        BY <3>1, EmptyHas
      <3>2. CASE s = <<f>>
        <4>1. Len(s) = 1 /\ s[1] = f /\ DOMAIN s = 1 .. 1
          BY <3>2
        <4>2. s # <<>>
          BY <3>2
        <4>. QED  BY <4>1, <4>2 DEF ToSet
      <3>. QED  BY <2>1, <3>1, <3>2
    <2>. QED  BY <1>1, <2>1
  <1>4. /\ Len(t) = Len(a) + Len(b) /\ Len(a) \in Nat /\ Len(b) \in Nat
        /\ \A i \in 1 .. Len(t) : t[i] = IF i <= Len(a) THEN a[i] ELSE b[i - Len(a)]
        /\ ToSet(t) = ToSet(a) \cup ToSet(b)
    <2>1. /\ t \in Seq(Fds) /\ Len(t) = Len(a) + Len(b)
          /\ \A i \in 1 .. Len(a) + Len(b) : t[i] = IF i <= Len(a) THEN a[i] ELSE b[i - Len(a)]
      BY <1>2, ConcatProperties
    <2>2. ToSet(t) = ToSet(a) \cup ToSet(b)
      <3>1. ASSUME NEW x \in Seq(Fds), NEW y \in Seq(Fds)
            PROVE  ToSet(x \o y) = ToSet(x) \cup ToSet(y)
        BY CatSet
      <3>. QED  BY <1>2, <3>1, Zenon
    <2>. QED  BY <1>3, <2>1, <2>2
  <1>. HIDE DEF t
  <1>5. ASSUME NEW i \in 1 .. Len(t), NEW j \in 1 .. Len(t), t[i] = t[j]
        PROVE  i = j
    <2>1. /\ t[i] = "control" \/ t[i] = "status"
          /\ t[i] = "control" => i <= Len(a) /\ i = 1
          /\ t[i] = "status" => i > Len(a) /\ i = Len(a) + 1
      BY <1>3, <1>4
    <2>2. /\ t[j] = "control" => j <= Len(a) /\ j = 1
          /\ t[j] = "status" => j > Len(a) /\ j = Len(a) + 1
      BY <1>3, <1>4
    <2>. QED  BY <1>5, <2>1, <2>2
  <1>6. /\ ToSet(t) \subseteq {"control", "status"}
        /\ dev.control # "qcomlt_dbg" => ToSet(t) \subseteq {"status"}
        /\ \A i, j \in 1 .. Len(t) : t[i] = t[j] => i = j
    BY <1>1, <1>3, <1>4, <1>5
  <1>7. ToSet(t) \cap ToSet(watches) = {}
    BY <1>6 DEF Watching
  <1>. QED  BY <1>2, <1>6, <1>7, GrowsBy

LEMMA StatusEnableStep ==
  ASSUME LInv, StatusEnable
  PROVE  LInv'
  <1>0. Typed /\ Pass /\ Causes /\ Watching /\ Streams /\ Timers
    BY DEF LInv
  <1>1. /\ Message("status") /\ selected /\ enabled' = TRUE /\ Handled /\ More
        /\ UNCHANGED <<dev, selected, quit, hung, gone>>
    BY DEF StatusEnable, Message
  <1>2. inbox["stdin"] # <<>>
    BY <1>1, SomethingLeft
  <1>3. /\ selected \in BOOLEAN /\ quit \in BOOLEAN /\ polls \in Nat /\ prints \in Nat
    BY <1>0 DEF Typed
  <1>4. Grows /\ Distinct'
    <2>1. CASE enabled
      BY <1>0, <2>1, GrowsSame DEF StatusEnable
    <2>2. CASE ~enabled
      BY <1>0, <1>1, <2>2, Enables DEF StatusEnable
    <2>. QED  BY <2>1, <2>2
  <1>5. /\ polls' = IF dev.control = "qcomlt_dbg" THEN 1 ELSE 0
        /\ prints' <= 1 /\ prints' \in Nat
    <2>1. CASE enabled
      BY <1>0, <1>3, <2>1 DEF StatusEnable, Timers
    <2>2. CASE ~enabled
      BY <2>2 DEF StatusEnable
    <2>. QED  BY <2>1, <2>2
  <1>6. /\ selected' \in BOOLEAN /\ enabled' \in BOOLEAN /\ quit' \in BOOLEAN
        /\ polls' \in Nat /\ prints' \in Nat
    BY <1>1, <1>3, <1>5
  <1>7. /\ Typed' /\ Pass'
        /\ ToSet(inbox'["stdin"]) \subseteq ToSet(inbox["stdin"])
        /\ inbox'["console"] = inbox["console"]
    BY <1>0, <1>1, <1>2, <1>4, <1>6, MessageStep, HandledFacts
  <1>8. pc' # "ended"
    BY <1>1 DEF More, Next1, Message
  <1>9. Causes'
    BY <1>0, <1>1, <1>2, <1>8 DEF Causes, EndsForCause
  <1>10. Streams' /\ Watching' /\ Timers'
    BY <1>0, <1>1, <1>5, <1>7 DEF Streams, AnswerIsRead, Watching, Timers
  <1>. QED  BY <1>7, <1>9, <1>10 DEF LInv
-----------------------------------------------------------------------------
(* The other sides add to what is to be read, and end for good. *)
LEMMA OutsideStep ==
  ASSUME LInv, Outside,
         inbox' \in [Fds -> Seq(Texts)],
         \A f \in Fds : Len(inbox[f]) <= Len(inbox'[f]),
         hung' \in [Fds -> {"open", "eof", "err"}],
         \A f \in Fds : hung[f] # "open" => hung'[f] = hung[f],
         hung'["stdin"] # "open" => gone', gone => gone', gone' \in BOOLEAN,
         polled' \in BOOLEAN, noisy' \in BOOLEAN,
         lines' \in 0 .. MaxLines[dev.control],
         msgs' \in 0 .. MaxMsgs[dev.control],
         texts' \in 0 .. MaxText[dev.control],
         ~selected => inbox'["stdin"] = inbox["stdin"]
                        /\ inbox'["console"] = inbox["console"],
         selected => "select" \notin ToSet(inbox'["stdin"]) /\ AnswerIsRead'
  PROVE  LInv'
  <1>0. Typed /\ Pass /\ Causes /\ Watching /\ Streams /\ Timers
    BY DEF LInv
  <1>1. /\ pc # "control"
        /\ UNCHANGED <<watches, rfds, pc, at, left, quit, end, dev, selected,
                       enabled, polls, prints, qcomlt, cdb>>
    BY DEF Outside, dv, parsers
  <1>2. /\ inbox \in [Fds -> Seq(Texts)] /\ "stdin" \in Fds /\ "console" \in Fds
        /\ "control" \in Fds /\ "status" \in Fds /\ left \in Nat
        /\ hung \in [Fds -> {"open", "eof", "err"}]
    BY <1>0 DEF Typed, Fds
  <1>3. Typed'
    BY <1>0, <1>1 DEF Typed, Distinct
  <1>4. \A f \in Fds : Readable(f) => Readable(f)'
    <2>. TAKE f \in Fds
    <2>1. inbox[f] \in Seq(Texts) /\ inbox'[f] \in Seq(Texts)
      BY <1>2
    <2>2. inbox[f] # <<>> => inbox'[f] # <<>>
      <3>1. Len(inbox[f]) \in Nat /\ Len(inbox'[f]) \in Nat /\ Len(<<>>) = 0
        BY <2>1, LenProperties
      <3>2. Len(inbox[f]) = 0 => inbox[f] = <<>>
        BY <2>1, EmptySeq
      <3>. QED  BY <3>1, <3>2
    <2>. QED  BY <2>2 DEF Readable
  <1>5. Pass'
    <2>1. Set' = Set
      BY <1>1 DEF Set
    <2>2. \A i \in Set : watches[i] \in Fds
      <3>1. ToSet(watches) \subseteq Fds
        BY <1>0, TypedOK DEF TypeOK
      <3>. QED  BY <1>0, <3>1, SetFacts
    <2>3. pc = "stdin" => left \in 1 .. Len(inbox'["stdin"])
      <3>1. pc = "stdin" => left \in 1 .. Len(inbox["stdin"])
        BY <1>0 DEF Pass
      <3>2. /\ Len(inbox["stdin"]) \in Nat /\ Len(inbox'["stdin"]) \in Nat
            /\ Len(inbox["stdin"]) <= Len(inbox'["stdin"])
        <4>1. inbox["stdin"] \in Seq(Texts) /\ inbox'["stdin"] \in Seq(Texts)
          BY <1>2
        <4>. QED  BY <1>2, <4>1, LenProperties
      <3>. QED  BY <3>1, <3>2
    <2>. QED  BY <1>0, <1>1, <1>4, <2>1, <2>2, <2>3 DEF Pass
  <1>6. Causes'
    <2>1. EndsForCause'
      BY <1>0, <1>1, <1>2 DEF Causes, EndsForCause
    <2>. QED  BY <1>0, <1>1, <1>2, <2>1 DEF Causes
  <1>7. Streams' /\ Watching' /\ Timers'
    BY <1>0, <1>1 DEF Streams, Watching, Timers
  <1>. QED  BY <1>3, <1>5, <1>6, <1>7 DEF LInv

(* What arrives is added to what a descriptor has. *)
LEMMA ArrivesFacts ==
  ASSUME Typed, NEW f \in Fds, NEW s \in Seq(Texts), Arrives(f, s)
  PROVE  /\ inbox' \in [Fds -> Seq(Texts)]
         /\ \A g \in Fds : Len(inbox[g]) <= Len(inbox'[g])
         /\ \A g \in Fds : g # f => inbox'[g] = inbox[g]
         /\ ToSet(inbox'[f]) = ToSet(inbox[f]) \cup ToSet(s)
  <1>1. inbox \in [Fds -> Seq(Texts)]
    BY DEF Typed
  <1>2. inbox' = [inbox EXCEPT ![f] = inbox[f] \o s]
    BY DEF Arrives
  <1>. PICK r : r = inbox[f]
    OBVIOUS
  <1>3. r \in Seq(Texts)
    BY <1>1
  <1>4. /\ r \o s \in Seq(Texts) /\ Len(r) <= Len(r \o s)
        /\ ToSet(r \o s) = ToSet(r) \cup ToSet(s)
    <2>1. /\ r \o s \in Seq(Texts) /\ Len(r \o s) = Len(r) + Len(s)
          /\ Len(r) \in Nat /\ Len(s) \in Nat
      BY <1>3, ConcatProperties, LenProperties
    <2>2. ToSet(r \o s) = ToSet(r) \cup ToSet(s)
      BY <1>3, CatSet
    <2>. QED  BY <2>1, <2>2
  <1>5. \A g \in Fds : inbox'[g] = IF g = f THEN r \o s ELSE inbox[g]
    BY <1>1, <1>2
  <1>6. inbox' \in [Fds -> Seq(Texts)]
    BY <1>1, <1>2, <1>4
  <1>7. \A g \in Fds : Len(inbox[g]) <= Len(inbox'[g])
    <2>. TAKE g \in Fds
    <2>1. Len(inbox[g]) \in Nat
      BY <1>1, LenProperties
    <2>2. CASE g = f
      BY <1>4, <1>5, <2>2
    <2>3. CASE g # f
      <3>1. inbox'[g] = inbox[g]
        BY <1>5, <2>3
      <3>. QED  BY <2>1, <3>1
    <2>. QED  BY <2>2, <2>3
  <1>. QED  BY <1>4, <1>5, <1>6, <1>7

LEMMA OneOf == \A x : ToSet(<<x>>) = {x}
  <1>. TAKE x
  <1>1. DOMAIN <<x>> = 1 .. 1 /\ <<x>>[1] = x
    OBVIOUS
  <1>. QED  BY <1>1 DEF ToSet

LEMMA ClientSendsStep ==
  ASSUME LInv, NEW m \in {"status", "other"}, ClientSends(m)
  PROVE  LInv'
  <1>0. Typed /\ Causes /\ Streams
    BY DEF LInv
  <1>1. /\ selected /\ selected' = selected /\ msgs < MaxMsgs[dev.control]
        /\ msgs' = msgs + 1
        /\ Arrives("stdin", <<m>>) /\ Outside
        /\ UNCHANGED <<hung, gone, polled, lines, noisy, texts>>
    BY DEF ClientSends, Outside, dv, bounds
  <1>2. <<m>> \in Seq(Texts) /\ "stdin" \in Fds /\ "console" \in Fds
    <2>1. m \in Texts
      BY DEF Texts
    <2>. QED  BY <2>1 DEF Fds
  <1>3. /\ inbox' \in [Fds -> Seq(Texts)]
        /\ \A g \in Fds : Len(inbox[g]) <= Len(inbox'[g])
        /\ \A g \in Fds : g # "stdin" => inbox'[g] = inbox[g]
        /\ ToSet(inbox'["stdin"]) = ToSet(inbox["stdin"]) \cup ToSet(<<m>>)
    BY <1>0, <1>1, <1>2, ArrivesFacts
  <1>4. msgs' \in 0 .. MaxMsgs[dev.control]
    <2>1. MaxMsgs[dev.control] \in Nat /\ msgs \in 0 .. MaxMsgs[dev.control]
      BY <1>0, DeviceFacts DEF Typed
    <2>. QED  BY <1>1, <2>1
  <1>5. selected => "select" \notin ToSet(inbox'["stdin"]) /\ AnswerIsRead'
    <2>1. "select" \notin ToSet(inbox["stdin"]) /\ AnswerIsRead
      BY <1>0, <1>1 DEF Streams
    <2>2. ToSet(<<m>>) = {m} /\ m # "select"
      BY OneOf
    <2>3. "select" \notin ToSet(inbox'["stdin"])
      BY <1>3, <2>1, <2>2
    <2>. QED  BY <1>1, <1>2, <1>3, <2>1, <2>3 DEF AnswerIsRead
  <1>6. /\ hung \in [Fds -> {"open", "eof", "err"}] /\ gone \in BOOLEAN
        /\ polled \in BOOLEAN /\ noisy \in BOOLEAN
        /\ lines \in 0 .. MaxLines[dev.control]
        /\ texts \in 0 .. MaxText[dev.control]
    BY <1>0 DEF Typed
  <1>. QED  BY <1>0, <1>1, <1>3, <1>4, <1>5, <1>6, OutsideStep DEF Causes

LEMMA ClientGoesStep ==
  ASSUME LInv, ClientGoes
  PROVE  LInv'
  <1>0. Typed /\ Causes /\ Streams
    BY DEF LInv
  <1>1. /\ gone' = TRUE /\ hung' = [hung EXCEPT !["stdin"] = "eof"] /\ Outside
        /\ ~gone /\ selected' = selected
        /\ UNCHANGED <<inbox, polled, lines, noisy, msgs, texts>>
    BY DEF ClientGoes, Outside, dv, bounds
  <1>2. /\ inbox \in [Fds -> Seq(Texts)] /\ hung \in [Fds -> {"open", "eof", "err"}]
        /\ polled \in BOOLEAN /\ noisy \in BOOLEAN
        /\ lines \in 0 .. MaxLines[dev.control]
        /\ msgs \in 0 .. MaxMsgs[dev.control]
        /\ texts \in 0 .. MaxText[dev.control]
    BY <1>0 DEF Typed
  <1>3. /\ hung' \in [Fds -> {"open", "eof", "err"}]
        /\ \A f \in Fds : hung[f] # "open" => hung'[f] = hung[f]
    BY <1>0, <1>1, <1>2 DEF Causes
  <1>4. \A f \in Fds : Len(inbox[f]) <= Len(inbox'[f])
    <2>. TAKE f \in Fds
    <2>1. Len(inbox[f]) \in Nat
      BY <1>2, LenProperties
    <2>. QED  BY <1>1, <2>1
  <1>5. selected => "select" \notin ToSet(inbox'["stdin"]) /\ AnswerIsRead'
    BY <1>0, <1>1 DEF Streams, AnswerIsRead
  <1>. QED  BY <1>1, <1>2, <1>3, <1>4, <1>5, OutsideStep

LEMMA TalksStep ==
  ASSUME LInv, NEW f \in Fds, Talks(f)
  PROVE  LInv'
  <1>0. Typed /\ Causes /\ Streams /\ Watching
    BY DEF LInv
  <1>1. /\ f \in {"console", "udev", "status"} /\ Watched(f)
        /\ selected' = selected
        /\ texts < MaxText[dev.control] /\ texts' = texts + 1
        /\ Arrives(f, <<"text">>) /\ Outside
        /\ UNCHANGED <<hung, gone, polled, lines, noisy, msgs>>
    BY DEF Talks, Outside, dv, bounds
  <1>2. <<"text">> \in Seq(Texts) /\ "stdin" \in Fds /\ "console" \in Fds
    BY DEF Texts, Fds, Cx!Words
  <1>3. /\ inbox' \in [Fds -> Seq(Texts)]
        /\ \A g \in Fds : Len(inbox[g]) <= Len(inbox'[g])
        /\ \A g \in Fds : g # f => inbox'[g] = inbox[g]
        /\ ToSet(inbox'[f]) = ToSet(inbox[f]) \cup ToSet(<<"text">>)
    BY <1>0, <1>1, <1>2, ArrivesFacts
  <1>4. texts' \in 0 .. MaxText[dev.control]
    <2>1. MaxText[dev.control] \in Nat /\ texts \in 0 .. MaxText[dev.control]
      BY <1>0, DeviceFacts DEF Typed
    <2>. QED  BY <1>1, <2>1
  <1>5. selected
    BY <1>0, <1>1 DEF Watching, Watched
  <1>6. "select" \notin ToSet(inbox'["stdin"]) /\ AnswerIsRead'
    BY <1>0, <1>1, <1>2, <1>3, <1>5, OneOf DEF Streams, AnswerIsRead
  <1>7. /\ hung \in [Fds -> {"open", "eof", "err"}] /\ gone \in BOOLEAN
        /\ polled \in BOOLEAN /\ noisy \in BOOLEAN
        /\ lines \in 0 .. MaxLines[dev.control]
        /\ msgs \in 0 .. MaxMsgs[dev.control]
    BY <1>0 DEF Typed
  <1>. QED  BY <1>0, <1>1, <1>3, <1>4, <1>5, <1>6, <1>7, OutsideStep DEF Causes

LEMMA HangsUpStep ==
  ASSUME LInv, NEW f \in Fds, NEW how \in {"eof", "err"}, HangsUp(f, how)
  PROVE  LInv'
  <1>0. Typed /\ Causes /\ Streams
    BY DEF LInv
  <1>1. /\ f # "stdin" /\ hung[f] = "open" /\ hung' = [hung EXCEPT ![f] = how]
        /\ Outside /\ selected' = selected
        /\ UNCHANGED <<inbox, gone, polled, lines, noisy, msgs, texts>>
    BY DEF HangsUp, Outside, dv, bounds
  <1>2. /\ inbox \in [Fds -> Seq(Texts)] /\ hung \in [Fds -> {"open", "eof", "err"}]
        /\ polled \in BOOLEAN /\ noisy \in BOOLEAN /\ gone \in BOOLEAN
        /\ lines \in 0 .. MaxLines[dev.control]
        /\ msgs \in 0 .. MaxMsgs[dev.control]
        /\ texts \in 0 .. MaxText[dev.control] /\ "stdin" \in Fds
    BY <1>0 DEF Typed, Fds
  <1>3. /\ hung' \in [Fds -> {"open", "eof", "err"}]
        /\ \A g \in Fds : hung[g] # "open" => hung'[g] = hung[g]
        /\ hung'["stdin"] = hung["stdin"]
    BY <1>1, <1>2
  <1>4. \A g \in Fds : Len(inbox[g]) <= Len(inbox'[g])
    <2>. TAKE g \in Fds
    <2>1. Len(inbox[g]) \in Nat
      BY <1>2, LenProperties
    <2>. QED  BY <1>1, <2>1
  <1>5. selected => "select" \notin ToSet(inbox'["stdin"]) /\ AnswerIsRead'
    BY <1>0, <1>1 DEF Streams, AnswerIsRead
  <1>. QED  BY <1>0, <1>1, <1>2, <1>3, <1>4, <1>5, OutsideStep DEF Causes

LEMMA LineTypes ==
  \A k \in 0 .. 9 : QcomltLine(k) \in Seq(Texts) /\ CdbLine(k) \in Seq(Texts)
  <1>. TAKE k \in 0 .. 9
  <1>1. k + 1 \in 1 .. 10
    OBVIOUS
  <1>2. DigitChars[k + 1] \in Digits /\ "1" \in Digits
    <2>1. DOMAIN DigitChars = 1 .. 10 /\ DigitChars[2] = "1"
      BY DEF DigitChars
    <2>. QED  BY <1>1, <2>1 DEF Digits, ToSet
  <1>. PICK d \in Digits : d = DigitChars[k + 1]
    BY <1>2
  <1>3. /\ d \in Texts /\ "1" \in Texts /\ "m" \in Texts /\ "V" \in Texts
        /\ "sp" \in Texts /\ "A" \in Texts /\ "x" \in Texts /\ "v" \in Texts
        /\ "/" \in Texts /\ "a" \in Texts /\ ":" \in Texts /\ "o" \in Texts
        /\ "n" \in Texts /\ "=" \in Texts
    BY <1>2 DEF Texts
  <1>4. QcomltLine(k) \in Seq(Texts)
    BY <1>3 DEF QcomltLine
  <1>5. CdbLine(k) \in Seq(Texts)
    BY <1>3 DEF CdbLine
  <1>. QED  BY <1>4, <1>5

LEMMA AnswerStep ==
  ASSUME LInv, Answer
  PROVE  LInv'
  <1>0. Typed /\ Causes /\ Streams
    BY DEF LInv
  <1>1. /\ selected' = selected /\ lines < MaxLines[dev.control]
        /\ lines' = lines + 1 /\ polled' = FALSE /\ Outside
        /\ \/ Arrives("control", QcomltLine(lines + 1))
           \/ Arrives("control", CdbLine(lines + 1))
        /\ UNCHANGED <<hung, gone, noisy, msgs, texts>>
    BY DEF Answer, Outside, dv, bounds
  <1>2. lines' \in 0 .. MaxLines[dev.control] /\ lines + 1 \in 0 .. 9
    <2>1. MaxLines[dev.control] \in 0 .. 9 /\ lines \in 0 .. MaxLines[dev.control]
      BY <1>0, DeviceFacts DEF Typed
    <2>. QED  BY <1>1, <2>1
  <1>3. "control" \in Fds /\ "stdin" \in Fds /\ "console" \in Fds
    BY DEF Fds
  <1>4. PICK s \in Seq(Texts) : Arrives("control", s)
    BY <1>1, <1>2, LineTypes
  <1>5. /\ inbox' \in [Fds -> Seq(Texts)]
        /\ \A g \in Fds : Len(inbox[g]) <= Len(inbox'[g])
        /\ \A g \in Fds : g # "control" => inbox'[g] = inbox[g]
    BY <1>0, <1>3, <1>4, ArrivesFacts
  <1>6. selected => "select" \notin ToSet(inbox'["stdin"]) /\ AnswerIsRead'
    BY <1>0, <1>1, <1>3, <1>5 DEF Streams, AnswerIsRead
  <1>7. /\ hung \in [Fds -> {"open", "eof", "err"}] /\ gone \in BOOLEAN
        /\ noisy \in BOOLEAN /\ msgs \in 0 .. MaxMsgs[dev.control]
        /\ texts \in 0 .. MaxText[dev.control]
    BY <1>0 DEF Typed
  <1>. QED  BY <1>0, <1>1, <1>2, <1>3, <1>5, <1>6, <1>7, OutsideStep DEF Causes

LEMMA ChatterStep ==
  ASSUME LInv, Chatter
  PROVE  LInv'
  <1>0. Typed /\ Causes /\ Streams
    BY DEF LInv
  <1>1. /\ selected' = selected /\ noisy' = TRUE /\ Outside
        /\ Arrives("control", <<"2", "x">>)
        /\ UNCHANGED <<hung, gone, polled, lines, msgs, texts>>
    BY DEF Chatter, Outside, dv, bounds
  <1>2. "control" \in Fds /\ "stdin" \in Fds /\ "console" \in Fds
    BY DEF Fds
  <1>3. <<"2", "x">> \in Seq(Texts)
    <2>1. "2" \in Digits
      <3>1. DOMAIN DigitChars = 1 .. 10 /\ DigitChars[3] = "2" /\ 3 \in 1 .. 10
        BY DEF DigitChars
      <3>. QED  BY <3>1 DEF Digits, ToSet
    <2>2. "2" \in Texts /\ "x" \in Texts
      BY <2>1 DEF Texts
    <2>. QED  BY <2>2
  <1>4. /\ inbox' \in [Fds -> Seq(Texts)]
        /\ \A g \in Fds : Len(inbox[g]) <= Len(inbox'[g])
        /\ \A g \in Fds : g # "control" => inbox'[g] = inbox[g]
    BY <1>0, <1>1, <1>2, <1>3, ArrivesFacts
  <1>5. selected => "select" \notin ToSet(inbox'["stdin"]) /\ AnswerIsRead'
    BY <1>0, <1>1, <1>2, <1>4 DEF Streams, AnswerIsRead
  <1>6. /\ hung \in [Fds -> {"open", "eof", "err"}] /\ gone \in BOOLEAN
        /\ polled \in BOOLEAN /\ lines \in 0 .. MaxLines[dev.control]
        /\ msgs \in 0 .. MaxMsgs[dev.control]
        /\ texts \in 0 .. MaxText[dev.control]
    BY <1>0 DEF Typed
  <1>. QED  BY <1>0, <1>1, <1>2, <1>4, <1>5, <1>6, OutsideStep DEF Causes
-----------------------------------------------------------------------------
LEMMA InitInv == Init => LInv
  <1>. SUFFICES ASSUME Init PROVE LInv
    OBVIOUS
  <1>1. ToSet(watches) = {"stdin"}
    BY OneOf DEF Init
  <1>2. watches \in Seq(Fds) /\ Distinct /\ at \in 1 .. Len(watches) + 1
    <2>1. watches = <<"stdin">> /\ at = 1
      BY DEF Init
    <2>2. watches \in Seq(Fds) /\ Len(watches) = 1
      BY <2>1 DEF Fds
    <2>. QED  BY <2>1, <2>2 DEF Distinct
  <1>3. qcomlt \in QcomltType
    <2>1. "start" \in QcomltStates
      BY DEF QcomltStates
    <2>2. <<>> \in Seq(Nat \X Nat)
      OBVIOUS
    <2>. QED  BY <2>1, <2>2 DEF Init, QcomltStart, QcomltType
  <1>4. cdb \in CdbType
    <2>1. "start" \in CdbStates
      BY DEF CdbStates
    <2>2. <<0, 0>> \in [1 .. 2 -> Nat]
      OBVIOUS
    <2>3. cdb = CdbStart
      BY DEF Init
    <2>. QED  BY <2>1, <2>2, <2>3 DEF CdbStart, CdbType
  <1>5. inbox \in [Fds -> Seq(Texts)] /\ hung \in [Fds -> {"open", "eof", "err"}]
    <2>1. "select" \in Texts
      BY DEF Texts
    <2>2. <<"select">> \in Seq(Texts) /\ <<>> \in Seq(Texts)
      BY <2>1
    <2>. QED  BY <2>2 DEF Init
  <1>6. /\ 0 \in 0 .. MaxLines[dev.control] /\ 0 \in 0 .. MaxMsgs[dev.control]
        /\ 0 \in 0 .. MaxText[dev.control]
    <2>1. dev.control \in Controls
      BY ServerLoopAssumption DEF Init, DeviceType
    <2>2. /\ MaxLines[dev.control] \in Nat /\ MaxMsgs[dev.control] \in Nat
          /\ MaxText[dev.control] \in Nat
      <3>1. /\ MaxLines \in [Controls -> 0 .. 9] /\ MaxMsgs \in [Controls -> Nat]
            /\ MaxText \in [Controls -> Nat]
        BY ServerLoopAssumption
      <3>. QED  BY <2>1, <3>1
    <2>. QED  BY <2>2
  <1>7. Typed
    BY <1>2, <1>3, <1>4, <1>5, <1>6 DEF Init, Typed
  <1>8. Streams
    BY DEF Init, Streams, Fds
  <1>9. Watching
    BY <1>1 DEF Init, Watching
  <1>10. Pass
    BY <1>1 DEF Init, Pass
  <1>11. Timers
    <2>1. enabled = FALSE /\ polls = 0 /\ prints = 0
      BY DEF Init
    <2>. QED  BY <2>1 DEF Timers
  <1>12. Causes
    <2>1. pc = "select" /\ quit = FALSE /\ hung["stdin"] = "open"
      BY DEF Init, Fds
    <2>. QED  BY <2>1 DEF Causes, EndsForCause
  <1>. QED  BY <1>7, <1>8, <1>9, <1>10, <1>11, <1>12 DEF LInv

LEMMA StepInv == LInv /\ [Next]_vars => LInv'
  <1>. SUFFICES ASSUME LInv, [Next]_vars PROVE LInv'
    OBVIOUS
  <1>1. CASE Loop
    <2>1. CASE Ready
      <3>1. Wake /\ UNCHANGED <<quit, polls, prints, polled>> /\ polled \in BOOLEAN
        BY <2>1 DEF Ready, LInv, Typed
      <3>. QED  BY <3>1, WakeStep
    <2>2. CASE Poll
      <3>1. Wake /\ UNCHANGED <<quit, polls, prints>> /\ polled' \in BOOLEAN
        BY <2>2 DEF Poll
      <3>. QED  BY <3>1, WakeStep
    <2>3. CASE PrintStatus
      <3>1. /\ Wake /\ UNCHANGED <<polls, polled>> /\ polled \in BOOLEAN
            /\ quit' = (quit \/ gone) /\ prints > 0 /\ prints' = prints - 1
            /\ prints \in Nat /\ prints <= 1
        BY <2>3 DEF PrintStatus, Send, LInv, Typed, Timers
      <3>2. prints' = 0
        BY <3>1
      <3>. QED  BY <3>1, <3>2, WakeStep
    <2>. QED  BY <1>1, <2>1, <2>2, <2>3, LeaveStep, PassDoneStep,
                 ConsoleDataStep, ConmuxDataStep, StatusDataStep, UdevDataStep,
                 CtrlDataStep, CtrlCharStep, StdinReadStep, SelectBoardStep,
                 SelectFailsStep, SelectConmuxStep, StatusEnableStep,
                 OtherMessageStep DEF Loop
  <1>2. CASE UNCHANGED vars
    <2>1. UNCHANGED <<watches, rfds, pc, at, left, quit, end, dev, selected,
                      enabled, polls, prints, qcomlt, cdb, inbox, hung, gone,
                      polled, lines, noisy, msgs, texts>>
      BY <1>2 DEF vars, dv, parsers, io, bounds
    <2>2. Typed'
      <3>0. Typed
        BY DEF LInv
      <3>1. Distinct' /\ watches' \in Seq(Fds)
        BY <2>1, <3>0, GrowsSame DEF Grows
      <3>. QED  BY <2>1, <3>0, <3>1 DEF Typed
    <2>5. Watching' /\ Streams'
      BY <2>1 DEF LInv, Watching, Streams, AnswerIsRead
    <2>3. Pass'
      <3>1. Set' = Set /\ \A f : Readable(f)' <=> Readable(f)
        BY <2>1 DEF Set, Readable
      <3>. QED  BY <2>1, <3>1 DEF LInv, Pass
    <2>4. Timers' /\ Causes'
      BY <2>1 DEF LInv, Timers, Causes, EndsForCause
    <2>. QED  BY <2>2, <2>3, <2>4, <2>5 DEF LInv
  <1>. QED  BY <1>1, <1>2, ClientSendsStep, ClientGoesStep, AnswerStep,
               ChatterStep, TalksStep, HangsUpStep DEF Next

THEOREM LoopInvariant == Spec => []LInv
  BY InitInv, StepInv, PTL DEF Spec

(* Every callback of watch_main_loop finds its descriptor readable,        *)
(* whatever the callbacks ahead of it in the pass have read, opened and    *)
(* added: the blocking reads of the status pty and of the conmux socket    *)
(* do not stop the loop.                                                   *)
THEOREM NeverBlocked == Spec => []NeverBlocks
  <1>1. LInv => NeverBlocks
    <2>. SUFFICES ASSUME LInv, NEW f \in Fds, Chosen(f) PROVE Readable(f)
      BY DEF NeverBlocks
    <2>1. /\ pc = "visit" /\ Set # {} /\ f = watches[Min(Set)]
          /\ Min(Set) \in Set
      BY ChosenFacts, SetFacts DEF LInv
    <2>. QED  BY <2>1 DEF LInv, Pass
  <1>. QED  BY <1>1, LoopInvariant, PTL

(* The loop ends only because the client left or was refused, or the       *)
(* console, the debug board or the status command failed: never because    *)
(* of the descriptor set that was on the stack, which select() would       *)
(* refuse.                                                                 *)
THEOREM EndsOnlyForCause == Spec => []EndsForCause
  <1>1. LInv => EndsForCause
    BY DEF LInv, Causes
  <1>. QED  BY <1>1, LoopInvariant, PTL

(* However conmux cuts its greeting into reads, a console whose output is  *)
(* relayed has had its answer read: what is left of the greeting holds     *)
(* none.                                                                   *)
THEOREM AnswerRead == Spec => []AnswerIsRead
  <1>1. LInv => AnswerIsRead
    BY EmptyHas DEF LInv, Streams, AnswerIsRead
  <1>. QED  BY <1>1, LoopInvariant, PTL

(* However often the client enables status, one timer asks the debug       *)
(* board, at most one prints, and no descriptor is watched twice.          *)
THEOREM PollsOnce == Spec => []OnePoll
  <1>1. LInv => OnePoll
    BY TypedOK DEF LInv, Timers, OnePoll
  <1>. QED  BY <1>1, LoopInvariant, PTL
-----------------------------------------------------------------------------
(***************************************************************************)
(* What a debug board has printed and nobody has read is known by its      *)
(* place in the stream, and so is what its parser has made of the          *)
(* characters before it.                                                   *)
(***************************************************************************)
(* The characters of a line with the measurement k, by their places. *)
QcomltAt(k, o, ch) ==
  \/ o \in {1, 6} /\ ch = "1"
  \/ o \in {2, 7} /\ ch \in Digits /\ Val(ch) = k
  \/ o \in {3, 8} /\ ch = "m"
  \/ o = 4 /\ ch = "V"
  \/ o = 5 /\ ch = "sp"
  \/ o = 9 /\ ch = "A"
  \/ o = 10 /\ ch = "x"

CdbAt(k, o, ch) ==
  \/ o \in {1, 5, 9, 13, 24} /\ ch \in Digits /\ Val(ch) = k
  \/ o \in {2, 6, 10, 14, 25} /\ ch = "m"
  \/ o \in {3, 7, 26} /\ ch = "v"
  \/ o \in {4, 12} /\ ch = "/"
  \/ o \in {8, 16, 21, 27} /\ ch = "sp"
  \/ o \in {11, 15} /\ ch = "a"
  \/ o \in {17, 22} /\ ch = "x"
  \/ o = 18 /\ ch = ":"
  \/ o = 19 /\ ch = "o"
  \/ o = 20 /\ ch = "n"
  \/ o = 23 /\ ch = "="

(* Character p of what a QcomLT board prints, which says something else    *)
(* after b lines; and of what a CDB Assist prints.                         *)
QcomltStream(p, b, ch) ==
  \/ \E k \in 0 .. 9, o \in 1 .. 10 :
       /\ \/ p <= 10 * b /\ p = 10 * k + o
          \/ p > 10 * b + 2 /\ p = 10 * k + o + 2
       /\ QcomltAt(k + 1, o, ch)
  \/ p = 10 * b + 1 /\ ch = "2"
  \/ p = 10 * b + 2 /\ ch = "x"

CdbStream(p, ch) ==
  \E k \in 0 .. 9, o \in 1 .. 27 : p = 27 * k + o /\ CdbAt(k + 1, o, ch)

(* What is reported are measurements up to the n-th, in their order; and   *)
(* of two in a row, one.                                                   *)
Reported(out, n) ==
  /\ \A i \in 1 .. Len(out) : \E k \in 1 .. n : out[i] = Measure(k)
  /\ \A i, j \in 1 .. Len(out) : i < j => out[i][1] < out[j][1]

Reports(out, k) == \E i \in 1 .. Len(out) : out[i] = Measure(k)
OneOfTwo(out, n) ==
  \A k \in 1 .. n - 1 : Reports(out, k) \/ Reports(out, k + 1)

(* The parser has followed o characters of the line after k lines, *)
InStep(p, k, o) ==
  /\ \/ o = 0 /\ p.state = "start"
     \/ o = 1 /\ p.state = "num" /\ p.mv = 1
     \/ o = 2 /\ p.state = "num"
     \/ o = 3 /\ p.state = "num_m"
     \/ o \in {4, 5} /\ p.state = "num_mV"
     \/ o = 6 /\ p.state = "num_mV_num" /\ p.ma = 1
     \/ o = 7 /\ p.state = "num_mV_num"
     \/ o \in {8, 9} /\ p.state = "num_mV_num_m"
  /\ o >= 2 => p.mv = 11 + k
  /\ o >= 7 => p.ma = 11 + k

(* or drops them. *)
OutOfStep(p, o) == p.state = IF o = 9 THEN "start" ELSE "err"

(* It drops a line only after one that it has reported; quiet: the board   *)
(* has printed nothing else.                                               *)
QcomltAfter(p, k, o, quiet) ==
  \/ /\ InStep(p, k, o) /\ Reported(p.out, IF o = 9 THEN k + 1 ELSE k)
     /\ quiet => OneOfTwo(p.out, k) /\ (o = 9 => Reports(p.out, k + 1))
  \/ /\ OutOfStep(p, o) /\ Reported(p.out, k)
     /\ quiet => OneOfTwo(p.out, k) /\ (k > 0 => Reports(p.out, k))

(* In the middle of what the board has said after b lines. *)
Interrupted(p, b) == p.state \in {"num", "err"} /\ Reported(p.out, b)

(* The parser of the CDB Assist after k lines and o characters. *)
CdbAfter(p, k, o) ==
  /\ p.voltage_set = IF o < 7 THEN k ELSE k + 1
  /\ p.current_actual = IF o < 15 THEN k ELSE k + 1
  /\ p.vref = IF o < 26 THEN k ELSE k + 1
  /\ \/ o \in {0, 7, 8, 15, 16, 20, 21, 26} /\ p.state = "start"
     \/ o \in {1, 9} /\ p.state = "num"
     \/ o \in {2, 10} /\ p.state = "num_m"
     \/ o \in {3, 11} /\ p.state = "num_mX"
     \/ o \in {4, 12} /\ p.state = "num_mX_" /\ p.num[2] = 0
     \/ o \in {5, 13} /\ p.state = "num_mX_"
     \/ o \in {6, 14} /\ p.state = "num_num_m"
     \/ o \in {17, 22} /\ p.state = "key"
     \/ o = 18 /\ p.state = "key_bool"
     \/ o = 19 /\ p.state = "key_o"
     \/ o = 23 /\ p.state = "key_value"
     \/ o = 24 /\ p.state = "key_num"
     \/ o = 25 /\ p.state = "key_num_m"
  /\ o > 0 => p.num[1] = k + 1
  /\ o \in {5, 6, 13, 14} => p.num[2] = k + 1
  /\ o \in 3 .. 6 => p.voltage
  /\ o \in 11 .. 14 => ~p.voltage

Unread == Len(inbox["control"])

QcomltReading ==
  IF dev.control # "qcomlt_dbg" THEN qcomlt.out = <<>>
  ELSE \E b \in 0 .. lines, r \in Nat :
    /\ ~noisy => b = lines
    /\ r + Unread = 10 * lines + (IF noisy THEN 2 ELSE 0)
    /\ \A i \in 1 .. Unread : QcomltStream(r + i, b, inbox["control"][i])
    /\ \/ r = 10 * b + 1 /\ Interrupted(qcomlt, b)
       \/ \E k \in 0 .. 9, o \in 0 .. 9 :
            /\ \/ r <= 10 * b /\ r = 10 * k + o
               \/ r >= 10 * b + 2 /\ r = 10 * k + o + 2
            /\ QcomltAfter(qcomlt, k, o, ~noisy)

CdbReading ==
  dev.control = "cdb_assist" =>
    \E r \in Nat :
      /\ r + Unread = 27 * lines
      /\ \A i \in 1 .. Unread : CdbStream(r + i, inbox["control"][i])
      /\ \E k \in 0 .. 9, o \in 0 .. 26 :
           r = 27 * k + o /\ CdbAfter(cdb, k, o)
-----------------------------------------------------------------------------
LEMMA DigitFacts ==
  \A k \in 0 .. 9 : DigitChars[k + 1] \in Digits /\ Val(DigitChars[k + 1]) = k
  <1>1. DigitChars = <<"0", "1", "2", "3", "4", "5", "6", "7", "8", "9">>
    BY DEF DigitChars
  <1>2. \A i, j \in 1 .. 10 : DigitChars[i] = DigitChars[j] => i = j
    BY <1>1
  <1>. TAKE k \in 0 .. 9
  <1>3. k + 1 \in 1 .. 10 /\ DOMAIN DigitChars = 1 .. 10
    BY <1>1
  <1>. PICK i \in 1 .. 10 : i = k + 1
    BY <1>3
  <1>4. (CHOOSE j \in 1 .. 10 : DigitChars[j] = DigitChars[i]) = i
    BY <1>2
  <1>5. Val(DigitChars[i]) = i - 1
    BY <1>4 DEF Val
  <1>6. DigitChars[i] \in Digits
    BY <1>3 DEF Digits, ToSet
  <1>7. DigitChars[k + 1] = DigitChars[i] /\ i - 1 = k
    OBVIOUS
  <1>. QED  BY <1>5, <1>6, <1>7

LEMMA CharFacts ==
  /\ "1" \in Digits /\ Val("1") = 1 /\ "2" \in Digits
  /\ \A ch \in {"m", "V", "sp", "A", "x", "v", "/", "a", ":", "o", "n", "f", "="} :
       ch \notin Digits
  <1>1. DigitChars = <<"0", "1", "2", "3", "4", "5", "6", "7", "8", "9">>
    BY DEF DigitChars
  <1>2. DOMAIN DigitChars = 1 .. 10 /\ DigitChars[2] = "1" /\ DigitChars[3] = "2"
    BY <1>1
  <1>3. "1" \in Digits /\ "2" \in Digits
    BY <1>2 DEF Digits, ToSet
  <1>4. Val("1") = 1
    <2>1. 1 \in 0 .. 9 /\ DigitChars[1 + 1] = "1"
      BY <1>2
    <2>. QED  BY <2>1, DigitFacts
  <1>5. Digits = {"0", "1", "2", "3", "4", "5", "6", "7", "8", "9"}
    BY <1>1 DEF Digits, ToSet
  <1>6. ASSUME NEW ch \in {"m", "V", "sp", "A", "x", "v", "/", "a", ":", "o", "n", "f",
                      "="}
        PROVE  ch \notin {"0", "1", "2", "3", "4", "5", "6", "7", "8", "9"}
    BY Zenon
  <1>. QED  BY <1>3, <1>4, <1>5, <1>6

(* The characters of the lines, by their places. *)
LEMMA QcomltLineFacts ==
  ASSUME NEW k \in 1 .. 9
  PROVE  /\ Len(QcomltLine(k)) = 10
         /\ \A o \in 1 .. 10 : QcomltAt(k, o, QcomltLine(k)[o])
  <1>1. PICK d : d = DigitChars[k + 1] /\ d \in Digits /\ Val(d) = k
    BY DigitFacts
  <1>2. PICK s : s = <<"1", d, "m", "V", "sp", "1", d, "m", "A", "x">>
    OBVIOUS
  <1>3. QcomltLine(k) = s
    BY <1>1, <1>2, Zenon DEF QcomltLine
  <1>4. /\ Len(s) = 10 /\ s[1] = "1" /\ s[2] = d /\ s[3] = "m" /\ s[4] = "V"
        /\ s[5] = "sp" /\ s[6] = "1" /\ s[7] = d /\ s[8] = "m" /\ s[9] = "A"
        /\ s[10] = "x"
    BY <1>2
  <1>5. /\ QcomltAt(k, 1, s[1]) /\ QcomltAt(k, 2, s[2]) /\ QcomltAt(k, 3, s[3])
        /\ QcomltAt(k, 4, s[4]) /\ QcomltAt(k, 5, s[5]) /\ QcomltAt(k, 6, s[6])
        /\ QcomltAt(k, 7, s[7]) /\ QcomltAt(k, 8, s[8]) /\ QcomltAt(k, 9, s[9])
        /\ QcomltAt(k, 10, s[10])
    BY <1>1, <1>4, Zenon DEF QcomltAt
  <1>6. \A o \in 1 .. 10 : QcomltAt(k, o, s[o])
    BY <1>5
  <1>. QED  BY <1>3, <1>4, <1>6, Zenon

LEMMA CdbLineFacts ==
  ASSUME NEW k \in 1 .. 9
  PROVE  /\ Len(CdbLine(k)) = 27
         /\ \A o \in 1 .. 27 : CdbAt(k, o, CdbLine(k)[o])
  <1>1. PICK d : d = DigitChars[k + 1] /\ d \in Digits /\ Val(d) = k
    BY DigitFacts
  <1>2. PICK s :
         s = <<d, "m", "v", "/", d, "m", "v", "sp", d, "m", "a", "/", d, "m", "a",
               "sp", "x", ":", "o", "n", "sp", "x", "=", d, "m", "v", "sp">>
    OBVIOUS
  <1>3. CdbLine(k) = s
    BY <1>1, <1>2, Zenon DEF CdbLine
  <1>4. /\ Len(s) = 27
        /\ \A o \in {1, 5, 9, 13, 24} : s[o] = d
        /\ \A o \in {2, 6, 10, 14, 25} : s[o] = "m"
        /\ \A o \in {3, 7, 26} : s[o] = "v"
        /\ \A o \in {4, 12} : s[o] = "/"
        /\ \A o \in {8, 16, 21, 27} : s[o] = "sp"
        /\ \A o \in {11, 15} : s[o] = "a"
        /\ \A o \in {17, 22} : s[o] = "x"
        /\ s[18] = ":" /\ s[19] = "o" /\ s[20] = "n" /\ s[23] = "="
    BY <1>2
  <1>5. ASSUME NEW o \in 1 .. 27
        PROVE  \/ o \in {1, 5, 9, 13, 24} \/ o \in {2, 6, 10, 14, 25}
               \/ o \in {3, 7, 26} \/ o \in {4, 12} \/ o \in {8, 16, 21, 27}
               \/ o \in {11, 15} \/ o \in {17, 22} \/ o = 18 \/ o = 19
               \/ o = 20 \/ o = 23
    OBVIOUS
  <1>6. ASSUME NEW o \in 1 .. 27 PROVE CdbAt(k, o, s[o])
    <2>1. CASE o \in {1, 5, 9, 13, 24}
      BY <1>1, <1>4, <2>1 DEF CdbAt
    <2>2. CASE o \in {2, 6, 10, 14, 25} \/ o \in {8, 16, 21, 27}
      BY <1>4, <2>2 DEF CdbAt
    <2>3. CASE o \in {3, 7, 26} \/ o \in {4, 12} \/ o \in {11, 15} \/ o \in {17, 22}
      BY <1>4, <2>3 DEF CdbAt
    <2>4. CASE o = 18 \/ o = 19 \/ o = 20 \/ o = 23
      BY <1>4, <2>4 DEF CdbAt
    <2>. QED  BY <1>5, <2>1, <2>2, <2>3, <2>4
  <1>. QED  BY <1>3, <1>4, <1>6, Zenon

LEMMA ToFacts ==
  ASSUME NEW p \in QcomltType, NEW s \in QcomltStates
  PROVE  /\ To(p, s) \in QcomltType /\ To(p, s).state = s
         /\ To(p, s).mv = p.mv /\ To(p, s).ma = p.ma /\ To(p, s).out = p.out
  BY DEF To, QcomltType

LEMMA SetNumber ==
  ASSUME NEW p \in QcomltType, NEW x \in Nat
  PROVE  /\ [p EXCEPT !.mv = x].state = p.state
         /\ [p EXCEPT !.mv = x].mv = x /\ [p EXCEPT !.mv = x].ma = p.ma
         /\ [p EXCEPT !.mv = x].out = p.out
         /\ [p EXCEPT !.ma = x].state = p.state
         /\ [p EXCEPT !.ma = x].mv = p.mv /\ [p EXCEPT !.ma = x].ma = x
         /\ [p EXCEPT !.ma = x].out = p.out
  BY DEF QcomltType

LEMMA States ==
  /\ QcomltStates = {"start", "num", "num_m", "num_mV", "num_mV_num",
                     "num_mV_num_m", "err"}
  /\ CdbStates = {"start", "key", "key_bool", "key_value", "key_o", "key_of",
                  "key_num", "key_num_m", "num", "num_m", "num_mX", "num_mX_",
                  "num_num_m"}
  BY DEF QcomltStates, CdbStates

LEMMA InStepFollows ==
  ASSUME NEW p \in QcomltType, NEW ch, NEW k \in 0 .. 9, NEW o \in 0 .. 9,
         InStep(p, k, o), QcomltAt(k + 1, o + 1, ch)
  PROVE  /\ o < 8 => /\ InStep(QcomltPush(p, ch), k, o + 1)
                     /\ QcomltPush(p, ch).out = p.out
         /\ o = 8 => /\ InStep(QcomltPush(p, ch), k, 9)
                     /\ QcomltPush(p, ch).out = Append(p.out, Measure(k + 1))
         /\ o = 9 => /\ OutOfStep(QcomltPush(p, ch), 0)
                     /\ QcomltPush(p, ch).out = p.out
  <1>. PICK q : q = QcomltPush(p, ch)
    OBVIOUS
  <1>0. /\ p.mv \in Nat /\ p.ma \in Nat
        /\ p = [state |-> p.state, mv |-> p.mv, ma |-> p.ma, out |-> p.out]
    BY DEF QcomltType
  <1>1. CASE o = 0
    <2>1. p.state = "start" /\ ch = "1" /\ ch \in Digits /\ Val(ch) = 1
      BY <1>1, CharFacts DEF InStep, QcomltAt
    <2>2. q = [To(p, "num") EXCEPT !.mv = Val(ch)]
      BY <2>1, CharFacts DEF QcomltPush
    <2>3. q.state = "num" /\ q.mv = 1 /\ q.out = p.out
      <3>1. /\ To(p, "num") \in QcomltType /\ To(p, "num").state = "num"
            /\ To(p, "num").out = p.out
        BY States, ToFacts
      <3>2. q = [To(p, "num") EXCEPT !.mv = 1]
        BY <2>1, <2>2
      <3>. QED  BY <3>1, <3>2, SetNumber
    <2>. QED  BY <1>1, <2>3 DEF InStep
  <1>2. CASE o = 1
    <2>1. p.state = "num" /\ p.mv = 1 /\ ch \in Digits /\ Val(ch) = k + 1
      BY <1>2 DEF InStep, QcomltAt
    <2>2. q = [p EXCEPT !.mv = 10 * @ + Val(ch)]
      BY <2>1, CharFacts DEF QcomltPush
    <2>3. q.state = "num" /\ q.mv = 11 + k /\ q.out = p.out
      BY <1>0, <2>1, <2>2
    <2>. QED  BY <1>2, <2>3 DEF InStep
  <1>3. CASE o = 2
    <2>1. p.state = "num" /\ p.mv = 11 + k /\ ch = "m" /\ ch \notin Digits
      BY <1>3, CharFacts DEF InStep, QcomltAt
    <2>2. q = To(p, "num_m")
      BY <2>1, CharFacts DEF QcomltPush
    <2>. QED  BY <1>3, <2>1, <2>2, States, ToFacts DEF InStep
  <1>4. CASE o = 3
    <2>1. p.state = "num_m" /\ p.mv = 11 + k /\ ch = "V"
      BY <1>4, CharFacts DEF InStep, QcomltAt
    <2>2. q = To(p, "num_mV")
      BY <2>1, CharFacts DEF QcomltPush
    <2>. QED  BY <1>4, <2>1, <2>2, States, ToFacts DEF InStep
  <1>5. CASE o = 4
    <2>1. p.state = "num_mV" /\ p.mv = 11 + k
      BY <1>5 DEF InStep
    <2>2. QcomltPush(p, ch) = p
      <3>1. ch = "sp" /\ ch \notin Digits
        BY <1>5, CharFacts DEF QcomltAt
      <3>. QED  BY <2>1, <3>1 DEF QcomltPush
    <2>. QED  BY <1>5, <2>1, <2>2 DEF InStep
  <1>6. CASE o = 5
    <2>1. p.state = "num_mV" /\ p.mv = 11 + k /\ ch \in Digits /\ Val(ch) = 1
      BY <1>6, CharFacts DEF InStep, QcomltAt
    <2>2. q = [To(p, "num_mV_num") EXCEPT !.ma = Val(ch)]
      BY <2>1, CharFacts DEF QcomltPush, FirstOfMa
    <2>3. q.state = "num_mV_num" /\ q.mv = p.mv /\ q.ma = 1 /\ q.out = p.out
      BY <2>1, <2>2, States, ToFacts, SetNumber
    <2>. QED  BY <1>6, <2>1, <2>3 DEF InStep
  <1>7. CASE o = 6
    <2>1. /\ p.state = "num_mV_num" /\ p.mv = 11 + k /\ p.ma = 1
          /\ ch \in Digits /\ Val(ch) = k + 1
      BY <1>7 DEF InStep, QcomltAt
    <2>2. q = [p EXCEPT !.ma = 10 * @ + Val(ch)]
      BY <2>1, CharFacts DEF QcomltPush
    <2>3. /\ q.state = "num_mV_num" /\ q.mv = 11 + k /\ q.ma = 11 + k
          /\ q.out = p.out
      BY <1>0, <2>1, <2>2
    <2>. QED  BY <1>7, <2>3 DEF InStep
  <1>8. CASE o = 7
    <2>1. /\ p.state = "num_mV_num" /\ p.mv = 11 + k /\ p.ma = 11 + k
          /\ ch = "m" /\ ch \notin Digits
      BY <1>8, CharFacts DEF InStep, QcomltAt
    <2>2. q = To(p, "num_mV_num_m")
      BY <2>1, CharFacts DEF QcomltPush
    <2>. QED  BY <1>8, <2>1, <2>2, States, ToFacts DEF InStep
  <1>9. CASE o = 8
    <2>1. /\ p.state = "num_mV_num_m" /\ p.mv = 11 + k /\ p.ma = 11 + k
          /\ ch = "A"
      BY <1>9 DEF InStep, QcomltAt
    <2>2. q = [p EXCEPT !.out = Append(@, <<p.mv, p.ma>>)]
      BY <2>1, CharFacts DEF QcomltPush
    <2>3. <<p.mv, p.ma>> = Measure(k + 1)
      BY <2>1 DEF Measure
    <2>4. /\ q.state = "num_mV_num_m" /\ q.mv = 11 + k /\ q.ma = 11 + k
          /\ q.out = Append(p.out, Measure(k + 1))
      BY <1>0, <2>1, <2>2, <2>3
    <2>. QED  BY <1>9, <2>4 DEF InStep
  <1>10. CASE o = 9
    <2>1. p.state = "num_mV_num_m" /\ ch = "x"
      BY <1>10 DEF InStep, QcomltAt
    <2>2. q = To(p, "err")
      BY <2>1, CharFacts DEF QcomltPush
    <2>. QED  BY <1>10, <2>2, States, ToFacts DEF OutOfStep
  <1>. QED  BY <1>1, <1>2, <1>3, <1>4, <1>5, <1>6, <1>7, <1>8, <1>9, <1>10

LEMMA OutOfStepFollows ==
  ASSUME NEW p \in QcomltType, NEW ch, NEW k \in 0 .. 9, NEW o \in 0 .. 9,
         OutOfStep(p, o), QcomltAt(k + 1, o + 1, ch)
  PROVE  /\ QcomltPush(p, ch).out = p.out
         /\ o < 9 => OutOfStep(QcomltPush(p, ch), o + 1)
         /\ o = 9 => InStep(QcomltPush(p, ch), k + 1, 0)
  <1>. PICK q : q = QcomltPush(p, ch)
    OBVIOUS
  <1>1. CASE o < 8
    <2>1. p.state = "err" /\ ch # "A"
      <3>1. p.state = "err"
        BY <1>1 DEF OutOfStep
      <3>2. "A" \notin Digits
        BY CharFacts
      <3>3. o + 1 # 9
        BY <1>1
      <3>. QED  BY <3>1, <3>2, <3>3, Zenon DEF QcomltAt
    <2>2. q = p
      BY <2>1, CharFacts DEF QcomltPush, Resync
    <2>. QED  BY <1>1, <2>1, <2>2 DEF OutOfStep
  <1>2. CASE o = 8
    <2>1. p.state = "err" /\ ch = "A"
      BY <1>2 DEF OutOfStep, QcomltAt
    <2>2. q = To(p, "start")
      BY <2>1, CharFacts DEF QcomltPush, Resync
    <2>. QED  BY <1>2, <2>2, States, ToFacts DEF OutOfStep
  <1>3. CASE o = 9
    <2>1. p.state = "start" /\ ch = "x" /\ ch \notin Digits
      BY <1>3, CharFacts DEF OutOfStep, QcomltAt
    <2>2. q = p
      BY <2>1, CharFacts DEF QcomltPush
    <2>. QED  BY <1>3, <2>1, <2>2 DEF InStep
  <1>. QED  BY <1>1, <1>2, <1>3

(* A measurement after those that were reported. *)
LEMMA ReportedNext ==
  ASSUME NEW out \in Seq(Nat \X Nat), NEW k \in Nat, Reported(out, k)
  PROVE  /\ Reported(Append(out, Measure(k + 1)), k + 1)
         /\ Reports(Append(out, Measure(k + 1)), k + 1)
         /\ \A j \in Nat : Reports(out, j) => Reports(Append(out, Measure(k + 1)), j)
  <1>. DEFINE m == <<11 + k, 11 + k>>
              new == Append(out, m)
  <1>1. Measure(k + 1) = m /\ m \in Nat \X Nat /\ m[1] = 11 + k
    BY DEF Measure
  <1>2. /\ Len(new) = Len(out) + 1 /\ Len(out) \in Nat /\ new[Len(out) + 1] = m
        /\ \A i \in 1 .. Len(out) : new[i] = out[i]
    BY <1>1, LenProperties, AppendProperties
  <1>. HIDE DEF new, m
  <1>3. ASSUME NEW i \in 1 .. Len(out)
        PROVE  \E j \in 1 .. k : out[i] = Measure(j) /\ out[i][1] < 11 + k
    <2>1. PICK j \in 1 .. k : out[i] = Measure(j)
      BY DEF Reported
    <2>. QED  BY <2>1 DEF Measure
  <1>4. \A i \in 1 .. Len(new) : \E j \in 1 .. k + 1 : new[i] = Measure(j)
    <2>. TAKE i \in 1 .. Len(new)
    <2>1. CASE i = Len(out) + 1
      <3>1. k + 1 \in 1 .. k + 1
        OBVIOUS
      <3>. QED  BY <1>1, <1>2, <2>1, <3>1
    <2>2. CASE i # Len(out) + 1
      <3>1. i \in 1 .. Len(out)
        BY <1>2, <2>2
      <3>2. PICK j \in 1 .. k : out[i] = Measure(j)
        BY <1>3, <3>1
      <3>3. j \in 1 .. k + 1 /\ new[i] = Measure(j)
        BY <1>2, <3>1, <3>2
      <3>. QED  BY <3>3
    <2>. QED  BY <2>1, <2>2
  <1>5. \A i, j \in 1 .. Len(new) : i < j => new[i][1] < new[j][1]
    <2>. SUFFICES ASSUME NEW i \in 1 .. Len(new), NEW j \in 1 .. Len(new), i < j
                  PROVE  new[i][1] < new[j][1]
      OBVIOUS
    <2>1. i \in 1 .. Len(out) /\ new[i] = out[i]
      BY <1>2
    <2>2. CASE j = Len(out) + 1
      BY <1>1, <1>2, <1>3, <2>1, <2>2
    <2>3. CASE j \in 1 .. Len(out)
      <3>2. new[j] = out[j]
        BY <1>2, <2>3
      <3>. QED  BY <2>1, <2>3, <3>2 DEF Reported
    <2>. QED  BY <1>2, <2>2, <2>3
  <1>6. Reports(new, k + 1)
    <2>1. Len(out) + 1 \in 1 .. Len(new)
      BY <1>2
    <2>. QED  BY <1>1, <1>2, <2>1 DEF Reports
  <1>7. ASSUME NEW j \in Nat, Reports(out, j) PROVE Reports(new, j)
    <2>1. PICK i \in 1 .. Len(out) : out[i] = Measure(j)
      BY <1>7 DEF Reports
    <2>2. i \in 1 .. Len(new) /\ new[i] = Measure(j)
      BY <1>2, <2>1
    <2>. QED  BY <2>2 DEF Reports
  <1>. QED  BY <1>1, <1>4, <1>5, <1>6, <1>7 DEF Reported, new

LEMMA OneOfTwoNext ==
  ASSUME NEW out, NEW k \in Nat, OneOfTwo(out, k)
  PROVE  /\ Reports(out, k + 1) \/ (k > 0 => Reports(out, k))
              => OneOfTwo(out, k + 1)
         /\ \A new : (\A j \in Nat : Reports(out, j) => Reports(new, j))
              => OneOfTwo(new, k)
  <1>1. ASSUME Reports(out, k + 1) \/ (k > 0 => Reports(out, k)),
               NEW j \in 1 .. (k + 1) - 1
        PROVE  Reports(out, j) \/ Reports(out, j + 1)
    <2>1. CASE j = k
      BY <1>1, <2>1
    <2>2. CASE j # k
      <3>1. j \in 1 .. k - 1
        BY <2>2
      <3>. QED  BY <3>1 DEF OneOfTwo
    <2>. QED  BY <2>1, <2>2
  <1>2. ASSUME NEW new, \A j \in Nat : Reports(out, j) => Reports(new, j),
               NEW j \in 1 .. k - 1
        PROVE  Reports(new, j) \/ Reports(new, j + 1)
    <2>1. j \in Nat /\ j + 1 \in Nat
      OBVIOUS
    <2>. QED  BY <1>2, <2>1 DEF OneOfTwo
  <1>. QED  BY <1>1, <1>2 DEF OneOfTwo

(* The next character of a line, *)
LEMMA QcomltFollows ==
  ASSUME NEW p \in QcomltType, NEW ch, NEW k \in 0 .. 9, NEW o \in 0 .. 9,
         NEW quiet \in BOOLEAN,
         QcomltAfter(p, k, o, quiet), QcomltAt(k + 1, o + 1, ch)
  PROVE  /\ o < 9 => QcomltAfter(QcomltPush(p, ch), k, o + 1, quiet)
         /\ o = 9 => QcomltAfter(QcomltPush(p, ch), k + 1, 0, quiet)
  <1>. PICK q : q = QcomltPush(p, ch)
    OBVIOUS
  <1>0. p.out \in Seq(Nat \X Nat) /\ k \in Nat
    BY DEF QcomltType
  <1>1. CASE OutOfStep(p, o) /\ Reported(p.out, k)
             /\ (quiet => OneOfTwo(p.out, k) /\ (k > 0 => Reports(p.out, k)))
    <2>1. /\ q.out = p.out
          /\ o < 9 => OutOfStep(q, o + 1)
          /\ o = 9 => InStep(q, k + 1, 0)
      BY <1>1, OutOfStepFollows
    <2>2. CASE o < 9
      <3>1. /\ Reported(q.out, k)
            /\ quiet => OneOfTwo(q.out, k) /\ (k > 0 => Reports(q.out, k))
        BY <1>1, <2>1, Zenon
      <3>2. OutOfStep(q, o + 1) /\ o # 9
        BY <2>1, <2>2
      <3>. QED  BY <3>1, <3>2, Zenon DEF QcomltAfter
    <2>3. CASE o = 9
      <3>1. quiet => OneOfTwo(p.out, k + 1)
        BY <1>0, <1>1, OneOfTwoNext
      <3>2. Reported(p.out, k + 1)
        BY <1>0, <1>1 DEF Reported
      <3>3. InStep(q, k + 1, 0) /\ q.out = p.out /\ 0 # 9
        BY <2>1, <2>3
      <3>4. QcomltAfter(q, k + 1, 0, quiet)
        BY <3>1, <3>2, <3>3, Zenon DEF QcomltAfter
      <3>. QED  BY <2>3, <3>4
    <2>. QED  BY <2>2, <2>3
  <1>2. CASE /\ InStep(p, k, o) /\ Reported(p.out, IF o = 9 THEN k + 1 ELSE k)
             /\ quiet => OneOfTwo(p.out, k) /\ (o = 9 => Reports(p.out, k + 1))
    <2>1. /\ o < 8 => InStep(q, k, o + 1) /\ q.out = p.out
          /\ o = 8 => InStep(q, k, 9) /\ q.out = Append(p.out, Measure(k + 1))
          /\ o = 9 => OutOfStep(q, 0) /\ q.out = p.out
      BY <1>2, InStepFollows
    <2>2. CASE o < 8
      BY <1>2, <2>1, <2>2 DEF QcomltAfter
    <2>3. CASE o = 8
      <3>1. Reported(p.out, k) /\ (quiet => OneOfTwo(p.out, k))
        BY <1>2, <2>3
      <3>2. Reported(q.out, k + 1) /\ Reports(q.out, k + 1)
        BY <1>0, <2>1, <2>3, <3>1, ReportedNext
      <3>3. \A j \in Nat : Reports(p.out, j) => Reports(q.out, j)
        BY <1>0, <2>1, <2>3, <3>1, ReportedNext
      <3>4. quiet => OneOfTwo(q.out, k)
        BY <1>0, <3>1, <3>3, OneOfTwoNext
      <3>. QED  BY <2>1, <2>3, <3>2, <3>4 DEF QcomltAfter
    <2>4. CASE o = 9
      <3>1. Reported(p.out, k + 1)
        BY <1>2, <2>4
      <3>2. quiet => Reports(p.out, k + 1) /\ OneOfTwo(p.out, k + 1)
        BY <1>0, <1>2, <2>4, OneOfTwoNext
      <3>. QED  BY <2>1, <2>4, <3>1, <3>2 DEF QcomltAfter
    <2>. QED  BY <2>2, <2>3, <2>4
  <1>. QED  BY <1>1, <1>2 DEF QcomltAfter

(* and the two of what is not a line. *)
LEMMA QcomltNoise ==
  ASSUME NEW p \in QcomltType, NEW b \in Nat
  PROVE  /\ QcomltAfter(p, b, 0, FALSE) => Interrupted(QcomltPush(p, "2"), b)
         /\ Interrupted(p, b) => QcomltAfter(QcomltPush(p, "x"), b, 0, FALSE)
  <1>1. ASSUME QcomltAfter(p, b, 0, FALSE)
        PROVE  Interrupted(QcomltPush(p, "2"), b)
    <2>. PICK q : q = QcomltPush(p, "2")
      OBVIOUS
    <2>1. p.state \in {"start", "err"} /\ Reported(p.out, b)
      BY <1>1 DEF QcomltAfter, InStep, OutOfStep
    <2>2. CASE p.state = "start"
      <3>1. q = [To(p, "num") EXCEPT !.mv = Val("2")]
        BY <2>2, CharFacts DEF QcomltPush
      <3>2. PICK v \in Nat : v = Val("2")
        BY CharFacts, ValType
      <3>3. PICK r \in QcomltType :
              r = To(p, "num") /\ r.state = "num" /\ r.out = p.out
        BY States, ToFacts
      <3>4. q = [r EXCEPT !.mv = v]
        BY <3>1, <3>2, <3>3
      <3>5. [r EXCEPT !.mv = v].state = r.state /\ [r EXCEPT !.mv = v].out = r.out
        BY SetNumber
      <3>6. q.state = "num" /\ q.out = p.out
        BY <3>3, <3>4, <3>5, Zenon
      <3>. QED  BY <2>1, <3>6 DEF Interrupted
    <2>3. CASE p.state = "err"
      <3>1. q = p
        BY <2>3 DEF QcomltPush, Resync
      <3>. QED  BY <2>1, <2>3, <3>1 DEF Interrupted
    <2>. QED  BY <2>1, <2>2, <2>3
  <1>2. ASSUME Interrupted(p, b)
        PROVE  QcomltAfter(QcomltPush(p, "x"), b, 0, FALSE)
    <2>. PICK q : q = QcomltPush(p, "x")
      OBVIOUS
    <2>1. p.state \in {"num", "err"} /\ Reported(p.out, b)
      BY <1>2 DEF Interrupted
    <2>2. q.state = "err" /\ q.out = p.out
      <3>1. CASE p.state = "num"
        <4>1. q = To(p, "err")
          BY <3>1, CharFacts DEF QcomltPush
        <4>. QED  BY <4>1, States, ToFacts
      <3>2. CASE p.state = "err"
        BY <3>2 DEF QcomltPush, Resync
      <3>. QED  BY <2>1, <3>1, <3>2
    <2>. QED  BY <2>1, <2>2 DEF QcomltAfter, OutOfStep
  <1>. QED  BY <1>1, <1>2

(* The parser of the CDB Assist, field by field. *)
CdbIs(q, s, n, i, v, x, y, z) ==
  /\ q.state = s /\ q.num[1] = n /\ q.num[2] = i /\ q.voltage = v
  /\ q.voltage_set = x /\ q.current_actual = y /\ q.vref = z

LEMMA CdbFields ==
  ASSUME NEW p \in CdbType, NEW s \in CdbStates
  PROVE  /\ CdbIs(To(p, s), s, p.num[1], p.num[2], p.voltage,
                  p.voltage_set, p.current_actual, p.vref)
         /\ \A x \in Nat :
              /\ CdbIs([To(p, s) EXCEPT !.num[1] = x], s, x, p.num[2], p.voltage,
                       p.voltage_set, p.current_actual, p.vref)
              /\ CdbIs([To(p, s) EXCEPT !.num[2] = x], s, p.num[1], x, p.voltage,
                       p.voltage_set, p.current_actual, p.vref)
              /\ CdbIs([To(p, s) EXCEPT !.voltage_set = x], s, p.num[1],
                       p.num[2], p.voltage, x, p.current_actual, p.vref)
              /\ CdbIs([To(p, s) EXCEPT !.current_actual = x], s, p.num[1],
                       p.num[2], p.voltage, p.voltage_set, x, p.vref)
              /\ CdbIs([To(p, s) EXCEPT !.vref = x], s, p.num[1],
                       p.num[2], p.voltage, p.voltage_set, p.current_actual, x)
         /\ \A v \in BOOLEAN :
              CdbIs([To(p, s) EXCEPT !.voltage = v], s, p.num[1], p.num[2], v,
                    p.voltage_set, p.current_actual, p.vref)
  <1>1. p.num \in [1 .. 2 -> Nat]
    BY DEF CdbType
  <1>2. \A x \in Nat :
          /\ [p.num EXCEPT ![1] = x][1] = x /\ [p.num EXCEPT ![1] = x][2] = p.num[2]
          /\ [p.num EXCEPT ![2] = x][2] = x /\ [p.num EXCEPT ![2] = x][1] = p.num[1]
    BY <1>1
  <1>. QED  BY <1>2 DEF To, CdbType, CdbIs

LEMMA CdbMoves ==
  ASSUME NEW p \in CdbType, NEW ch
  PROVE  /\ p.state = "start" /\ ch \in Digits
              => CdbIs(CdbPush(p, ch), "num", Val(ch), p.num[2],
                       p.voltage, p.voltage_set, p.current_actual, p.vref)
         /\ p.state = "start" /\ ch = "x"
              => CdbIs(CdbPush(p, ch), "key", p.num[1], p.num[2],
                       p.voltage, p.voltage_set, p.current_actual, p.vref)
         /\ p.state = "start" /\ ch = "sp"
              => CdbIs(CdbPush(p, ch), "start", p.num[1], p.num[2],
                       p.voltage, p.voltage_set, p.current_actual, p.vref)
         /\ p.state = "num" /\ ch = "m"
              => CdbIs(CdbPush(p, ch), "num_m", p.num[1], p.num[2],
                       p.voltage, p.voltage_set, p.current_actual, p.vref)
         /\ p.state = "num_m" /\ ch \in {"v", "a"}
              => CdbIs(CdbPush(p, ch), "num_mX", p.num[1], p.num[2],
                       (ch = "v"), p.voltage_set, p.current_actual, p.vref)
         /\ p.state = "num_mX" /\ ch = "/"
              => CdbIs(CdbPush(p, ch), "num_mX_", p.num[1], 0,
                       p.voltage, p.voltage_set, p.current_actual, p.vref)
         /\ p.state = "num_mX_" /\ ch \in Digits
              => CdbIs(CdbPush(p, ch), "num_mX_", p.num[1], 10 * p.num[2] + Val(ch),
                       p.voltage, p.voltage_set, p.current_actual, p.vref)
         /\ p.state = "num_mX_" /\ ch = "m"
              => CdbIs(CdbPush(p, ch), "num_num_m", p.num[1], p.num[2],
                       p.voltage, p.voltage_set, p.current_actual, p.vref)
         /\ p.state = "num_num_m" /\ ch = "v" /\ p.voltage
              => CdbIs(CdbPush(p, ch), "start", p.num[1], p.num[2],
                       p.voltage, p.num[1], p.current_actual, p.vref)
         /\ p.state = "num_num_m" /\ ch = "a" /\ ~p.voltage
              => CdbIs(CdbPush(p, ch), "start", p.num[1], p.num[2],
                       p.voltage, p.voltage_set, p.num[2], p.vref)
         /\ p.state = "key" /\ ch = ":"
              => CdbIs(CdbPush(p, ch), "key_bool", p.num[1], p.num[2],
                       p.voltage, p.voltage_set, p.current_actual, p.vref)
         /\ p.state = "key" /\ ch = "="
              => CdbIs(CdbPush(p, ch), "key_value", p.num[1], p.num[2],
                       p.voltage, p.voltage_set, p.current_actual, p.vref)
         /\ p.state = "key_bool" /\ ch = "o"
              => CdbIs(CdbPush(p, ch), "key_o", p.num[1], p.num[2],
                       p.voltage, p.voltage_set, p.current_actual, p.vref)
         /\ p.state = "key_o" /\ ch = "n"
              => CdbIs(CdbPush(p, ch), "start", p.num[1], p.num[2],
                       p.voltage, p.voltage_set, p.current_actual, p.vref)
         /\ p.state = "key_value" /\ ch \in Digits
              => CdbIs(CdbPush(p, ch), "key_num", Val(ch), p.num[2],
                       p.voltage, p.voltage_set, p.current_actual, p.vref)
         /\ p.state = "key_num" /\ ch = "m"
              => CdbIs(CdbPush(p, ch), "key_num_m", p.num[1], p.num[2],
                       p.voltage, p.voltage_set, p.current_actual, p.vref)
         /\ p.state = "key_num_m" /\ ch = "v"
              => CdbIs(CdbPush(p, ch), "start", p.num[1], p.num[2],
                       p.voltage, p.voltage_set, p.current_actual, p.num[1])
  <1>. PICK q : q = CdbPush(p, ch)
    OBVIOUS
  <1>0. p.num \in [1 .. 2 -> Nat] /\ p.num[1] \in Nat /\ p.num[2] \in Nat
        /\ p.voltage \in BOOLEAN
    BY DEF CdbType
  <1>1. ASSUME p.state = "start" /\ ch \in Digits
        PROVE  CdbIs(q, "num", Val(ch), p.num[2],
                     p.voltage, p.voltage_set, p.current_actual, p.vref)
    <2>1. q = [To(p, "num") EXCEPT !.num[1] = Val(ch)]
      BY <1>1, CharFacts DEF CdbPush, Letters
    <2>2. PICK v \in Nat : v = Val(ch)
      BY <1>1, ValType
    <2>3. q = [To(p, "num") EXCEPT !.num[1] = v] /\ "num" \in CdbStates
      BY <2>1, <2>2, States
    <2>. QED  BY <2>2, <2>3, CdbFields
  <1>2. ASSUME p.state = "start" /\ ch = "x"
        PROVE  CdbIs(q, "key", p.num[1], p.num[2],
                     p.voltage, p.voltage_set, p.current_actual, p.vref)
    <2>1. q = To(p, "key")
      BY <1>2, CharFacts DEF CdbPush, Letters
    <2>. QED  BY <1>2, <2>1, <1>0, States, CdbFields, ValType
  <1>3. ASSUME p.state = "start" /\ ch = "sp"
        PROVE  CdbIs(q, "start", p.num[1], p.num[2],
                     p.voltage, p.voltage_set, p.current_actual, p.vref)
    <2>1. q = To(p, "start")
      BY <1>3, CharFacts DEF CdbPush, Letters
    <2>. QED  BY <1>3, <2>1, <1>0, States, CdbFields, ValType
  <1>4. ASSUME p.state = "num" /\ ch = "m"
        PROVE  CdbIs(q, "num_m", p.num[1], p.num[2],
                     p.voltage, p.voltage_set, p.current_actual, p.vref)
    <2>1. q = To(p, "num_m")
      BY <1>4, CharFacts DEF CdbPush, Letters
    <2>. QED  BY <1>4, <2>1, <1>0, States, CdbFields, ValType
  <1>5. ASSUME p.state = "num_m" /\ ch \in {"v", "a"}
        PROVE  CdbIs(q, "num_mX", p.num[1], p.num[2],
                     (ch = "v"), p.voltage_set, p.current_actual, p.vref)
    <2>1. q = [To(p, "num_mX") EXCEPT !.voltage = (ch = "v")]
      BY <1>5, CharFacts DEF CdbPush, Letters
    <2>. QED  BY <1>5, <2>1, <1>0, States, CdbFields, ValType
  <1>6. ASSUME p.state = "num_mX" /\ ch = "/"
        PROVE  CdbIs(q, "num_mX_", p.num[1], 0,
                     p.voltage, p.voltage_set, p.current_actual, p.vref)
    <2>1. q = Second(p)
      BY <1>6, CharFacts DEF CdbPush, Letters
    <2>2. q = [To(p, "num_mX_") EXCEPT !.num[2] = 0] /\ "num_mX_" \in CdbStates
      BY <2>1, States DEF Second
    <2>. QED  BY <2>2, CdbFields
  <1>7. ASSUME p.state = "num_mX_" /\ ch \in Digits
        PROVE  CdbIs(q, "num_mX_", p.num[1], 10 * p.num[2] + Val(ch),
                     p.voltage, p.voltage_set, p.current_actual, p.vref)
    <2>1. q = Digit(p, 2, ch)
      BY <1>7, CharFacts DEF CdbPush, Letters
    <2>2. PICK v \in Nat : v = 10 * p.num[2] + Val(ch)
      BY <1>0, <1>7, ValType
    <2>3. p = To(p, "num_mX_") /\ "num_mX_" \in CdbStates
      BY <1>7, States DEF To, CdbType
    <2>4. q = [p EXCEPT !.num[2] = v]
      BY <2>1, <2>2 DEF Digit
    <2>5. q = [To(p, "num_mX_") EXCEPT !.num[2] = v]
      BY <2>3, <2>4, Zenon
    <2>6. CdbIs(q, "num_mX_", p.num[1], v, p.voltage, p.voltage_set,
                p.current_actual, p.vref)
      BY <2>3, <2>5, CdbFields
    <2>. QED  BY <2>2, <2>6, Zenon
  <1>8. ASSUME p.state = "num_mX_" /\ ch = "m"
        PROVE  CdbIs(q, "num_num_m", p.num[1], p.num[2],
                     p.voltage, p.voltage_set, p.current_actual, p.vref)
    <2>1. q = To(p, "num_num_m")
      BY <1>8, CharFacts DEF CdbPush, Letters
    <2>. QED  BY <1>8, <2>1, <1>0, States, CdbFields, ValType
  <1>9. ASSUME p.state = "num_num_m" /\ ch = "v" /\ p.voltage
        PROVE  CdbIs(q, "start", p.num[1], p.num[2],
                     p.voltage, p.num[1], p.current_actual, p.vref)
    <2>1. q = [To(p, "start") EXCEPT !.voltage_set = p.num[1]]
      BY <1>9, CharFacts DEF CdbPush, Letters
    <2>. QED  BY <1>9, <2>1, <1>0, States, CdbFields, ValType
  <1>10. ASSUME p.state = "num_num_m" /\ ch = "a" /\ ~p.voltage
        PROVE  CdbIs(q, "start", p.num[1], p.num[2],
                     p.voltage, p.voltage_set, p.num[2], p.vref)
    <2>1. q = [To(p, "start") EXCEPT !.current_actual = p.num[2]]
      BY <1>10, CharFacts DEF CdbPush, Letters
    <2>. QED  BY <1>10, <2>1, <1>0, States, CdbFields, ValType
  <1>11. ASSUME p.state = "key" /\ ch = ":"
        PROVE  CdbIs(q, "key_bool", p.num[1], p.num[2],
                     p.voltage, p.voltage_set, p.current_actual, p.vref)
    <2>1. q = To(p, "key_bool")
      BY <1>11, CharFacts DEF CdbPush, Letters
    <2>. QED  BY <1>11, <2>1, <1>0, States, CdbFields, ValType
  <1>12. ASSUME p.state = "key" /\ ch = "="
        PROVE  CdbIs(q, "key_value", p.num[1], p.num[2],
                     p.voltage, p.voltage_set, p.current_actual, p.vref)
    <2>1. q = To(p, "key_value")
      BY <1>12, CharFacts DEF CdbPush, Letters
    <2>. QED  BY <1>12, <2>1, <1>0, States, CdbFields, ValType
  <1>13. ASSUME p.state = "key_bool" /\ ch = "o"
        PROVE  CdbIs(q, "key_o", p.num[1], p.num[2],
                     p.voltage, p.voltage_set, p.current_actual, p.vref)
    <2>1. q = To(p, "key_o")
      BY <1>13, CharFacts DEF CdbPush, Letters
    <2>. QED  BY <1>13, <2>1, <1>0, States, CdbFields, ValType
  <1>14. ASSUME p.state = "key_o" /\ ch = "n"
        PROVE  CdbIs(q, "start", p.num[1], p.num[2],
                     p.voltage, p.voltage_set, p.current_actual, p.vref)
    <2>1. q = To(p, "start")
      BY <1>14, CharFacts DEF CdbPush, Letters
    <2>. QED  BY <1>14, <2>1, <1>0, States, CdbFields, ValType
  <1>15. ASSUME p.state = "key_value" /\ ch \in Digits
        PROVE  CdbIs(q, "key_num", Val(ch), p.num[2],
                     p.voltage, p.voltage_set, p.current_actual, p.vref)
    <2>1. q = [To(p, "key_num") EXCEPT !.num[1] = Val(ch)]
      BY <1>15, CharFacts DEF CdbPush, Letters
    <2>2. PICK v \in Nat : v = Val(ch)
      BY <1>15, ValType
    <2>3. q = [To(p, "key_num") EXCEPT !.num[1] = v] /\ "key_num" \in CdbStates
      BY <2>1, <2>2, States
    <2>. QED  BY <2>2, <2>3, CdbFields
  <1>16. ASSUME p.state = "key_num" /\ ch = "m"
        PROVE  CdbIs(q, "key_num_m", p.num[1], p.num[2],
                     p.voltage, p.voltage_set, p.current_actual, p.vref)
    <2>1. q = To(p, "key_num_m")
      BY <1>16, CharFacts DEF CdbPush, Letters
    <2>. QED  BY <1>16, <2>1, <1>0, States, CdbFields, ValType
  <1>17. ASSUME p.state = "key_num_m" /\ ch = "v"
        PROVE  CdbIs(q, "start", p.num[1], p.num[2],
                     p.voltage, p.voltage_set, p.current_actual, p.num[1])
    <2>1. q = [To(p, "start") EXCEPT !.vref = p.num[1]]
      BY <1>17, CharFacts DEF CdbPush, Letters
    <2>. QED  BY <1>17, <2>1, <1>0, States, CdbFields, ValType
  <1>. QED  BY <1>1, <1>2, <1>3, <1>4, <1>5, <1>6, <1>7, <1>8, <1>9, <1>10, <1>11, <1>12, <1>13, <1>14, <1>15, <1>16, <1>17

LEMMA CdbFollows ==
  ASSUME NEW p \in CdbType, NEW ch, NEW k \in 0 .. 9, NEW o \in 0 .. 26,
         CdbAfter(p, k, o), CdbAt(k + 1, o + 1, ch)
  PROVE  /\ o < 26 => CdbAfter(CdbPush(p, ch), k, o + 1)
         /\ o = 26 => CdbAfter(CdbPush(p, ch), k + 1, 0)
  <1>. PICK q : q = CdbPush(p, ch)
    OBVIOUS
  <1>0. p.num[1] \in Nat /\ p.num[2] \in Nat /\ p.voltage \in BOOLEAN
    BY DEF CdbType
  <1>1. CASE o = 0
    BY <1>0, <1>1, CdbMoves, CharFacts DEF CdbAfter, CdbAt, CdbIs
  <1>2. CASE o = 1 \/ o = 9
    BY <1>0, <1>2, CdbMoves, CharFacts DEF CdbAfter, CdbAt, CdbIs
  <1>3. CASE o = 2
    <2>1. p.state = "num_m" /\ ch = "v"
      BY <1>3, CharFacts DEF CdbAfter, CdbAt
    <2>2. CdbIs(q, "num_mX", p.num[1], p.num[2], (ch = "v"), p.voltage_set,
                p.current_actual, p.vref)
      BY <2>1, CdbMoves
    <2>3. /\ q.state = "num_mX" /\ q.num[1] = p.num[1] /\ q.voltage
          /\ q.voltage_set = p.voltage_set
          /\ q.current_actual = p.current_actual /\ q.vref = p.vref
      BY <2>1, <2>2 DEF CdbIs
    <2>. QED  BY <1>3, <2>3 DEF CdbAfter
  <1>4. CASE o = 3 \/ o = 11
    BY <1>0, <1>4, CdbMoves, CharFacts DEF CdbAfter, CdbAt, CdbIs
  <1>5. CASE o = 4 \/ o = 12
    BY <1>0, <1>5, CdbMoves, CharFacts DEF CdbAfter, CdbAt, CdbIs
  <1>6. CASE o = 5 \/ o = 13
    BY <1>0, <1>6, CdbMoves, CharFacts DEF CdbAfter, CdbAt, CdbIs
  <1>7. CASE o = 6
    BY <1>0, <1>7, CdbMoves, CharFacts DEF CdbAfter, CdbAt, CdbIs
  <1>8. CASE o = 7 \/ o = 15
    BY <1>0, <1>8, CdbMoves, CharFacts DEF CdbAfter, CdbAt, CdbIs
  <1>9. CASE o = 8
    BY <1>0, <1>9, CdbMoves, CharFacts DEF CdbAfter, CdbAt, CdbIs
  <1>10. CASE o = 10
    <2>1. p.state = "num_m" /\ ch = "a"
      BY <1>10, CharFacts DEF CdbAfter, CdbAt
    <2>2. CdbIs(q, "num_mX", p.num[1], p.num[2], (ch = "v"), p.voltage_set,
                p.current_actual, p.vref)
      BY <2>1, CdbMoves
    <2>3. /\ q.state = "num_mX" /\ q.num[1] = p.num[1] /\ ~q.voltage
          /\ q.voltage_set = p.voltage_set
          /\ q.current_actual = p.current_actual /\ q.vref = p.vref
      BY <2>1, <2>2 DEF CdbIs
    <2>. QED  BY <1>10, <2>3 DEF CdbAfter
  <1>11. CASE o = 14
    BY <1>0, <1>11, CdbMoves, CharFacts DEF CdbAfter, CdbAt, CdbIs
  <1>12. CASE o = 16 \/ o = 21
    BY <1>0, <1>12, CdbMoves, CharFacts DEF CdbAfter, CdbAt, CdbIs
  <1>13. CASE o = 17
    BY <1>0, <1>13, CdbMoves, CharFacts DEF CdbAfter, CdbAt, CdbIs
  <1>14. CASE o = 18
    BY <1>0, <1>14, CdbMoves, CharFacts DEF CdbAfter, CdbAt, CdbIs
  <1>15. CASE o = 19
    BY <1>0, <1>15, CdbMoves, CharFacts DEF CdbAfter, CdbAt, CdbIs
  <1>16. CASE o = 20
    BY <1>0, <1>16, CdbMoves, CharFacts DEF CdbAfter, CdbAt, CdbIs
  <1>17. CASE o = 22
    BY <1>0, <1>17, CdbMoves, CharFacts DEF CdbAfter, CdbAt, CdbIs
  <1>18. CASE o = 23
    BY <1>0, <1>18, CdbMoves, CharFacts DEF CdbAfter, CdbAt, CdbIs
  <1>19. CASE o = 24
    BY <1>0, <1>19, CdbMoves, CharFacts DEF CdbAfter, CdbAt, CdbIs
  <1>20. CASE o = 25
    BY <1>0, <1>20, CdbMoves, CharFacts DEF CdbAfter, CdbAt, CdbIs
  <1>21. CASE o = 26
    BY <1>0, <1>21, CdbMoves, CharFacts DEF CdbAfter, CdbAt, CdbIs
  <1>. QED  BY <1>1, <1>2, <1>3, <1>4, <1>5, <1>6, <1>7, <1>8, <1>9, <1>10, <1>11, <1>12, <1>13, <1>14, <1>15, <1>16, <1>17, <1>18, <1>19, <1>20, <1>21

-----------------------------------------------------------------------------
(***************************************************************************)
(* What is read stays what was printed, and the parser with it.            *)
(***************************************************************************)
Reading == QcomltReading /\ CdbReading

LEMMA ReadingSame ==
  ASSUME Reading, inbox'["control"] = inbox["control"],
         UNCHANGED <<dev, qcomlt, cdb, lines, noisy>>
  PROVE  Reading'
  <1>1. QcomltReading'
    BY DEF Reading, QcomltReading, Unread
  <1>2. CdbReading'
    BY DEF Reading, CdbReading, Unread
  <1>. QED  BY <1>1, <1>2 DEF Reading

(* Nobody but the board, and its parser, touches what they share. *)
LEMMA ControlAlone ==
  ASSUME Typed, Next, ~CtrlChar, ~Answer, ~Chatter
  PROVE  /\ inbox'["control"] = inbox["control"]
         /\ UNCHANGED <<dev, qcomlt, cdb, lines, noisy>>
  <1>0. inbox \in [Fds -> Seq(Texts)] /\ "control" \in Fds
    BY DEF Typed, Fds
  <1>1. \A f, s : f # "control" => [inbox EXCEPT ![f] = s]["control"] = inbox["control"]
    BY <1>0
  <1>2. CASE Leave \/ Ready \/ Poll \/ PrintStatus \/ PassDone
    BY <1>2 DEF Leave, Ready, Poll, PrintStatus, PassDone, Wake, dv, parsers,
                io, bounds
  <1>3. CASE ConsoleData \/ ConmuxData \/ StatusData \/ UdevData
    <2>1. \A f : f # "control" => (ReadAll(f) => inbox'["control"] = inbox["control"])
      BY <1>1 DEF ReadAll
    <2>2. \A f, how : ReadEnd(f, how) => inbox' = inbox
      BY DEF ReadEnd
    <2>3. UNCHANGED <<parsers, dv, bounds>>
      BY <1>3 DEF ConsoleData, ConmuxData, StatusData, UdevData, Only
    <2>4. inbox'["control"] = inbox["control"]
      BY <1>1, <1>3, <2>1, <2>2
         DEF ConsoleData, ConmuxData, StatusData, UdevData
    <2>. QED  BY <2>3, <2>4 DEF parsers, dv, bounds
  <1>4. CASE CtrlData \/ StdinRead
    <2>1. UNCHANGED <<parsers, dv, bounds>>
      BY <1>4 DEF CtrlData, StdinRead
    <2>2. inbox' = inbox
      BY <1>4 DEF CtrlData, StdinRead, ReadEnd, io
    <2>. QED  BY <2>1, <2>2 DEF parsers, dv, bounds
  <1>5. CASE SelectBoard \/ SelectFails \/ SelectConmux \/ StatusEnable \/ OtherMessage
    <2>1. UNCHANGED <<parsers, bounds, dev>>
      BY <1>5 DEF SelectBoard, SelectFails, SelectConmux, StatusEnable,
                  OtherMessage, Message, dv
    <2>2. Handled => inbox'["control"] = inbox["control"]
      BY <1>0 DEF Handled
    <2>3. SelectConmux => inbox'["control"] = inbox["control"]
      BY <1>0, <2>2 DEF SelectConmux
    <2>4. inbox'["control"] = inbox["control"]
      BY <1>5, <2>2, <2>3 DEF SelectBoard, SelectFails, StatusEnable, OtherMessage
    <2>. QED  BY <2>1, <2>4 DEF parsers, bounds
  <1>6. CASE \/ \E m \in {"status", "other"} : ClientSends(m)
             \/ ClientGoes
             \/ \E f \in Fds : Talks(f)
             \/ \E f \in Fds, how \in {"eof", "err"} : HangsUp(f, how)
    <2>1. UNCHANGED <<parsers, dv, lines, noisy>>
      BY <1>6 DEF ClientSends, ClientGoes, Talks, HangsUp, Outside, bounds
    <2>2. \A f, s : f # "control" /\ Arrives(f, s) => inbox'["control"] = inbox["control"]
      BY <1>0 DEF Arrives
    <2>3. inbox'["control"] = inbox["control"]
      BY <1>6, <2>2 DEF ClientSends, ClientGoes, Talks, HangsUp
    <2>. QED  BY <2>1, <2>3 DEF parsers, dv
  <1>. QED  BY <1>2, <1>3, <1>4, <1>5, <1>6 DEF Next, Loop

LEMMA Arrived ==
  ASSUME Typed, NEW s \in Seq(Texts), Arrives("control", s)
  PROVE  /\ Unread \in Nat /\ Unread' = Unread + Len(s)
         /\ \A i \in 1 .. Unread : inbox'["control"][i] = inbox["control"][i]
         /\ \A i \in 1 .. Len(s) : inbox'["control"][Unread + i] = s[i]
  <1>1. inbox \in [Fds -> Seq(Texts)] /\ "control" \in Fds
    BY DEF Typed, Fds
  <1>2. inbox'["control"] = inbox["control"] \o s
    BY <1>1 DEF Arrives
  <1>3. PICK r \in Seq(Texts) : r = inbox["control"]
    BY <1>1
  <1>. QED  BY <1>2, <1>3, ConcatProperties, LenProperties DEF Unread

(* The character after those that were read. *)
LEMMA QcomltNextChar ==
  ASSUME NEW b \in Nat, NEW r \in Nat, NEW ch, QcomltStream(r + 1, b, ch)
  PROVE  /\ \A k \in 0 .. 9, o \in 0 .. 9 :
              \/ r < 10 * b /\ r = 10 * k + o
              \/ r >= 10 * b + 2 /\ r = 10 * k + o + 2
              => QcomltAt(k + 1, o + 1, ch)
         /\ r = 10 * b => ch = "2"
         /\ r = 10 * b + 1 => ch = "x"
  <1>1. ASSUME NEW k \in 0 .. 9, NEW o \in 0 .. 9,
               \/ r < 10 * b /\ r = 10 * k + o
               \/ r >= 10 * b + 2 /\ r = 10 * k + o + 2
        PROVE  QcomltAt(k + 1, o + 1, ch)
    <2>1. PICK kk \in 0 .. 9, oo \in 1 .. 10 :
            /\ \/ r + 1 <= 10 * b /\ r + 1 = 10 * kk + oo
               \/ r + 1 > 10 * b + 2 /\ r + 1 = 10 * kk + oo + 2
            /\ QcomltAt(kk + 1, oo, ch)
      BY <1>1 DEF QcomltStream
    <2>2. kk = k /\ oo = o + 1
      BY <1>1, <2>1
    <2>. QED  BY <2>1, <2>2
  <1>2. r = 10 * b => ch = "2"
    BY DEF QcomltStream
  <1>3. r = 10 * b + 1 => ch = "x"
    BY DEF QcomltStream
  <1>. QED  BY <1>1, <1>2, <1>3

LEMMA CtrlCharReading ==
  ASSUME LInv, Reading, CtrlChar
  PROVE  Reading'
  <1>0. Typed /\ Pass /\ pc = "control" /\ qcomlt \in QcomltType /\ cdb \in CdbType
    BY DEF LInv, Typed, CtrlChar
  <1>1. UNCHANGED <<dev, lines, noisy>> /\ lines \in 0 .. 9
    <2>1. lines \in 0 .. MaxLines[dev.control] /\ MaxLines[dev.control] \in 0 .. 9
      BY <1>0, DeviceFacts DEF Typed
    <2>. QED  BY <2>1 DEF CtrlChar, dv, bounds
  <1>2. PICK s \in Seq(Texts) : s = inbox["control"]
    BY <1>0 DEF Typed, Fds
  <1>3. /\ inbox'["control"] = Tail(s)
        /\ inbox \in [Fds -> Seq(Texts)] /\ "control" \in Fds
    BY <1>0, <1>2 DEF CtrlChar, Typed, Fds
  <1>4. PICK n \in Nat : n = Len(s)
    BY LenProperties
  <1>5. s # <<>> /\ n > 0
    <2>1. left \in 1 .. n
      BY <1>0, <1>2, <1>4 DEF Pass
    <2>2. n > 0
      BY <2>1
    <2>. QED  BY <1>4, <2>2
  <1>6. PICK ch : ch = Head(inbox["control"])
    OBVIOUS
  <1>7. /\ Unread = n /\ Unread' = n - 1 /\ inbox["control"][1] = ch
        /\ \A i \in 1 .. n - 1 : inbox'["control"][i] = inbox["control"][i + 1]
    <2>1. Len(Tail(s)) = n - 1 /\ Head(s) = s[1]
      BY <1>4, <1>5, TailFacts, HeadTailProperties
    <2>2. \A i \in 1 .. Len(Tail(s)) : Tail(s)[i] = s[i + 1]
      BY <1>5, HeadTailProperties
    <2>. QED  BY <1>2, <1>3, <1>4, <1>6, <2>1, <2>2 DEF Unread
  <1>8. QcomltReading'
    <2>1. CASE dev.control # "qcomlt_dbg"
      <3>1. qcomlt' = qcomlt /\ dev'.control # "qcomlt_dbg"
        BY <1>1, <2>1 DEF CtrlChar
      <3>. QED  BY <2>1, <3>1 DEF Reading, QcomltReading
    <2>2. CASE dev.control = "qcomlt_dbg"
      <3>0. PICK total \in Nat :
              total = 10 * lines + (IF noisy THEN 2 ELSE 0)
        BY <1>1
      <3>1. PICK b \in 0 .. lines, r \in Nat :
              /\ ~noisy => b = lines
              /\ r + n = total
              /\ \A i \in 1 .. n : QcomltStream(r + i, b, inbox["control"][i])
              /\ \/ r = 10 * b + 1 /\ Interrupted(qcomlt, b)
                 \/ \E k \in 0 .. 9, o \in 0 .. 9 :
                      /\ \/ r <= 10 * b /\ r = 10 * k + o
                         \/ r >= 10 * b + 2 /\ r = 10 * k + o + 2
                      /\ QcomltAfter(qcomlt, k, o, ~noisy)
        BY <1>7, <2>2, <3>0 DEF Reading, QcomltReading
      <3>2. qcomlt' = QcomltPush(qcomlt, ch)
        BY <1>6, <2>2 DEF CtrlChar
      <3>3. QcomltStream(r + 1, b, ch)
        <4>1. 1 \in 1 .. n
          BY <1>5
        <4>. QED  BY <1>7, <3>1, <4>1
      <3>4. \A i \in 1 .. n - 1 : QcomltStream((r + 1) + i, b, inbox'["control"][i])
        <4>. TAKE i \in 1 .. n - 1
        <4>1. i + 1 \in 1 .. n /\ (r + 1) + i = r + (i + 1)
          OBVIOUS
        <4>. QED  BY <1>7, <3>1, <4>1
      <3>5. b \in Nat /\ r \in Nat /\ r + 1 \in Nat /\ (r + 1) + (n - 1) = total
        BY <1>1, <3>1
      <3>6. (r = 10 * b => ch = "2") /\ (r = 10 * b + 1 => ch = "x")
        BY <3>3, <3>5, QcomltNextChar
      <3>7. \/ r + 1 = 10 * b + 1 /\ Interrupted(qcomlt', b)
            \/ \E k \in 0 .. 9, o \in 0 .. 9 :
                 /\ \/ r + 1 <= 10 * b /\ r + 1 = 10 * k + o
                    \/ r + 1 >= 10 * b + 2 /\ r + 1 = 10 * k + o + 2
                 /\ QcomltAfter(qcomlt', k, o, ~noisy)
        <4>1. CASE r = 10 * b + 1 /\ Interrupted(qcomlt, b)
          <5>1. ch = "x"
            BY <3>6, <4>1
          <5>2. noisy
            BY <1>5, <3>0, <3>1, <4>1
          <5>3. QcomltAfter(qcomlt', b, 0, FALSE) /\ (~noisy) = FALSE
            BY <1>0, <3>2, <3>5, <4>1, <5>1, <5>2, QcomltNoise
          <5>4. /\ b \in 0 .. 9 /\ 0 \in 0 .. 9
                /\ r + 1 >= 10 * b + 2 /\ r + 1 = 10 * b + 0 + 2
            BY <1>1, <4>1
          <5>5. QcomltAfter(qcomlt', b, 0, ~noisy)
            BY <5>3, Zenon
          <5>. QED  BY <5>4, <5>5, Zenon
        <4>2. CASE \E k \in 0 .. 9, o \in 0 .. 9 :
                      /\ \/ r <= 10 * b /\ r = 10 * k + o
                         \/ r >= 10 * b + 2 /\ r = 10 * k + o + 2
                      /\ QcomltAfter(qcomlt, k, o, ~noisy)
          <5>1. PICK k \in 0 .. 9, o \in 0 .. 9 :
                      /\ \/ r <= 10 * b /\ r = 10 * k + o
                         \/ r >= 10 * b + 2 /\ r = 10 * k + o + 2
                      /\ QcomltAfter(qcomlt, k, o, ~noisy)
            BY <4>2
          <5>2. CASE r = 10 * b
            <6>1. k = b /\ o = 0
              BY <1>1, <5>1, <5>2
            <6>2. ch = "2"
              BY <3>6, <5>2
            <6>3. noisy
              BY <1>5, <3>0, <3>1, <5>2
            <6>4. QcomltAfter(qcomlt, b, 0, FALSE)
              BY <5>1, <6>1, <6>3
            <6>. QED  BY <1>0, <3>2, <3>5, <5>2, <6>2, <6>4, QcomltNoise
          <5>3. CASE r # 10 * b
            <6>1. \/ r < 10 * b /\ r = 10 * k + o
                  \/ r >= 10 * b + 2 /\ r = 10 * k + o + 2
              BY <5>1, <5>3
            <6>2. QcomltAt(k + 1, o + 1, ch)
              BY <3>3, <3>5, <6>1, QcomltNextChar
            <6>3. (~noisy) \in BOOLEAN
              OBVIOUS
            <6>4. /\ o < 9 => QcomltAfter(qcomlt', k, o + 1, ~noisy)
                  /\ o = 9 => QcomltAfter(qcomlt', k + 1, 0, ~noisy)
              BY <1>0, <3>2, <5>1, <6>2, <6>3, QcomltFollows
            <6>5. CASE o < 9
              <7>1. /\ o + 1 \in 0 .. 9
                    /\ \/ r + 1 <= 10 * b /\ r + 1 = 10 * k + (o + 1)
                       \/ r + 1 >= 10 * b + 2 /\ r + 1 = 10 * k + (o + 1) + 2
                BY <6>1, <6>5
              <7>. QED  BY <6>4, <6>5, <7>1
            <6>6. CASE o = 9
              <7>1. r + 1 <= total
                BY <1>5, <3>1
              <7>2. k + 1 \in 0 .. 9
                BY <1>1, <3>0, <3>1, <6>1, <6>6, <7>1
              <7>3. \/ r + 1 <= 10 * b /\ r + 1 = 10 * (k + 1) + 0
                    \/ r + 1 >= 10 * b + 2 /\ r + 1 = 10 * (k + 1) + 0 + 2
                BY <6>1, <6>6
              <7>. QED  BY <6>4, <6>6, <7>2, <7>3
            <6>. QED  BY <6>5, <6>6
          <5>. QED  BY <5>2, <5>3
        <4>. QED  BY <3>1, <4>1, <4>2
      <3>. QED  BY <1>1, <1>7, <2>2, <3>0, <3>1, <3>4, <3>5, <3>7 DEF QcomltReading
    <2>. QED  BY <2>1, <2>2
  <1>9. CdbReading'
    <2>. SUFFICES ASSUME dev.control = "cdb_assist" PROVE CdbReading'
      BY <1>1 DEF CdbReading
    <2>1. cdb' = CdbPush(cdb, ch)
      BY <1>6 DEF CtrlChar
    <2>2. PICK r \in Nat, k \in 0 .. 9, o \in 0 .. 26 :
            /\ r + n = 27 * lines
            /\ \A i \in 1 .. n : CdbStream(r + i, inbox["control"][i])
            /\ r = 27 * k + o /\ CdbAfter(cdb, k, o)
      BY <1>7 DEF Reading, CdbReading
    <2>3. CdbAt(k + 1, o + 1, ch)
      <3>1. CdbStream(r + 1, ch)
        <4>1. 1 \in 1 .. n
          BY <1>5
        <4>. QED  BY <1>7, <2>2, <4>1
      <3>2. PICK kk \in 0 .. 9, oo \in 1 .. 27 :
              r + 1 = 27 * kk + oo /\ CdbAt(kk + 1, oo, ch)
        BY <3>1 DEF CdbStream
      <3>3. kk = k /\ oo = o + 1
        BY <2>2, <3>2
      <3>. QED  BY <3>2, <3>3
    <2>4. \A i \in 1 .. n - 1 : CdbStream((r + 1) + i, inbox'["control"][i])
      <3>. TAKE i \in 1 .. n - 1
      <3>1. i + 1 \in 1 .. n /\ (r + 1) + i = r + (i + 1)
        OBVIOUS
      <3>. QED  BY <1>7, <2>2, <3>1
    <2>5. /\ o < 26 => CdbAfter(cdb', k, o + 1)
          /\ o = 26 => CdbAfter(cdb', k + 1, 0)
      BY <1>0, <2>1, <2>2, <2>3, CdbFollows
    <2>6. \E kk \in 0 .. 9, oo \in 0 .. 26 :
            r + 1 = 27 * kk + oo /\ CdbAfter(cdb', kk, oo)
      <3>1. CASE o < 26
        <4>1. o + 1 \in 0 .. 26 /\ r + 1 = 27 * k + (o + 1)
          BY <2>2, <3>1
        <4>. QED  BY <2>5, <3>1, <4>1
      <3>2. CASE o = 26
        <4>1. k + 1 \in 0 .. 9 /\ 0 \in 0 .. 26 /\ r + 1 = 27 * (k + 1) + 0
          BY <1>1, <1>5, <2>2, <3>2
        <4>2. CdbAfter(cdb', k + 1, 0)
          BY <2>5, <3>2
        <4>. QED  BY <4>1, <4>2, Zenon
      <3>. QED  BY <2>2, <3>1, <3>2
    <2>7. r + 1 \in Nat /\ (r + 1) + (n - 1) = 27 * lines
      BY <2>2
    <2>. QED  BY <1>1, <1>7, <2>4, <2>6, <2>7 DEF CdbReading
  <1>. QED  BY <1>8, <1>9 DEF Reading

LEMMA AnswerReading ==
  ASSUME LInv, Reading, Answer
  PROVE  Reading'
  <1>0. Typed /\ UNCHANGED <<dev, qcomlt, cdb, noisy>> /\ lines' = lines + 1
    BY DEF LInv, Answer, Outside, dv, parsers
  <1>1. lines \in 0 .. 8
    <2>1. lines \in 0 .. MaxLines[dev.control] /\ MaxLines[dev.control] \in 0 .. 9
      BY <1>0, DeviceFacts DEF Typed
    <2>2. lines < MaxLines[dev.control]
      BY DEF Answer
    <2>. QED  BY <2>1, <2>2
  <1>2. lines + 1 \in 0 .. 9 /\ lines + 1 \in 1 .. 9 /\ lines \in 0 .. 9
    BY <1>1
  <1>3. QcomltReading'
    <2>1. CASE dev.control # "qcomlt_dbg"
      BY <1>0, <2>1 DEF Reading, QcomltReading
    <2>2. CASE dev.control = "qcomlt_dbg"
      <3>1. PICK s \in Seq(Texts) : s = QcomltLine(lines + 1)
        BY <1>2, LineTypes
      <3>2. Arrives("control", s)
        BY <2>2, <3>1 DEF Answer
      <3>3. PICK n \in Nat : n = Unread
        BY <1>0, <3>2, Arrived
      <3>4. /\ Unread' = n + 10
            /\ \A i \in 1 .. n : inbox'["control"][i] = inbox["control"][i]
            /\ \A i \in 1 .. 10 : inbox'["control"][n + i] = s[i]
        <4>1. Len(s) = 10
          BY <1>2, <3>1, QcomltLineFacts
        <4>. QED  BY <1>0, <3>2, <3>3, <4>1, Arrived
      <3>5. \A j \in 1 .. 10 : QcomltAt(lines + 1, j, inbox'["control"][n + j])
        BY <1>2, <3>1, <3>4, QcomltLineFacts
      <3>6. PICK total \in Nat :
              total = 10 * lines + (IF noisy THEN 2 ELSE 0)
        BY <1>1
      <3>7. PICK b \in 0 .. lines, r \in Nat :
              /\ ~noisy => b = lines
              /\ r + n = total
              /\ \A i \in 1 .. n : QcomltStream(r + i, b, inbox["control"][i])
              /\ \/ r = 10 * b + 1 /\ Interrupted(qcomlt, b)
                 \/ \E k \in 0 .. 9, o \in 0 .. 9 :
                      /\ \/ r <= 10 * b /\ r = 10 * k + o
                         \/ r >= 10 * b + 2 /\ r = 10 * k + o + 2
                      /\ QcomltAfter(qcomlt, k, o, ~noisy)
        BY <2>2, <3>3, <3>6 DEF Reading, QcomltReading
      <3>8. PICK c \in 0 .. lines + 1 :
              /\ noisy => c = b
              /\ ~noisy => c = lines + 1 /\ b = lines
        <4>1. b \in 0 .. lines + 1 /\ lines + 1 \in 0 .. lines + 1
          BY <1>1
        <4>. QED  BY <3>7, <4>1, Zenon
      <3>9. ASSUME NEW i \in 1 .. n
            PROVE  QcomltStream(r + i, c, inbox'["control"][i])
        <4>1. QcomltStream(r + i, b, inbox'["control"][i])
          BY <3>4, <3>7
        <4>2. CASE noisy
          BY <3>8, <4>1, <4>2
        <4>3. CASE ~noisy
          <5>1. r + i <= 10 * b /\ r + i <= 10 * c
            BY <1>1, <3>6, <3>7, <3>8, <4>3
          <5>2. PICK k \in 0 .. 9, o \in 1 .. 10 :
                  r + i = 10 * k + o /\ QcomltAt(k + 1, o, inbox'["control"][i])
            BY <1>1, <3>7, <4>1, <5>1 DEF QcomltStream
          <5>. QED  BY <5>1, <5>2 DEF QcomltStream
        <4>. QED  BY <4>2, <4>3
      <3>10. ASSUME NEW j \in 1 .. 10
             PROVE  QcomltStream(r + (n + j), c, inbox'["control"][n + j])
        <4>1. QcomltAt(lines + 1, j, inbox'["control"][n + j])
          BY <3>5
        <4>2. \/ r + (n + j) <= 10 * c /\ r + (n + j) = 10 * lines + j
              \/ r + (n + j) > 10 * c + 2 /\ r + (n + j) = 10 * lines + j + 2
          BY <1>1, <3>6, <3>7, <3>8
        <4>. QED  BY <1>2, <4>1, <4>2 DEF QcomltStream
      <3>11. \A i \in 1 .. n + 10 : QcomltStream(r + i, c, inbox'["control"][i])
        <4>. TAKE i \in 1 .. n + 10
        <4>1. CASE i \in 1 .. n
          BY <3>9, <4>1
        <4>2. CASE i \notin 1 .. n
          <5>1. i - n \in 1 .. 10 /\ n + (i - n) = i
            BY <4>2
          <5>. QED  BY <3>10, <5>1
        <4>. QED  BY <4>1, <4>2
      <3>12. \/ r = 10 * c + 1 /\ Interrupted(qcomlt, c)
             \/ \E k \in 0 .. 9, o \in 0 .. 9 :
                  /\ \/ r <= 10 * c /\ r = 10 * k + o
                     \/ r >= 10 * c + 2 /\ r = 10 * k + o + 2
                  /\ QcomltAfter(qcomlt, k, o, ~noisy)
        <4>1. CASE noisy
          BY <3>7, <3>8, <4>1
        <4>2. CASE ~noisy
          <5>1. r <= 10 * b /\ r <= 10 * c
            BY <1>1, <3>6, <3>7, <3>8, <4>2
          <5>2. PICK k \in 0 .. 9, o \in 0 .. 9 :
                  r = 10 * k + o /\ QcomltAfter(qcomlt, k, o, ~noisy)
            BY <1>1, <3>7, <5>1
          <5>. QED  BY <5>1, <5>2
        <4>. QED  BY <4>1, <4>2
      <3>13. r + (n + 10) = 10 * (lines + 1) + (IF noisy THEN 2 ELSE 0)
        BY <1>1, <3>6, <3>7
      <3>14. ~noisy => c = lines + 1
        BY <3>8
      <3>15. /\ c \in 0 .. lines' /\ r \in Nat
             /\ ~noisy' => c = lines'
             /\ r + Unread' = 10 * lines' + (IF noisy' THEN 2 ELSE 0)
        BY <1>0, <3>4, <3>8, <3>13, <3>14
      <3>16. \A i \in 1 .. Unread' : QcomltStream(r + i, c, inbox'["control"][i])
        BY <3>4, <3>11
      <3>17. \/ r = 10 * c + 1 /\ Interrupted(qcomlt', c)
             \/ \E k \in 0 .. 9, o \in 0 .. 9 :
                  /\ \/ r <= 10 * c /\ r = 10 * k + o
                     \/ r >= 10 * c + 2 /\ r = 10 * k + o + 2
                  /\ QcomltAfter(qcomlt', k, o, ~noisy')
        BY <1>0, <3>12, Zenon
      <3>. QED  BY <1>0, <2>2, <3>15, <3>16, <3>17, Zenon DEF QcomltReading
    <2>. QED  BY <2>1, <2>2
  <1>4. CdbReading'
    <2>. SUFFICES ASSUME dev.control = "cdb_assist" PROVE CdbReading'
      BY <1>0 DEF CdbReading
    <2>1. PICK s \in Seq(Texts) : s = CdbLine(lines + 1)
      BY <1>2, LineTypes
    <2>2. Arrives("control", s)
      BY <2>1 DEF Answer
    <2>3. PICK n \in Nat : n = Unread
      BY <1>0, <2>2, Arrived
    <2>4. /\ Unread' = n + 27
          /\ \A i \in 1 .. n : inbox'["control"][i] = inbox["control"][i]
          /\ \A i \in 1 .. 27 : inbox'["control"][n + i] = s[i]
      <3>1. Len(s) = 27
        BY <1>2, <2>1, CdbLineFacts
      <3>. QED  BY <1>0, <2>2, <2>3, <3>1, Arrived
    <2>5. PICK r \in Nat, k \in 0 .. 9, o \in 0 .. 26 :
            /\ r + n = 27 * lines
            /\ \A i \in 1 .. n : CdbStream(r + i, inbox["control"][i])
            /\ r = 27 * k + o /\ CdbAfter(cdb, k, o)
      BY <2>3 DEF Reading, CdbReading
    <2>6. ASSUME NEW j \in 1 .. 27
          PROVE  CdbStream(r + (n + j), inbox'["control"][n + j])
      <3>1. CdbAt(lines + 1, j, inbox'["control"][n + j])
        BY <1>2, <2>1, <2>4, CdbLineFacts
      <3>2. r + (n + j) = 27 * lines + j
        BY <1>1, <2>5
      <3>. QED  BY <1>2, <3>1, <3>2 DEF CdbStream
    <2>7. \A i \in 1 .. n + 27 : CdbStream(r + i, inbox'["control"][i])
      <3>. TAKE i \in 1 .. n + 27
      <3>1. CASE i \in 1 .. n
        BY <2>4, <2>5, <3>1
      <3>2. CASE i \notin 1 .. n
        <4>1. i - n \in 1 .. 27 /\ n + (i - n) = i
          BY <3>2
        <4>. QED  BY <2>6, <4>1
      <3>. QED  BY <3>1, <3>2
    <2>8. r + (n + 27) = 27 * (lines + 1)
      BY <1>1, <2>5
    <2>. QED  BY <1>0, <2>4, <2>5, <2>7, <2>8 DEF CdbReading
  <1>. QED  BY <1>3, <1>4 DEF Reading

LEMMA ChatterReading ==
  ASSUME LInv, Reading, Chatter
  PROVE  Reading'
  <1>0. /\ Typed /\ UNCHANGED <<dev, qcomlt, cdb, lines>> /\ ~noisy /\ noisy'
        /\ dev.control = "qcomlt_dbg" /\ Arrives("control", <<"2", "x">>)
    BY DEF LInv, Chatter, Outside, dv, parsers
  <1>1. lines \in 0 .. 9
    <2>1. lines \in 0 .. MaxLines[dev.control] /\ MaxLines[dev.control] \in 0 .. 9
      BY <1>0, DeviceFacts DEF Typed
    <2>. QED  BY <2>1
  <1>2. CdbReading'
    BY <1>0 DEF CdbReading
  <1>3. QcomltReading'
    <2>0. <<"2", "x">> \in Seq(Texts)
      <3>1. "2" \in Texts /\ "x" \in Texts
        BY CharFacts DEF Texts
      <3>. QED  BY <3>1
    <2>1. PICK s \in Seq(Texts) : s = <<"2", "x">>
      BY <2>0
    <2>2. Len(s) = 2 /\ s[1] = "2" /\ s[2] = "x"
      BY <2>1
    <2>3. PICK n \in Nat : n = Unread
      BY <1>0, <2>1, Arrived
    <2>4. /\ Unread' = n + 2
          /\ \A i \in 1 .. n : inbox'["control"][i] = inbox["control"][i]
          /\ inbox'["control"][n + 1] = "2" /\ inbox'["control"][n + 2] = "x"
      <3>1. /\ Unread' = n + Len(s)
            /\ \A i \in 1 .. n : inbox'["control"][i] = inbox["control"][i]
            /\ \A i \in 1 .. Len(s) : inbox'["control"][n + i] = s[i]
        BY <1>0, <2>1, <2>3, Arrived
      <3>. QED  BY <2>2, <3>1
    <2>5. PICK b \in 0 .. lines, r \in Nat :
            /\ ~noisy => b = lines
            /\ r + Unread = 10 * lines + (IF noisy THEN 2 ELSE 0)
            /\ \A i \in 1 .. Unread : QcomltStream(r + i, b, inbox["control"][i])
            /\ \/ r = 10 * b + 1 /\ Interrupted(qcomlt, b)
               \/ \E k \in 0 .. 9, o \in 0 .. 9 :
                    /\ \/ r <= 10 * b /\ r = 10 * k + o
                       \/ r >= 10 * b + 2 /\ r = 10 * k + o + 2
                    /\ QcomltAfter(qcomlt, k, o, ~noisy)
      BY <1>0, Zenon DEF Reading, QcomltReading
    <2>6. /\ b = lines /\ r + n = 10 * lines /\ r <= 10 * lines
          /\ \A i \in 1 .. n : QcomltStream(r + i, lines, inbox["control"][i])
      <3>1. b = lines /\ r + n = 10 * lines /\ r <= 10 * lines
        BY <1>0, <1>1, <2>3, <2>5
      <3>. QED  BY <2>3, <2>5, <3>1, Zenon
    <2>7. PICK k \in 0 .. 9, o \in 0 .. 9 :
            r <= 10 * lines /\ r = 10 * k + o /\ QcomltAfter(qcomlt, k, o, ~noisy)
      <3>1. ~(r = 10 * b + 1) /\ ~(r >= 10 * b + 2) /\ b = lines
        BY <1>1, <2>6
      <3>. QED  BY <2>5, <2>6, <3>1, Zenon
    <2>8. QcomltAfter(qcomlt, k, o, ~noisy')
      BY <1>0, <2>7 DEF QcomltAfter
    <2>9. \A i \in 1 .. n + 2 : QcomltStream(r + i, lines, inbox'["control"][i])
      <3>. TAKE i \in 1 .. n + 2
      <3>1. CASE i \in 1 .. n
        BY <2>4, <2>6, <3>1
      <3>2. CASE i = n + 1
        <4>1. r + i = 10 * lines + 1
          BY <1>1, <2>6, <3>2
        <4>. QED  BY <2>4, <3>2, <4>1 DEF QcomltStream
      <3>3. CASE i = n + 2
        <4>1. r + i = 10 * lines + 2
          BY <1>1, <2>6, <3>3
        <4>. QED  BY <2>4, <3>3, <4>1 DEF QcomltStream
      <3>. QED  BY <3>1, <3>2, <3>3
    <2>10. r + (n + 2) = 10 * lines + 2 /\ lines \in 0 .. lines
      BY <1>1, <2>6
    <2>11. /\ lines \in 0 .. lines' /\ r \in Nat
           /\ ~noisy' => lines = lines'
           /\ r + Unread' = 10 * lines' + (IF noisy' THEN 2 ELSE 0)
      BY <1>0, <2>4, <2>10
    <2>12. \A i \in 1 .. Unread' : QcomltStream(r + i, lines, inbox'["control"][i])
      BY <2>4, <2>9
    <2>13. \E kk \in 0 .. 9, oo \in 0 .. 9 :
             /\ \/ r <= 10 * lines /\ r = 10 * kk + oo
                \/ r >= 10 * lines + 2 /\ r = 10 * kk + oo + 2
             /\ QcomltAfter(qcomlt', kk, oo, ~noisy')
      BY <1>0, <2>7, <2>8, Zenon
    <2>. QED  BY <1>0, <2>11, <2>12, <2>13, Zenon DEF QcomltReading
  <1>. QED  BY <1>2, <1>3 DEF Reading

LEMMA InitReading == Init => Reading
  <1>. SUFFICES ASSUME Init PROVE Reading
    OBVIOUS
  <1>1. /\ inbox["control"] = <<>> /\ lines = 0 /\ noisy = FALSE
        /\ qcomlt = QcomltStart /\ cdb = CdbStart
    BY DEF Init, Fds
  <1>2. Unread = 0
    BY <1>1 DEF Unread
  <1>3. QcomltReading
    <2>1. QcomltAfter(qcomlt, 0, 0, ~noisy)
      <3>1. qcomlt.state = "start" /\ qcomlt.out = <<>> /\ Len(qcomlt.out) = 0
        BY <1>1 DEF QcomltStart
      <3>2. InStep(qcomlt, 0, 0)
        BY <3>1 DEF InStep
      <3>3. Reported(qcomlt.out, 0) /\ OneOfTwo(qcomlt.out, 0)
        BY <3>1 DEF Reported, OneOfTwo
      <3>. QED  BY <3>2, <3>3 DEF QcomltAfter
    <2>2. qcomlt.out = <<>>
      BY <1>1 DEF QcomltStart
    <2>3. /\ 0 \in 0 .. lines /\ 0 \in Nat /\ (~noisy => 0 = lines)
          /\ 0 + Unread = 10 * lines + (IF noisy THEN 2 ELSE 0)
          /\ \A i \in 1 .. Unread : QcomltStream(0 + i, 0, inbox["control"][i])
      BY <1>1, <1>2
    <2>4. \E k \in 0 .. 9, o \in 0 .. 9 :
            /\ \/ 0 <= 10 * 0 /\ 0 = 10 * k + o
               \/ 0 >= 10 * 0 + 2 /\ 0 = 10 * k + o + 2
            /\ QcomltAfter(qcomlt, k, o, ~noisy)
      <3>1. 0 \in 0 .. 9 /\ 0 <= 10 * 0 /\ 0 = 10 * 0 + 0
        OBVIOUS
      <3>. QED  BY <2>1, <3>1, Zenon
    <2>. QED  BY <2>2, <2>3, <2>4, Zenon DEF QcomltReading
  <1>4. CdbReading
    <2>1. CdbAfter(cdb, 0, 0)
      BY <1>1 DEF CdbStart, CdbAfter
    <2>2. /\ 0 \in Nat /\ 0 + Unread = 27 * lines
          /\ \A i \in 1 .. Unread : CdbStream(0 + i, inbox["control"][i])
          /\ 0 \in 0 .. 9 /\ 0 \in 0 .. 26 /\ 0 = 27 * 0 + 0
      BY <1>1, <1>2
    <2>. QED  BY <2>1, <2>2, Zenon DEF CdbReading
  <1>. QED  BY <1>3, <1>4 DEF Reading

(* What the board has printed and what has become of it: the unread        *)
(* characters are those of its lines in their places, and the parser is    *)
(* where the characters before them have taken it.                         *)
THEOREM ReadingInvariant == Spec => [](LInv /\ Reading)
  <1>1. Init => LInv /\ Reading
    BY InitInv, InitReading
  <1>2. LInv /\ Reading /\ [Next]_vars => (LInv /\ Reading)'
    <2>. SUFFICES ASSUME LInv, Reading, [Next]_vars PROVE Reading'
      BY StepInv
    <2>1. CASE UNCHANGED vars
      <3>1. UNCHANGED <<inbox, dev, qcomlt, cdb, lines, noisy>>
        BY <2>1 DEF vars, dv, parsers, io, bounds
      <3>. QED  BY <3>1, ReadingSame
    <2>2. CASE Next /\ ~CtrlChar /\ ~Answer /\ ~Chatter
      BY <2>2, ControlAlone, ReadingSame DEF LInv
    <2>. QED  BY <2>1, <2>2, CtrlCharReading, AnswerReading, ChatterReading
  <1>. QED  BY <1>1, <1>2, PTL DEF Spec

(* However the reads split the stream, and whatever else the board has     *)
(* printed: what qcomlt_dbg_ctrl_data reports are measurements, in their   *)
(* order, and of two in a row one at least; and what                       *)
(* cdb_assist_print_status would report is of the last status line read,   *)
(* or of that and the one before it.                                       *)
THEOREM ReportsMeasured == Spec => []ReportedIsMeasured
  <1>1. LInv /\ Reading => ReportedIsMeasured
    <2>. SUFFICES ASSUME LInv, Reading PROVE ReportedIsMeasured
      OBVIOUS
    <2>0. /\ lines \in 0 .. 9 /\ Unread \in Nat /\ qcomlt \in QcomltType
          /\ inbox["control"] \in Seq(Texts)
      <3>1. lines \in 0 .. MaxLines[dev.control] /\ MaxLines[dev.control] \in 0 .. 9
        BY DeviceFacts DEF LInv, Typed
      <3>2. inbox["control"] \in Seq(Texts) /\ qcomlt \in QcomltType
        BY DEF LInv, Typed, Fds
      <3>3. Unread \in Nat
        BY <3>2, LenProperties DEF Unread
      <3>. QED  BY <3>1, <3>2, <3>3
    <2>1. ASSUME NEW n \in 0 .. lines, Reported(qcomlt.out, n)
          PROVE  InMeasuredOrder
      BY <2>0, <2>1 DEF Reported, InMeasuredOrder
    <2>2. InMeasuredOrder /\ SkipsAtMostOne
      <3>1. CASE dev.control # "qcomlt_dbg"
        <4>1. Len(qcomlt.out) = 0
          BY <3>1 DEF Reading, QcomltReading
        <4>. QED  BY <3>1, <4>1 DEF InMeasuredOrder, SkipsAtMostOne
      <3>2. CASE dev.control = "qcomlt_dbg"
        <4>1. PICK b \in 0 .. lines, r \in Nat :
                /\ ~noisy => b = lines
                /\ r + Unread = 10 * lines + (IF noisy THEN 2 ELSE 0)
                /\ \A i \in 1 .. Unread : QcomltStream(r + i, b, inbox["control"][i])
                /\ \/ r = 10 * b + 1 /\ Interrupted(qcomlt, b)
                   \/ \E k \in 0 .. 9, o \in 0 .. 9 :
                        /\ \/ r <= 10 * b /\ r = 10 * k + o
                           \/ r >= 10 * b + 2 /\ r = 10 * k + o + 2
                        /\ QcomltAfter(qcomlt, k, o, ~noisy)
          BY <3>2, Zenon DEF Reading, QcomltReading
        <4>2. CASE r = 10 * b + 1 /\ Interrupted(qcomlt, b)
          <5>1. InMeasuredOrder
            BY <2>1, <4>2 DEF Interrupted
          <5>2. Unread # 0 \/ noisy
            BY <2>0, <4>1, <4>2
          <5>3. inbox["control"] = <<>> => Unread = 0
            BY DEF Unread
          <5>. QED  BY <5>1, <5>2, <5>3 DEF SkipsAtMostOne
        <4>3. CASE \E k \in 0 .. 9, o \in 0 .. 9 :
                     /\ \/ r <= 10 * b /\ r = 10 * k + o
                        \/ r >= 10 * b + 2 /\ r = 10 * k + o + 2
                     /\ QcomltAfter(qcomlt, k, o, ~noisy)
          <5>1. PICK k \in 0 .. 9, o \in 0 .. 9 :
                     /\ \/ r <= 10 * b /\ r = 10 * k + o
                        \/ r >= 10 * b + 2 /\ r = 10 * k + o + 2
                     /\ QcomltAfter(qcomlt, k, o, ~noisy)
            BY <4>3
          <5>2. 10 * k + o <= 10 * lines
            <6>1. CASE r <= 10 * b /\ r = 10 * k + o
              BY <2>0, <6>1
            <6>2. CASE r >= 10 * b + 2 /\ r = 10 * k + o + 2
              <7>1. r <= 10 * lines + 2
                BY <2>0, <4>1
              <7>. QED  BY <2>0, <6>2, <7>1
            <6>. QED  BY <5>1, <6>1, <6>2
          <5>3. k \in 0 .. lines /\ (o = 9 => k + 1 \in 0 .. lines)
            BY <2>0, <5>2
          <5>4. InMeasuredOrder
            <6>1. \/ Reported(qcomlt.out, k)
                  \/ o = 9 /\ Reported(qcomlt.out, k + 1)
              BY <5>1 DEF QcomltAfter
            <6>. QED  BY <2>1, <5>3, <6>1
          <5>5. SkipsAtMostOne
            <6>. SUFFICES ASSUME inbox["control"] = <<>>, ~noisy,
                                 NEW j \in 1 .. lines - 1
                          PROVE  \/ Contains(qcomlt.out, Measure(j))
                                 \/ Contains(qcomlt.out, Measure(j + 1))
              BY DEF SkipsAtMostOne
            <6>1. Unread = 0
              BY DEF Unread
            <6>2. k = lines
              BY <2>0, <4>1, <5>1, <6>1
            <6>3. OneOfTwo(qcomlt.out, lines)
              BY <5>1, <6>2 DEF QcomltAfter
            <6>. QED  BY <6>3 DEF OneOfTwo, Reports, Contains
          <5>. QED  BY <5>4, <5>5
        <4>. QED  BY <4>1, <4>2, <4>3
      <3>. QED  BY <3>1, <3>2
    <2>3. CdbSnapshot
      <3>. SUFFICES ASSUME dev.control = "cdb_assist" PROVE CdbSnapshot
        BY DEF CdbSnapshot
      <3>1. PICK r \in Nat, k \in 0 .. 9, o \in 0 .. 26 :
              r + Unread = 27 * lines /\ r = 27 * k + o /\ CdbAfter(cdb, k, o)
        BY DEF Reading, CdbReading
      <3>2. k \in 0 .. lines /\ (o > 0 => k + 1 \in 0 .. lines)
        BY <2>0, <3>1
      <3>. QED  BY <3>1, <3>2 DEF CdbAfter, CdbSnapshot
    <2>. QED  BY <2>2, <2>3 DEF ReportedIsMeasured
  <1>. QED  BY <1>1, ReadingInvariant, PTL
=============================================================================
