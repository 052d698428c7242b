------------------------- MODULE CdbaSessionProofs -------------------------
(***************************************************************************)
(* Proofs about a session, for every command line, image, capacity of the  *)
(* pipes and number of keys, resets and outputs.                           *)
(***************************************************************************)
EXTENDS CdbaSession, SequenceTheorems, TLAPS

Heaps == [next : [Nodes -> Nodes], prev : [Nodes -> Nodes]]

LEMMA ListInitType == ListInit(Nodes) \in Heaps
  BY DEF ListInit, Heaps

(* What the operations of list.h make of a heap is a heap. *)
LEMMA ListTypes ==
  ASSUME NEW h \in Heaps, NEW l \in Nodes, NEW x \in Nodes
  PROVE  /\ ListAdd(h, l, x) \in Heaps
         /\ ListDel(h, x) \in Heaps
         /\ ListFree(h, x) \in Heaps
  <1>2. ListAdd(h, l, x) \in Heaps
    BY DEF ListAdd, Heaps
  <1>3. ListDel(h, x) \in Heaps
    BY DEF ListDel, Heaps
  <1>4. ListFree(h, x) \in Heaps
    BY <1>3 DEF ListFree, Heaps
  <1> QED BY <1>2, <1>3, <1>4

LEMMA FirstWorkType ==
  ASSUME NEW o \in Options
  PROVE  FirstWork(o) \in Heaps /\ Verb(o) \in Nodes
  <1>1. /\ Verb(o) \in Nodes /\ Head0 \in Nodes /\ "status" \in Nodes
    BY DEF Options, Verb, Nodes, Requests, Head0
  <1>2. ListAdd(ListInit(Nodes), Head0, Verb(o)) \in Heaps
    BY <1>1, ListTypes, ListInitType
  <1>3. ListAdd(ListAdd(ListInit(Nodes), Head0, Verb(o)), Head0, "status")
          \in Heaps
    BY <1>1, <1>2, ListTypes
  <1> QED BY <1>1, <1>2, <1>3 DEF FirstWork

LEMMA InitTypes == Init => TypeOK
  <1> SUFFICES ASSUME Init PROVE TypeOK
    OBVIOUS
  <1> USE DEF Init, WireInit, ClientInit, ServerInit
  <1> HIDE DEF Init, WireInit, ClientInit, ServerInit
  <1>0. <<>> \in Seq(Message) /\ <<>> \in Seq(Nat) /\ <<>> \in Seq({"add", "remove"})
    BY EmptySeq
  <1>1. WireOK
    BY <1>0 DEF WireOK, Init, WireInit
  <1> USE DEF Init, ClientInit
  <1>2. opts \in Options
    BY ClientAssumption
  <1>3. heap \in [next : [Nodes -> Nodes], prev : [Nodes -> Nodes]]
    BY <1>2, FirstWorkType DEF Heaps
  <1>4. clock \in [idle : {"off", "ahead", "past"},
                   total : {"off", "ahead", "past"}, idleFirst : BOOLEAN]
    <2>1. PICK first \in IF opts.idle /\ opts.total THEN BOOLEAN ELSE {FALSE} :
            clock = [idle |-> IF opts.idle THEN "ahead" ELSE "off",
                     total |-> IF opts.total THEN "ahead" ELSE "off",
                     idleFirst |-> first]
      OBVIOUS
    <2>2. first \in BOOLEAN
      OBVIOUS
    <2> QED BY <2>1, <2>2
  <1>5. flag \in Flags /\ cycles \in Int /\ chars \in 0 .. (TildeRun - 1)
    BY <1>2, ClientAssumption DEF Flags, Options
  <1>6. offset \in [Downloads -> -1 .. Chunks]
    BY ClientAssumption
  <1>7. queued \subseteq Nodes /\ owed \in Int
    BY <1>2, FirstWorkType DEF Nodes, Requests
  <1>8. work \in Nodes /\ next \in Nodes /\ inbox \in Seq(Message)
    BY <1>0 DEF Nodes
  <1>9. ClientOK
    BY <1>2, <1>3, <1>4, <1>5, <1>6, <1>7, <1>8 DEF ClientOK
  <1>10. ServerOK
    BY <1>0 DEF ServerOK, ServerInit
  <1> QED BY <1>1, <1>9, <1>10 DEF TypeOK

Clocks == [idle : {"off", "ahead", "past"},
           total : {"off", "ahead", "past"}, idleFirst : BOOLEAN]

LEMMA TailType ==
  ASSUME NEW S, NEW s \in Seq(S), s # <<>>
  PROVE  Tail(s) \in Seq(S) /\ s[1] \in S /\ Len(s) \in Nat \ {0}
  OBVIOUS

LEMMA HandleTypes ==
  ASSUME TypeOK, NEW type, Handles(type)
  PROVE  /\ inbox' = Tail(inbox) /\ inbox' \in Seq(Message)
         /\ inbox # <<>> /\ inbox[1] \in Message
         /\ inbox[1][1] = type /\ inbox[1][2] \in Nat /\ cpc = "stdout"
  <1>1. inbox' \in Seq(Message) /\ inbox[1] \in Message
    BY TailType DEF Handles, TypeOK, ClientOK
  <1> QED BY <1>1 DEF Handles, Message

LEMMA RequestTypes ==
  ASSUME TypeOK, NEW node \in Nodes, Request(node)
  PROVE  heap' \in Heaps /\ queued' \subseteq Nodes
  <1>1. heap \in Heaps /\ Head0 \in Nodes
    BY DEF TypeOK, ClientOK, Heaps, Nodes
  <1>2. heap' \in Heaps
    BY <1>1, ListTypes DEF Request
  <1> QED BY <1>2 DEF Request, TypeOK, ClientOK

LEMMA RearmTypes ==
  ASSUME TypeOK, RearmIdle
  PROVE  clock' \in Clocks
  <1>1. clock \in Clocks
    BY DEF TypeOK, ClientOK, Clocks
  <1>2. CASE clock.idle = "off"
    BY <1>1, <1>2 DEF RearmIdle
  <1>3. CASE clock.idle # "off"
    <2>1. PICK first \in BOOLEAN :
            clock' = [clock EXCEPT !.idle = "ahead", !.idleFirst = first]
      BY <1>3 DEF RearmIdle
    <2> QED BY <1>1, <2>1 DEF Clocks
  <1> QED BY <1>2, <1>3

LEMMA SendTypes ==
  ASSUME NEW s \in Seq(Message), NEW t \in Types, NEW n \in Nat
  PROVE  Append(s, <<t, n>>) \in Seq(Message)
  BY DEF Message

LEMMA MsgOfType ==
  ASSUME NEW node \in Requests
  PROVE  \E t \in Types : MsgOf(node) = <<t, 0>>
  BY DEF MsgOf, Msg, Requests, Types

(* select() returns, whether or not the user typed. *)
Selects(k) == SelectReady(k, FALSE) \/ SelectReady(k, TRUE)

LEMMA SelectSplit ==
  ASSUME TypeOK
  PROVE  /\ (\E k \in 1 .. Len(s2c) : SelectReady(k, FALSE))
              => \E k \in 0 .. Len(s2c) : Selects(k)
         /\ SelectReady(0, FALSE) => \E k \in 0 .. Len(s2c) : Selects(k)
         /\ (\E k \in 0 .. Len(s2c) : SelectReady(k, TRUE))
              => \E k \in 0 .. Len(s2c) : Selects(k)
  <1>1. Len(s2c) \in Nat
    BY DEF TypeOK, WireOK
  <1>2. (1 .. Len(s2c)) \subseteq (0 .. Len(s2c)) /\ 0 \in 0 .. Len(s2c)
    BY <1>1
  <1> QED BY <1>2, Zenon DEF Selects

(* Each step of the client keeps the types. *)
LEMMA ClientTypes ==
  ASSUME TypeOK, ClientNext
  PROVE  WireOK' /\ ClientOK'
  <1> USE DEF client, wire, list, state, hist
  <1>0. /\ Requests \subseteq Nodes /\ Downloads \subseteq Nodes
        /\ Head0 \in Nodes /\ Chunks \in Nat /\ heap \in Heaps
        /\ \A n \in Nodes : heap.next[n] \in Nodes
    BY ClientAssumption DEF Nodes, TypeOK, ClientOK, Heaps
  <1>1. CASE Elapse
    <2>1. clock' \in Clocks
      BY <1>1 DEF Elapse, Clocks, TypeOK, ClientOK
    <2> QED BY <1>1, <2>1 DEF Elapse, Clocks, TypeOK, ClientOK, WireOK
  <1>2. CASE LoopEnds
    BY <1>2 DEF LoopEnds, TypeOK, ClientOK, WireOK
  <1>3. CASE PowerCycle
    <2>1. heap' \in Heaps /\ queued' \subseteq Nodes
      BY <1>0, <1>3, RequestTypes DEF PowerCycle, Requests
    <2>2. clock' \in Clocks
      BY <1>3, RearmTypes DEF PowerCycle
    <2>3. flag' \in Flags /\ cycles' \in Int
      <3>1. /\ flag' = [flag EXCEPT !.auto = TRUE, !.gotOff = FALSE,
                                    !.timedOut = FALSE]
            /\ cycles' = cycles - 1
        BY <1>3 DEF PowerCycle
      <3>2. flag \in Flags /\ cycles \in Int
        BY DEF TypeOK, ClientOK
      <3>3. flag' \in Flags
        BY <3>1, <3>2 DEF Flags
      <3> QED BY <3>1, <3>2, <3>3
    <2>4. owed' \in Int /\ crowded' \in BOOLEAN
      BY <1>3 DEF PowerCycle, OweReply, TypeOK, ClientOK
    <2>5. /\ cpc' \in {"select", "exited"} /\ wr' \in BOOLEAN
          /\ code' \in {code, "err"} /\ clientGone' \in BOOLEAN
          /\ UNCHANGED <<c2s, s2c, serverGone>>
      BY <1>3 DEF PowerCycle, Arm, Die, ListEmpty, TypeOK, ClientOK, WireOK
    <2> QED
      BY <1>3, <2>1, <2>2, <2>3, <2>4, <2>5
      DEF PowerCycle, Heaps, Clocks, TypeOK, ClientOK, WireOK
  <1>4. CASE NoCycle
    <2>5. /\ cpc' \in {"select", "exited"} /\ wr' \in BOOLEAN
          /\ code' \in {code, "err"} /\ clientGone' \in BOOLEAN
          /\ UNCHANGED <<c2s, s2c, serverGone>>
      BY <1>4 DEF NoCycle, Arm, Die, ListEmpty, TypeOK, ClientOK, WireOK
    <2> QED BY <1>4, <2>5 DEF NoCycle, TypeOK, ClientOK, WireOK
  <1>5. ASSUME NEW k \in 0 .. Len(s2c), Selects(k)
        PROVE  WireOK' /\ ClientOK'
    <2>1. inbox' \in Seq(Message) /\ s2c' \in Seq(Message)
      <3>1. /\ inbox' = SubSeq(s2c, 1, k)
            /\ s2c' = SubSeq(s2c, k + 1, Len(s2c))
        BY <1>5 DEF Selects, SelectReady
      <3>2. s2c \in Seq(Message) /\ Len(s2c) \in Nat /\ k \in Int
        BY DEF TypeOK, WireOK
      <3> QED BY <3>1, <3>2
    <2>2. wr' \in BOOLEAN /\ cpc' \in {"tty", "stdout", "drain0", "top"}
      BY <1>5 DEF Selects, SelectReady, Writable, AfterStdout, TypeOK, ClientOK, WireOK
    <2> QED BY <1>5, <2>1, <2>2 DEF Selects, SelectReady, TypeOK, ClientOK, WireOK
  <1>6. CASE SelectTimeout
    <2>1. flag' \in Flags
      BY <1>6 DEF SelectTimeout, Flags, TypeOK, ClientOK
    <2>2. wr' \in BOOLEAN /\ cpc' = "top" /\ code' = code
          /\ UNCHANGED <<opts, list, inbox, cycles, chars, clock, keys, hist, wire>>
      BY <1>6 DEF SelectTimeout
    <2> QED BY <2>1, <2>2 DEF TypeOK, ClientOK, WireOK
  <1>7. CASE SelectEOF
    BY <1>7 DEF SelectEOF, TypeOK, ClientOK, WireOK
  <1>8. ASSUME NEW key \in Keys, TtyCallback(key)
        PROVE  WireOK' /\ ClientOK'
    <2>0. keys' \in Nat /\ owed' \in {owed, owed + 1}
      BY <1>8 DEF TtyCallback, TypeOK, ClientOK
    <2>1. keys' \in Nat /\ owed' \in Int /\ crowded' \in BOOLEAN
      <3>1. crowded' = crowded \/ crowded' = (crowded \/ owed > 0 \/ "on" \in queued)
        BY <1>8 DEF TtyCallback
      <3>2. crowded \in BOOLEAN /\ owed \in Int
        BY DEF TypeOK, ClientOK
      <3>3. crowded' \in BOOLEAN
        BY <3>1, <3>2
      <3> QED BY <2>0, <3>2, <3>3
    <2>2. flag' \in Flags
      BY <1>8 DEF TtyCallback, Flags, TypeOK, ClientOK
    <2>3. c2s' \in Seq(Message)
      <3>1. key # "quit" => key \in Types
        BY DEF Keys, Types
      <3>2. key # "quit" => Append(c2s, Msg(key)) \in Seq(Message)
        BY <3>1, SendTypes DEF Msg, TypeOK, WireOK
      <3> QED BY <1>8, <3>2 DEF TtyCallback, Die, TypeOK, WireOK
    <2>4. /\ s2c' = s2c /\ clientGone' \in BOOLEAN /\ serverGone' = serverGone
          /\ code' \in {code, "signal"}
          /\ cpc' \in {"exited", "stdout", "drain0", "top", "tty"}
      BY <1>8 DEF TtyCallback, Die, TypeOK, WireOK
    <2> QED
      BY <1>8, <2>1, <2>2, <2>3, <2>4 DEF TtyCallback, TypeOK, ClientOK, WireOK
  <1>9. CASE HandleSelect
    <2>1. inbox' \in Seq(Message)
      BY <1>9, HandleTypes DEF HandleSelect
    <2>2. heap' \in Heaps /\ queued' \subseteq Nodes
      BY <1>0, <1>9, RequestTypes DEF HandleSelect, Requests
    <2> QED
      BY <1>9, <2>1, <2>2
      DEF HandleSelect, Replied, Heaps, TypeOK, ClientOK, WireOK
  <1>10. CASE HandleConsole
    <2>1. inbox' \in Seq(Message)
      BY <1>10, HandleTypes DEF HandleConsole
    <2>2. flag' \in Flags
      BY <1>10 DEF HandleConsole, Flags, TypeOK, ClientOK
    <2>3. chars' \in 0 .. (TildeRun - 1)
      BY <1>10, ClientAssumption DEF HandleConsole, TypeOK, ClientOK
    <2> QED
      BY <1>10, <2>1, <2>2, <2>3 DEF HandleConsole, TypeOK, ClientOK, WireOK
  <1>11. CASE HandlePowerOff
    <2>1. inbox' \in Seq(Message)
      BY <1>11, HandleTypes DEF HandlePowerOff
    <2>2. heap' \in Heaps /\ queued' \subseteq Nodes
      BY <1>0, <1>11, RequestTypes DEF HandlePowerOff, Requests, TypeOK, ClientOK
    <2> QED
      BY <1>11, <2>1, <2>2
      DEF HandlePowerOff, Replied, Heaps, TypeOK, ClientOK, WireOK
  <1>12. CASE HandlePresent
    <2>1. inbox' \in Seq(Message)
      BY <1>12, HandleTypes DEF HandlePresent
    <2>2. /\ heap' \in Heaps /\ queued' \subseteq Nodes /\ flag' \in Flags
          /\ offset' \in [Downloads -> -1 .. Chunks]
          /\ overlapped' \in BOOLEAN
          /\ cpc' \in {cpc, "exited"} /\ code' \in {code, "err"}
          /\ clientGone' \in BOOLEAN /\ UNCHANGED <<c2s, s2c, serverGone>>
      <3>1. CASE UNCHANGED <<cpc, code, flag, heap, offset, queued, overlapped, wire>>
        BY <3>1, <1>0 DEF TypeOK, ClientOK, WireOK
      <3>2. CASE /\ Request("continue") /\ flag' = [flag EXCEPT !.cont = FALSE]
                 /\ UNCHANGED <<cpc, code, offset, overlapped, wire>>
        <4>1. heap' \in Heaps /\ queued' \subseteq Nodes
          BY <3>2, <1>0, RequestTypes DEF Requests
        <4>2. flag' \in Flags
          BY <3>2 DEF TypeOK, ClientOK, Flags
        <4> QED BY <3>2, <4>1, <4>2 DEF TypeOK, ClientOK, WireOK
      <3>3. CASE RequestFile /\ UNCHANGED flag
        <4>1. CASE ~opts.file
          BY <1>0, <3>3, <4>1 DEF RequestFile, Die, TypeOK, ClientOK, WireOK
        <4>2. CASE opts.file
          <5> DEFINE d == CHOOSE e \in Downloads : offset[e] = -1
          <5>1. /\ d \in Downloads /\ Request(d)
                /\ offset' = [offset EXCEPT ![d] = 0]
                /\ overlapped' \in BOOLEAN /\ UNCHANGED <<cpc, code, wire>>
            BY <3>3, <4>2 DEF RequestFile
          <5>2. heap' \in Heaps /\ queued' \subseteq Nodes
            BY <5>1, <1>0, RequestTypes
          <5>3. offset' \in [Downloads -> -1 .. Chunks]
            <6> HIDE DEF d
            <6> QED BY <5>1, <1>0 DEF TypeOK, ClientOK
          <5> HIDE DEF d
          <5> QED BY <3>3, <5>1, <5>2, <5>3 DEF TypeOK, ClientOK, WireOK
        <4> QED BY <4>1, <4>2
      <3>4. CASE /\ flag' = [flag EXCEPT !.quit = TRUE]
                 /\ UNCHANGED <<cpc, code, heap, offset, queued, overlapped, wire>>
        BY <3>4, <1>0 DEF TypeOK, ClientOK, WireOK, Flags
      <3> QED BY <1>12, <3>1, <3>2, <3>3, <3>4 DEF HandlePresent
    <2> QED
      BY <1>12, <2>1, <2>2 DEF HandlePresent, Heaps, TypeOK, ClientOK, WireOK
  <1>13. CASE HandleDone
    <2>1. inbox' \in Seq(Message)
      BY <1>13, HandleTypes DEF HandleDone
    <2>2. flag' \in Flags
      BY <1>13 DEF HandleDone, Flags, TypeOK, ClientOK
    <2> QED BY <1>13, <2>1, <2>2 DEF HandleDone, TypeOK, ClientOK, WireOK
  <1>14. CASE HandleList
    <2>1. inbox' \in Seq(Message)
      BY <1>14, HandleTypes DEF HandleList
    <2>2. flag' \in Flags
      BY <1>14 DEF HandleList, Flags, TypeOK, ClientOK
    <2> QED BY <1>14, <2>1, <2>2 DEF HandleList, TypeOK, ClientOK, WireOK
  <1>15. CASE HandleInfo
    <2>1. inbox' \in Seq(Message)
      BY <1>15, HandleTypes DEF HandleInfo
    <2>2. flag' \in Flags
      BY <1>15 DEF HandleInfo, Flags, TypeOK, ClientOK
    <2> QED BY <1>15, <2>1, <2>2 DEF HandleInfo, TypeOK, ClientOK, WireOK
  <1>16. CASE HandleOther
    <2>1. inbox' \in Seq(Message)
      BY <1>16, HandleTypes DEF HandleOther
    <2> QED BY <1>16, <2>1 DEF HandleOther, TypeOK, ClientOK, WireOK
  <1>17. CASE StdoutDone
    <2>1. clock' \in Clocks
      BY <1>17, RearmTypes DEF StdoutDone
    <2> QED BY <1>17, <2>1 DEF StdoutDone, Clocks, TypeOK, ClientOK, WireOK
  <1>18. CASE DrainStart
    <2>1. work' \in Nodes /\ next' \in Nodes
      BY <1>0, <1>18 DEF DrainStart
    <2> QED BY <1>18, <2>1 DEF DrainStart, TypeOK, ClientOK, WireOK
  <1>19. CASE DrainEnd
    BY <1>0, <1>19 DEF DrainEnd, TypeOK, ClientOK, WireOK
  <1>20. ASSUME NEW node \in Requests, RunRequest(node)
         PROVE  WireOK' /\ ClientOK'
    <2>1. heap' \in Heaps
      BY <1>0, <1>20, ListTypes DEF RunRequest
    <2>2. work' \in Nodes /\ next' \in Nodes
      BY <1>20, <2>1 DEF RunRequest, NextWork, Heaps, TypeOK, ClientOK
    <2>3. c2s' \in Seq(Message)
      <3>1. Append(c2s, MsgOf(node)) \in Seq(Message)
        BY MsgOfType, SendTypes DEF TypeOK, WireOK
      <3> QED BY <1>20, <3>1 DEF RunRequest, Broken, Die, TypeOK, WireOK
    <2>4. /\ s2c' = s2c /\ clientGone' \in BOOLEAN /\ serverGone' = serverGone
          /\ code' \in {code, "signal", "err"} /\ cpc' \in {cpc, "exited"}
          /\ queued' \subseteq Nodes
      BY <1>20 DEF RunRequest, Broken, Die, TypeOK, ClientOK, WireOK
    <2> QED
      BY <1>20, <2>1, <2>2, <2>3, <2>4
      DEF RunRequest, Heaps, TypeOK, ClientOK, WireOK
  <1>21. ASSUME NEW d \in Downloads, RunDownload(d)
         PROVE  WireOK' /\ ClientOK'
    <2>1. heap' \in Heaps
      BY <1>0, <1>21, ListTypes DEF RunDownload
    <2>2. work' \in Nodes /\ next' \in Nodes
      BY <1>21, <2>1 DEF RunDownload, NextWork, Heaps, TypeOK, ClientOK
    <2>3. c2s' \in Seq(Message)
      <3>0. (IF offset[d] < Chunks THEN offset[d] + 1 ELSE 0) \in Nat
        BY <1>0 DEF TypeOK, ClientOK
      <3>1. Append(c2s, <<"download", IF offset[d] < Chunks
                                        THEN offset[d] + 1 ELSE 0>>) \in Seq(Message)
        BY <3>0, SendTypes DEF TypeOK, WireOK, Types
      <3> QED BY <1>21, <3>1 DEF RunDownload, Broken, Die, TypeOK, WireOK
    <2>4. offset' \in [Downloads -> -1 .. Chunks]
      BY <1>0, <1>21 DEF RunDownload, TypeOK, ClientOK
    <2>5. /\ s2c' = s2c /\ clientGone' \in BOOLEAN /\ serverGone' = serverGone
          /\ code' \in {code, "signal"} /\ cpc' \in {cpc, "exited"}
          /\ queued' \subseteq Nodes
      BY <1>21 DEF RunDownload, Broken, Die, TypeOK, ClientOK, WireOK
    <2> QED
      BY <1>21, <2>1, <2>2, <2>3, <2>4, <2>5
      DEF RunDownload, Heaps, TypeOK, ClientOK, WireOK
  <1>22. CASE Finish
    BY <1>22 DEF Finish, TypeOK, ClientOK, WireOK
  <1>23. CASE \E k \in 0 .. Len(s2c) : Selects(k)
    BY <1>5, <1>23
  <1>24. CASE HandleMessage
    BY <1>24, <1>9, <1>10, <1>11, <1>12, <1>13, <1>14, <1>15, <1>16
    DEF HandleMessage
  <1>25. CASE Drain
    BY <1>25, <1>18, <1>19, <1>20, <1>21 DEF Drain
  <1>27. CASE Loop
    <2> QED
      BY <1>23, <1>27, SelectSplit, <1>2, <1>3, <1>4, <1>6, <1>7, <1>17, <1>22, <1>24,
         <1>25 DEF Loop
  <1> QED BY <1>1, <1>8, <1>23, <1>27, SelectSplit DEF ClientNext

(* cdba_send_buf *)
LEMMA SendBufTypes ==
  ASSUME TypeOK, NEW ms \in Seq(Message), Send(ms)
  PROVE  s2c' \in Seq(Message) /\ spc' \in {"up", "quitting", "gone"}
  BY DEF Send, TypeOK, WireOK, ServerOK

LEMMA TakeTypes ==
  ASSUME TypeOK, NEW type, Takes(type)
  PROVE  /\ c2s # <<>> /\ c2s' = Tail(c2s) /\ c2s' \in Seq(Message)
         /\ c2s[1] \in Message /\ c2s[1][1] = type /\ c2s[1][2] \in Nat
         /\ spc # "gone"
  <1>1. c2s' \in Seq(Message) /\ c2s[1] \in Message
    BY TailType DEF Takes, TypeOK, WireOK
  <1> QED BY <1>1 DEF Takes, Message

LEMMA UeventTypes ==
  ASSUME TypeOK
  PROVE  Uevents => udev' \in Seq({"add", "remove"})
  BY DEF Uevents, TypeOK, ServerOK

LEMMA UnplugTypes ==
  ASSUME TypeOK, Unplug
  PROVE  /\ udev' \in Seq({"add", "remove"}) /\ taken' = {}
         /\ refused' \in {"no", "before"}
  BY UeventTypes DEF Unplug, TypeOK, ServerOK

(* What device_boot and fastboot_continue make of the board. *)
LEMMA AskTypes ==
  ASSUME TypeOK, NEW sent \in SUBSET Seq(Nat),
         Starts \/ Refuses(sent) \/ NotAsked
  PROVE  /\ udev' \in Seq({"add", "remove"}) /\ taken' \subseteq Seq(Nat)
         /\ refused' \in {"no", "now", "before"}
         /\ board' \in {"off", "up", "fastboot", "running"}
  <1>1. CASE Starts
    <2>1. taken' = {} /\ udev' \in Seq({"add", "remove"})
          /\ refused' \in {"no", "before"}
      BY <1>1, UnplugTypes DEF Starts
    <2> QED BY <1>1, <2>1 DEF Starts
  <1>2. CASE Refuses(sent)
    BY <1>2, UeventTypes DEF Refuses, TypeOK, ServerOK
  <1>3. CASE NotAsked
    BY <1>3, UeventTypes DEF NotAsked, TypeOK, ServerOK
  <1> QED BY <1>1, <1>2, <1>3

LEMMA BootTypes ==
  ASSUME TypeOK, NEW image \in Seq(Nat), Boot(image)
  PROVE  /\ udev' \in Seq({"add", "remove"}) /\ taken' \subseteq Seq(Nat)
         /\ refused' \in {"no", "now", "before"}
         /\ board' \in {"off", "up", "fastboot", "running"}
         /\ usb' \in BOOLEAN /\ images' \subseteq Seq(Nat)
  <1>1. Starts \/ Refuses({image}) \/ NotAsked
    BY DEF Boot
  <1>2. /\ udev' \in Seq({"add", "remove"}) /\ taken' \subseteq Seq(Nat)
        /\ refused' \in {"no", "now", "before"}
        /\ board' \in {"off", "up", "fastboot", "running"}
    BY <1>1, AskTypes
  <1>3. usb' \in BOOLEAN
    BY DEF Boot, TypeOK, ServerOK
  <1>4. images' \subseteq Seq(Nat)
    BY DEF Boot, Refuses, NotAsked, TypeOK, ServerOK
  <1> QED BY <1>2, <1>3, <1>4

(* The messages of the server, one or two at a time. *)
LEMMA MessageTypes ==
  /\ \A t \in Types : << Msg(t) >> \in Seq(Message)
  /\ \A t \in Types, n \in Nat : << <<t, n>> >> \in Seq(Message)
  /\ << <<"present", 1>>, Msg("select") >> \in Seq(Message)
  /\ << <<"list", 1>>, <<"list", 0>> >> \in Seq(Message)
  BY DEF Msg, Message, Types

(* Each step of the server keeps the types. *)
LEMMA ServerTypes ==
  ASSUME TypeOK, ServerNext
  PROVE  WireOK' /\ ServerOK'
  <1> USE DEF wire
  <1>0. << "add" >> \in Seq({"add", "remove"}) /\ <<>> \in Seq({"add", "remove"})
        /\ <<>> \in Seq(Nat)
    BY EmptySeq
  <1>1. CASE SelectBoard
    <2>1. c2s' \in Seq(Message)
      BY <1>1, TakeTypes DEF SelectBoard
    <2>2. s2c' \in Seq(Message) /\ spc' \in {"up", "quitting", "gone"}
      <3>1. Append(s2c, Msg("select")) \in Seq(Message)
        BY SendTypes DEF Msg, Types, TypeOK, WireOK
      <3>2. CASE known
        <4>1. CASE OnBus
          BY <1>1, <3>2, <4>1, SendBufTypes, MessageTypes DEF SelectBoard
        <4>2. CASE ~OnBus
          BY <1>1, <3>2, <4>2, SendBufTypes, MessageTypes DEF SelectBoard, Types
        <4> QED BY <4>1, <4>2
      <3> QED BY <1>1, <3>1, <3>2 DEF SelectBoard
    <2>3. udev' \in Seq({"add", "remove"})
      BY <1>0, <1>1 DEF SelectBoard, TypeOK, ServerOK
    <2>4. selected' \in BOOLEAN /\ fbOpen' \in BOOLEAN
      BY <1>1 DEF SelectBoard, OnBus, TypeOK, ServerOK
    <2> QED
      BY <1>1, <2>1, <2>2, <2>3, <2>4 DEF SelectBoard, TypeOK, WireOK, ServerOK
  <1>2. CASE PowerOn
    <2>1. c2s' \in Seq(Message)
      BY <1>2, TakeTypes DEF PowerOn
    <2>2. s2c' \in Seq(Message) /\ spc' \in {"up", "quitting", "gone"}
      BY <1>2, SendBufTypes, MessageTypes DEF PowerOn, Types
    <2>3. udev' \in Seq({"add", "remove"})
      BY <1>2, UeventTypes DEF PowerOn
    <2> QED BY <1>2, <2>1, <2>2, <2>3 DEF PowerOn, TypeOK, WireOK, ServerOK
  <1>3. CASE PowerOff
    <2>1. c2s' \in Seq(Message)
      BY <1>3, TakeTypes DEF PowerOff
    <2>2. s2c' \in Seq(Message) /\ spc' \in {"up", "quitting", "gone"}
      BY <1>3, SendBufTypes, MessageTypes DEF PowerOff, Types
    <2>3. /\ udev' \in Seq({"add", "remove"}) /\ taken' = {}
          /\ refused' \in {"no", "before"}
      BY <1>3, UnplugTypes DEF PowerOff
    <2> QED
      BY <1>3, <2>1, <2>2, <2>3 DEF PowerOff, Leaves, TypeOK, WireOK, ServerOK
  <1>4. CASE Download
    <2>1. c2s' \in Seq(Message)
      BY <1>4, TakeTypes DEF Download
    <2>2. payload' \in Seq(Nat)
      <3>1. Append(payload, c2s[1][2]) \in Seq(Nat)
        BY <1>4, TakeTypes DEF Download, TypeOK, ServerOK
      <3> QED
        BY <1>0, <1>4, <3>1 DEF Download, Segfault, TypeOK, ServerOK
    <2>3. s2c' \in Seq(Message) /\ spc' \in {"up", "quitting", "gone"}
      <3>1. CASE Send(<< Msg("download") >>)
        BY <3>1, SendBufTypes, MessageTypes DEF Types
      <3> QED BY <1>4, <3>1 DEF Download, Segfault, TypeOK, WireOK, ServerOK
    <2>4. /\ udev' \in Seq({"add", "remove"}) /\ taken' \subseteq Seq(Nat)
          /\ refused' \in {"no", "now", "before"}
          /\ board' \in {"off", "up", "fastboot", "running"}
          /\ usb' \in BOOLEAN /\ images' \subseteq Seq(Nat)
      <3>1. CASE Boot(payload)
        BY <3>1, BootTypes DEF TypeOK, ServerOK
      <3> QED BY <1>4, <3>1 DEF Download, Segfault, TypeOK, ServerOK
    <2>5. /\ fault' \in BOOLEAN /\ serverGone' \in BOOLEAN
          /\ clientGone' = clientGone
          /\ UNCHANGED <<known, selected, statusOn, fbOpen, left, drops, outs>>
      BY <1>4 DEF Download, Segfault, Survives, TypeOK, WireOK, ServerOK
    <2> QED
      BY <2>1, <2>2, <2>3, <2>4, <2>5 DEF TypeOK, WireOK, ServerOK
  <1>5. CASE Continue
    <2>1. c2s' \in Seq(Message)
      BY <1>5, TakeTypes DEF Continue
    <2>3. s2c' \in Seq(Message) /\ spc' \in {"up", "quitting", "gone"}
      <3>1. CASE Send(<< Msg("continue") >>)
        BY <3>1, SendBufTypes, MessageTypes DEF Types
      <3> QED BY <1>5, <3>1 DEF Continue, Segfault, TypeOK, WireOK, ServerOK
    <2>4. /\ udev' \in Seq({"add", "remove"}) /\ taken' \subseteq Seq(Nat)
          /\ refused' \in {"no", "now", "before"}
          /\ board' \in {"off", "up", "fastboot", "running"}
      <3>0. {} \in SUBSET Seq(Nat)
        OBVIOUS
      <3>1. CASE Starts \/ Refuses({}) \/ NotAsked
        BY <3>0, <3>1, AskTypes
      <3> QED BY <1>5, <3>1 DEF Continue, Segfault, TypeOK, ServerOK
    <2>6. /\ fault' \in BOOLEAN /\ images' = images /\ usb' = usb
          /\ serverGone' \in BOOLEAN /\ clientGone' = clientGone
          /\ UNCHANGED <<known, selected, statusOn, payload, fbOpen,
                         left, drops, outs>>
      BY <1>5 DEF Continue, Segfault, Survives, Starts, Refuses, NotAsked,
                  TypeOK, WireOK, ServerOK
    <2> QED
      BY <2>1, <2>3, <2>4, <2>6 DEF TypeOK, WireOK, ServerOK
  <1>6. CASE StatusEnable
    <2>1. c2s' \in Seq(Message)
      BY <1>6, TakeTypes DEF StatusEnable
    <2>2. /\ spc' \in {"up", "quitting", "gone"} /\ statusOn' \in BOOLEAN
          /\ fault' \in BOOLEAN /\ serverGone' \in BOOLEAN
      BY <1>6 DEF StatusEnable, Segfault, Survives, TypeOK, WireOK, ServerOK
    <2>3. UNCHANGED <<known, selected, payload, fbOpen, udev, board, usb, images,
                      left, refused, taken, drops, outs, s2c, clientGone>>
      BY <1>6 DEF StatusEnable, Segfault, Survives
    <2> QED BY <2>1, <2>2, <2>3 DEF TypeOK, WireOK, ServerOK
  <1>7. CASE KeyPress
    <2>1. c2s' \in Seq(Message)
      BY <1>7, TakeTypes DEF KeyPress
    <2>2. /\ spc' \in {"up", "quitting", "gone"} /\ statusOn' \in BOOLEAN
          /\ fault' \in BOOLEAN /\ serverGone' \in BOOLEAN
      BY <1>7 DEF KeyPress, Segfault, Survives, TypeOK, WireOK, ServerOK
    <2>3. UNCHANGED <<known, selected, payload, fbOpen, udev, board, usb, images,
                      left, refused, taken, drops, outs, s2c, clientGone>>
      BY <1>7 DEF KeyPress, Segfault, Survives
    <2> QED BY <2>1, <2>2, <2>3 DEF TypeOK, WireOK, ServerOK
  <1>8. CASE Console
    <2>1. c2s' \in Seq(Message)
      BY <1>8, TakeTypes DEF Console
    <2> QED BY <1>8, <2>1 DEF Console, server, TypeOK, WireOK, ServerOK
  <1>9. CASE Inform
    <2>1. c2s' \in Seq(Message)
      BY <1>9, TakeTypes DEF Inform
    <2>2. s2c' \in Seq(Message) /\ spc' \in {"up", "quitting", "gone"}
      BY <1>9, SendBufTypes, MessageTypes DEF Inform, Types
    <2> QED BY <1>9, <2>1, <2>2 DEF Inform, TypeOK, WireOK, ServerOK
  <1>10. CASE UdevEvent
    <2>1. udev' \in Seq({"add", "remove"})
      BY <1>10, TailType DEF UdevEvent, TypeOK, ServerOK
    <2>2. s2c' \in Seq(Message) /\ spc' \in {"up", "quitting", "gone"}
      <3>1. CASE Send(<< <<"present", 1>> >>)
        BY <3>1, SendBufTypes, MessageTypes DEF Types
      <3>2. CASE Send(<< <<"present", 0>> >>)
        BY <3>2, SendBufTypes, MessageTypes DEF Types
      <3> QED BY <1>10, <3>1, <3>2 DEF UdevEvent, TypeOK, WireOK, ServerOK
    <2>3. fbOpen' \in BOOLEAN
      BY <1>10 DEF UdevEvent, TypeOK, ServerOK
    <2> QED
      BY <1>10, <2>1, <2>2, <2>3 DEF UdevEvent, TypeOK, WireOK, ServerOK
  <1>11. CASE ServerEnd
    BY <1>11 DEF ServerEnd, TypeOK, WireOK, ServerOK
  <1>12. CASE Output
    <2>2. s2c' \in Seq(Message) /\ spc' \in {"up", "quitting", "gone"}
      <3>1. CASE \E c \in {0, 1} : Send(<< <<"console", c>> >>)
        BY <3>1, SendBufTypes, MessageTypes DEF Types
      <3>2. CASE Send(<< Msg("status") >>)
        BY <3>2, SendBufTypes, MessageTypes DEF Types
      <3> QED BY <1>12, <3>1, <3>2 DEF Output
    <2> QED BY <1>12, <2>2 DEF Output, TypeOK, WireOK, ServerOK
  <1>13. CASE EntersFastboot
    BY <1>13, UeventTypes DEF EntersFastboot, TypeOK, WireOK, ServerOK
  <1>14. CASE Resets
    <2>1. /\ udev' \in Seq({"add", "remove"}) /\ taken' = {}
          /\ refused' \in {"no", "before"}
      BY <1>14, UnplugTypes DEF Resets
    <2>2. left' \in BOOLEAN /\ drops' \in Nat
      BY <1>14 DEF Resets, Leaves, TypeOK, ServerOK
    <2> QED BY <1>14, <2>1, <2>2 DEF Resets, TypeOK, WireOK, ServerOK
  <1>15. CASE ActsLate
    <2>1. /\ udev' \in Seq({"add", "remove"}) /\ taken' = {}
          /\ refused' \in {"no", "before"} /\ board' = "running"
      BY <1>15, UnplugTypes DEF ActsLate, Starts
    <2>2. images' \subseteq Seq(Nat)
      BY <1>15 DEF ActsLate, TypeOK, ServerOK
    <2> QED BY <1>15, <2>1, <2>2 DEF ActsLate, TypeOK, WireOK, ServerOK
  <1> QED
    BY <1>1, <1>2, <1>3, <1>4, <1>5, <1>6, <1>7, <1>8, <1>9, <1>10, <1>11,
       <1>12, <1>13, <1>14, <1>15 DEF ServerNext, HandleStdin

(* Client, server and wire always hold values of their types. *)
THEOREM SessionTypes == Spec => []TypeOK
  <1>1. TypeOK /\ [Next]_vars => TypeOK'
    <2> SUFFICES ASSUME TypeOK, [Next]_vars PROVE TypeOK'
      OBVIOUS
    <2>1. CASE ClientNext /\ UNCHANGED server
      <3>1. ServerOK'
        BY <2>1 DEF server, ServerOK, TypeOK
      <3> QED BY <2>1, <3>1, ClientTypes DEF TypeOK
    <2>2. CASE ServerNext /\ UNCHANGED client
      <3>1. ClientOK'
        BY <2>2 DEF client, ClientOK, TypeOK
      <3> QED BY <2>2, <3>1, ServerTypes DEF TypeOK
    <2>3. CASE UNCHANGED vars
      <3>1. ClientOK'
        BY <2>3 DEF vars, client, ClientOK, TypeOK
      <3>2. ServerOK' /\ WireOK'
        BY <2>3 DEF vars, server, wire, ServerOK, WireOK, TypeOK
      <3> QED BY <3>1, <3>2 DEF TypeOK
    <2> QED BY <2>1, <2>2, <2>3 DEF Next
  <1> QED BY <1>1, InitTypes, PTL DEF Spec
-----------------------------------------------------------------------------
(***************************************************************************)
(* Messages of a kind in a channel.                                        *)
(***************************************************************************)

LEMMA HasAppend ==
  ASSUME NEW s \in Seq(Message), NEW m \in Message, NEW X,
         Has(Append(s, m), X), m \notin X
  PROVE  Has(s, X)
  BY DEF Has

LEMMA HasTail ==
  ASSUME NEW s \in Seq(Message), s # <<>>, NEW X
  PROVE  /\ s[1] \in X => Has(s, X)
         /\ Has(Tail(s), X) => Has(s, X)
  <1>1. /\ Len(s) \in Nat \ {0} /\ Len(Tail(s)) = Len(s) - 1
        /\ \A i \in 1 .. (Len(s) - 1) : Tail(s)[i] = s[i + 1]
    OBVIOUS
  <1>2. \A i \in 1 .. (Len(s) - 1) : i + 1 \in 1 .. Len(s)
    BY <1>1
  <1> QED BY <1>1, <1>2 DEF Has

LEMMA HasConcat ==
  ASSUME NEW s \in Seq(Message), NEW t \in Seq(Message), NEW X,
         Has(s \o t, X)
  PROVE  Has(s, X) \/ Has(t, X)
  <1>1. PICK i \in 1 .. Len(s \o t) : (s \o t)[i] \in X
    BY DEF Has
  <1>2. /\ Len(s) \in Nat /\ Len(t) \in Nat /\ Len(s \o t) = Len(s) + Len(t)
        /\ (s \o t)[i] = IF i <= Len(s) THEN s[i] ELSE t[i - Len(s)]
    BY ConcatProperties
  <1>3. CASE i <= Len(s)
    BY <1>1, <1>2, <1>3 DEF Has
  <1>4. CASE i > Len(s)
    <2>1. i - Len(s) \in 1 .. Len(t)
      BY <1>2, <1>4
    <2> QED BY <1>1, <1>2, <1>4, <2>1 DEF Has
  <1> QED BY <1>2, <1>3, <1>4

LEMMA HasSplit ==
  ASSUME NEW s \in Seq(Message), NEW k \in 0 .. Len(s), NEW X,
         Has(SubSeq(s, 1, k), X) \/ Has(SubSeq(s, k + 1, Len(s)), X)
  PROVE  Has(s, X)
  <1>1. CASE Has(SubSeq(s, 1, k), X)
    <2>1. /\ Len(SubSeq(s, 1, k)) = k /\ Len(s) \in Nat
          /\ \A i \in 1 .. k : SubSeq(s, 1, k)[i] = s[i]
      OBVIOUS
    <2> QED BY <1>1, <2>1 DEF Has
  <1>2. CASE Has(SubSeq(s, k + 1, Len(s)), X)
    <2>1. /\ Len(SubSeq(s, k + 1, Len(s))) = Len(s) - k /\ Len(s) \in Nat
          /\ \A i \in 1 .. (Len(s) - k) :
               SubSeq(s, k + 1, Len(s))[i] = s[k + i] /\ k + i \in 1 .. Len(s)
      OBVIOUS
    <2> QED BY <1>2, <2>1 DEF Has
  <1> QED BY <1>1, <1>2

LEMMA HasFew ==
  ASSUME NEW a, NEW b, NEW X
  PROVE  /\ ~Has(<<>>, X)
         /\ Has(<< a >>, X) => a \in X
         /\ Has(<< a, b >>, X) => a \in X \/ b \in X
  BY DEF Has
-----------------------------------------------------------------------------
(***************************************************************************)
(* A NULL selected_device.                                                 *)
(***************************************************************************)

(* Nothing but the request for a board that can be had was made. *)
Quiet == opts.board /\ opts.verb = "boot" /\ keys = 0

(* The client's state until the request for the board is sent. *)
Virgin == /\ s2c = <<>> /\ inbox = <<>> /\ ~flag.gotOff /\ ~flag.timedOut
          /\ heap = FirstWork(opts)
          /\ cpc \in {"top", "select", "tty", "drain0", "drain"}
          /\ cpc = "select" => wr
          /\ cpc = "drain" => work = "select"

(* The request for the board is the first thing the server is sent. *)
AskedFirst == \/ c2s = <<>> /\ (clientGone \/ Virgin)
              \/ c2s # <<>> /\ c2s[1] = Msg("select")

NullInv ==
  /\ known = opts.board
  /\ ~selected => udev = <<>>
  /\ Quiet => ~fault
  /\ (Quiet /\ ~selected) => AskedFirst

LEMMA SelectIsFirst ==
  ASSUME NEW o \in Options, o.verb = "boot"
  PROVE  FirstWork(o).next[Head0] = "select"
  <1> USE DEF Nodes, Requests, Head0
  <1> DEFINE h == ListAdd(ListInit(Nodes), Head0, "select")
  <1>1. h.next[Head0] = "select" /\ h.prev[Head0] = "select" /\ h \in Heaps
    <2>1. h \in Heaps
      BY ListInitType, ListTypes
    <2> QED BY <2>1 DEF ListAdd, ListInit
  <1>2. ListAdd(h, Head0, "status").next[Head0] = "select"
    <2> HIDE DEF h
    <2> QED BY <1>1 DEF ListAdd, Heaps
  <1> QED BY <1>1, <1>2 DEF FirstWork, Verb

(* What any step of the client does to the wire and to the command line. *)
Framed == /\ opts' = opts /\ keys' \in {keys, keys + 1}
          /\ c2s' = c2s \/ \E m : c2s' = Append(c2s, m)
          /\ serverGone' = serverGone
          /\ clientGone => clientGone'
          /\ crowded => crowded'
          /\ overlapped => overlapped'

LEMMA ClientFrame ==
  ASSUME TypeOK, ClientNext
  PROVE  Framed
  <1> USE DEF Framed, client, wire, list, state, hist
  <1>1. CASE Elapse
    BY <1>1 DEF Elapse
  <1>2. CASE LoopEnds
    BY <1>2 DEF LoopEnds
  <1>3. CASE PowerCycle
    BY <1>3 DEF PowerCycle, OweReply, Arm, Die
  <1>4. CASE NoCycle
    BY <1>4 DEF NoCycle, Arm, Die
  <1>5. CASE SelectTimeout
    BY <1>5 DEF SelectTimeout
  <1>6. CASE SelectEOF
    BY <1>6 DEF SelectEOF
  <1>7. CASE HandleSelect
    BY <1>7 DEF HandleSelect, Replied
  <1>8. CASE HandleConsole
    BY <1>8 DEF HandleConsole
  <1>9. CASE HandlePowerOff
    BY <1>9 DEF HandlePowerOff, Replied
  <1>10. CASE HandlePresent
    BY <1>10 DEF HandlePresent, RequestFile, Die
  <1>11. CASE HandleDone
    BY <1>11 DEF HandleDone
  <1>12. CASE HandleList
    BY <1>12 DEF HandleList
  <1>13. CASE HandleInfo
    BY <1>13 DEF HandleInfo
  <1>14. CASE HandleOther
    BY <1>14 DEF HandleOther
  <1>15. CASE StdoutDone
    BY <1>15 DEF StdoutDone
  <1>16. CASE DrainStart
    BY <1>16 DEF DrainStart
  <1>17. CASE DrainEnd
    BY <1>17 DEF DrainEnd
  <1>18. CASE Finish
    BY <1>18 DEF Finish
  <1>19. ASSUME NEW k \in 0 .. Len(s2c), Selects(k) PROVE Framed
    BY <1>19 DEF Selects, SelectReady
  <1>20. ASSUME NEW key \in Keys, TtyCallback(key) PROVE Framed
    <2>1. /\ opts' = opts /\ keys' = keys + 1 /\ serverGone' = serverGone
          /\ overlapped' = overlapped
          /\ clientGone => clientGone'
          /\ c2s' = c2s \/ \E m : c2s' = Append(c2s, m)
      BY <1>20 DEF TtyCallback, Die
    <2>2. \/ crowded' = crowded
          \/ crowded' = (crowded \/ owed > 0 \/ "on" \in queued)
      BY <1>20 DEF TtyCallback
    <2>3. crowded => crowded'
      BY <2>2, Zenon
    <2> QED BY <2>1, <2>3
  <1>21. ASSUME NEW node \in Requests, RunRequest(node) PROVE Framed
    BY <1>21 DEF RunRequest, Broken, Die
  <1>22. ASSUME NEW d \in Downloads, RunDownload(d) PROVE Framed
    BY <1>22 DEF RunDownload, Broken, Die
  <1> HIDE DEF Framed
  <1> QED
    BY SelectSplit, <1>1, <1>2, <1>3, <1>4, <1>5, <1>6, <1>7, <1>8, <1>9,
       <1>10, <1>11, <1>12, <1>13, <1>14, <1>15, <1>16, <1>17, <1>18, <1>19,
       <1>20, <1>21, <1>22 DEF ClientNext, Loop, HandleMessage, Drain


(* Once the client is gone it only waits for the other side to end. *)
Ended == clientGone => cpc \in {"wait", "exited"}

Idle == UNCHANGED <<opts, list, wr, inbox, state, keys, hist, wire>>

LEMMA GoneFrame ==
  ASSUME cpc \in {"wait", "exited"}, ClientNext
  PROVE  Idle /\ cpc' \in {"wait", "exited"}
  <1>1. CASE Elapse
    BY <1>1 DEF Elapse, Idle
  <1>2. CASE Finish
    BY <1>2 DEF Finish, Idle
  <1>3. CASE HandleMessage
    BY <1>3 DEF HandleMessage, HandleSelect, HandleConsole, HandlePowerOff,
                HandlePresent, HandleDone, HandleList, HandleInfo, HandleOther,
                Handles
  <1>4. CASE Drain
    BY <1>4 DEF Drain, DrainStart, DrainEnd, RunRequest, RunDownload, Running
  <1>5. ~LoopEnds /\ ~PowerCycle /\ ~NoCycle /\ ~SelectTimeout
        /\ ~SelectEOF /\ ~StdoutDone /\ \A key \in Keys : ~TtyCallback(key)
    BY DEF LoopEnds, PowerCycle, NoCycle, SelectTimeout, SelectEOF, StdoutDone,
           TtyCallback
  <1>6. \A k : ~SelectReady(k, FALSE) /\ ~SelectReady(k, TRUE)
    BY DEF SelectReady
  <1> QED
    BY <1>1, <1>2, <1>3, <1>4, <1>5, <1>6, Zenon DEF ClientNext, Loop

(* ... and a client that goes is out of its loop. *)
LEMMA EndedStep ==
  ASSUME TypeOK, Ended, ClientNext
  PROVE  Ended'
  <1> USE DEF client, wire, list, state, hist, Ended
  <1>1. CASE Elapse
    BY <1>1 DEF Elapse
  <1>2. CASE LoopEnds
    BY <1>2 DEF LoopEnds
  <1>3. CASE PowerCycle
    BY <1>3 DEF PowerCycle, Arm, Die
  <1>4. CASE NoCycle
    BY <1>4 DEF NoCycle, Arm, Die
  <1>5. CASE SelectTimeout
    BY <1>5 DEF SelectTimeout
  <1>6. CASE SelectEOF
    BY <1>6 DEF SelectEOF
  <1>7. CASE HandleSelect
    BY <1>7 DEF HandleSelect, Handles
  <1>8. CASE HandleConsole
    BY <1>8 DEF HandleConsole, Handles
  <1>9. CASE HandlePowerOff
    BY <1>9 DEF HandlePowerOff, Handles
  <1>10. CASE HandlePresent
    BY <1>10 DEF HandlePresent, RequestFile, Die, Handles
  <1>11. CASE HandleDone
    BY <1>11 DEF HandleDone, Handles
  <1>12. CASE HandleList
    BY <1>12 DEF HandleList, Handles
  <1>13. CASE HandleInfo
    BY <1>13 DEF HandleInfo, Handles
  <1>14. CASE HandleOther
    BY <1>14 DEF HandleOther, Handles
  <1>15. CASE StdoutDone
    BY <1>15 DEF StdoutDone
  <1>16. CASE DrainStart
    BY <1>16 DEF DrainStart
  <1>17. CASE DrainEnd
    BY <1>17 DEF DrainEnd, Running
  <1>18. CASE Finish
    BY <1>18 DEF Finish
  <1>19. ASSUME NEW k \in 0 .. Len(s2c), Selects(k) PROVE Ended'
    BY <1>19 DEF Selects, SelectReady
  <1>20. ASSUME NEW key \in Keys, TtyCallback(key) PROVE Ended'
    BY <1>20 DEF TtyCallback, Die
  <1>21. ASSUME NEW node \in Requests, RunRequest(node) PROVE Ended'
    BY <1>21 DEF RunRequest, Broken, Die, Running
  <1>22. ASSUME NEW d \in Downloads, RunDownload(d) PROVE Ended'
    BY <1>22 DEF RunDownload, Broken, Die, Running
  <1> HIDE DEF Ended
  <1> QED
    BY SelectSplit, <1>1, <1>2, <1>3, <1>4, <1>5, <1>6, <1>7, <1>8, <1>9,
       <1>10, <1>11, <1>12, <1>13, <1>14, <1>15, <1>16, <1>17, <1>18, <1>19,
       <1>20, <1>21, <1>22 DEF ClientNext, Loop, HandleMessage, Drain

(* The client of a board gets on to its request. *)
LEMMA VirginStep ==
  ASSUME TypeOK, Quiet, Quiet', Virgin, c2s = <<>>, ~clientGone, ClientNext
  PROVE  AskedFirst'
  <1>0. /\ Room /\ heap.next[Head0] = "select" /\ Len(s2c) = 0
        /\ opts \in Options /\ keys \in Nat /\ "select" # Head0
    BY SelectIsFirst, PipeAssumption DEF Room, Virgin, Quiet, TypeOK, ClientOK, Head0
  <1> USE DEF client, wire, list, state, hist, AskedFirst
  <1>1. CASE Elapse
    BY <1>1 DEF Elapse, Virgin
  <1>2. CASE LoopEnds \/ SelectEOF
    BY <1>2 DEF LoopEnds, SelectEOF
  <1>3. ~PowerCycle
    BY DEF PowerCycle, CycleAsked, Virgin
  <1>4. CASE NoCycle
    <2>1. CASE clientGone'
      BY <1>4, <2>1 DEF NoCycle, Arm, Die
    <2>2. CASE ~clientGone'
      BY <1>0, <1>4, <2>2 DEF NoCycle, Arm, Die, ListEmpty, Virgin
    <2> QED BY <2>1, <2>2
  <1>5. ASSUME NEW k \in 0 .. Len(s2c), Selects(k)
        PROVE  AskedFirst'
    <2>1. k = 0
      BY <1>0, <1>5
    <2>2. wr' /\ cpc' \in {"tty", "drain0"}
      <3>1. cpc = "select" /\ wr' = Writable
        BY <1>5 DEF Selects, SelectReady
      <3>2. Writable
        BY <1>0, <3>1 DEF Virgin, Writable
      <3>3. wr'
        BY <3>1, <3>2
      <3>4. CASE SelectReady(k, FALSE)
        BY <2>1, <3>3, <3>4 DEF SelectReady, AfterStdout
      <3>5. CASE SelectReady(k, TRUE)
        BY <3>3, <3>5 DEF SelectReady
      <3> QED BY <1>5, <3>4, <3>5 DEF Selects
    <2>3. inbox' = <<>> /\ s2c' = <<>>
      BY <1>0, <1>5, <2>1 DEF Selects, SelectReady, Virgin
    <2> QED BY <1>5, <2>2, <2>3 DEF Selects, SelectReady, Virgin
  <1>6. ~SelectTimeout
    BY <1>0 DEF SelectTimeout, Writable, Virgin
  <1>8. ASSUME NEW key \in Keys PROVE ~TtyCallback(key)
    BY <1>0 DEF TtyCallback, Quiet
  <1>9. ~HandleMessage /\ ~StdoutDone /\ ~Finish
    BY DEF HandleMessage, HandleSelect, HandleConsole, HandlePowerOff,
           HandlePresent, HandleDone, HandleList, HandleInfo, HandleOther,
           Handles, StdoutDone, Finish, Virgin
  <1>10. CASE DrainStart
    BY <1>0, <1>10 DEF DrainStart, Virgin
  <1>11. ~DrainEnd
    BY <1>0 DEF DrainEnd, Running, Virgin
  <1>12. ASSUME NEW node \in Requests, RunRequest(node)
         PROVE  AskedFirst'
    <2>1. node = "select" /\ MsgOf(node) = Msg("select")
      BY <1>12 DEF RunRequest, Running, Virgin, MsgOf
    <2> QED BY <1>0, <1>12, <2>1 DEF RunRequest, Broken, Die
  <1>13. ASSUME NEW d \in Downloads PROVE ~RunDownload(d)
    BY ClientAssumption DEF RunDownload, Running, Virgin, Requests
  <1> HIDE DEF AskedFirst
  <1>14. CASE Drain
    BY <1>10, <1>11, <1>12, <1>13, <1>14 DEF Drain
  <1>15. CASE Loop
    BY SelectSplit, <1>2, <1>3, <1>4, <1>5, <1>6, <1>9, <1>14, <1>15 DEF Loop
  <1> QED
    BY SelectSplit, <1>1, <1>5, <1>8, <1>15 DEF ClientNext

LEMMA ClientNull ==
  ASSUME TypeOK, Ended, NullInv, ClientNext, UNCHANGED server
  PROVE  NullInv'
  <1> USE DEF AskedFirst
  <1>0. Framed /\ c2s \in Seq(Message) /\ keys \in Nat /\ opts \in Options
    BY ClientFrame DEF TypeOK, WireOK, ClientOK
  <1>1. /\ known' = opts'.board
        /\ ~selected' => udev' = <<>>
        /\ Quiet' => ~fault' /\ Quiet
    BY <1>0 DEF NullInv, Quiet, Framed, server
  <1>2. ASSUME Quiet', ~selected'
        PROVE  AskedFirst'
    <2>1. Quiet /\ ~selected
      BY <1>1, <1>2 DEF server
    <2>2. CASE c2s # <<>> /\ c2s[1] = Msg("select")
      <3>1. CASE c2s' = c2s
        BY <2>2, <3>1
      <3>2. CASE \E m : c2s' = Append(c2s, m)
        <4>1. PICK m : c2s' = Append(c2s, m)
          BY <3>2
        <4>2. Len(c2s) \in Nat \ {0} /\ c2s'[1] = c2s[1] /\ Len(c2s') = Len(c2s) + 1
          BY <1>0, <2>2, <4>1
        <4> QED BY <2>2, <4>2
      <3> QED BY <1>0, <3>1, <3>2 DEF Framed
    <2>3. CASE c2s = <<>> /\ clientGone
      <3>1. Idle
        BY <2>3, GoneFrame DEF Ended
      <3> QED BY <2>3, <3>1 DEF Idle, wire
    <2>4. CASE c2s = <<>> /\ ~clientGone /\ Virgin
      BY <2>1, <2>4, <1>2, VirginStep
    <2> QED BY <2>1, <2>2, <2>3, <2>4 DEF NullInv
  <1> QED BY <1>1, <1>2 DEF NullInv

(* What any step of the server leaves alone. *)
LEMMA ServerFrame ==
  ASSUME ServerNext
  PROVE  /\ clientGone' = clientGone /\ known' = known
         /\ selected => selected'
         /\ left => left'
         /\ refused # "no" => refused' # "no"
  <1> DEFINE Goal == /\ clientGone' = clientGone /\ known' = known
                     /\ selected => selected'
                     /\ left => left'
                     /\ refused # "no" => refused' # "no"
  <1> USE DEF wire
  <1>1. CASE SelectBoard
    BY <1>1 DEF SelectBoard
  <1>2. CASE PowerOn
    BY <1>2 DEF PowerOn
  <1>3. CASE PowerOff
    BY <1>3 DEF PowerOff, Leaves, Unplug
  <1>4. CASE Download
    BY <1>4 DEF Download, Segfault, Survives, Boot, Starts, Refuses, NotAsked,
                Unplug
  <1>5. CASE Continue
    BY <1>5 DEF Continue, Segfault, Survives, Starts, Refuses, NotAsked, Unplug
  <1>6. CASE StatusEnable
    BY <1>6 DEF StatusEnable, Segfault, Survives
  <1>7. CASE KeyPress
    BY <1>7 DEF KeyPress, Segfault, Survives
  <1>8. CASE Console
    BY <1>8 DEF Console, server
  <1>9. CASE Inform
    BY <1>9 DEF Inform
  <1>10. CASE UdevEvent
    BY <1>10 DEF UdevEvent
  <1>11. CASE ServerEnd
    BY <1>11 DEF ServerEnd
  <1>12. CASE Output
    BY <1>12 DEF Output
  <1>13. CASE EntersFastboot
    BY <1>13 DEF EntersFastboot
  <1>14. CASE Resets
    BY <1>14 DEF Resets, Leaves, Unplug
  <1>15. CASE ActsLate
    BY <1>15 DEF ActsLate, Starts, Unplug
  <1> QED
    BY <1>1, <1>2, <1>3, <1>4, <1>5, <1>6, <1>7, <1>8, <1>9, <1>10, <1>11,
       <1>12, <1>13, <1>14, <1>15 DEF ServerNext, HandleStdin

LEMMA ServerNull ==
  ASSUME TypeOK, NullInv, ServerNext, UNCHANGED client
  PROVE  NullInv'
  <1> USE DEF wire
  <1>0. /\ clientGone' = clientGone /\ known' = known /\ opts' = opts
        /\ selected => selected'
        /\ Quiet' <=> Quiet
        /\ s2c' = s2c /\ inbox' = inbox => (Virgin' <=> Virgin)
        /\ known' = opts'.board
    BY ServerFrame DEF client, Quiet, Virgin, NullInv
  <1>1. ~selected' => udev' = <<>>
    <2>1. CASE SelectBoard
      BY <2>1 DEF SelectBoard, NullInv
    <2>2. CASE PowerOn \/ PowerOff
      BY <2>2 DEF PowerOn, PowerOff, Unplug, Uevents, NullInv
    <2>3. CASE Download \/ Continue
      BY <2>3 DEF Download, Continue, Segfault, Survives, NullInv
    <2>4. CASE UdevEvent
      BY <2>4 DEF UdevEvent, NullInv
    <2>5. CASE EntersFastboot \/ Resets \/ ActsLate
      BY <2>5 DEF EntersFastboot, Resets, ActsLate, Starts, Unplug, Uevents,
                  NullInv
    <2>6. CASE StatusEnable \/ KeyPress \/ Console \/ Inform
               \/ ServerEnd \/ Output
      BY <2>6 DEF StatusEnable, KeyPress, Console, Inform, ServerEnd,
                  Output, Segfault, Survives, server, NullInv
    <2> QED
      BY <2>1, <2>2, <2>3, <2>4, <2>5, <2>6 DEF ServerNext, HandleStdin
  (* A handler that uses selected_device takes another message first. *)
  <1>2. ASSUME Quiet, ~selected
        PROVE  ~fault' /\ (~selected' => AskedFirst')
    <2>1. AskedFirst /\ ~fault /\ udev = <<>> /\ known
      BY <1>2 DEF NullInv, Quiet
    <2>2. CASE HandleStdin
      <3>0. c2s # <<>>
        BY <2>2
        DEF HandleStdin, Takes, SelectBoard, PowerOn, PowerOff,
            Download, Continue, StatusEnable, KeyPress, Console, Inform
      <3>1. c2s[1][1] = "select"
        BY <2>1, <3>0 DEF AskedFirst, Msg
      <3>2. SelectBoard
        BY <2>2, <3>1
        DEF HandleStdin, Takes, SelectBoard, PowerOn, PowerOff,
            Download, Continue, StatusEnable, KeyPress, Console, Inform
      <3> QED BY <2>1, <3>2 DEF SelectBoard
    <2>3. CASE ServerEnd \/ EntersFastboot \/ Resets \/ ActsLate
      BY <1>0, <2>1, <2>3
      DEF ServerEnd, EntersFastboot, Resets, ActsLate, AskedFirst, client
    <2>4. ~UdevEvent /\ ~Output
      BY <1>2, <2>1 DEF UdevEvent, Output
    <2> QED BY <2>2, <2>3, <2>4 DEF ServerNext
  <1>3. ASSUME Quiet, selected
        PROVE  ~fault'
    <2> USE DEF NullInv
    <2>1. CASE HandleStdin
      BY <1>3, <2>1
      DEF HandleStdin, SelectBoard, PowerOn, PowerOff, Download, Continue,
          StatusEnable, KeyPress, Console, Inform, Segfault, Survives, server
    <2>2. CASE UdevEvent \/ ServerEnd \/ Output \/ EntersFastboot \/ Resets
               \/ ActsLate
      BY <1>3, <2>2 DEF UdevEvent, ServerEnd, Output, EntersFastboot, Resets,
                        ActsLate
    <2> QED BY <2>1, <2>2 DEF ServerNext
  <1> QED BY <1>0, <1>1, <1>2, <1>3 DEF NullInv

(* A client that asks for the list, or about a board, and nothing else     *)
(* makes no request that needs a board, and is sent none of its replies.   *)
Reading == opts.verb # "boot" /\ ~opts.status /\ keys = 0

Risky == {"select", "present", "download", "status", "continue", "key"} \X Nat

OwnWork == {Head0, opts.verb, "on", "off"}

Closed(h, S) == \A n \in S : h.next[n] \in S /\ h.prev[n] \in S

ReadInv ==
  Reading => /\ ~selected /\ ~fault
             /\ Closed(heap, OwnWork) /\ work \in OwnWork /\ next \in OwnWork
             /\ ~Has(c2s, Risky) /\ ~Has(s2c, Risky) /\ ~Has(inbox, Risky)

LEMMA ClosedKept ==
  ASSUME NEW h \in Heaps, NEW S \in SUBSET Nodes, NEW l \in S, NEW x \in S,
         Closed(h, S)
  PROVE  /\ Closed(ListAdd(h, l, x), S)
         /\ Closed(ListDel(h, x), S)
  <1>1. Closed(ListAdd(h, l, x), S)
    BY DEF ListAdd, Heaps, Closed
  <1>2. Closed(ListDel(h, x), S)
    BY DEF ListDel, Heaps, Closed
  <1> QED BY <1>1, <1>2

(* Each step of such a client. *)
LEMMA ClientReads ==
  ASSUME TypeOK, ReadInv, Reading, Reading', ClientNext
  PROVE  /\ Closed(heap', OwnWork) /\ work' \in OwnWork /\ next' \in OwnWork
         /\ ~Has(c2s', Risky) /\ ~Has(s2c', Risky) /\ ~Has(inbox', Risky)
  <1> DEFINE Goal ==
        /\ Closed(heap', OwnWork) /\ work' \in OwnWork /\ next' \in OwnWork
        /\ ~Has(c2s', Risky) /\ ~Has(s2c', Risky) /\ ~Has(inbox', Risky)
  <1>0. /\ Closed(heap, OwnWork) /\ work \in OwnWork /\ next \in OwnWork
        /\ ~Has(c2s, Risky) /\ ~Has(s2c, Risky) /\ ~Has(inbox, Risky)
        /\ opts.verb \in {"list", "info"} /\ keys = 0
        /\ OwnWork \in SUBSET Nodes /\ Head0 \in OwnWork
        /\ {"on", "off"} \subseteq OwnWork /\ heap \in Heaps
    BY DEF ReadInv, Reading, TypeOK, ClientOK, Options, OwnWork, Nodes, Requests,
           Heaps
  <1>00. /\ c2s \in Seq(Message) /\ s2c \in Seq(Message)
         /\ inbox \in Seq(Message)
    BY DEF TypeOK, WireOK, ClientOK
  <1> USE DEF wire, list, state, hist
  <1>1. ASSUME NEW type, Handles(type)
        PROVE  ~Has(inbox', Risky) /\ <<type, 0>> \notin Risky
    <2>1. /\ inbox # <<>> /\ inbox' = Tail(inbox) /\ inbox[1] \in Message
          /\ inbox[1][1] = type
      BY <1>1, HandleTypes
    <2>2. ~Has(inbox', Risky) /\ inbox[1] \notin Risky
      BY <1>0, <1>00, <2>1, HasTail
    <2> QED BY <2>1, <2>2 DEF Risky, Message
  <1>2. ASSUME NEW node \in {"on", "off"}, Request(node)
        PROVE  Closed(heap', OwnWork)
    BY <1>0, <1>2, ClosedKept DEF Request
  <1>3. CASE UNCHANGED list /\ UNCHANGED <<c2s, s2c, inbox>>
    BY <1>0, <1>3
  <1>4. CASE PowerCycle
    <2>1. Request("off") /\ UNCHANGED <<work, next, inbox, c2s, s2c>>
      BY <1>4 DEF PowerCycle, Arm, Die
    <2> QED BY <1>0, <1>2, <2>1
  <1>5. CASE NoCycle
    <2>1. UNCHANGED list /\ UNCHANGED <<c2s, s2c, inbox>>
      BY <1>5 DEF NoCycle, Arm, Die
    <2> QED BY <1>3, <2>1
  <1>6. ASSUME NEW k \in 0 .. Len(s2c), Selects(k) PROVE Goal
    <2>1. /\ UNCHANGED list /\ c2s' = c2s
          /\ inbox' = SubSeq(s2c, 1, k) /\ s2c' = SubSeq(s2c, k + 1, Len(s2c))
      BY <1>6 DEF Selects, SelectReady
    <2>2. ~Has(inbox', Risky) /\ ~Has(s2c', Risky)
      BY <1>0, <1>00, <2>1, HasSplit
    <2> QED BY <1>0, <2>1, <2>2
  <1>7. ASSUME NEW key \in Keys PROVE ~TtyCallback(key)
    BY <1>0 DEF TtyCallback, Reading
  <1>8. ~HandleSelect /\ ~HandlePresent
    BY <1>1 DEF HandleSelect, HandlePresent, Risky
  <1>9. CASE HandlePowerOff
    <2>1. /\ Request("on") \/ UNCHANGED heap
          /\ UNCHANGED <<work, next, c2s, s2c>> /\ Handles("power_off")
      BY <1>9 DEF HandlePowerOff
    <2> QED BY <1>0, <1>1, <1>2, <2>1
  <1>10. CASE HandleConsole \/ HandleDone \/ HandleList \/ HandleInfo
              \/ HandleOther
    <2>1. UNCHANGED list /\ UNCHANGED <<c2s, s2c>>
          /\ \E type \in Types : Handles(type)
      BY <1>10 DEF HandleConsole, HandleDone, HandleList, HandleInfo, HandleOther,
                   Types
    <2> QED BY <1>0, <1>1, <2>1
  <1>11. CASE DrainStart
    <2>1. /\ work' = heap.next[Head0] /\ next' = heap.next[heap.next[Head0]]
          /\ UNCHANGED <<heap, c2s, s2c, inbox>>
      BY <1>11 DEF DrainStart
    <2> QED BY <1>0, <2>1 DEF Closed
  <1>12. CASE DrainEnd
    BY <1>0, <1>12 DEF DrainEnd
  <1>13. ASSUME NEW node \in Requests, RunRequest(node) PROVE Goal
    <2>1. /\ node \in OwnWork /\ heap' = ListDel(heap, node)
          /\ work' = next /\ next' = heap'.next[next]
          /\ UNCHANGED <<inbox, s2c>>
          /\ c2s' = c2s \/ c2s' = Append(c2s, MsgOf(node))
      BY <1>0, <1>13 DEF RunRequest, Running, NextWork, Broken, Die
    <2>2. Closed(heap', OwnWork)
      BY <1>0, <2>1, ClosedKept
    <2>3. MsgOf(node) \in Message /\ MsgOf(node) \notin Risky
      BY <1>0, <2>1 DEF OwnWork, MsgOf, Msg, Message, Types, Risky, Requests, Head0
    <2>4. ~Has(c2s', Risky)
      BY <1>0, <1>00, <2>1, <2>3, HasAppend
    <2> QED BY <1>0, <2>1, <2>2, <2>4 DEF Closed
  <1>14. ASSUME NEW d \in Downloads PROVE ~RunDownload(d)
    <2>1. OwnWork \subseteq Requests \cup {Head0}
      BY <1>0 DEF OwnWork, Requests
    <2> QED BY <1>0, <2>1, ClientAssumption DEF RunDownload, Running
  <1>15. CASE Elapse \/ LoopEnds \/ SelectTimeout \/ SelectEOF \/ StdoutDone
              \/ Finish
    <2>1. UNCHANGED list /\ UNCHANGED <<c2s, s2c, inbox>>
      BY <1>15 DEF Elapse, LoopEnds, SelectTimeout, SelectEOF, StdoutDone, Finish
    <2> QED BY <1>3, <2>1
  <1> HIDE DEF Goal
  <1> QED
    BY SelectSplit, <1>4, <1>5, <1>6, <1>7, <1>8, <1>9, <1>10, <1>11, <1>12,
       <1>13, <1>14, <1>15 DEF ClientNext, Loop, HandleMessage, Drain, Goal

(* The server is asked for nothing that needs a board. *)
LEMMA ServerReads ==
  ASSUME TypeOK, NullInv, ReadInv, Reading, ServerNext
  PROVE  ~selected' /\ ~fault' /\ ~Has(c2s', Risky) /\ ~Has(s2c', Risky)
  <1> DEFINE Goal ==
        ~selected' /\ ~fault' /\ ~Has(c2s', Risky) /\ ~Has(s2c', Risky)
  <1>0. /\ ~selected /\ ~fault /\ ~Has(c2s, Risky) /\ ~Has(s2c, Risky)
        /\ udev = <<>> /\ c2s \in Seq(Message) /\ s2c \in Seq(Message)
    BY DEF ReadInv, NullInv, TypeOK, WireOK
  <1>1. ASSUME NEW type, Takes(type)
        PROVE  ~Has(c2s', Risky) /\ <<type, 0>> \notin Risky
    <2>1. /\ c2s # <<>> /\ c2s' = Tail(c2s) /\ c2s[1] \in Message
          /\ c2s[1][1] = type
      BY <1>1, TakeTypes
    <2>2. ~Has(c2s', Risky) /\ c2s[1] \notin Risky
      BY <1>0, <2>1, HasTail
    <2> QED BY <2>1, <2>2 DEF Risky, Message
  <1>2. ASSUME NEW ms \in Seq(Message), Send(ms), ~Has(ms, Risky)
        PROVE  ~Has(s2c', Risky)
    BY <1>0, <1>2, HasConcat DEF Send
  <1>3. CASE PowerOn \/ PowerOff
    <2>1. PICK type \in {"power_on", "power_off"} :
            Takes(type) /\ Send(<< Msg(type) >>)
      BY <1>3 DEF PowerOn, PowerOff
    <2>2. << Msg(type) >> \in Seq(Message) /\ ~Has(<< Msg(type) >>, Risky)
      <3>1. type \in Types /\ Msg(type) \notin Risky
        BY DEF Types, Risky, Msg
      <3> QED BY <3>1, MessageTypes, HasFew
    <2>3. selected' = selected /\ fault' = fault
      BY <1>3 DEF PowerOn, PowerOff
    <2> QED BY <1>0, <1>1, <1>2, <2>1, <2>2, <2>3
  <1>4. CASE Inform
    <2>1. selected' = selected /\ fault' = fault
          /\ \E type \in Types : Takes(type)
      BY <1>4 DEF Inform, Types
    <2>2. ~Has(s2c', Risky)
      <3>1. /\ << <<"list", 1>>, <<"list", 0>> >> \in Seq(Message)
            /\ << Msg("info") >> \in Seq(Message)
        BY MessageTypes DEF Types
      <3>2. /\ <<"list", 1>> \notin Risky /\ <<"list", 0>> \notin Risky
            /\ Msg("info") \notin Risky
        BY DEF Risky, Msg
      <3>3. /\ ~Has(<< <<"list", 1>>, <<"list", 0>> >>, Risky)
            /\ ~Has(<< Msg("info") >>, Risky)
        BY <3>2, HasFew
      <3> QED BY <1>2, <1>4, <3>1, <3>3 DEF Inform
    <2> QED BY <1>0, <1>1, <2>1, <2>2
  <1>5. CASE Console
    BY <1>0, <1>1, <1>5 DEF Console, server
  <1>6. /\ ~SelectBoard /\ ~Download /\ ~Continue /\ ~StatusEnable /\ ~KeyPress
    BY <1>1 DEF SelectBoard, Download, Continue, StatusEnable, KeyPress, Risky
  <1>7. ~UdevEvent /\ ~Output
    BY <1>0 DEF UdevEvent, Output
  <1>8. CASE ServerEnd \/ EntersFastboot \/ Resets \/ ActsLate
    BY <1>0, <1>8 DEF ServerEnd, EntersFastboot, Resets, ActsLate, wire
  <1> HIDE DEF Goal
  <1> QED
    BY <1>3, <1>4, <1>5, <1>6, <1>7, <1>8 DEF ServerNext, HandleStdin, Goal

LEMMA ReadInit ==
  ASSUME Init PROVE ReadInv
  <1> SUFFICES ASSUME Reading PROVE ReadInv
    BY DEF ReadInv
  <1>1. /\ opts \in Options /\ opts.verb \in {"list", "info"}
    BY ClientAssumption DEF Init, ClientInit, Reading, Options
  <1>2. Head0 \in OwnWork /\ opts.verb \in OwnWork /\ OwnWork \in SUBSET Nodes
    BY <1>1 DEF OwnWork, Nodes, Requests
  <1>3. Closed(heap, OwnWork)
    <2>1. Closed(ListInit(Nodes), OwnWork)
      BY <1>2 DEF ListInit, Closed
    <2>2. heap = ListAdd(ListInit(Nodes), Head0, opts.verb)
      BY DEF Init, ClientInit, FirstWork, Verb, Reading
    <2> QED BY <1>2, <2>1, <2>2, ClosedKept, ListInitType
  <1> QED
    BY <1>2, <1>3, HasFew DEF Init, WireInit, ClientInit, ServerInit, ReadInv

LEMMA ReadClient ==
  ASSUME TypeOK, ReadInv, ClientNext, UNCHANGED server
  PROVE  ReadInv'
  <1> SUFFICES ASSUME Reading' PROVE ReadInv'
    BY DEF ReadInv
  <1>1. Reading /\ OwnWork' = OwnWork
    BY ClientFrame DEF Framed, Reading, OwnWork, TypeOK, ClientOK
  <1>2. selected' = selected /\ fault' = fault
    BY DEF server
  <1> QED BY <1>1, <1>2, ClientReads DEF ReadInv

LEMMA ReadServer ==
  ASSUME TypeOK, NullInv, ReadInv, ServerNext, UNCHANGED client
  PROVE  ReadInv'
  <1> SUFFICES ASSUME Reading' PROVE ReadInv'
    BY DEF ReadInv
  <1>1. Reading /\ OwnWork' = OwnWork /\ UNCHANGED <<heap, work, next, inbox>>
    BY DEF client, list, Reading, OwnWork
  <1> QED BY <1>1, ServerReads DEF ReadInv

(* The server uses selected_device while it is NULL only for a board that  *)
(* was refused, for a verb that needs none, or when the user typed ahead.  *)
THEOREM NullWhenUnselected == Spec => []NullOnlyUnselected
  <1> DEFINE Inv == Ended /\ NullInv /\ ReadInv
  <1>1. Init => Inv
    <2> SUFFICES ASSUME Init PROVE Inv
      OBVIOUS
    <2>1. opts \in Options
      BY ClientAssumption DEF Init, ClientInit
    <2>2. Virgin
      BY DEF Init, WireInit, ClientInit, Virgin
    <2>3. ReadInv
      BY ReadInit
    <2> QED
      BY <2>1, <2>2, <2>3
      DEF Init, WireInit, ClientInit, ServerInit, Ended, NullInv, AskedFirst
  <1>2. TypeOK /\ Inv /\ [Next]_vars => Inv'
    <2> SUFFICES ASSUME TypeOK, Inv, [Next]_vars PROVE Inv'
      OBVIOUS
    <2>1. CASE ClientNext /\ UNCHANGED server
      <3>1. ReadInv'
        BY <2>1, ReadClient
      <3> QED BY <2>1, <3>1, ClientNull, EndedStep
    <2>2. CASE ServerNext /\ UNCHANGED client
      <3>1. Ended'
        BY <2>2, ServerFrame DEF Ended, client
      <3>2. ReadInv'
        BY <2>2, ReadServer
      <3> QED BY <2>2, <3>1, <3>2, ServerNull
    <2>3. CASE UNCHANGED vars
      <3>1. ReadInv'
        BY <2>3 DEF vars, client, server, wire, list, ReadInv, Reading, OwnWork
      <3> QED
        BY <2>3, <3>1
        DEF vars, client, server, wire, Ended, NullInv, Quiet, Virgin, AskedFirst
    <2> QED BY <2>1, <2>2, <2>3 DEF Next
  <1>3. TypeOK /\ Inv => NullOnlyUnselected
    <2> SUFFICES ASSUME TypeOK, Inv, fault, opts.board, ~(keys > 0),
                        opts.verb = "boot" \/ ~opts.status
                 PROVE  FALSE
      BY DEF NullOnlyUnselected
    <2>1. keys = 0
      BY DEF TypeOK, ClientOK
    <2> QED BY <2>1 DEF NullInv, Quiet, ReadInv, Reading
  <1> QED BY <1>1, <1>2, <1>3, SessionTypes, PTL DEF Spec
-----------------------------------------------------------------------------
(***************************************************************************)
(* list.h: what adding to and deleting from a list does to what it holds.  *)
(***************************************************************************)

(* a comes before b on the list: some nodes that reach the head by prev    *)
(* alone have a among them and not b.                                      *)
Precedes(h, nodes, a, b) ==
  \E part \in SUBSET nodes :
    a \in part /\ b \notin part /\ \A n \in part : h.prev[n] \in part \cup {Head0}

(* list_add of a node that is not on the list appends it. *)
LEMMA AddHolds ==
  ASSUME NEW h \in Heaps, NEW Q \in SUBSET Nodes, Holds(h, Head0, Q),
         NEW x \in Nodes, x \notin Q, x # Head0
  PROVE  Holds(ListAdd(h, Head0, x), Head0, Q \cup {x})
  <1> DEFINE g == ListAdd(h, Head0, x)
             last == h.prev[Head0]
             ring == Q \cup {Head0}
  <1>0. Head0 \in Nodes /\ Head0 \notin Q
    BY DEF Nodes, Holds
  <1>1. \A n \in ring : /\ h.next[n] \in ring /\ h.prev[h.next[n]] = n
                        /\ h.prev[n] \in ring /\ h.next[h.prev[n]] = n
    BY DEF Holds
  <1>2. /\ last \in ring /\ last # x /\ h.next[last] = Head0 /\ x \notin ring
    BY <1>1
  <1>3. \A n \in Nodes : /\ g.next[n] = IF n = last THEN x
                                        ELSE IF n = x THEN Head0 ELSE h.next[n]
                         /\ g.prev[n] = IF n = Head0 THEN x
                                        ELSE IF n = x THEN last ELSE h.prev[n]
    BY <1>0 DEF ListAdd, Heaps
  <1>4. ring \cup {x} \subseteq Nodes
    BY <1>0
  <1> HIDE DEF g, last
  <1>5. ASSUME NEW n \in ring \cup {x}
        PROVE  /\ g.next[n] \in ring \cup {x} /\ g.prev[g.next[n]] = n
               /\ g.prev[n] \in ring \cup {x} /\ g.next[g.prev[n]] = n
    <2>1. CASE n = x
      BY <1>0, <1>2, <1>3, <1>4, <2>1
    <2>2. CASE n \in ring
      <3>1. n # x /\ h.next[n] # x /\ h.prev[n] # x
        BY <1>1, <1>2, <2>2
      <3>2. /\ h.next[n] = Head0 => n = last
            /\ h.prev[n] = last => n = Head0
        BY <1>1, <1>2, <2>2 DEF last
      <3>3. g.next[n] \in ring \cup {x} /\ g.prev[g.next[n]] = n
        BY <1>0, <1>1, <1>2, <1>3, <1>4, <2>2, <3>1, <3>2
      <3>4. g.prev[n] \in ring \cup {x} /\ g.next[g.prev[n]] = n
        BY <1>0, <1>1, <1>2, <1>3, <1>4, <2>2, <3>1, <3>2
      <3> QED BY <3>3, <3>4
    <2> QED BY <2>1, <2>2
  <1>6. ASSUME NEW part \in SUBSET (Q \cup {x}),
               \A n \in part \cup {Head0} : g.next[n] \in part \cup {Head0}
        PROVE  part = Q \cup {x}
    <2> DEFINE old == part \ {x}
    <2>1. ASSUME NEW n \in old \cup {Head0}
          PROVE  h.next[n] \in old \cup {Head0}
      <3>1. n \in ring /\ n # x /\ g.next[n] \in part \cup {Head0}
        BY <1>6, <2>1, <1>2
      <3>2. h.next[n] # x
        BY <1>1, <1>2, <3>1
      <3> QED BY <1>2, <1>3, <1>4, <3>1, <3>2
    <2>2. old \in SUBSET Q
      BY <1>6
    <2>3. old = Q
      BY <2>1, <2>2 DEF Holds
    <2>4. g.next[last] = x
      BY <1>2, <1>3, <1>4
    <2>5. last \in part \cup {Head0}
      BY <1>2, <2>3
    <2>6. x \in part
      BY <1>6, <2>4, <2>5, <1>2
    <2> QED BY <2>3, <2>6
  <1>7. Head0 \notin Q \cup {x}
    BY <1>0
  <1> QED BY <1>5, <1>6, <1>7 DEF Holds, g

(* ... and leaves what comes before what as it was. *)
LEMMA AddPrecedes ==
  ASSUME NEW h \in Heaps, NEW Q \in SUBSET Nodes, Holds(h, Head0, Q),
         NEW x \in Nodes, x \notin Q, x # Head0, NEW a \in Q
  PROVE  /\ Precedes(ListAdd(h, Head0, x), Q \cup {x}, a, x)
         /\ \A b \in Q : Precedes(h, Q, a, b)
                           => Precedes(ListAdd(h, Head0, x), Q \cup {x}, a, b)
  <1> DEFINE g == ListAdd(h, Head0, x)
  <1>1. \A n \in Q : g.prev[n] = h.prev[n] /\ h.prev[n] \in Q \cup {Head0}
    <2>1. Head0 \in Nodes /\ Head0 \notin Q
      BY DEF Nodes, Holds
    <2>2. \A n \in Q : g.prev[n] = h.prev[n]
      BY <2>1 DEF ListAdd, Heaps
    <2> QED BY <2>2 DEF Holds
  <1> HIDE DEF g
  <1>2. Precedes(g, Q \cup {x}, a, x)
    BY <1>1 DEF Precedes
  <1>3. ASSUME NEW b \in Q, Precedes(h, Q, a, b)
        PROVE  Precedes(g, Q \cup {x}, a, b)
    BY <1>1, <1>3 DEF Precedes
  <1> QED BY <1>2, <1>3 DEF g

(* The pointers after list_del of a node that is on the list. *)
LEMMA DelPointers ==
  ASSUME NEW h \in Heaps, NEW Q \in SUBSET Nodes, Holds(h, Head0, Q), NEW x \in Q
  PROVE  /\ h.prev[x] \in (Q \cup {Head0}) \ {x}
         /\ h.next[x] \in (Q \cup {Head0}) \ {x}
         /\ \A n \in Nodes :
              /\ ListDel(h, x).next[n] = IF n = h.prev[x] THEN h.next[x] ELSE h.next[n]
              /\ ListDel(h, x).prev[n] = IF n = h.next[x] THEN h.prev[x] ELSE h.prev[n]
  <1> DEFINE ring == Q \cup {Head0}
  <1>1. \A n \in ring : /\ h.next[n] \in ring /\ h.prev[h.next[n]] = n
                        /\ h.prev[n] \in ring /\ h.next[h.prev[n]] = n
    BY DEF Holds
  <1>2. h.prev[x] # x
    <2> SUFFICES ASSUME h.prev[x] = x PROVE FALSE
      OBVIOUS
    <2> DEFINE rest == Q \ {x}
    <2>1. Head0 # x
      BY DEF Holds
    <2>2. \A n \in rest \cup {Head0} : h.next[n] \in rest \cup {Head0}
      BY <1>1, <2>1
    <2>3. rest \in SUBSET Q
      OBVIOUS
    <2>4. rest = Q
      BY <2>2, <2>3 DEF Holds
    <2> QED BY <2>4
  <1>3. h.next[x] # x
    BY <1>1, <1>2
  <1>4. \A n \in Nodes :
          /\ ListDel(h, x).next[n] = IF n = h.prev[x] THEN h.next[x] ELSE h.next[n]
          /\ ListDel(h, x).prev[n] = IF n = h.next[x] THEN h.prev[x] ELSE h.prev[n]
    BY <1>2 DEF ListDel, Heaps
  <1> QED BY <1>1, <1>2, <1>3, <1>4

(* list_del of a node that is on the list leaves the others on it. *)
LEMMA DelHolds ==
  ASSUME NEW h \in Heaps, NEW Q \in SUBSET Nodes, Holds(h, Head0, Q), NEW x \in Q
  PROVE  Holds(ListDel(h, x), Head0, Q \ {x})
  <1> DEFINE g == ListDel(h, x)
             p == h.prev[x]
             m == h.next[x]
             ring == Q \cup {Head0}
             rest == (Q \ {x}) \cup {Head0}
  <1>0. Head0 \in Nodes /\ Head0 \notin Q /\ Head0 # x /\ ring \subseteq Nodes
    BY DEF Nodes, Holds
  <1>1. \A n \in ring : /\ h.next[n] \in ring /\ h.prev[h.next[n]] = n
                        /\ h.prev[n] \in ring /\ h.next[h.prev[n]] = n
    BY DEF Holds
  <1>2. /\ p \in rest /\ m \in rest /\ h.next[p] = x /\ h.prev[m] = x
    BY <1>0, <1>1, DelPointers
  <1>3. \A n \in Nodes : /\ g.next[n] = IF n = p THEN m ELSE h.next[n]
                         /\ g.prev[n] = IF n = m THEN p ELSE h.prev[n]
    BY DelPointers
  <1> HIDE DEF g
  <1>4. ASSUME NEW n \in rest
        PROVE  /\ g.next[n] \in rest /\ g.prev[g.next[n]] = n
               /\ g.prev[n] \in rest /\ g.next[g.prev[n]] = n
    <2>1. n \in ring /\ n # x /\ n \in Nodes
      BY <1>0
    <2>2. /\ n # p => h.next[n] # x /\ h.next[n] # m
          /\ n # m => h.prev[n] # x /\ h.prev[n] # p
      BY <1>0, <1>1, <1>2, <2>1
    <2>3. g.next[n] \in rest /\ g.prev[g.next[n]] = n
      BY <1>0, <1>1, <1>2, <1>3, <2>1, <2>2
    <2>4. g.prev[n] \in rest /\ g.next[g.prev[n]] = n
      BY <1>0, <1>1, <1>2, <1>3, <2>1, <2>2
    <2> QED BY <2>3, <2>4
  <1>5. ASSUME NEW part \in SUBSET (Q \ {x}),
               \A n \in part \cup {Head0} : g.next[n] \in part \cup {Head0}
        PROVE  part = Q \ {x}
    <2> DEFINE more == IF p \in part \cup {Head0} THEN part \cup {x} ELSE part
    <2>1. ASSUME NEW n \in more \cup {Head0}
          PROVE  h.next[n] \in more \cup {Head0}
      <3>1. n \in Nodes /\ p \in Nodes /\ p # x
        BY <1>0, <1>2
      <3>2. CASE n = x
        <4>1. p \in part \cup {Head0}
          BY <1>0, <3>2
        <4>2. g.next[p] = m
          BY <1>3, <3>1
        <4> QED BY <1>5, <3>2, <4>1, <4>2
      <3>3. CASE n = p
        BY <1>2, <3>1, <3>3
      <3>4. CASE n # x /\ n # p
        <4>1. n \in part \cup {Head0} /\ g.next[n] = h.next[n]
          BY <1>3, <3>1, <3>4
        <4> QED BY <1>5, <4>1
      <3> QED BY <3>2, <3>3, <3>4
    <2>2. more \in SUBSET Q
      OBVIOUS
    <2>3. more = Q
      <3> HIDE DEF more
      <3> QED BY <2>1, <2>2 DEF Holds
    <2> QED BY <2>3
  <1>6. Head0 \notin Q \ {x}
    BY <1>0
  <1> QED BY <1>4, <1>5, <1>6 DEF Holds, g

(* ... in their order. *)
LEMMA DelPrecedes ==
  ASSUME NEW h \in Heaps, NEW Q \in SUBSET Nodes, Holds(h, Head0, Q), NEW x \in Q,
         NEW a, NEW b, a # x, Precedes(h, Q, a, b)
  PROVE  Precedes(ListDel(h, x), Q \ {x}, a, b)
  <1> DEFINE g == ListDel(h, x)
  <1>1. PICK part \in SUBSET Q :
          a \in part /\ b \notin part /\ \A n \in part : h.prev[n] \in part \cup {Head0}
    BY DEF Precedes
  <1>2. \A n \in Nodes : g.prev[n] = IF n = h.next[x] THEN h.prev[x] ELSE h.prev[n]
    BY DelPointers
  <1>3. h.prev[x] # x /\ h.prev[h.next[x]] = x
        /\ \A n \in Q : h.prev[n] = x => n = h.next[x]
    <2>1. x \in Q \cup {Head0}
      OBVIOUS
    <2> QED BY <2>1, DelPointers DEF Holds
  <1> HIDE DEF g
  <1>4. \A n \in part \ {x} : g.prev[n] \in (part \ {x}) \cup {Head0}
    <2> SUFFICES ASSUME NEW n \in part \ {x}
                 PROVE  g.prev[n] \in (part \ {x}) \cup {Head0}
      OBVIOUS
    <2>1. n \in Nodes /\ n \in Q /\ Head0 # x
      BY DEF Holds
    <2>2. CASE n = h.next[x]
      BY <1>1, <1>2, <1>3, <2>1, <2>2
    <2>3. CASE n # h.next[x]
      BY <1>1, <1>2, <1>3, <2>1, <2>3
    <2> QED BY <2>2, <2>3
  <1>5. Precedes(g, Q \ {x}, a, b)
    <2>1. (part \ {x}) \in SUBSET (Q \ {x}) /\ a \in part \ {x} /\ b \notin part \ {x}
      BY <1>1
    <2> QED BY <1>4, <2>1 DEF Precedes
  <1> QED BY <1>5 DEF g

(* Nothing comes before the first node. *)
LEMMA FirstIsFirst ==
  ASSUME NEW h \in Heaps, NEW Q \in SUBSET Nodes, Holds(h, Head0, Q),
         NEW a, Precedes(h, Q, a, h.next[Head0])
  PROVE  FALSE
  <1>1. PICK part \in SUBSET Q :
          /\ a \in part /\ h.next[Head0] \notin part
          /\ \A n \in part : h.prev[n] \in part \cup {Head0}
    BY DEF Precedes
  <1> DEFINE rest == Q \ part
  <1>2. \A n \in rest \cup {Head0} : h.next[n] \in rest \cup {Head0}
    BY <1>1 DEF Holds
  <1>3. rest \in SUBSET Q
    OBVIOUS
  <1>4. rest = Q
    BY <1>2, <1>3 DEF Holds
  <1> QED BY <1>1, <1>4

(* The first node taken off the list: the next one is first. *)
LEMMA DelFirst ==
  ASSUME NEW h \in Heaps, NEW Q \in SUBSET Nodes, Holds(h, Head0, Q),
         NEW x, x = h.next[Head0], x # Head0
  PROVE  /\ x \in Q
         /\ ListDel(h, x).next[Head0] = h.next[x]
         /\ Holds(ListDel(h, x), Head0, Q \ {x})
  <1>1. x \in Q /\ Head0 \in Nodes /\ h.prev[x] = Head0
    BY DEF Holds, Nodes
  <1>2. ListDel(h, x).next[Head0] = h.next[x]
    BY <1>1, DelPointers
  <1> QED BY <1>1, <1>2, DelHolds

(* ... freed *)
LEMMA FreeFirst ==
  ASSUME NEW h \in Heaps, NEW Q \in SUBSET Nodes, Holds(h, Head0, Q),
         NEW x, x = h.next[Head0], x # Head0
  PROVE  /\ ListFree(h, x).next[Head0] = h.next[x]
         /\ Holds(ListFree(h, x), Head0, Q \ {x})
         /\ \A a, b : a # x /\ Precedes(h, Q, a, b)
                        => Precedes(ListFree(h, x), Q \ {x}, a, b)
  <1> DEFINE d == ListDel(h, x)
             g == ListFree(h, x)
  <1>1. x \in Q /\ Head0 \in Nodes /\ x \in Nodes /\ d \in Heaps
    BY DelFirst, ListTypes DEF Nodes
  <1>2. \A n \in (Q \ {x}) \cup {Head0} : g.next[n] = d.next[n] /\ g.prev[n] = d.prev[n]
    <2> HIDE DEF d
    <2>1. g = [next |-> [d.next EXCEPT ![x] = x], prev |-> [d.prev EXCEPT ![x] = x]]
      BY DEF ListFree, d
    <2> QED BY <1>1, <2>1 DEF Heaps
  <1>3. g.next[Head0] = h.next[x] /\ Holds(d, Head0, Q \ {x})
    BY <1>2, DelFirst
  <1>4. Holds(g, Head0, Q \ {x})
    <2> DEFINE rest == (Q \ {x}) \cup {Head0}
    <2> HIDE DEF d, g
    <2>1. \A n \in rest : /\ d.next[n] \in rest /\ d.prev[d.next[n]] = n
                          /\ d.prev[n] \in rest /\ d.next[d.prev[n]] = n
      BY <1>3 DEF Holds
    <2>2. \A n \in rest : /\ g.next[n] \in rest /\ g.prev[g.next[n]] = n
                          /\ g.prev[n] \in rest /\ g.next[g.prev[n]] = n
      BY <1>2, <2>1
    <2>3. ASSUME NEW part \in SUBSET (Q \ {x}),
                 \A n \in part \cup {Head0} : g.next[n] \in part \cup {Head0}
          PROVE  part = Q \ {x}
      <3>1. \A n \in part \cup {Head0} : d.next[n] \in part \cup {Head0}
        BY <1>2, <2>3
      <3> QED BY <1>3, <3>1 DEF Holds
    <2> QED BY <1>3, <2>2, <2>3 DEF Holds
  <1>5. ASSUME NEW a, NEW b, a # x, Precedes(h, Q, a, b)
        PROVE  Precedes(g, Q \ {x}, a, b)
    <2>1. Precedes(d, Q \ {x}, a, b)
      BY <1>1, <1>5, DelPrecedes
    <2> HIDE DEF d, g
    <2>2. PICK part \in SUBSET (Q \ {x}) :
            a \in part /\ b \notin part /\ \A n \in part : d.prev[n] \in part \cup {Head0}
      BY <2>1 DEF Precedes
    <2>3. \A n \in part : g.prev[n] \in part \cup {Head0}
      BY <1>2, <2>2
    <2> QED BY <2>2, <2>3 DEF Precedes
  <1> QED BY <1>3, <1>4, <1>5

(* ... and put at the end. *)
LEMMA MoveFirst ==
  ASSUME NEW h \in Heaps, NEW Q \in SUBSET Nodes, Holds(h, Head0, Q),
         NEW x, x = h.next[Head0], x # Head0
  PROVE  LET g == ListAdd(ListDel(h, x), Head0, x)
         IN /\ Holds(g, Head0, Q)
            /\ h.next[x] \in {g.next[Head0], Head0}
            /\ \A a, b \in Q \ {x} : Precedes(h, Q, a, b) => Precedes(g, Q, a, b)
  <1> DEFINE d == ListDel(h, x)
             g == ListAdd(d, Head0, x)
  <1>1. /\ x \in Q /\ Head0 \in Nodes /\ x \in Nodes /\ d \in Heaps
        /\ Holds(d, Head0, Q \ {x}) /\ d.next[Head0] = h.next[x]
        /\ (Q \ {x}) \in SUBSET Nodes /\ (Q \ {x}) \cup {x} = Q
    BY DelFirst, ListTypes DEF Nodes
  <1>2. \A a, b \in Q \ {x} : Precedes(h, Q, a, b) => Precedes(d, Q \ {x}, a, b)
    BY <1>1, DelPrecedes
  <1> HIDE DEF d
  <1>3. Holds(g, Head0, (Q \ {x}) \cup {x})
    BY <1>1, AddHolds
  <1>4. \A a, b \in Q \ {x} : Precedes(d, Q \ {x}, a, b)
                                => Precedes(g, (Q \ {x}) \cup {x}, a, b)
    BY <1>1, AddPrecedes
  <1>5. h.next[x] # Head0 => g.next[Head0] = h.next[x]
    <2>1. d.prev[Head0] = Head0 => d.next[Head0] = Head0
      BY <1>1 DEF Holds
    <2>2. d.prev[Head0] # Head0 => g.next[Head0] = d.next[Head0]
      BY <1>1 DEF ListAdd, Heaps
    <2> QED BY <1>1, <2>1, <2>2
  <1> QED BY <1>1, <1>2, <1>3, <1>4, <1>5 DEF d

-----------------------------------------------------------------------------
(***************************************************************************)
(* The work list.                                                          *)
(***************************************************************************)

(* The messages whose replies request a power-on. *)
Asks == {"select", "power_off"}

(* None, or at most one, of the messages is such a one. *)
Free(s) == \A i \in 1 .. Len(s) : s[i][1] \notin Asks
Few(s) == \A i, j \in 1 .. Len(s) : s[i][1] \in Asks /\ s[j][1] \in Asks => i = j

LEMMA AsksAppend ==
  ASSUME NEW s \in Seq(Message), NEW m
  PROVE  /\ Free(s) => Few(Append(s, m))
         /\ Free(s) /\ m[1] \notin Asks => Free(Append(s, m))
         /\ Few(s) /\ m[1] \notin Asks => Few(Append(s, m))
  <1>1. /\ Len(Append(s, m)) = Len(s) + 1 /\ Len(s) \in Nat
        /\ \A i \in 1 .. Len(s) : Append(s, m)[i] = s[i]
        /\ Append(s, m)[Len(s) + 1] = m
    OBVIOUS
  <1> QED BY <1>1 DEF Free, Few

LEMMA AsksTail ==
  ASSUME NEW s \in Seq(Message), s # <<>>
  PROVE  /\ Free(s) => Free(Tail(s))
         /\ Few(s) => Few(Tail(s))
         /\ Few(s) /\ s[1][1] \in Asks => Free(Tail(s))
         /\ s[1][1] \in Asks => ~Free(s)
  <1>1. /\ Len(s) \in Nat \ {0} /\ Len(Tail(s)) = Len(s) - 1
        /\ \A i \in 1 .. (Len(s) - 1) : Tail(s)[i] = s[i + 1]
    OBVIOUS
  <1> QED BY <1>1 DEF Free, Few

LEMMA AsksSplit ==
  ASSUME NEW s \in Seq(Message), NEW k \in 0 .. Len(s)
  PROVE  /\ Free(s) => Free(SubSeq(s, 1, k)) /\ Free(SubSeq(s, k + 1, Len(s)))
         /\ Few(s) => Few(SubSeq(s, 1, k)) /\ Few(SubSeq(s, k + 1, Len(s)))
         /\ Few(s) => Free(SubSeq(s, 1, k)) \/ Free(SubSeq(s, k + 1, Len(s)))
  <1> DEFINE a == SubSeq(s, 1, k)
             b == SubSeq(s, k + 1, Len(s))
  <1>1. /\ Len(s) \in Nat /\ k \in Nat /\ Len(a) = k /\ Len(b) = Len(s) - k
        /\ \A i \in 1 .. k : a[i] = s[i]
        /\ \A i \in 1 .. (Len(s) - k) : b[i] = s[i + k]
    OBVIOUS
  <1> HIDE DEF a, b
  <1>2. Free(s) => Free(a) /\ Free(b)
    BY <1>1 DEF Free
  <1>3. Few(s) => Few(a) /\ Few(b)
    <2> SUFFICES ASSUME Few(s) PROVE Few(a) /\ Few(b)
      OBVIOUS
    <2>1. \A i \in 1 .. (Len(s) - k) : i + k \in 1 .. Len(s)
      BY <1>1
    <2>2. Few(a)
      BY <1>1 DEF Few
    <2>3. ASSUME NEW i \in 1 .. Len(b), NEW j \in 1 .. Len(b),
                 b[i][1] \in Asks, b[j][1] \in Asks
          PROVE  i = j
      <3>1. i + k = j + k
        BY <1>1, <2>1, <2>3 DEF Few
      <3> QED BY <1>1, <3>1
    <2> QED BY <2>2, <2>3 DEF Few
  <1>4. ASSUME Few(s), ~Free(a), ~Free(b) PROVE FALSE
    <2>1. PICK i \in 1 .. k : s[i][1] \in Asks
      BY <1>1, <1>4 DEF Free
    <2>2. PICK j \in 1 .. (Len(s) - k) : s[j + k][1] \in Asks
      BY <1>1, <1>4 DEF Free
    <2>3. i \in 1 .. Len(s) /\ j + k \in 1 .. Len(s) /\ i # j + k
      BY <1>1
    <2> QED BY <1>4, <2>1, <2>2, <2>3 DEF Few
  <1> QED BY <1>2, <1>3, <1>4 DEF a, b

LEMMA AsksConcat ==
  ASSUME NEW s \in Seq(Message), NEW t \in Seq(Message)
  PROVE  /\ Free(s) /\ Free(t) => Free(s \o t)
         /\ Free(s) /\ Few(t) => Few(s \o t)
         /\ Few(s) /\ Free(t) => Few(s \o t)
  <1>1. /\ Len(s \o t) = Len(s) + Len(t) /\ Len(s) \in Nat /\ Len(t) \in Nat
        /\ \A i \in 1 .. Len(s) : (s \o t)[i] = s[i]
        /\ \A i \in (Len(s) + 1) .. (Len(s) + Len(t)) : (s \o t)[i] = t[i - Len(s)]
    OBVIOUS
  <1> DEFINE u == s \o t
  <1>2. ASSUME NEW i \in 1 .. Len(u)
        PROVE  \/ i \in 1 .. Len(s) /\ u[i] = s[i]
               \/ i - Len(s) \in 1 .. Len(t) /\ u[i] = t[i - Len(s)]
    BY <1>1
  <1>3. Len(u) \in Nat /\ Len(s) \in Nat
    BY <1>1
  <1> HIDE DEF u
  <1>4. Free(s) /\ Free(t) => Free(u)
    BY <1>2 DEF Free
  <1>5. ASSUME \/ Free(s) /\ Few(t)
               \/ Few(s) /\ Free(t)
        PROVE  Few(u)
    <2> SUFFICES ASSUME NEW i \in 1 .. Len(u), NEW j \in 1 .. Len(u),
                        u[i][1] \in Asks, u[j][1] \in Asks
                 PROVE  i = j
      BY DEF Few
    <2>1. CASE Free(s) /\ Few(t)
      <3>1. i - Len(s) \in 1 .. Len(t) /\ u[i] = t[i - Len(s)]
        BY <1>2, <2>1 DEF Free
      <3>2. j - Len(s) \in 1 .. Len(t) /\ u[j] = t[j - Len(s)]
        BY <1>2, <2>1 DEF Free
      <3>3. i - Len(s) = j - Len(s)
        BY <2>1, <3>1, <3>2 DEF Few
      <3> QED BY <1>3, <3>3
    <2>2. CASE Few(s) /\ Free(t)
      <3>1. i \in 1 .. Len(s) /\ u[i] = s[i]
        BY <1>2, <2>2 DEF Free
      <3>2. j \in 1 .. Len(s) /\ u[j] = s[j]
        BY <1>2, <2>2 DEF Free
      <3> QED BY <2>2, <3>1, <3>2 DEF Few
    <2> QED BY <1>5, <2>1, <2>2
  <1> QED BY <1>4, <1>5 DEF u

Sites == {"none", "select", "off", "c2s", "s2c", "inbox"}

(* Where the one reply, or the request for it, is that will request a      *)
(* power-on, if there is one.                                              *)
Asked(w) == /\ owed \in {0, 1}
            /\ w # "none" => owed = 1
            /\ "select" \in queued => w = "select"
            /\ "off" \in queued => w = "off"
            /\ "on" \in queued => w \in {"none", "off"}
            /\ Few(c2s) /\ Few(s2c) /\ Few(inbox)
            /\ w # "c2s" => Free(c2s)
            /\ w # "s2c" => Free(s2c)
            /\ w # "inbox" => Free(inbox)

OneAsked == \E w \in Sites : Asked(w)

(* The drain loop is at the front of the list, or through with it. *)
FromFront == cpc = "drain" => /\ work \in {heap.next[Head0], Head0}
                              /\ next = heap.next[work]

(* The downloads on the list are those allocated. *)
Allocated == \A d \in Downloads : offset[d] # -1 <=> d \in queued

ContinuedOnce == flag.cont => "continue" \notin queued

OnBeforeOff == {"on", "off"} \subseteq queued => Precedes(heap, queued, "on", "off")

Orderly == FromFront /\ Allocated /\ ContinuedOnce /\ OnBeforeOff /\ OneAsked

WorkInv == ~crowded => /\ Holds(heap, Head0, queued)
                       /\ ~clientGone => Orderly

(* A step that leaves the list alone. *)
LEMMA ListKept ==
  ASSUME TypeOK, Holds(heap, Head0, queued), Orderly,
         UNCHANGED <<heap, queued, offset>>, flag'.cont = flag.cont,
         cpc' = "drain" => cpc = "drain" /\ UNCHANGED <<work, next>>,
         OneAsked'
  PROVE  Holds(heap, Head0, queued)' /\ Orderly'
  <1>1. Holds(heap, Head0, queued)'
    OBVIOUS
  <1>2. FromFront' /\ Allocated' /\ ContinuedOnce' /\ OnBeforeOff'
    BY DEF Orderly, FromFront, Allocated, ContinuedOnce, OnBeforeOff
  <1> QED BY <1>1, <1>2 DEF Orderly

(* A step that leaves the messages that ask alone. *)
LEMMA AsksKept ==
  ASSUME OneAsked, UNCHANGED <<c2s, s2c, inbox, owed>>,
         {"select", "off", "on"} \cap queued' = {"select", "off", "on"} \cap queued
  PROVE  OneAsked'
  <1>1. PICK w \in Sites : Asked(w)
    BY DEF OneAsked
  <1>2. Asked(w)'
    BY <1>1 DEF Asked
  <1> QED BY <1>2 DEF OneAsked

(* list_add(&work_items, ...) of work that is not on the list. *)
LEMMA Requested ==
  ASSUME TypeOK, Holds(heap, Head0, queued), Orderly,
         NEW x \in Nodes, x \notin queued, x # Head0, Request(x),
         x = "on" => "off" \notin queued
  PROVE  Holds(heap, Head0, queued)' /\ OnBeforeOff'
  <1>1. heap \in Heaps /\ queued \in SUBSET Nodes
    BY DEF TypeOK, ClientOK, Heaps
  <1>2. heap' = ListAdd(heap, Head0, x) /\ queued' = queued \cup {x}
    BY DEF Request
  <1>3. Holds(heap', Head0, queued')
    BY <1>1, <1>2, AddHolds
  <1>4. OnBeforeOff'
    <2> SUFFICES ASSUME {"on", "off"} \subseteq queued'
                 PROVE  Precedes(heap', queued', "on", "off")
      BY DEF OnBeforeOff
    <2>1. CASE x = "off"
      <3>1. "on" \in queued
        BY <1>2, <2>1
      <3> QED BY <1>1, <1>2, <2>1, <3>1, AddPrecedes
    <2>2. CASE x # "off"
      <3>1. "on" \in queued /\ "off" \in queued /\ Precedes(heap, queued, "on", "off")
        BY <1>2, <2>2 DEF Orderly, OnBeforeOff
      <3> QED BY <1>1, <1>2, <3>1, AddPrecedes
    <2> QED BY <2>1, <2>2
  <1> QED BY <1>3, <1>4

LEMMA MsgOfAsks ==
  ASSUME NEW node \in Requests, node # "select", node # "off"
  PROVE  MsgOf(node)[1] \notin Asks
  BY DEF MsgOf, Msg, Requests, Asks

(* The client's steps keep the work list in order. *)
LEMMA ClientWork ==
  ASSUME TypeOK, Ended, Holds(heap, Head0, queued), ~clientGone, Orderly,
         ~crowded', ClientNext
  PROVE  Holds(heap, Head0, queued)' /\ (~clientGone' => Orderly')
  <1> USE DEF client, wire, list, state, hist
  <1>0. /\ Requests \subseteq Nodes /\ Downloads \subseteq Nodes
        /\ Head0 \in Nodes /\ Head0 \notin Requests /\ Head0 \notin Downloads
        /\ \A d \in Downloads : d \notin Requests
        /\ {"select", "off", "on", "continue"} \subseteq Requests
        /\ heap \in Heaps /\ queued \in SUBSET Nodes
        /\ c2s \in Seq(Message) /\ s2c \in Seq(Message) /\ inbox \in Seq(Message)
    BY ClientAssumption DEF Nodes, TypeOK, ClientOK, WireOK, Heaps, Requests, Head0
  <1>a. PICK w \in Sites : Asked(w)
    BY DEF Orderly, OneAsked
  <1>1. CASE Elapse \/ SelectTimeout \/ StdoutDone
    <2>1. /\ UNCHANGED <<heap, queued, offset, c2s, s2c, inbox, owed, work, next>>
          /\ flag'.cont = flag.cont
          /\ cpc' = "drain" => cpc = "drain"
      BY <1>1 DEF Elapse, SelectTimeout, StdoutDone, TypeOK, ClientOK, Flags
    <2>2. OneAsked'
      BY <2>1, AsksKept DEF Orderly
    <2> QED BY <2>1, <2>2, ListKept
  <1>2. CASE LoopEnds \/ SelectEOF
    BY <1>2 DEF LoopEnds, SelectEOF
  <1>3. CASE PowerCycle
    <2>1. owed = 0 /\ owed' = 1
      <3>1. crowded' = (crowded \/ owed > 0) /\ owed' = owed + 1
        BY <1>3 DEF PowerCycle, OweReply
      <3>2. ~(owed > 0)
        BY <3>1, Zenon
      <3> QED BY <1>a, <3>1, <3>2 DEF Asked
    <2>2. /\ {"select", "off"} \cap queued = {} /\ Free(c2s)
          /\ Free(s2c) /\ Free(inbox)
      BY <1>a, <2>1 DEF Asked
    <2>3. Request("off") /\ queued' = queued \cup {"off"}
      BY <1>3 DEF PowerCycle, Request
    <2>4. Holds(heap, Head0, queued)' /\ OnBeforeOff'
      BY <1>0, <2>2, <2>3, Requested
    <2>5. /\ UNCHANGED <<offset, c2s, s2c, inbox>> /\ flag'.cont = flag.cont
          /\ cpc' # "drain"
      BY <1>3 DEF PowerCycle, Arm, Die, TypeOK, ClientOK, Flags
    <2>6. Asked("off")'
      BY <1>a, <2>1, <2>2, <2>3, <2>5 DEF Asked
    <2>7. FromFront' /\ ContinuedOnce' /\ OneAsked'
      BY <2>3, <2>5, <2>6 DEF Orderly, FromFront, ContinuedOnce, OneAsked, Sites
    <2>8. Allocated'
      BY <1>0, <2>3, <2>5 DEF Orderly, Allocated
    <2> QED BY <2>4, <2>7, <2>8 DEF Orderly
  <1>4. CASE NoCycle
    <2>1. /\ UNCHANGED <<heap, queued, offset, c2s, s2c, inbox, owed, work, next>>
          /\ flag'.cont = flag.cont
          /\ cpc' # "drain"
      BY <1>4 DEF NoCycle, Arm, Die
    <2>2. OneAsked'
      BY <2>1, AsksKept DEF Orderly
    <2> QED BY <2>1, <2>2, ListKept
  <1>5. ASSUME NEW k \in 0 .. Len(s2c), Selects(k)
        PROVE  Holds(heap, Head0, queued)' /\ (~clientGone' => Orderly')
    <2>1. /\ inbox' = SubSeq(s2c, 1, k) /\ s2c' = SubSeq(s2c, k + 1, Len(s2c))
          /\ UNCHANGED <<heap, queued, offset, c2s, owed, work, next, flag>>
          /\ cpc' # "drain"
      BY <1>5 DEF Selects, SelectReady, AfterStdout
    <2>2. OneAsked'
      <3>1. /\ Free(s2c) => Free(inbox') /\ Free(s2c')
            /\ Few(inbox') /\ Few(s2c')
            /\ Free(inbox') \/ Free(s2c')
        BY <1>0, <1>a, <2>1, AsksSplit DEF Asked
      <3>2. CASE w = "s2c" /\ ~Free(inbox')
        <4>1. Asked("inbox")'
          BY <1>a, <2>1, <3>1, <3>2 DEF Asked
        <4> QED BY <4>1 DEF OneAsked, Sites
      <3>3. CASE ~(w = "s2c" /\ ~Free(inbox'))
        <4>1. Asked(w)'
          BY <1>a, <2>1, <3>1, <3>3 DEF Asked
        <4> QED BY <4>1 DEF OneAsked
      <3> QED BY <3>2, <3>3
    <2> QED BY <2>1, <2>2, ListKept
  <1>6. ASSUME NEW key \in Keys, TtyCallback(key)
        PROVE  Holds(heap, Head0, queued)' /\ (~clientGone' => Orderly')
    <2>1. /\ UNCHANGED <<heap, queued, offset, s2c, inbox, work, next>>
          /\ flag'.cont = flag.cont
          /\ cpc' # "drain"
      BY <1>6 DEF TtyCallback, Die, TypeOK, ClientOK, Flags
    <2>2. CASE clientGone'
      BY <2>1, <2>2
    <2>3. CASE ~clientGone'
      <3>1. CASE key = "power_off" /\ Room
        <4>1. /\ c2s' = Append(c2s, Msg(key)) /\ owed' = owed + 1
              /\ crowded' = (crowded \/ owed > 0 \/ "on" \in queued)
          BY <1>6, <2>3, <3>1 DEF TtyCallback, Die
        <4>2. owed = 0 /\ "on" \notin queued
          <5>1. ~(owed > 0) /\ "on" \notin queued
            BY <4>1, Zenon
          <5> QED BY <1>a, <5>1 DEF Asked
        <4>3. Few(c2s')
          BY <1>0, <1>a, <4>1, <4>2, AsksAppend DEF Asked
        <4>4. Asked("c2s")'
          BY <1>a, <2>1, <4>1, <4>2, <4>3 DEF Asked
        <4>5. OneAsked'
          BY <4>4 DEF OneAsked, Sites
        <4> QED BY <2>1, <4>5, ListKept
      <3>2. CASE ~(key = "power_off" /\ Room)
        <4>1. /\ owed' = owed
              /\ c2s' = c2s \/ (c2s' = Append(c2s, Msg(key)) /\ key # "power_off")
          BY <1>6, <2>3, <3>2 DEF TtyCallback, Die
        <4>2. key # "power_off" => Msg(key)[1] \notin Asks
          BY DEF Msg, Keys, Asks
        <4>3. Few(c2s') /\ (Free(c2s) => Free(c2s'))
          BY <1>0, <1>a, <4>1, <4>2, AsksAppend DEF Asked
        <4>4. Asked(w)'
          BY <1>a, <2>1, <4>1, <4>3 DEF Asked
        <4>5. OneAsked'
          BY <4>4 DEF OneAsked
        <4> QED BY <2>1, <4>5, ListKept
      <3> QED BY <3>1, <3>2
    <2> QED BY <2>2, <2>3
  <1>7. CASE HandleSelect \/ (HandlePowerOff /\ flag.auto)
    <2>1. /\ inbox # <<>> /\ inbox' = Tail(inbox) /\ inbox[1][1] \in Asks
          /\ cpc = "stdout"
      BY <1>7 DEF HandleSelect, HandlePowerOff, Handles, Asks
    <2>2. /\ Request("on") /\ queued' = queued \cup {"on"} /\ owed' = owed - 1
          /\ UNCHANGED <<cpc, offset, c2s, s2c, flag>>
      BY <1>7 DEF HandleSelect, HandlePowerOff, Replied, Request
    <2>3. w = "inbox" /\ Free(inbox')
      BY <1>0, <1>a, <2>1, AsksTail DEF Asked
    <2>4. {"select", "off", "on"} \cap queued = {} /\ owed = 1
      BY <1>a, <2>3 DEF Asked
    <2>5. Holds(heap, Head0, queued)' /\ OnBeforeOff'
      BY <1>0, <2>2, <2>4, Requested
    <2>6. Few(inbox')
      BY <2>3 DEF Few, Free
    <2>7. Asked("none")'
      BY <1>a, <2>2, <2>3, <2>4, <2>6 DEF Asked
    <2>8. FromFront' /\ ContinuedOnce' /\ OneAsked'
      BY <2>1, <2>2, <2>7 DEF Orderly, FromFront, ContinuedOnce, OneAsked, Sites
    <2>9. Allocated'
      BY <1>0, <2>2 DEF Orderly, Allocated
    <2> QED BY <2>5, <2>8, <2>9 DEF Orderly
  <1>8. CASE HandlePowerOff /\ ~flag.auto
    <2>1. /\ inbox # <<>> /\ inbox' = Tail(inbox) /\ inbox[1][1] \in Asks
          /\ cpc = "stdout"
      BY <1>8 DEF HandlePowerOff, Handles, Asks
    <2>2. UNCHANGED <<heap, queued, cpc, offset, c2s, s2c, flag>> /\ owed' = owed - 1
      BY <1>8 DEF HandlePowerOff, Replied
    <2>3. w = "inbox" /\ Free(inbox')
      BY <1>0, <1>a, <2>1, AsksTail DEF Asked
    <2>4. Few(inbox')
      BY <2>3 DEF Few, Free
    <2>5. Asked("none")'
      BY <1>a, <2>2, <2>3, <2>4 DEF Asked
    <2>6. OneAsked'
      BY <2>5 DEF OneAsked, Sites
    <2> QED BY <2>1, <2>2, <2>6, ListKept
  <1>9. ASSUME NEW type, type \notin Asks, Handles(type)
        PROVE  \A v : Asked(v) /\ UNCHANGED <<c2s, s2c, owed>>
                       /\ {"select", "off", "on"} \cap queued'
                            = {"select", "off", "on"} \cap queued
                       => Asked(v)'
    <2>1. inbox # <<>> /\ inbox' = Tail(inbox)
      BY <1>9 DEF Handles
    <2>2. (Free(inbox) => Free(inbox')) /\ (Few(inbox) => Few(inbox'))
      BY <1>0, <2>1, AsksTail
    <2> QED BY <2>2 DEF Asked
  <1>10. CASE HandleConsole \/ HandleDone \/ HandleList \/ HandleInfo \/ HandleOther
    <2>1. /\ UNCHANGED <<heap, queued, offset, c2s, s2c, owed>>
          /\ flag'.cont = flag.cont
          /\ cpc' = "drain" => cpc = "drain" /\ UNCHANGED <<work, next>>
      BY <1>10 DEF HandleConsole, HandleDone, HandleList, HandleInfo,
                   HandleOther, TypeOK, ClientOK, Flags
    <2>2. \E type : type \notin Asks /\ Handles(type)
      BY <1>10 DEF HandleConsole, HandleDone, HandleList, HandleInfo,
                   HandleOther, Asks
    <2>3. Asked(w)'
      BY <1>9, <1>a, <2>1, <2>2
    <2>4. OneAsked'
      BY <2>3 DEF OneAsked
    <2> QED BY <2>1, <2>4, ListKept
  <1>11. CASE HandlePresent
    <2>1. Handles("present") /\ "present" \notin Asks /\ cpc = "stdout"
          /\ UNCHANGED <<owed, work, next>>
      BY <1>11 DEF HandlePresent, Handles, Asks
    <2>2. CASE /\ UNCHANGED <<cpc, heap, offset, queued, wire>>
               /\ flag'.cont = flag.cont
      <3>1. Asked(w)'
        BY <1>9, <1>a, <2>1, <2>2
      <3>2. OneAsked'
        BY <3>1 DEF OneAsked
      <3> QED BY <2>1, <2>2, <3>2, ListKept
    <2>3. CASE /\ flag.cont
               /\ Request("continue") /\ flag' = [flag EXCEPT !.cont = FALSE]
               /\ UNCHANGED <<cpc, code, offset, overlapped, wire>>
      <3>1. "continue" \notin queued /\ queued' = queued \cup {"continue"}
        BY <2>3 DEF Orderly, ContinuedOnce, Request
      <3>2. Holds(heap, Head0, queued)' /\ OnBeforeOff'
        BY <1>0, <2>3, <3>1, Requested
      <3>3. Asked(w)'
        BY <1>9, <1>a, <2>1, <2>3, <3>1
      <3>4. ~flag'.cont
        BY <2>3 DEF TypeOK, ClientOK, Flags
      <3>5. FromFront' /\ ContinuedOnce' /\ OneAsked'
        BY <2>1, <2>3, <3>3, <3>4 DEF FromFront, ContinuedOnce, OneAsked
      <3>6. Allocated'
        BY <1>0, <2>3, <3>1 DEF Orderly, Allocated
      <3> QED BY <3>2, <3>5, <3>6 DEF Orderly
    <2>4. CASE RequestFile /\ UNCHANGED flag
      <3>1. CASE clientGone'
        <4>1. CASE opts.file
          BY <2>4, <3>1, <4>1 DEF RequestFile
        <4>2. CASE ~opts.file
          BY <2>4, <4>2, <3>1 DEF RequestFile
        <4> QED BY <4>1, <4>2
      <3>2. CASE ~clientGone'
        <4> DEFINE d == CHOOSE e \in Downloads : offset[e] = -1
        <4>1. /\ d \in Downloads /\ offset[d] = -1 /\ Request(d)
              /\ offset' = [offset EXCEPT ![d] = 0]
              /\ UNCHANGED <<cpc, code, wire>>
          BY <2>4, <3>2 DEF RequestFile, Die
        <4> HIDE DEF d
        <4>2. d \notin queued /\ queued' = queued \cup {d} /\ d \in Nodes
              /\ d # Head0 /\ d \notin Requests
          BY <1>0, <4>1 DEF Orderly, Allocated, Request
        <4>3. Holds(heap, Head0, queued)' /\ OnBeforeOff'
          BY <1>0, <4>1, <4>2, Requested
        <4>4. {"select", "off", "on"} \cap queued'
                = {"select", "off", "on"} \cap queued
          BY <1>0, <4>2
        <4>5. Asked(w)'
          BY <1>9, <1>a, <2>1, <4>1, <4>4
        <4>6. FromFront' /\ ContinuedOnce' /\ OneAsked'
          BY <1>0, <2>1, <2>4, <4>1, <4>2, <4>5
          DEF Orderly, FromFront, ContinuedOnce, OneAsked
        <4>7. Allocated'
          BY <4>1, <4>2 DEF Orderly, Allocated, TypeOK, ClientOK
        <4> QED BY <4>3, <4>6, <4>7 DEF Orderly
      <3> QED BY <3>1, <3>2
    <2>5. CASE /\ flag' = [flag EXCEPT !.quit = TRUE]
               /\ UNCHANGED <<cpc, code, heap, offset, queued, overlapped, wire>>
      <3>1. flag'.cont = flag.cont
        BY <2>5 DEF TypeOK, ClientOK, Flags
      <3> QED BY <2>2, <2>5, <3>1
    <2>6. CASE UNCHANGED <<cpc, code, flag, heap, offset, queued, overlapped, wire>>
      BY <2>2, <2>6
    <2> QED BY <1>11, <2>3, <2>4, <2>5, <2>6 DEF HandlePresent
  <1>12. CASE DrainStart
    <2>1. /\ UNCHANGED <<heap, queued, offset, c2s, s2c, inbox, owed, flag>>
          /\ work' = heap.next[Head0] /\ next' = heap.next[heap.next[Head0]]
      BY <1>12 DEF DrainStart
    <2>2. FromFront'
      BY <2>1 DEF FromFront
    <2>3. OneAsked'
      BY <2>1, AsksKept DEF Orderly
    <2>4. Allocated' /\ ContinuedOnce' /\ OnBeforeOff'
      BY <2>1 DEF Orderly, Allocated, ContinuedOnce, OnBeforeOff
    <2> QED BY <2>1, <2>2, <2>3, <2>4 DEF Orderly
  <1>13. CASE DrainEnd
    <2>1. /\ UNCHANGED <<heap, queued, offset, c2s, s2c, inbox, owed, flag>>
          /\ cpc' # "drain"
      BY <1>13 DEF DrainEnd
    <2>2. OneAsked'
      BY <2>1, AsksKept DEF Orderly
    <2> QED BY <2>1, <2>2, ListKept
  <1>14. CASE Finish
    <2>1. /\ UNCHANGED <<heap, queued, offset, c2s, s2c, inbox, owed, flag>>
          /\ cpc' # "drain"
      BY <1>14 DEF Finish
    <2>2. OneAsked'
      BY <2>1, AsksKept DEF Orderly
    <2> QED BY <2>1, <2>2, ListKept
  <1>15. ASSUME NEW node \in Requests, RunRequest(node)
         PROVE  Holds(heap, Head0, queued)' /\ (~clientGone' => Orderly')
    <2>1. /\ cpc = "drain" /\ work = node /\ heap' = ListDel(heap, node)
          /\ queued' = queued \ {node}
          /\ work' = next /\ next' = heap'.next[next]
          /\ UNCHANGED <<s2c, inbox, owed, flag, offset>>
      BY <1>15 DEF RunRequest, Running, NextWork, Broken, Die
    <2>2. node = heap.next[Head0] /\ node # Head0 /\ next = heap.next[node]
      BY <1>0, <2>1 DEF Orderly, FromFront
    <2>3. /\ node \in queued /\ heap'.next[Head0] = next
          /\ Holds(heap', Head0, queued')
      BY <1>0, <2>1, <2>2, DelFirst
    <2>4. FromFront' /\ Allocated' /\ ContinuedOnce'
      BY <1>0, <2>1, <2>3 DEF Orderly, FromFront, Allocated, ContinuedOnce
    <2>5. OnBeforeOff'
      <3> SUFFICES ASSUME {"on", "off"} \subseteq queued'
                   PROVE  Precedes(heap', queued', "on", "off")
        BY DEF OnBeforeOff
      <3>1. "on" # node /\ Precedes(heap, queued, "on", "off")
        BY <2>1 DEF Orderly, OnBeforeOff
      <3> QED BY <1>0, <2>1, <2>3, <3>1, DelPrecedes
    <2>6. ASSUME ~clientGone'
          PROVE  OneAsked'
      <3>1. CASE node = "status" /\ c2s' = c2s
        <4>1. Asked(w)'
          BY <1>a, <2>1, <3>1 DEF Asked
        <4> QED BY <4>1 DEF OneAsked
      <3>2. CASE c2s' = Append(c2s, MsgOf(node))
        <4>1. CASE node = "select" \/ node = "off"
          <5>1. w = node /\ Free(c2s) /\ {"select", "off"} \cap queued' = {}
            BY <1>a, <2>1, <2>3, <4>1 DEF Asked
          <5>2. "on" \notin queued
            <6>1. CASE node = "select"
              BY <1>a, <5>1, <6>1 DEF Asked
            <6>2. CASE node = "off"
              <7>1. "on" \in queued => Precedes(heap, queued, "on", node)
                BY <2>3, <6>2 DEF Orderly, OnBeforeOff
              <7> QED BY <1>0, <2>2, <7>1, FirstIsFirst
            <6> QED BY <4>1, <6>1, <6>2
          <5>3. Few(c2s')
            BY <1>0, <3>2, <5>1, AsksAppend
          <5>4. Asked("c2s")'
            BY <1>a, <2>1, <4>1, <5>1, <5>2, <5>3 DEF Asked
          <5> QED BY <5>4 DEF OneAsked, Sites
        <4>2. CASE ~(node = "select" \/ node = "off")
          <5>1. MsgOf(node)[1] \notin Asks
            BY <4>2, MsgOfAsks
          <5>2. Few(c2s') /\ (Free(c2s) => Free(c2s'))
            BY <1>0, <1>a, <3>2, <5>1, AsksAppend DEF Asked
          <5>3. Asked(w)'
            BY <1>a, <2>1, <5>2 DEF Asked
          <5> QED BY <5>3 DEF OneAsked
        <4> QED BY <4>1, <4>2
      <3> QED BY <1>15, <2>6, <3>1, <3>2 DEF RunRequest, Broken, Die
    <2> QED BY <2>3, <2>4, <2>5, <2>6 DEF Orderly
  <1>16. ASSUME NEW d \in Downloads, RunDownload(d)
         PROVE  Holds(heap, Head0, queued)' /\ (~clientGone' => Orderly')
    <2>1. /\ cpc = "drain" /\ work = d
          /\ work' = next /\ next' = heap'.next[next]
          /\ UNCHANGED <<s2c, inbox, owed, flag>>
      BY <1>16 DEF RunDownload, Running, NextWork, Broken, Die
    <2>2. d = heap.next[Head0] /\ d # Head0 /\ next = heap.next[d]
      BY <1>0, <2>1 DEF Orderly, FromFront
    <2>3. d \in queued /\ d \notin Requests
      BY <1>0, <2>2, DelFirst
    <2>4. \/ heap' = ListFree(heap, d) /\ queued' = queued \ {d}
          \/ heap' = ListAdd(ListDel(heap, d), Head0, d) /\ queued' = queued
      BY <1>16 DEF RunDownload
    <2>5. /\ Holds(heap', Head0, queued')
          /\ next \in {heap'.next[Head0], Head0}
          /\ \A a, b \in queued \ {d} :
               Precedes(heap, queued, a, b) => Precedes(heap', queued', a, b)
      <3>1. CASE heap' = ListFree(heap, d) /\ queued' = queued \ {d}
        BY <1>0, <2>2, <3>1, FreeFirst
      <3>2. CASE heap' = ListAdd(ListDel(heap, d), Head0, d) /\ queued' = queued
        BY <1>0, <2>2, <3>2, MoveFirst
      <3> QED BY <2>4, <3>1, <3>2
    <2>6. FromFront' /\ ContinuedOnce'
      BY <1>0, <2>1, <2>3, <2>4, <2>5 DEF Orderly, FromFront, ContinuedOnce
    <2>7. OnBeforeOff'
      <3> SUFFICES ASSUME {"on", "off"} \subseteq queued'
                   PROVE  Precedes(heap', queued', "on", "off")
        BY DEF OnBeforeOff
      <3>1. {"on", "off"} \subseteq queued \ {d}
        BY <1>0, <2>3, <2>4
      <3> QED BY <2>5, <3>1 DEF Orderly, OnBeforeOff
    <2>8. ASSUME ~clientGone'
          PROVE  Allocated' /\ OneAsked'
      <3>1. \/ ~Room /\ UNCHANGED <<c2s, offset>>
            \/ /\ Room
               /\ offset' = [offset EXCEPT ![d] = IF @ < Chunks THEN @ + 1 ELSE -1]
               /\ \E n : c2s' = Append(c2s, <<"download", n>>)
        BY <1>16, <2>8 DEF RunDownload, Broken, Die
      <3>2. \/ Room /\ offset[d] = Chunks /\ queued' = queued \ {d}
            \/ ~(Room /\ offset[d] = Chunks) /\ queued' = queued
        BY <1>16 DEF RunDownload
      <3>3. Allocated'
        <4>1. offset \in [Downloads -> -1 .. Chunks] /\ Chunks \in Nat /\ offset[d] # -1
          BY <2>3, ClientAssumption DEF TypeOK, ClientOK, Orderly, Allocated
        <4>2. CASE ~Room /\ UNCHANGED <<c2s, offset>>
          BY <3>2, <4>2 DEF Orderly, Allocated
        <4>3. CASE Room /\ offset' = [offset EXCEPT ![d] = IF @ < Chunks THEN @ + 1 ELSE -1]
          <5>1. \A e \in Downloads :
                  offset'[e] = IF e = d THEN IF offset[d] < Chunks THEN offset[d] + 1
                                                                  ELSE -1
                               ELSE offset[e]
            BY <4>1, <4>3
          <5>2. offset[d] \in 0 .. Chunks /\ (offset'[d] # -1 <=> offset[d] # Chunks)
            BY <4>1, <5>1
          <5>3. \A e \in Downloads : e \in queued' <=> IF e = d THEN offset[d] # Chunks
                                                               ELSE e \in queued
            BY <2>3, <3>2, <4>3
          <5> QED BY <5>1, <5>2, <5>3 DEF Orderly, Allocated
        <4> QED BY <3>1, <4>2, <4>3
      <3>4. OneAsked'
        <4>1. Few(c2s') /\ (Free(c2s) => Free(c2s'))
          <5>1. CASE c2s' = c2s
            BY <1>a, <5>1 DEF Asked
          <5>2. CASE \E n : c2s' = Append(c2s, <<"download", n>>)
            BY <1>0, <1>a, <5>2, AsksAppend DEF Asked, Asks
          <5> QED BY <3>1, <5>1, <5>2
        <4>2. {"select", "off", "on"} \cap queued'
                = {"select", "off", "on"} \cap queued
          BY <1>0, <2>3, <2>4
        <4>3. Asked(w)'
          BY <1>a, <2>1, <4>1, <4>2 DEF Asked
        <4> QED BY <4>3 DEF OneAsked
      <3> QED BY <3>3, <3>4
    <2> QED BY <2>5, <2>6, <2>7, <2>8 DEF Orderly
  <1> DEFINE Goal == Holds(heap, Head0, queued)' /\ (~clientGone' => Orderly')
  <1>17. CASE HandleMessage
    BY <1>7, <1>8, <1>10, <1>11, <1>17 DEF HandleMessage
  <1>18. CASE Drain
    BY <1>12, <1>13, <1>15, <1>16, <1>18 DEF Drain
  <1>19. CASE Loop
    BY SelectSplit, <1>1, <1>2, <1>3, <1>4, <1>5, <1>14, <1>17, <1>18, <1>19 DEF Loop
  <1> QED BY SelectSplit, <1>1, <1>5, <1>6, <1>19 DEF ClientNext

(* The server answers a message that asks with one that asks, and sends no *)
(* other.                                                                  *)
Answers(ms) ==
  /\ ms \in Seq(Message) /\ s2c' = s2c \o ms
  /\ \/ c2s' = c2s /\ Free(ms)
     \/ /\ c2s # <<>> /\ c2s' = Tail(c2s)
        /\ Free(ms) \/ (c2s[1][1] \in Asks /\ Few(ms))

LEMMA ServerAnswers ==
  ASSUME TypeOK, ServerNext, ~clientGone
  PROVE  \E ms : Answers(ms)
  <1> USE DEF wire
  <1>1. /\ s2c = s2c \o <<>> /\ <<>> \in Seq(Message) /\ Free(<<>>)
        /\ s2c \in Seq(Message)
    BY DEF Free, TypeOK, WireOK
  <1>2. \A t \in Types \ Asks, n \in Nat :
          << <<t, n>> >> \in Seq(Message) /\ Free(<< <<t, n>> >>)
    <2> SUFFICES ASSUME NEW t \in Types \ Asks, NEW n \in Nat
                 PROVE  << <<t, n>> >> \in Seq(Message) /\ Free(<< <<t, n>> >>)
      OBVIOUS
    <2> DEFINE m == <<t, n>>
    <2>1. m[1] \notin Asks
      OBVIOUS
    <2> HIDE DEF m
    <2>2. Free(<< m >>)
      BY <2>1 DEF Free
    <2> QED BY <2>2, MessageTypes DEF m
  <1>3. \A t \in Types \ Asks :
          << Msg(t) >> \in Seq(Message) /\ Free(<< Msg(t) >>)
    BY <1>2 DEF Msg
  <1>4. \A t \in Types : << Msg(t) >> \in Seq(Message) /\ Few(<< Msg(t) >>)
    BY MessageTypes DEF Few
  <1>5. /\ << <<"present", 1>>, Msg("select") >> \in Seq(Message)
        /\ Few(<< <<"present", 1>>, Msg("select") >>)
        /\ << <<"list", 1>>, <<"list", 0>> >> \in Seq(Message)
        /\ Free(<< <<"list", 1>>, <<"list", 0>> >>)
    <2>1. /\ << <<"present", 1>>, Msg("select") >>[1][1] \notin Asks
          /\ << <<"list", 1>>, <<"list", 0>> >>[1][1] \notin Asks
          /\ << <<"list", 1>>, <<"list", 0>> >>[2][1] \notin Asks
      BY DEF Asks
    <2>2. \A i \in 1 .. 2 : i = 1 \/ i = 2
      OBVIOUS
    <2> QED BY <2>1, <2>2, MessageTypes DEF Few, Free
  <1>6. {"power_on", "download", "continue", "info", "status"} \subseteq Types \ Asks
        /\ {"present", "console"} \subseteq Types \ Asks
        /\ {"select", "power_off"} \subseteq Types
    BY DEF Types, Asks
  <1>7. \A ms : Send(ms) => s2c' = s2c \o ms
    BY DEF Send
  <1>8. CASE SelectBoard
    <2>1. /\ c2s # <<>> /\ c2s' = Tail(c2s) /\ c2s[1][1] \in Asks
      BY <1>8 DEF SelectBoard, Takes, Asks
    <2>2. CASE ~known
      <3>1. s2c' = s2c \o << Msg("select") >>
        BY <1>1, <1>8, <2>2 DEF SelectBoard
      <3>2. Answers(<< Msg("select") >>)
        BY <1>4, <1>6, <2>1, <3>1 DEF Answers
      <3> QED BY <3>2
    <2>3. CASE known /\ OnBus
      <3>1. s2c' = s2c \o << <<"present", 1>>, Msg("select") >>
        BY <1>7, <1>8, <2>3 DEF SelectBoard
      <3>2. Answers(<< <<"present", 1>>, Msg("select") >>)
        BY <1>5, <2>1, <3>1 DEF Answers
      <3> QED BY <3>2
    <2>4. CASE known /\ ~OnBus
      <3>1. s2c' = s2c \o << Msg("select") >>
        BY <1>7, <1>8, <2>4 DEF SelectBoard
      <3>2. Answers(<< Msg("select") >>)
        BY <1>4, <1>6, <2>1, <3>1 DEF Answers
      <3> QED BY <3>2
    <2> QED BY <2>2, <2>3, <2>4
  <1>9. CASE PowerOff
    <2>1. /\ c2s # <<>> /\ c2s' = Tail(c2s) /\ c2s[1][1] \in Asks
          /\ s2c' = s2c \o << Msg("power_off") >>
      BY <1>7, <1>9 DEF PowerOff, Takes, Asks
    <2>2. Answers(<< Msg("power_off") >>)
      BY <1>4, <1>6, <2>1 DEF Answers
    <2> QED BY <2>2
  <1>10. ASSUME NEW t \in Types \ Asks, Send(<< Msg(t) >>),
                c2s' = c2s \/ (c2s # <<>> /\ c2s' = Tail(c2s))
         PROVE  \E ms : Answers(ms)
    <2>1. Answers(<< Msg(t) >>)
      BY <1>3, <1>7, <1>10 DEF Answers
    <2> QED BY <2>1
  <1>11. ASSUME NEW t \in Types \ Asks, NEW n \in Nat, Send(<< <<t, n>> >>),
                c2s' = c2s
         PROVE  \E ms : Answers(ms)
    <2>1. Answers(<< <<t, n>> >>)
      BY <1>2, <1>7, <1>11 DEF Answers
    <2> QED BY <2>1
  <1>12. ASSUME s2c' = s2c, c2s' = c2s \/ (c2s # <<>> /\ c2s' = Tail(c2s))
         PROVE  \E ms : Answers(ms)
    <2>1. Answers(<<>>)
      BY <1>1, <1>12 DEF Answers
    <2> QED BY <2>1
  <1>13. CASE PowerOn
    BY <1>6, <1>10, <1>13 DEF PowerOn, Takes
  <1>14. CASE Download
    BY <1>6, <1>10, <1>12, <1>14 DEF Download, Takes, Segfault
  <1>15. CASE Continue
    BY <1>6, <1>10, <1>12, <1>15 DEF Continue, Takes, Segfault
  <1>16. CASE StatusEnable \/ KeyPress \/ Console
    BY <1>12, <1>16 DEF StatusEnable, KeyPress, Console, Takes, Segfault
  <1>17. CASE Inform
    <2>1. CASE Takes("info") /\ Send(<< Msg("info") >>)
      BY <1>6, <1>10, <2>1 DEF Takes
    <2>2. CASE Takes("list") /\ Send(<< <<"list", 1>>, <<"list", 0>> >>)
      <3>1. Answers(<< <<"list", 1>>, <<"list", 0>> >>)
        BY <1>5, <1>7, <2>2 DEF Answers, Takes
      <3> QED BY <3>1
    <2> QED BY <1>17, <2>1, <2>2 DEF Inform
  <1>18. CASE UdevEvent
    BY <1>6, <1>11, <1>12, <1>18 DEF UdevEvent
  <1>19. CASE Output
    <2>1. CASE \E c \in {0, 1} : Send(<< <<"console", c>> >>)
      BY <1>6, <1>11, <1>19, <2>1 DEF Output
    <2>2. CASE Send(<< Msg("status") >>)
      BY <1>6, <1>10, <1>19, <2>2 DEF Output
    <2> QED BY <1>19, <2>1, <2>2 DEF Output
  <1>20. CASE ServerEnd \/ EntersFastboot \/ Resets \/ ActsLate
    BY <1>12, <1>20 DEF ServerEnd, EntersFastboot, Resets, ActsLate
  <1> QED
    BY <1>8, <1>9, <1>13, <1>14, <1>15, <1>16, <1>17, <1>18, <1>19, <1>20
    DEF ServerNext, HandleStdin

LEMMA ServerOrderly ==
  ASSUME Orderly, UNCHANGED client, OneAsked'
  PROVE  Orderly'
  BY DEF client, Orderly, FromFront, Allocated, ContinuedOnce, OnBeforeOff

LEMMA ServerWork ==
  ASSUME TypeOK, Orderly, ~clientGone, ServerNext, UNCHANGED client
  PROVE  Orderly'
  <1>1. PICK w \in Sites : Asked(w)
    BY DEF Orderly, OneAsked
  <1>2. PICK ms : Answers(ms)
    BY ServerAnswers
  <1>3. s2c \in Seq(Message) /\ c2s \in Seq(Message)
    BY DEF TypeOK, WireOK
  <1>4. UNCHANGED <<owed, queued, inbox>>
    BY DEF client
  <1>5. /\ Free(c2s) => Free(c2s')
        /\ Few(c2s) => Few(c2s')
        /\ Few(c2s) /\ c2s' = Tail(c2s) /\ c2s[1][1] \in Asks /\ c2s # <<>>
             => Free(c2s') /\ ~Free(c2s)
    BY <1>2, <1>3, AsksTail DEF Answers
  <1>6. CASE Free(ms)
    <2>1. /\ Free(s2c) => Free(s2c')
          /\ Few(s2c) => Few(s2c')
      BY <1>2, <1>3, <1>6, AsksConcat DEF Answers
    <2>2. Asked(w)'
      BY <1>1, <1>4, <1>5, <2>1 DEF Asked
    <2> QED BY <2>2, ServerOrderly DEF OneAsked
  <1>7. CASE ~Free(ms)
    <2>1. /\ Few(ms) /\ w = "c2s" /\ Free(c2s')
      BY <1>1, <1>2, <1>5, <1>7 DEF Answers, Asked
    <2>2. Few(s2c')
      BY <1>1, <1>2, <1>3, <2>1, AsksConcat DEF Answers, Asked
    <2>3. Asked("s2c")'
      BY <1>1, <1>4, <1>5, <2>1, <2>2 DEF Asked
    <2> QED BY <2>3, ServerOrderly DEF OneAsked, Sites
  <1> QED BY <1>6, <1>7

LEMMA FirstWorkHolds ==
  ASSUME NEW o \in Options
  PROVE  Holds(FirstWork(o), Head0,
               {Verb(o)} \cup (IF o.status THEN {"status"} ELSE {}))
  <1> DEFINE h == ListInit(Nodes)
             g == ListAdd(h, Head0, Verb(o))
  <1>1. /\ Verb(o) \in Nodes /\ "status" \in Nodes /\ Verb(o) # "status"
        /\ Verb(o) # Head0 /\ "status" # Head0 /\ Head0 \in Nodes
    BY DEF Options, Verb, Nodes, Requests, Head0
  <1>2. Holds(h, Head0, {})
    BY <1>1 DEF Holds, ListInit
  <1>3. h \in Heaps /\ g \in Heaps
    BY <1>1, ListInitType, ListTypes
  <1> HIDE DEF h
  <1>4. Holds(g, Head0, {} \cup {Verb(o)})
    BY <1>1, <1>2, <1>3, AddHolds
  <1> HIDE DEF g
  <1>5. Holds(ListAdd(g, Head0, "status"), Head0, ({} \cup {Verb(o)}) \cup {"status"})
    BY <1>1, <1>3, <1>4, AddHolds
  <1> QED BY <1>4, <1>5 DEF FirstWork, g, h

LEMMA ClientWorkInv ==
  ASSUME TypeOK, Ended, WorkInv, ClientNext
  PROVE  WorkInv'
  <1> SUFFICES ASSUME ~crowded'
               PROVE  Holds(heap, Head0, queued)' /\ (~clientGone' => Orderly')
    BY DEF WorkInv
  <1>1. ~crowded /\ Holds(heap, Head0, queued)
    BY ClientFrame DEF Framed, WorkInv
  <1>2. CASE ~clientGone
    BY <1>1, <1>2, ClientWork DEF WorkInv
  <1>3. CASE clientGone
    BY <1>1, <1>3, GoneFrame, ClientFrame DEF Ended, Idle, list, hist, Framed
  <1> QED BY <1>2, <1>3

LEMMA InitWork == Init => Ended /\ WorkInv
  <1> SUFFICES ASSUME Init PROVE Ended /\ WorkInv
    OBVIOUS
  <1>1. Holds(heap, Head0, queued)
    BY FirstWorkHolds, ClientAssumption DEF Init, ClientInit
  <1>2. /\ queued \subseteq Requests \ {"on", "off", "continue"}
        /\ "select" \in queued => owed = 1
        /\ owed \in {0, 1} /\ cpc = "top" /\ ~clientGone
        /\ c2s = <<>> /\ s2c = <<>> /\ inbox = <<>>
        /\ \A d \in Downloads : offset[d] = -1
    BY ClientAssumption
    DEF Init, ClientInit, WireInit, Options, Verb, Requests
  <1>3. Few(<<>>) /\ Free(<<>>)
    BY DEF Few, Free
  <1>4. Asked(IF "select" \in queued THEN "select" ELSE "none")
    BY <1>2, <1>3 DEF Asked
  <1>5. OneAsked
    BY <1>4 DEF OneAsked, Sites
  <1>6. Allocated
    BY <1>2, ClientAssumption DEF Allocated
  <1> QED
    BY <1>1, <1>2, <1>5, <1>6
    DEF Ended, WorkInv, Orderly, FromFront, ContinuedOnce, OnBeforeOff

LEMMA WorkStep ==
  TypeOK /\ (Ended /\ WorkInv) /\ [Next]_vars => (Ended /\ WorkInv)'
  <1> SUFFICES ASSUME TypeOK, Ended, WorkInv, [Next]_vars
               PROVE  Ended' /\ WorkInv'
    OBVIOUS
  <1>1. CASE ClientNext /\ UNCHANGED server
    BY <1>1, EndedStep, ClientWorkInv
  <1>2. CASE ServerNext /\ UNCHANGED client
    <2>1. Ended' /\ UNCHANGED <<clientGone, crowded, heap, queued>>
      BY <1>2, ServerFrame DEF Ended, client
    <2> QED BY <1>2, <2>1, ServerWork DEF WorkInv
  <1>3. CASE UNCHANGED vars
    BY <1>3
    DEF vars, client, server, wire, Ended, WorkInv, Orderly, FromFront,
        Allocated, ContinuedOnce, OnBeforeOff, OneAsked, Asked
  <1> QED BY <1>1, <1>2, <1>3 DEF Next

(* No request is lost and none is run twice, as long as never two replies  *)
(* that request a power-on are outstanding and no power-off is typed ahead *)
(* of a power-on.                                                          *)
THEOREM WorkIsKept == Spec => []WorkIsQueued
  <1>1. TypeOK /\ WorkInv => WorkIsQueued
    BY DEF WorkInv, WorkIsQueued
  <1> QED BY <1>1, InitWork, WorkStep, SessionTypes, PTL DEF Spec

-----------------------------------------------------------------------------
(***************************************************************************)
(* The image.                                                              *)
(***************************************************************************)

Live(d) == offset[d] # -1

(* fastboot_work_fn sends a chunk, or the end, of the boot.img. *)
Chunk(d) == <<"download", IF offset[d] < Chunks THEN offset[d] + 1 ELSE 0>>

SendsChunk(d) ==
  /\ cpc = "drain" /\ work = d
  /\ c2s' = Append(c2s, Chunk(d))
  /\ offset' = [offset EXCEPT ![d] = IF @ < Chunks THEN @ + 1 ELSE -1]

(* request_fastboot_files starts a transfer. *)
StartsTransfer(d) ==
  /\ HandlePresent /\ inbox[1][2] # 0 /\ opts.file /\ ~flag.cont
  /\ ~flag.done \/ opts.repeat
  /\ UNCHANGED c2s /\ offset[d] = -1 /\ offset' = [offset EXCEPT ![d] = 0]
  /\ overlapped' = (overlapped \/ \E e \in Downloads : Live(e))

(* Another message is sent: typed, or a request. *)
SendsOther(m) ==
  /\ m \in Message /\ c2s' = Append(c2s, m) /\ UNCHANGED offset
  /\ m[1] # "download"
  /\ m[1] = "continue" => RunRequest("continue")

(* What a step of the client sends. *)
Sends == \/ UNCHANGED <<c2s, offset>>
         \/ \E m : SendsOther(m)
         \/ \E d \in Downloads : SendsChunk(d) \/ StartsTransfer(d)

LEMMA ClientSends ==
  ASSUME TypeOK, ClientNext
  PROVE  Sends
  <1> USE DEF client, wire, list, state, hist, Sends
  <1>1. CASE Elapse
    BY <1>1 DEF Elapse
  <1>2. CASE LoopEnds
    BY <1>2 DEF LoopEnds
  <1>3. CASE PowerCycle
    BY <1>3 DEF PowerCycle, Arm, Die
  <1>4. CASE NoCycle
    BY <1>4 DEF NoCycle, Arm, Die
  <1>5. CASE SelectTimeout
    BY <1>5 DEF SelectTimeout
  <1>6. CASE SelectEOF
    BY <1>6 DEF SelectEOF
  <1>7. CASE HandleSelect
    BY <1>7 DEF HandleSelect, Handles
  <1>8. CASE HandleConsole
    BY <1>8 DEF HandleConsole, Handles
  <1>9. CASE HandlePowerOff
    BY <1>9 DEF HandlePowerOff, Handles
  <1>10. CASE HandleDone
    BY <1>10 DEF HandleDone, Handles
  <1>11. CASE HandleList
    BY <1>11 DEF HandleList, Handles
  <1>12. CASE HandleInfo
    BY <1>12 DEF HandleInfo, Handles
  <1>13. CASE HandleOther
    BY <1>13 DEF HandleOther, Handles
  <1>14. CASE StdoutDone
    BY <1>14 DEF StdoutDone
  <1>15. CASE DrainStart
    BY <1>15 DEF DrainStart
  <1>16. CASE DrainEnd
    BY <1>16 DEF DrainEnd
  <1>17. CASE Finish
    BY <1>17 DEF Finish
  <1>18. CASE HandlePresent
    <2>1. inbox[1][1] = "present" /\ inbox[1] \in Message
      BY <1>18, HandleTypes DEF HandlePresent
    <2>2. CASE inbox[1][2] = 0
      BY <1>18, <2>2 DEF HandlePresent
    <2>3. CASE inbox[1][2] # 0 /\ flag.cont
      BY <1>18, <2>3 DEF HandlePresent
    <2>4. CASE inbox[1][2] # 0 /\ ~flag.cont /\ (~flag.done \/ opts.repeat)
      <3>1. RequestFile
        BY <1>18, <2>4 DEF HandlePresent
      <3>2. CASE ~opts.file
        BY <3>1, <3>2 DEF RequestFile, Die
      <3>3. CASE opts.file
        <4> DEFINE d == CHOOSE e \in Downloads : offset[e] = -1
        <4>1. /\ d \in Downloads /\ offset[d] = -1
              /\ offset' = [offset EXCEPT ![d] = 0] /\ UNCHANGED c2s
              /\ overlapped' = (overlapped \/ \E e \in Downloads : Live(e))
          BY <3>1, <3>3 DEF RequestFile, Live
        <4> HIDE DEF d
        <4> QED BY <1>18, <2>4, <3>3, <4>1 DEF StartsTransfer
      <3> QED BY <3>2, <3>3
    <2>5. CASE inbox[1][2] # 0 /\ ~flag.cont /\ ~(~flag.done \/ opts.repeat)
      BY <1>18, <2>5 DEF HandlePresent
    <2> QED BY <2>2, <2>3, <2>4, <2>5
  <1>19. ASSUME NEW k \in 0 .. Len(s2c), Selects(k) PROVE Sends
    BY <1>19 DEF Selects, SelectReady
  <1>20. ASSUME NEW key \in Keys, TtyCallback(key) PROVE Sends
    <2>1. c2s' = c2s \/ (c2s' = Append(c2s, Msg(key)) /\ key # "quit")
      BY <1>20 DEF TtyCallback, Die
    <2>2. key # "quit" => /\ Msg(key) \in Message /\ Msg(key)[1] # "download"
                          /\ Msg(key)[1] # "continue"
      BY DEF Msg, Message, Keys, Types
    <2>3. UNCHANGED offset
      BY <1>20 DEF TtyCallback
    <2> QED BY <2>1, <2>2, <2>3 DEF SendsOther
  <1>21. ASSUME NEW node \in Requests, RunRequest(node) PROVE Sends
    <2>1. UNCHANGED offset /\ (c2s' = c2s \/ c2s' = Append(c2s, MsgOf(node)))
      BY <1>21 DEF RunRequest, Broken, Die
    <2>2. MsgOf(node) \in Message
      BY MsgOfType DEF Message
    <2>3. MsgOf(node)[1] # "download"
          /\ (MsgOf(node)[1] = "continue" => node = "continue")
      BY DEF MsgOf, Msg, Requests
    <2> QED BY <1>21, <2>1, <2>2, <2>3 DEF SendsOther
  <1>22. ASSUME NEW d \in Downloads, RunDownload(d) PROVE Sends
    BY <1>22 DEF RunDownload, Broken, Die, Running, SendsChunk, Chunk
  <1> HIDE DEF Sends
  <1> QED
    BY SelectSplit, <1>1, <1>2, <1>3, <1>4, <1>5, <1>6, <1>7, <1>8, <1>9,
       <1>10, <1>11, <1>12, <1>13, <1>14, <1>15, <1>16, <1>17, <1>18, <1>19,
       <1>20, <1>21, <1>22 DEF ClientNext, Loop, HandleMessage, Drain

(* The chunk after k chunks, or the end. *)
After(k) == IF k = Chunks THEN 0 ELSE k + 1

(* exp[i]: the chunks that were sent ahead of the i-th message of s.  Each *)
(* one of s is the one that follows them.                                  *)
Chain(s, exp) ==
  /\ exp \in [1 .. (Len(s) + 1) -> 0 .. Chunks]
  /\ \A i \in 1 .. Len(s) :
       IF s[i][1] = "download"
         THEN s[i][2] = After(exp[i]) /\ exp[i + 1] = s[i][2]
         ELSE exp[i + 1] = exp[i]

LEMMA ChainAppend ==
  ASSUME NEW s \in Seq(Message), NEW m \in Message, NEW exp, Chain(s, exp),
         m[1] = "download" => m[2] = After(exp[Len(s) + 1])
  PROVE  \E e : /\ Chain(Append(s, m), e) /\ e[1] = exp[1]
                /\ e[Len(Append(s, m)) + 1]
                     = IF m[1] = "download" THEN m[2] ELSE exp[Len(s) + 1]
  <1> DEFINE n == Len(s)
             t == Append(s, m)
             v == IF m[1] = "download" THEN m[2] ELSE exp[n + 1]
             e == [i \in 1 .. (n + 2) |-> IF i = n + 2 THEN v ELSE exp[i]]
  <1>1. /\ n \in Nat /\ Len(t) = n + 1 /\ t[n + 1] = m
        /\ \A i \in 1 .. n : t[i] = s[i]
    OBVIOUS
  <1>2. v \in 0 .. Chunks
    BY <1>1, ClientAssumption DEF Chain, After
  <1> HIDE DEF v, t
  <1>3. /\ e \in [1 .. (n + 2) -> 0 .. Chunks] /\ e[n + 2] = v
        /\ \A i \in 1 .. (n + 1) : e[i] = exp[i]
    BY <1>1, <1>2 DEF Chain
  <1> HIDE DEF e
  <1>4. ASSUME NEW i \in 1 .. Len(t)
        PROVE  IF t[i][1] = "download"
                 THEN t[i][2] = After(e[i]) /\ e[i + 1] = t[i][2]
                 ELSE e[i + 1] = e[i]
    <2>1. CASE i \in 1 .. n
      <3>1. i + 1 \in 1 .. (n + 1) /\ i \in 1 .. (n + 1)
        BY <1>1, <2>1
      <3> QED BY <1>1, <1>3, <2>1, <3>1 DEF Chain
    <2>2. CASE i = n + 1
      <3>1. n + 1 \in 1 .. (n + 1) /\ i + 1 = n + 2
        BY <1>1, <2>2
      <3> QED BY <1>1, <1>3, <2>2, <3>1 DEF v
    <2> QED BY <1>1, <2>1, <2>2
  <1>5. e[1] = exp[1] /\ e[Len(t) + 1] = v
    BY <1>1, <1>3
  <1>6. Chain(t, e)
    BY <1>1, <1>3, <1>4 DEF Chain
  <1> QED BY <1>5, <1>6 DEF t, v

LEMMA ChainTail ==
  ASSUME NEW s \in Seq(Message), s # <<>>, NEW exp, Chain(s, exp)
  PROVE  \E e : /\ Chain(Tail(s), e) /\ e[1] = exp[2]
                /\ e[Len(Tail(s)) + 1] = exp[Len(s) + 1]
  <1> DEFINE n == Len(s)
             t == Tail(s)
             e == [i \in 1 .. n |-> exp[i + 1]]
  <1>1. /\ n \in Nat \ {0} /\ Len(t) = n - 1
        /\ \A i \in 1 .. (n - 1) : t[i] = s[i + 1]
    OBVIOUS
  <1> HIDE DEF t
  <1>2. \A i \in 1 .. n : i + 1 \in 1 .. (n + 1)
    BY <1>1
  <1>3. e \in [1 .. n -> 0 .. Chunks] /\ \A i \in 1 .. n : e[i] = exp[i + 1]
    BY <1>1, <1>2 DEF Chain
  <1> HIDE DEF e
  <1>4. ASSUME NEW i \in 1 .. Len(t)
        PROVE  IF t[i][1] = "download"
                 THEN t[i][2] = After(e[i]) /\ e[i + 1] = t[i][2]
                 ELSE e[i + 1] = e[i]
    <2>1. i \in 1 .. (n - 1) /\ i + 1 \in 1 .. n /\ i \in 1 .. n
      BY <1>1
    <2> QED BY <1>1, <1>3, <2>1 DEF Chain
  <1>5. e[1] = exp[2] /\ e[Len(t) + 1] = exp[n + 1]
    BY <1>1, <1>3
  <1>6. Chain(t, e)
    BY <1>1, <1>3, <1>4 DEF Chain
  <1> QED BY <1>5, <1>6 DEF t

(* n chunks of the running transfer are sent; or none runs. *)
Sent(n) == /\ \A d \in Downloads : Live(d) => offset[d] = n
           /\ (\A d \in Downloads : ~Live(d)) => n = 0

(* The chunks on their way follow those the server has, and those not sent *)
(* follow them.                                                            *)
InFlight(exp) ==
  Chain(c2s, exp) /\ exp[1] = Len(payload) /\ Sent(exp[Len(c2s) + 1])

InPlace == /\ \A i \in 1 .. Len(payload) : payload[i] = i
           /\ \E exp : InFlight(exp)

OneTransfer == \A d, e \in Downloads : Live(d) /\ Live(e) => d = e

ImageInv ==
  (~overlapped /\ ~crowded) => /\ images \cup taken \subseteq {File}
                               /\ OneTransfer
                               /\ spc # "gone" => InPlace

LEMMA GrowsInFlight ==
  ASSUME TypeOK, NEW exp, InFlight(exp), NEW m \in Message, NEW v,
         c2s' = Append(c2s, m), UNCHANGED payload,
         m[1] = "download" => m[2] = After(exp[Len(c2s) + 1]),
         v = IF m[1] = "download" THEN m[2] ELSE exp[Len(c2s) + 1], Sent(v)'
  PROVE  \E e : InFlight(e)'
  <1>1. Chain(c2s, exp) /\ c2s \in Seq(Message)
    BY DEF InFlight, TypeOK, WireOK
  <1>2. PICK e : /\ Chain(c2s', e) /\ e[1] = exp[1]
                 /\ e[Len(c2s') + 1] = v
    BY <1>1, ChainAppend
  <1>3. e[1] = Len(payload)'
    BY <1>2 DEF InFlight
  <1>4. Sent(e[Len(c2s) + 1])'
    BY <1>2 DEF Sent, Live
  <1> QED BY <1>2, <1>3, <1>4 DEF InFlight

LEMMA ClientImage ==
  ASSUME TypeOK, Ended, WorkInv, ImageInv, ClientNext, UNCHANGED server
  PROVE  ImageInv'
  <1> SUFFICES ASSUME ~overlapped', ~crowded'
               PROVE  images' \cup taken' \subseteq {File} /\ OneTransfer'
                      /\ (spc' # "gone" => InPlace')
    BY DEF ImageInv
  <1>1. /\ ~overlapped /\ ~crowded /\ images \cup taken \subseteq {File} /\ OneTransfer
        /\ spc # "gone" => InPlace
    BY ClientFrame DEF Framed, ImageInv
  <1>2. UNCHANGED <<payload, images, taken, spc>>
    BY DEF server
  <1>3. c2s \in Seq(Message) /\ offset \in [Downloads -> -1 .. Chunks]
    BY DEF TypeOK, WireOK, ClientOK
  <1>4. ASSUME OneTransfer', \A exp : InFlight(exp) => \E e : InFlight(e)'
        PROVE  images' \cup taken' \subseteq {File} /\ OneTransfer'
               /\ (spc' # "gone" => InPlace')
    BY <1>1, <1>2, <1>4 DEF InPlace
  <1>5. CASE UNCHANGED <<c2s, offset>>
    BY <1>1, <1>2, <1>5 DEF OneTransfer, InPlace, InFlight, Sent, Live
  <1>6. ASSUME NEW m, SendsOther(m)
        PROVE  images' \cup taken' \subseteq {File} /\ OneTransfer'
               /\ (spc' # "gone" => InPlace')
    <2>1. OneTransfer'
      BY <1>1, <1>6 DEF SendsOther, OneTransfer, Live
    <2>2. ASSUME NEW exp, InFlight(exp) PROVE \E e : InFlight(e)'
      <3>1. PICK v : v = exp[Len(c2s) + 1] /\ Sent(v)
        BY <2>2 DEF InFlight
      <3>2. Sent(v)'
        BY <1>6, <3>1 DEF SendsOther, Sent, Live
      <3> QED BY <1>2, <1>6, <2>2, <3>1, <3>2, GrowsInFlight DEF SendsOther
    <2> QED BY <1>4, <2>1, <2>2
  <1>7. ASSUME NEW d \in Downloads, SendsChunk(d)
        PROVE  images' \cup taken' \subseteq {File} /\ OneTransfer'
               /\ (spc' # "gone" => InPlace')
    <2>1. Live(d)
      <3>1. Holds(heap, Head0, queued) /\ ~clientGone /\ Orderly /\ d # Head0
        BY <1>1, <1>7, ClientAssumption
        DEF WorkInv, Ended, SendsChunk
      <3>2. d = heap.next[Head0]
        BY <1>7, <3>1 DEF Orderly, FromFront, SendsChunk
      <3>3. d \in queued
        BY <3>1, <3>2 DEF Holds
      <3> QED BY <3>1, <3>3 DEF Orderly, Allocated, Live
    <2>2. \A e \in Downloads : Live(e)' => e = d
      BY <1>1, <1>3, <1>7, <2>1 DEF SendsChunk, OneTransfer, Live
    <2>3. OneTransfer'
      BY <2>2 DEF OneTransfer
    <2>4. ASSUME NEW exp, InFlight(exp) PROVE \E e : InFlight(e)'
      <3>1. PICK n \in 0 .. Chunks : n = exp[Len(c2s) + 1] /\ n = offset[d]
        BY <1>3, <2>1, <2>4 DEF InFlight, Sent, Live, Chain
      <3>2. PICK m : m = Chunk(d)
        OBVIOUS
      <3>3. m[1] = "download" /\ m[2] = After(n) /\ m \in Message
        BY <3>1, <3>2, ClientAssumption DEF Chunk, After, Message, Types
      <3>4. c2s' = Append(c2s, m)
        BY <1>7, <3>2 DEF SendsChunk
      <3>5. offset'[d] = IF n < Chunks THEN n + 1 ELSE -1
        BY <1>3, <1>7, <3>1 DEF SendsChunk
      <3>6. Sent(After(n))'
        BY <2>2, <3>5, ClientAssumption DEF Sent, Live, After
      <3>7. Sent(m[2])'
        BY <3>3, <3>6 DEF Sent, Live
      <3> QED BY <1>2, <2>4, <3>1, <3>3, <3>4, <3>7, GrowsInFlight
    <2> QED BY <1>4, <2>3, <2>4
  <1>8. ASSUME NEW d \in Downloads, StartsTransfer(d)
        PROVE  images' \cup taken' \subseteq {File} /\ OneTransfer'
               /\ (spc' # "gone" => InPlace')
    <2>1. \A e \in Downloads : ~Live(e)
      <3>1. overlapped' = (overlapped \/ \E e \in Downloads : Live(e))
        BY <1>8 DEF StartsTransfer
      <3> QED BY <3>1, Zenon
    <2>2. \A e \in Downloads : Live(e)' => e = d /\ offset'[e] = 0
      BY <1>3, <1>8, <2>1 DEF StartsTransfer, Live
    <2>3. OneTransfer'
      BY <2>2 DEF OneTransfer
    <2>4. ASSUME NEW exp, InFlight(exp) PROVE \E e : InFlight(e)'
      <3>1. exp[Len(c2s) + 1] = 0 /\ c2s' = c2s
        BY <1>8, <2>1, <2>4 DEF InFlight, Sent, StartsTransfer
      <3>2. \A e \in Downloads : Live(e)' => offset'[e] = 0
        BY <2>2
      <3>3. Sent(exp[Len(c2s) + 1])'
        BY <3>1, <3>2 DEF Sent, Live
      <3> QED BY <1>2, <2>4, <3>1, <3>3 DEF InFlight
    <2> QED BY <1>4, <2>3, <2>4
  <1> QED BY <1>5, <1>6, <1>7, <1>8, ClientSends DEF Sends

(* What a step of the server does with the messages on their way and with  *)
(* the chunks it has.                                                      *)
Booted(new) == /\ images \subseteq images'
               /\ images' \cup taken' \subseteq images \cup taken \cup new

TakesChunk ==
  /\ spc # "gone" /\ c2s # <<>> /\ c2s' = Tail(c2s) /\ c2s[1][1] = "download"
  /\ \/ /\ c2s[1][2] > 0 /\ Booted({})
        /\ payload' = Append(payload, c2s[1][2])
     \/ c2s[1][2] = 0 /\ Booted({}) /\ spc' = "gone"
     \/ c2s[1][2] = 0 /\ Booted({payload}) /\ payload' = <<>>

TakesOther ==
  /\ c2s # <<>> /\ c2s' = Tail(c2s) /\ c2s[1][1] # "download"
  /\ UNCHANGED payload /\ Booted({})

TakesNone == UNCHANGED <<c2s, payload>> /\ Booted({})

LEMMA ServerTakes ==
  ASSUME TypeOK, ServerNext
  PROVE  /\ TakesNone \/ TakesOther \/ TakesChunk
         /\ spc = "gone" => spc' = "gone"
  <1> DEFINE Goal ==
        /\ TakesNone \/ TakesOther \/ TakesChunk
        /\ spc = "gone" => spc' = "gone"
  <1> USE DEF wire, TakesNone, Booted
  <1>1. CASE SelectBoard
    BY <1>1 DEF SelectBoard, Takes, TakesOther
  <1>2. CASE PowerOn
    BY <1>2 DEF PowerOn, Takes, TakesOther
  <1>3. CASE PowerOff
    BY <1>3 DEF PowerOff, Unplug, Takes, TakesOther
  <1>4. CASE Download
    <2>1. /\ spc # "gone" /\ c2s # <<>> /\ c2s' = Tail(c2s)
          /\ c2s[1][1] = "download"
      BY <1>4 DEF Download, Takes
    <2>2. c2s[1][2] \in Nat
      <3>1. c2s[1] \in Message
        BY <2>1, TailType DEF TypeOK, WireOK
      <3> QED BY <3>1 DEF Message
    <2>3. CASE c2s[1][2] > 0
      BY <1>4, <2>1, <2>3 DEF Download, TakesChunk
    <2>4. CASE c2s[1][2] = 0 /\ Segfault
      BY <2>1, <2>4 DEF Segfault, TakesChunk
    <2>5. CASE c2s[1][2] = 0 /\ ~Segfault
      BY <1>4, <2>1, <2>5
      DEF Download, TakesChunk, Boot, Starts, Refuses, NotAsked, Unplug
    <2> QED BY <2>2, <2>3, <2>4, <2>5
  <1>5. CASE Continue
    BY <1>5
    DEF Continue, Takes, TakesOther, Segfault, Survives, Starts, Refuses,
        NotAsked, Unplug
  <1>6. CASE StatusEnable
    BY <1>6 DEF StatusEnable, Takes, TakesOther, Segfault, Survives
  <1>7. CASE KeyPress
    BY <1>7 DEF KeyPress, Takes, TakesOther, Segfault, Survives
  <1>8. CASE Console
    BY <1>8 DEF Console, server, Takes, TakesOther
  <1>9. CASE Inform
    BY <1>9 DEF Inform, Takes, TakesOther
  <1>10. CASE UdevEvent
    BY <1>10 DEF UdevEvent
  <1>11. CASE ServerEnd
    BY <1>11 DEF ServerEnd
  <1>12. CASE Output
    BY <1>12 DEF Output
  <1>13. CASE EntersFastboot
    BY <1>13 DEF EntersFastboot
  <1>14. CASE Resets
    BY <1>14 DEF Resets, Unplug
  <1>15. CASE ActsLate
    BY <1>15 DEF ActsLate, Starts, Unplug
  <1> QED
    BY <1>1, <1>2, <1>3, <1>4, <1>5, <1>6, <1>7, <1>8, <1>9, <1>10, <1>11,
       <1>12, <1>13, <1>14, <1>15 DEF ServerNext, HandleStdin

LEMMA ShrinksInFlight ==
  ASSUME TypeOK, NEW exp, InFlight(exp), c2s # <<>>, c2s' = Tail(c2s),
         UNCHANGED offset, exp[2] = Len(payload')
  PROVE  \E e : InFlight(e)'
  <1>1. Chain(c2s, exp) /\ c2s \in Seq(Message)
    BY DEF InFlight, TypeOK, WireOK
  <1>2. PICK e : /\ Chain(c2s', e) /\ e[1] = exp[2]
                 /\ e[Len(c2s') + 1] = exp[Len(c2s) + 1]
    BY <1>1, ChainTail
  <1>3. PICK v : v = exp[Len(c2s) + 1] /\ Sent(v)
    BY DEF InFlight
  <1>4. Sent(v)'
    BY <1>3 DEF Sent, Live
  <1> QED BY <1>2, <1>3, <1>4 DEF InFlight

LEMMA ServerImage ==
  ASSUME TypeOK, ImageInv, ServerNext, UNCHANGED client
  PROVE  ImageInv'
  <1> SUFFICES ASSUME ~overlapped, ~crowded
               PROVE  images' \cup taken' \subseteq {File} /\ OneTransfer'
                      /\ (spc' # "gone" => InPlace')
    BY DEF ImageInv, client
  <1>1. /\ images \cup taken \subseteq {File} /\ OneTransfer
        /\ spc # "gone" => InPlace
    BY DEF ImageInv
  <1>2. UNCHANGED offset /\ OneTransfer'
    BY <1>1 DEF client, OneTransfer, Live
  <1>3. c2s \in Seq(Message) /\ payload \in Seq(Nat) /\ Len(c2s) \in Nat
        /\ Len(payload) \in Nat
    BY DEF TypeOK, WireOK, ServerOK
  <1>4. CASE TakesNone
    <2>1. images' \cup taken' \subseteq {File}
      BY <1>1, <1>4 DEF TakesNone, Booted
    <2>2. InPlace => InPlace'
      BY <1>2, <1>4 DEF TakesNone, InPlace, InFlight, Sent, Live
    <2> QED BY <1>1, <1>2, <2>1, <2>2, ServerTakes
  <1>5. ASSUME c2s # <<>>, NEW exp, InFlight(exp)
        PROVE  /\ c2s[1] \in Message /\ exp[1] = Len(payload)
               /\ IF c2s[1][1] = "download"
                    THEN c2s[1][2] = After(exp[1]) /\ exp[2] = c2s[1][2]
                    ELSE exp[2] = exp[1]
    <2>1. 1 \in 1 .. Len(c2s) /\ c2s[1] \in Message
      BY <1>3, <1>5
    <2> QED BY <1>5, <2>1 DEF InFlight, Chain
  <1>6. CASE TakesOther
    <2> SUFFICES ASSUME spc' # "gone" PROVE InPlace'
      BY <1>1, <1>2, <1>6 DEF TakesOther, Booted
    <2>1. InPlace
      BY <1>1, ServerTakes
    <2>2. PICK exp : InFlight(exp)
      BY <2>1 DEF InPlace
    <2>3. exp[2] = Len(payload')
      BY <1>5, <1>6, <2>2 DEF TakesOther
    <2> QED BY <1>2, <1>6, <2>1, <2>2, <2>3, ShrinksInFlight
            DEF InPlace, TakesOther
  <1>7. CASE TakesChunk
    <2>1. InPlace /\ c2s # <<>> /\ c2s' = Tail(c2s) /\ c2s[1][1] = "download"
      BY <1>1, <1>7 DEF TakesChunk
    <2>2. PICK exp : InFlight(exp)
      BY <2>1 DEF InPlace
    <2>3. /\ exp[1] = Len(payload) /\ c2s[1][2] = After(exp[1])
          /\ exp[2] = c2s[1][2] /\ c2s[1] \in Message
      BY <1>5, <2>1, <2>2
    <2>4. \A i \in 1 .. Len(payload) : payload[i] = i
      BY <2>1 DEF InPlace
    <2>5. CASE c2s[1][2] > 0
      <3>1. payload' = Append(payload, c2s[1][2]) /\ Booted({})
        BY <1>7, <2>5 DEF TakesChunk
      <3>2. c2s[1][2] = Len(payload) + 1
        BY <2>3, <2>5 DEF After
      <3>3. /\ Len(payload') = Len(payload) + 1
            /\ \A i \in 1 .. Len(payload') : payload'[i] = i
        BY <1>3, <2>4, <3>1, <3>2
      <3>4. \E e : InFlight(e)'
        BY <1>2, <2>1, <2>2, <2>3, <3>2, <3>3, ShrinksInFlight
      <3> QED BY <1>1, <1>2, <3>1, <3>3, <3>4 DEF InPlace, Booted
    <2>6. CASE c2s[1][2] = 0
      <3>1. Len(payload) = Chunks
        BY <1>3, <2>3, <2>6 DEF After
      <3>2. payload = File
        <4>1. /\ Len(File) = Chunks /\ File \in Seq(Nat)
              /\ \A i \in 1 .. Chunks : File[i] = i
          BY ClientAssumption, \A i \in 1 .. Chunks : i \in Nat DEF File
        <4> HIDE DEF File
        <4> QED BY <1>3, <2>4, <3>1, <4>1, SeqEqual
      <3>3. images' \cup taken' \subseteq {File}
        BY <1>1, <1>7, <2>6, <3>2 DEF TakesChunk, Booted
      <3>4. spc' # "gone" => payload' = <<>>
        BY <1>7, <2>6 DEF TakesChunk
      <3>5. payload' = <<>> => \E e : InFlight(e)'
        <4> HAVE payload' = <<>>
        <4>1. exp[2] = Len(payload')
          BY <2>3, <2>6
        <4> QED BY <1>2, <2>1, <2>2, <4>1, ShrinksInFlight
      <3>6. payload' = <<>> => \A i \in 1 .. Len(payload') : payload'[i] = i
        OBVIOUS
      <3> QED BY <1>2, <3>3, <3>4, <3>5, <3>6 DEF InPlace
    <2>7. c2s[1][2] \in Nat
      BY <2>3 DEF Message
    <2> QED BY <2>5, <2>6, <2>7
  <1> QED BY <1>4, <1>6, <1>7, ServerTakes

LEMMA InitImage == Init => ImageInv
  <1> SUFFICES ASSUME Init PROVE ImageInv
    OBVIOUS
  <1>1. /\ payload = <<>> /\ c2s = <<>> /\ images = {} /\ taken = {}
        /\ offset = [d \in Downloads |-> -1]
    BY DEF Init, WireInit, ClientInit, ServerInit
  <1>2. \A d \in Downloads : ~Live(d)
    BY <1>1, ClientAssumption DEF Live
  <1> DEFINE exp == [i \in 1 .. 1 |-> 0]
  <1>3. InFlight(exp)
    BY <1>1, <1>2, ClientAssumption DEF InFlight, Chain, Sent
  <1> HIDE DEF exp
  <1> QED BY <1>1, <1>2, <1>3 DEF ImageInv, OneTransfer, InPlace

LEMMA ImageStep ==
  TypeOK /\ Ended /\ WorkInv /\ ImageInv /\ [Next]_vars => ImageInv'
  <1> SUFFICES ASSUME TypeOK, Ended, WorkInv, ImageInv, [Next]_vars
               PROVE  ImageInv'
    OBVIOUS
  <1>1. CASE UNCHANGED vars
    <2>1. UNCHANGED <<overlapped, crowded, images, taken, offset, spc, payload, c2s>>
      BY <1>1 DEF vars, client, server, wire
    <2> QED BY <2>1 DEF ImageInv, OneTransfer, InPlace, InFlight, Sent, Live
  <1> QED BY <1>1, ClientImage, ServerImage DEF Next

(* What the board boots is the boot.img, whole and in order, however the   *)
(* pipes interrupt its transfer, as long as no second transfer is requested*)
(* during the first and the work list is sound.                            *)
THEOREM TheFileIsBooted == Spec => []ImageIsFile
  <1>1. ImageInv => ImageIsFile
    BY DEF ImageInv, ImageIsFile
  <1> QED BY <1>1, InitWork, InitImage, ImageStep, SessionTypes, WorkStep, PTL
          DEF Spec

-----------------------------------------------------------------------------
(***************************************************************************)
(* What the client is told.                                                *)
(***************************************************************************)

Continues == {"continue"} \X Nat
Chunked == {"download"} \X Nat
Appears == {"present"} \X (Nat \ {0})

(* What a step of the client does with the messages it got, and what it    *)
(* makes of them.                                                          *)
Hears ==
  \/ UNCHANGED <<inbox, s2c>>
  \/ HandleMessage /\ inbox # <<>> /\ inbox' = Tail(inbox) /\ UNCHANGED s2c
  \/ /\ cpc = "select"
     /\ \E k \in 0 .. Len(s2c) : /\ inbox' = SubSeq(s2c, 1, k)
                                 /\ s2c' = SubSeq(s2c, k + 1, Len(s2c))

Concludes ==
  /\ flag'.cont => flag.cont
  /\ "continue" \in queued' => "continue" \in queued \/ flag.cont
  /\ flag'.done => flag.done \/ (inbox # <<>> /\ inbox[1][1] \in {"download", "continue"})

LEMMA ClientHears ==
  ASSUME TypeOK, ClientNext
  PROVE  Hears /\ Concludes
  <1> USE DEF client, wire, list, state, hist, Hears, Concludes, HandleMessage
  <1>0. flag \in Flags
    BY DEF TypeOK, ClientOK
  <1>1. CASE Elapse
    BY <1>1 DEF Elapse
  <1>2. CASE LoopEnds
    BY <1>2 DEF LoopEnds
  <1>3. CASE PowerCycle
    <2>1. UNCHANGED <<inbox, s2c>> /\ queued' = queued \cup {"off"}
      BY <1>3 DEF PowerCycle, Request, Arm, Die
    <2>2. flag'.cont = flag.cont /\ flag'.done = flag.done
      BY <1>0, <1>3 DEF PowerCycle, Flags
    <2> QED BY <2>1, <2>2
  <1>4. CASE NoCycle
    BY <1>4 DEF NoCycle, Arm, Die
  <1>5. CASE SelectTimeout
    BY <1>0, <1>5 DEF SelectTimeout, Flags
  <1>6. CASE SelectEOF
    BY <1>6 DEF SelectEOF
  <1>7. CASE HandleSelect
    BY <1>7 DEF HandleSelect, Handles, Request
  <1>8. CASE HandleConsole
    <2>1. inbox # <<>> /\ inbox' = Tail(inbox) /\ UNCHANGED <<s2c, queued>>
      BY <1>8 DEF HandleConsole, Handles
    <2>2. flag'.cont = flag.cont /\ flag'.done = flag.done
      BY <1>0, <1>8 DEF HandleConsole, Flags
    <2> QED BY <1>8, <2>1, <2>2
  <1>9. CASE HandlePowerOff
    BY <1>9 DEF HandlePowerOff, Handles, Request
  <1>10. CASE HandleDone
    <2>1. /\ inbox # <<>> /\ inbox' = Tail(inbox) /\ UNCHANGED <<s2c, queued>>
          /\ inbox[1][1] \in {"download", "continue"}
      BY <1>10 DEF HandleDone, Handles
    <2>2. flag'.cont = flag.cont
      BY <1>0, <1>10 DEF HandleDone, Flags
    <2> QED BY <1>10, <2>1, <2>2
  <1>11. CASE HandleList
    <2>1. inbox # <<>> /\ inbox' = Tail(inbox) /\ UNCHANGED <<s2c, queued>>
      BY <1>11 DEF HandleList, Handles
    <2>2. flag'.cont = flag.cont /\ flag'.done = flag.done
      BY <1>0, <1>11 DEF HandleList, Flags
    <2> QED BY <1>11, <2>1, <2>2
  <1>12. CASE HandleInfo
    BY <1>0, <1>12 DEF HandleInfo, Handles, Flags
  <1>13. CASE HandleOther
    BY <1>13 DEF HandleOther, Handles
  <1>14. CASE StdoutDone
    BY <1>14 DEF StdoutDone
  <1>15. CASE DrainStart
    BY <1>15 DEF DrainStart
  <1>16. CASE DrainEnd
    BY <1>16 DEF DrainEnd
  <1>17. CASE Finish
    BY <1>17 DEF Finish
  <1>18. CASE HandlePresent
    <2>0. inbox # <<>> /\ inbox' = Tail(inbox)
      BY <1>18 DEF HandlePresent, Handles
    <2>2. CASE inbox[1][2] = 0
      BY <1>18, <2>0, <2>2 DEF HandlePresent
    <2>3. CASE inbox[1][2] # 0 /\ flag.cont
      <3>1. /\ UNCHANGED s2c /\ flag' = [flag EXCEPT !.cont = FALSE]
        BY <1>18, <2>3 DEF HandlePresent
      <3> QED BY <1>0, <1>18, <2>0, <2>3, <3>1 DEF Flags
    <2>4. CASE inbox[1][2] # 0 /\ ~flag.cont /\ (~flag.done \/ opts.repeat)
      <3>1. RequestFile /\ UNCHANGED flag
        BY <1>18, <2>4 DEF HandlePresent
      <3>2. CASE ~opts.file
        BY <1>18, <2>0, <3>1, <3>2 DEF RequestFile, Die
      <3>3. CASE opts.file
        <4> DEFINE d == CHOOSE e \in Downloads : offset[e] = -1
        <4>1. d \in Downloads /\ queued' = queued \cup {d} /\ UNCHANGED s2c
          BY <3>1, <3>3 DEF RequestFile, Request
        <4> HIDE DEF d
        <4>2. d # "continue"
          BY <4>1, ClientAssumption DEF Requests
        <4> QED BY <1>18, <2>0, <3>1, <4>1, <4>2
      <3> QED BY <3>2, <3>3
    <2>5. CASE inbox[1][2] # 0 /\ ~flag.cont /\ ~(~flag.done \/ opts.repeat)
      <3>1. UNCHANGED <<s2c, queued>> /\ flag' = [flag EXCEPT !.quit = TRUE]
        BY <1>18, <2>5 DEF HandlePresent
      <3> QED BY <1>0, <1>18, <2>0, <3>1 DEF Flags
    <2> QED BY <2>2, <2>3, <2>4, <2>5
  <1>19. ASSUME NEW k \in 0 .. Len(s2c), Selects(k) PROVE Hears /\ Concludes
    BY <1>19 DEF Selects, SelectReady
  <1>20. ASSUME NEW key \in Keys, TtyCallback(key) PROVE Hears /\ Concludes
    <2>1. UNCHANGED <<inbox, s2c, queued>>
      BY <1>20 DEF TtyCallback, Die
    <2>2. UNCHANGED flag \/ flag' = [flag EXCEPT !.quit = @ \/ key = "quit"]
      BY <1>20 DEF TtyCallback
    <2>3. flag'.cont = flag.cont /\ flag'.done = flag.done
      BY <1>0, <2>2 DEF Flags
    <2> QED BY <2>1, <2>3
  <1>21. ASSUME NEW node \in Requests, RunRequest(node)
         PROVE  Hears /\ Concludes
    BY <1>21 DEF RunRequest, Broken, Die
  <1>22. ASSUME NEW d \in Downloads, RunDownload(d) PROVE Hears /\ Concludes
    BY <1>22 DEF RunDownload, Broken, Die
  <1> HIDE DEF Hears, Concludes
  <1> QED
    BY SelectSplit, <1>1, <1>2, <1>3, <1>4, <1>5, <1>6, <1>7, <1>8, <1>9,
       <1>10, <1>11, <1>12, <1>13, <1>14, <1>15, <1>16, <1>17, <1>18, <1>19,
       <1>20, <1>21, <1>22 DEF ClientNext, Loop, HandleMessage, Drain

(* A transfer is asked for, or under way. *)
InTransfer == \/ Has(s2c, Appears) \/ Has(inbox, Appears)
              \/ payload # <<>> \/ Has(c2s, Chunked)
              \/ \E d \in Downloads : Live(d)

(* With a boot.img the client never asks the board to continue. *)
NoContinue == /\ ~flag.cont /\ "continue" \notin queued
              /\ ~Has(c2s, Continues) /\ ~Has(s2c, Continues)
              /\ ~Has(inbox, Continues)

Unanswered == ~flag.done /\ ~Has(s2c, Chunked) /\ ~Has(inbox, Chunked)

Steady == board # "running" /\ \A i \in 1 .. Len(udev) : udev[i] # "remove"

Reaches == spc = "gone" \/ FbUsable

Faithful == opts.file /\ ~left /\ refused = "no" /\ ~overlapped /\ ~crowded

(* Until the boot.img is booted nothing tells the client that it is, and   *)
(* the board waits in fastboot for a transfer that was asked for.          *)
DoneInv ==
  Faithful => /\ NoContinue
              /\ \/ File \in images
                 \/ Unanswered /\ Steady /\ (InTransfer => Reaches)

Unselected == ~selected => udev = <<>> /\ ~fbOpen

LEMMA ClientDone ==
  ASSUME TypeOK, Ended, WorkInv, DoneInv, ClientNext, UNCHANGED server
  PROVE  DoneInv'
  <1> SUFFICES ASSUME Faithful'
               PROVE  /\ NoContinue'
                      /\ \/ File \in images
                         \/ (Unanswered /\ Steady /\ (InTransfer => Reaches))'
    BY DEF DoneInv, server
  <1>1. /\ Faithful
        /\ UNCHANGED <<payload, images, udev, board, usb, spc, fbOpen>>
    BY ClientFrame DEF Faithful, Framed, server
  <1>2. NoContinue
    BY <1>1 DEF DoneInv
  <1>3. /\ c2s \in Seq(Message) /\ s2c \in Seq(Message) /\ inbox \in Seq(Message)
    BY DEF TypeOK, WireOK, ClientOK
  <1>4. \A X : Has(inbox', X) \/ Has(s2c', X) => Has(inbox, X) \/ Has(s2c, X)
    BY <1>3, ClientHears, HasTail, HasSplit DEF Hears
  <1>5. ASSUME cpc = "drain", work # Head0
        PROVE  work \in queued /\ Orderly
    <2>1. Holds(heap, Head0, queued) /\ ~clientGone /\ Orderly
      BY <1>1, <1>5 DEF Faithful, WorkInv, Ended
    <2>2. work = heap.next[Head0]
      BY <1>5, <2>1 DEF Orderly, FromFront
    <2> QED BY <1>5, <2>1, <2>2 DEF Holds
  <1>6. ASSUME inbox # <<>>, NEW T \in SUBSET Types, inbox[1][1] \in T
        PROVE  Has(inbox, T \X Nat)
    <2>1. inbox[1] \in Message
      BY <1>3, <1>6, TailType
    <2> QED BY <1>3, <1>6, <2>1, HasTail DEF Message
  <1>7. ~flag'.cont /\ "continue" \notin queued'
    BY <1>2, ClientHears DEF NoContinue, Concludes
  <1>8. ~Has(c2s', Continues)
    <2>1. CASE UNCHANGED c2s
      BY <1>2, <2>1 DEF NoContinue
    <2>2. ASSUME NEW m, SendsOther(m) PROVE ~Has(c2s', Continues)
      <3>1. ~RunRequest("continue")
        BY <1>2, <1>5 DEF RunRequest, Running, NoContinue, Head0
      <3>2. m \notin Continues /\ m \in Message /\ c2s' = Append(c2s, m)
        BY <2>2, <3>1 DEF SendsOther, Continues
      <3> QED BY <1>2, <1>3, <3>2, HasAppend DEF NoContinue
    <2>3. ASSUME NEW d \in Downloads, SendsChunk(d)
          PROVE  ~Has(c2s', Continues)
      <3>1. /\ c2s' = Append(c2s, Chunk(d))
            /\ Chunk(d) \notin Continues /\ Chunk(d) \in Message
        BY <2>3, ClientAssumption
        DEF SendsChunk, Chunk, Continues, Message, Types, TypeOK, ClientOK
      <3> QED BY <1>2, <1>3, <3>1, HasAppend DEF NoContinue
    <2> QED BY <2>1, <2>2, <2>3, ClientSends DEF Sends, StartsTransfer
  <1>9. NoContinue'
    BY <1>2, <1>4, <1>7, <1>8 DEF NoContinue
  <1>10. CASE File \in images
    BY <1>9, <1>10
  <1>11. CASE File \notin images
    <2>1. Unanswered /\ Steady /\ (InTransfer => Reaches)
      BY <1>1, <1>11 DEF DoneInv
    <2>2. ~flag'.done
      <3> SUFFICES ASSUME inbox # <<>>, inbox[1][1] \in {"download", "continue"}
                   PROVE  FALSE
        BY <2>1, ClientHears DEF Unanswered, Concludes
      <3>1. CASE inbox[1][1] \in {"download"}
        BY <1>6, <2>1, <3>1 DEF Unanswered, Chunked, Types
      <3>2. CASE inbox[1][1] \in {"continue"}
        BY <1>2, <1>6, <3>2 DEF NoContinue, Continues, Types
      <3> QED BY <3>1, <3>2
    <2>3. Unanswered'
      BY <1>4, <2>1, <2>2 DEF Unanswered
    <2>4. Steady' /\ (Reaches => Reaches')
      BY <1>1, <2>1 DEF Steady, Reaches, FbUsable, OnBus
    <2>5. InTransfer' => InTransfer
      <3>1. Has(inbox', Appears) \/ Has(s2c', Appears) => InTransfer
        BY <1>4 DEF InTransfer
      <3>2. CASE UNCHANGED <<c2s, offset>>
        BY <1>1, <3>1, <3>2 DEF InTransfer, Live
      <3>3. ASSUME NEW m, SendsOther(m) PROVE InTransfer' => InTransfer
        <4>1. m \notin Chunked /\ m \in Message /\ c2s' = Append(c2s, m)
              /\ UNCHANGED offset
          BY <3>3 DEF SendsOther, Chunked
        <4>2. Has(c2s', Chunked) => Has(c2s, Chunked)
          BY <1>3, <4>1, HasAppend
        <4> QED BY <1>1, <3>1, <4>1, <4>2 DEF InTransfer, Live
      <3>4. ASSUME NEW d \in Downloads, SendsChunk(d) PROVE InTransfer
        <4>1. d # Head0 /\ cpc = "drain" /\ work = d
          BY <3>4, ClientAssumption DEF SendsChunk
        <4>2. Live(d)
          BY <1>5, <4>1 DEF Orderly, Allocated, Live
        <4> QED BY <4>2 DEF InTransfer
      <3>5. ASSUME NEW d \in Downloads, StartsTransfer(d) PROVE InTransfer
        <4>1. inbox # <<>> /\ inbox[1][1] = "present" /\ inbox[1][2] # 0
          BY <3>5 DEF StartsTransfer, HandlePresent, Handles
        <4>2. inbox[1] \in Message
          BY <1>3, <4>1, TailType
        <4>3. inbox[1] \in Appears
          BY <4>1, <4>2 DEF Appears, Message
        <4> QED BY <1>3, <4>1, <4>3, HasTail DEF InTransfer
      <3> QED BY <3>2, <3>3, <3>4, <3>5, ClientSends DEF Sends
    <2> QED BY <1>9, <2>1, <2>3, <2>4, <2>5
  <1> QED BY <1>10, <1>11

(* What the server tells the client while the board is steady: that        *)
(* fastboot is there only when it can use it, and that a download is done  *)
(* only when it booted what it had, or the board refused.                  *)
Says(ms) ==
  /\ ms \in Seq(Message)
  /\ s2c' = s2c \/ s2c' = s2c \o ms
  /\ Has(ms, Continues) => Continue
  /\ Has(ms, Appears) => FbUsable'
  /\ Has(ms, Chunked) => /\ Has(c2s, Chunked) /\ spc # "gone"
                         /\ FbUsable /\ refused' = "no" => payload \in images'

LEMMA SendSays ==
  /\ \A ms : Send(ms) => s2c' = s2c \/ s2c' = s2c \o ms
  /\ \A t, n : Send(<< <<t, n>> >>) => s2c' = s2c \/ s2c' = s2c \o << <<t, n>> >>
  /\ \A t : Send(<< Msg(t) >>) => s2c' = s2c \/ s2c' = s2c \o << <<t, 0>> >>
  BY DEF Send, Msg

LEMMA ServerSays ==
  ASSUME TypeOK, ServerNext
  PROVE  \E ms : Says(ms)
  <1> USE DEF wire
  <1>1. <<>> \in Seq(Message) /\ \A X : ~Has(<<>>, X)
    BY DEF Has
  <1>2. ASSUME UNCHANGED s2c PROVE \E ms : Says(ms)
    <2>1. Says(<<>>)
      BY <1>1, <1>2 DEF Says
    <2> QED BY <2>1
  <1>3. ASSUME NEW t \in Types, NEW n \in Nat,
               s2c' = s2c \/ s2c' = s2c \o << <<t, n>> >>,
               t = "continue" => Continue,
               t = "present" /\ n # 0 => FbUsable',
               t = "download" => /\ Has(c2s, Chunked) /\ spc # "gone"
                                 /\ FbUsable /\ refused' = "no"
                                      => payload \in images'
        PROVE  \E ms : Says(ms)
    <2>1. << <<t, n>> >> \in Seq(Message)
      BY MessageTypes
    <2>2. \A X : Has(<< <<t, n>> >>, X) => <<t, n>> \in X
      BY HasFew
    <2>3. Says(<< <<t, n>> >>)
      BY <1>3, <2>1, <2>2 DEF Says, Continues, Appears, Chunked
    <2> QED BY <2>3
  <1>4. /\ {"select", "power_on", "power_off", "info", "status", "console",
            "present", "download", "continue", "list"} \subseteq Types
        /\ 0 \in Nat /\ 1 \in Nat
    BY DEF Types
  <1>5. CASE SelectBoard
    <2>1. CASE s2c' = s2c \/ s2c' = s2c \o << Msg("select") >>
      BY <1>3, <1>4, <2>1 DEF Msg
    <2>2. CASE known /\ OnBus
                /\ s2c' = s2c \o << <<"present", 1>>, Msg("select") >>
      <3>1. FbUsable'
        <4>1. /\ fbOpen' = TRUE /\ OnBus'
              /\ udev' = <<"add">> \/ udev' = <<>>
          BY <1>5, <2>2 DEF SelectBoard, OnBus
        <4> QED BY <4>1 DEF FbUsable
      <3>2. << <<"present", 1>>, Msg("select") >> \in Seq(Message)
        BY <1>4, MessageTypes DEF Msg
      <3>3. \A X : Has(<< <<"present", 1>>, Msg("select") >>, X)
                     => <<"present", 1>> \in X \/ Msg("select") \in X
        BY HasFew
      <3>4. Says(<< <<"present", 1>>, Msg("select") >>)
        BY <2>2, <3>1, <3>2, <3>3 DEF Says, Continues, Appears, Chunked, Msg
      <3> QED BY <3>4
    <2>3. CASE known
      BY <1>5, <2>1, <2>2, <2>3, SendSays DEF SelectBoard
    <2>4. CASE ~known
      <3>1. s2c' = s2c \o << Msg("select") >>
        <4>1. s2c' = Append(s2c, Msg("select")) /\ s2c \in Seq(Message)
          BY <1>5, <2>4 DEF SelectBoard, TypeOK, WireOK
        <4>2. Append(s2c, Msg("select")) = s2c \o << Msg("select") >>
          BY <4>1
        <4> QED BY <4>1, <4>2
      <3> QED BY <2>1, <3>1
    <2> QED BY <2>3, <2>4
  <1>6. CASE PowerOn
    <2>1. s2c' = s2c \/ s2c' = s2c \o << <<"power_on", 0>> >>
      BY <1>6, SendSays DEF PowerOn
    <2> QED BY <1>3, <1>4, <2>1
  <1>7. CASE PowerOff
    <2>1. s2c' = s2c \/ s2c' = s2c \o << <<"power_off", 0>> >>
      BY <1>7, SendSays DEF PowerOff
    <2> QED BY <1>3, <1>4, <2>1
  <1>8. CASE Download
    <2>1. CASE UNCHANGED s2c
      BY <1>2, <2>1
    <2>2. CASE ~UNCHANGED s2c
      <3>1. spc # "gone" /\ c2s # <<>> /\ c2s[1][1] = "download"
        BY <1>8 DEF Download, Takes
      <3>2. Has(c2s, Chunked)
        <4>1. c2s \in Seq(Message) /\ c2s[1] \in Message
          BY <3>1, TailType DEF TypeOK, WireOK
        <4>2. c2s[1] \in Chunked
          BY <3>1, <4>1 DEF Chunked, Message
        <4> QED BY <3>1, <4>1, <4>2, HasTail
      <3>3. /\ s2c' = s2c \/ s2c' = s2c \o << Msg("download") >>
            /\ FbUsable /\ refused' = "no" => payload \in images'
        BY <1>8, <2>2, SendSays DEF Download, Segfault, Boot, Refuses
      <3> QED BY <1>3, <1>4, <3>1, <3>2, <3>3 DEF Msg
    <2> QED BY <2>1, <2>2
  <1>9. CASE Continue
    <2>1. s2c' = s2c \/ s2c' = s2c \o << Msg("continue") >>
      BY <1>9, SendSays DEF Continue, Segfault
    <2> QED BY <1>3, <1>4, <1>9, <2>1 DEF Msg
  <1>10. CASE StatusEnable \/ KeyPress \/ Console
    BY <1>2, <1>10 DEF StatusEnable, KeyPress, Console, Segfault
  <1>11. CASE Inform
    <2>1. CASE Takes("info") /\ Send(<< Msg("info") >>)
      <3>1. s2c' = s2c \/ s2c' = s2c \o << <<"info", 0>> >>
        BY <2>1, SendSays
      <3> QED BY <1>3, <1>4, <3>1
    <2>2. CASE Takes("list") /\ Send(<< <<"list", 1>>, <<"list", 0>> >>)
      <3>1. << <<"list", 1>>, <<"list", 0>> >> \in Seq(Message)
        BY <1>4, MessageTypes
      <3>2. \A X : Has(<< <<"list", 1>>, <<"list", 0>> >>, X)
                     => <<"list", 1>> \in X \/ <<"list", 0>> \in X
        BY HasFew
      <3>3. s2c' = s2c \/ s2c' = s2c \o << <<"list", 1>>, <<"list", 0>> >>
        BY <2>2, SendSays
      <3>4. Says(<< <<"list", 1>>, <<"list", 0>> >>)
        BY <3>1, <3>2, <3>3 DEF Says, Continues, Appears, Chunked
      <3> QED BY <3>4
    <2> QED BY <1>11, <2>1, <2>2 DEF Inform
  <1>12. CASE UdevEvent
    <2>1. CASE UNCHANGED s2c
      BY <1>2, <2>1
    <2>2. CASE Send(<< <<"present", 1>> >>) /\ ~UNCHANGED s2c
      <3>1. FbUsable'
        <4>1. /\ udev # <<>> /\ udev' = Tail(udev) /\ UNCHANGED <<board, usb>>
              /\ udev \in Seq({"add", "remove"})
          BY <1>12 DEF UdevEvent, TypeOK, ServerOK
        <4>2. /\ Len(udev') = Len(udev) - 1 /\ Len(udev) \in Nat \ {0}
              /\ \A i \in 1 .. Len(udev') : udev'[i] = udev[i + 1]
          BY <4>1
        <4>3. /\ OnBus /\ fbOpen' = TRUE
              /\ \A i \in 2 .. Len(udev) : udev[i] # "remove"
          <5>1. CASE udev[1] = "remove"
            <6>1. s2c' = s2c \o << <<"present", 1>> >>
              BY <2>2, SendSays
            <6>2. s2c' = s2c \o << <<"present", 0>> >>
              BY <1>12, <2>2, <5>1, SendSays DEF UdevEvent
            <6>3. s2c \in Seq(Message)
              BY DEF TypeOK, WireOK
            <6>4. << <<"present", 1>> >> \in Seq(Message)
                  /\ << <<"present", 0>> >> \in Seq(Message)
              BY <1>4, MessageTypes
            <6>5. /\ (s2c \o << <<"present", 1>> >>)[Len(s2c) + 1] = <<"present", 1>>
                  /\ (s2c \o << <<"present", 0>> >>)[Len(s2c) + 1] = <<"present", 0>>
              BY <6>3, <6>4, ConcatProperties
            <6> QED BY <6>1, <6>2, <6>5
          <5>2. CASE udev[1] # "remove"
            BY <1>12, <2>2, <5>2 DEF UdevEvent
          <5> QED BY <5>1, <5>2
        <4>4. \A i \in 1 .. Len(udev') : udev'[i] # "remove"
          BY <4>2, <4>3
        <4> QED BY <4>1, <4>3, <4>4 DEF FbUsable, OnBus
      <3>2. s2c' = s2c \/ s2c' = s2c \o << <<"present", 1>> >>
        BY <2>2, SendSays
      <3> QED BY <1>3, <1>4, <3>1, <3>2
    <2>3. CASE Send(<< <<"present", 0>> >>)
      <3>1. s2c' = s2c \/ s2c' = s2c \o << <<"present", 0>> >>
        BY <2>3, SendSays
      <3> QED BY <1>3, <1>4, <3>1
    <2> QED BY <1>12, <2>1, <2>2, <2>3 DEF UdevEvent
  <1>13. CASE Output
    <2>1. CASE \E c \in {0, 1} : Send(<< <<"console", c>> >>)
      <3>1. PICK c \in {0, 1} :
              s2c' = s2c \/ s2c' = s2c \o << <<"console", c>> >>
        BY <2>1, SendSays
      <3> QED BY <1>3, <1>4, <3>1
    <2>2. CASE Send(<< Msg("status") >>)
      <3>1. s2c' = s2c \/ s2c' = s2c \o << <<"status", 0>> >>
        BY <2>2, SendSays
      <3> QED BY <1>3, <1>4, <3>1
    <2> QED BY <1>13, <2>1, <2>2 DEF Output
  <1>14. CASE ServerEnd \/ EntersFastboot \/ Resets \/ ActsLate
    BY <1>2, <1>14 DEF ServerEnd, EntersFastboot, Resets, ActsLate
  <1> QED
    BY <1>5, <1>6, <1>7, <1>8, <1>9, <1>10, <1>11, <1>12, <1>13, <1>14
    DEF ServerNext, HandleStdin

LEMMA UnselectedStep ==
  ASSUME TypeOK, Unselected, ServerNext
  PROVE  Unselected'
  <1> USE DEF wire, Unselected
  <1>0. ~selected /\ Uevents => udev' = udev
    BY DEF Uevents
  <1>1. CASE SelectBoard
    BY <1>1 DEF SelectBoard
  <1>2. CASE PowerOff \/ PowerOn
    BY <1>0, <1>2 DEF PowerOff, PowerOn, Unplug
  <1>3. CASE Download \/ Continue
    BY <1>3 DEF Download, Continue, Segfault, Survives
  <1>4. CASE UdevEvent
    BY <1>4 DEF UdevEvent
  <1>5. CASE EntersFastboot \/ Resets \/ ActsLate
    BY <1>0, <1>5 DEF EntersFastboot, Resets, ActsLate, Starts, Unplug
  <1>6. CASE StatusEnable \/ KeyPress \/ Console \/ Inform \/ ServerEnd \/ Output
    BY <1>6 DEF StatusEnable, KeyPress, Console, Inform, ServerEnd, Output,
                Segfault, Survives, server
  <1> QED
    BY <1>1, <1>2, <1>3, <1>4, <1>5, <1>6 DEF ServerNext, HandleStdin

(* The monitor hears of a step by one uevent, or by none.                  *)
LEMMA OneUevent ==
  ASSUME TypeOK, Uevents
  PROVE  /\ \/ udev' = udev
            \/ udev' = Append(udev, "add") /\ OnBus'
            \/ udev' = Append(udev, "remove") /\ OnBus /\ ~OnBus' /\ selected
         /\ udev' = udev => ~selected \/ (OnBus <=> OnBus')
         /\ Has(udev, {"remove"}) => Has(udev', {"remove"})
         /\ Has(udev', {"remove"}) => Has(udev, {"remove"}) \/ (OnBus /\ ~OnBus')
         /\ OnBus /\ ~OnBus' /\ selected => Has(udev', {"remove"})
         /\ udev' # udev => udev' # <<>> /\ (udev'[Len(udev')] = "add" <=> OnBus')
  <1>0. udev \in Seq({"add", "remove"})
    BY DEF TypeOK, ServerOK
  <1>1. \/ udev' = udev /\ (~selected \/ (OnBus <=> OnBus'))
        \/ udev' = Append(udev, "add") /\ OnBus' /\ ~OnBus
        \/ udev' = Append(udev, "remove") /\ OnBus /\ ~OnBus' /\ selected
    BY DEF Uevents
  <1>2. CASE udev' = udev /\ (~selected \/ (OnBus <=> OnBus'))
    BY <1>2
  <1>3. ASSUME NEW e \in {"add", "remove"}, udev' = Append(udev, e)
        PROVE  /\ udev' # udev /\ udev' # <<>> /\ udev'[Len(udev')] = e
               /\ Has(udev', {"remove"}) <=> Has(udev, {"remove"}) \/ e = "remove"
    <2>1. /\ Len(udev') = Len(udev) + 1 /\ Len(udev) \in Nat
          /\ udev'[Len(udev) + 1] = e
          /\ \A i \in 1 .. Len(udev) : udev'[i] = udev[i]
      BY <1>0, <1>3
    <2>2. \A i \in 1 .. Len(udev) : i \in 1 .. Len(udev')
      BY <2>1
    <2>3. \A i \in 1 .. Len(udev') : i \in 1 .. Len(udev) \/ i = Len(udev) + 1
      BY <2>1
    <2>4. Len(udev) + 1 \in 1 .. Len(udev')
      BY <2>1
    <2>5. udev' # udev /\ udev' # <<>>
      BY <2>1
    <2> QED BY <2>1, <2>2, <2>3, <2>4, <2>5 DEF Has
  <1>4. CASE udev' = Append(udev, "add") /\ OnBus' /\ ~OnBus
    BY <1>3, <1>4
  <1>5. CASE udev' = Append(udev, "remove") /\ OnBus /\ ~OnBus' /\ selected
    BY <1>3, <1>5
  <1> QED BY <1>1, <1>2, <1>4, <1>5

(* A board that waits in fastboot stays there, unless it boots.            *)
LEMMA BoardStays ==
  ASSUME TypeOK, Unselected, Steady, Has(c2s, Chunked) => Reaches,
         ~left', refused' = "no", ServerNext, ~Continue
  PROVE  \/ FbUsable /\ payload \in images'
         \/ Steady' /\ (Reaches => Reaches')
  <1> USE DEF wire, Reaches
  <1>0. udev \in Seq({"add", "remove"})
    BY DEF TypeOK, ServerOK
  <1>1. ASSUME UNCHANGED <<board, usb, udev, fbOpen>>, spc = "gone" => spc' = "gone"
        PROVE  Steady' /\ (Reaches => Reaches')
    BY <1>1 DEF Steady, FbUsable, OnBus
  <1>2. spc = "gone" => spc' = "gone"
    BY ServerTakes
  <1>3. ~(board = "fastboot" /\ selected) => ~FbUsable \/ board # "fastboot"
    BY DEF Unselected, FbUsable
  <1>4. ASSUME Uevents, fbOpen' = fbOpen, board' # "running",
               ~selected \/ (OnBus => OnBus'), FbUsable => OnBus'
        PROVE  Steady' /\ (Reaches => Reaches')
    <2>1. ~Has(udev, {"remove"})
      BY DEF Steady, Has
    <2>2. ~Has(udev', {"remove"})
      <3>1. CASE selected
        BY <1>4, <2>1, <3>1, OneUevent
      <3>2. CASE ~selected
        BY <1>4, <2>1, <3>2 DEF Uevents
      <3> QED BY <3>1, <3>2
    <2>3. \A i \in 1 .. Len(udev') : udev'[i] # "remove"
      BY <2>2 DEF Has
    <2> QED BY <1>2, <1>4, <2>3 DEF Steady, FbUsable
  <1>5. CASE SelectBoard
    <2>1. CASE ~known
      BY <1>1, <1>2, <1>5, <2>1 DEF SelectBoard
    <2>2. CASE known
      <3>1. /\ fbOpen' = OnBus /\ UNCHANGED <<board, usb>>
            /\ udev' = <<"add">> \/ udev' = <<>>
        BY <1>5, <2>2 DEF SelectBoard
      <3>2. \A i \in 1 .. Len(udev') : udev'[i] # "remove"
        BY <3>1
      <3>3. OnBus => fbOpen'
        BY <3>1, Zenon
      <3> QED BY <1>2, <3>1, <3>2, <3>3 DEF Steady, FbUsable, OnBus
    <2> QED BY <2>1, <2>2
  <1>6. CASE PowerOn
    <2>1. Uevents /\ fbOpen' = fbOpen /\ board' # "running" /\ (OnBus => OnBus')
      BY <1>6 DEF PowerOn, Steady, OnBus
    <2> QED BY <1>4, <2>1 DEF FbUsable
  <1>7. CASE PowerOff
    <2>1. ~(board = "fastboot" /\ selected)
      BY <1>7, Zenon DEF PowerOff, Leaves
    <2>2. /\ Uevents /\ fbOpen' = fbOpen /\ board' \in {"off", board}
          /\ ~FbUsable
      BY <1>7, <2>1 DEF PowerOff, Unplug, FbUsable, OnBus, Unselected
    <2>3. ~selected \/ ~OnBus
      BY <2>1 DEF OnBus
    <2> QED BY <1>4, <2>2, <2>3 DEF Steady
  <1>8. CASE Download
    <2>1. CASE UNCHANGED <<board, usb, udev, fbOpen>>
      BY <1>1, <1>2, <2>1
    <2>2. CASE ~UNCHANGED <<board, usb, udev, fbOpen>>
      <3>1. Boot(payload)
        BY <1>8, <2>2 DEF Download, Segfault
      <3>2. FbUsable
        <4>1. c2s # <<>> /\ c2s[1][1] = "download" /\ spc # "gone"
          BY <1>8 DEF Download, Takes
        <4>2. c2s \in Seq(Message) /\ c2s[1] \in Message
          BY <4>1, TailType DEF TypeOK, WireOK
        <4>3. c2s[1] \in Chunked
          BY <4>1, <4>2 DEF Chunked, Message
        <4> QED BY <4>1, <4>2, <4>3, HasTail
      <3>3. ~Refuses({payload})
        BY DEF Refuses
      <3> QED BY <3>1, <3>2, <3>3 DEF Boot
    <2> QED BY <2>1, <2>2
  <1>9. CASE StatusEnable \/ KeyPress \/ Console \/ Inform \/ Output
    BY <1>1, <1>2, <1>9
    DEF StatusEnable, KeyPress, Console, Inform, Output, Segfault, Survives,
        server
  <1>10. CASE UdevEvent
    <2>1. udev # <<>> /\ udev' = Tail(udev) /\ UNCHANGED <<board, usb>>
      BY <1>10 DEF UdevEvent
    <2>2. /\ Len(udev') = Len(udev) - 1 /\ Len(udev) \in Nat \ {0}
          /\ \A i \in 1 .. Len(udev') : udev'[i] = udev[i + 1]
      BY <1>0, <2>1
    <2>3. \A i \in 1 .. Len(udev') : udev'[i] # "remove"
      <3>1. \A i \in 1 .. Len(udev') : i + 1 \in 1 .. Len(udev)
        BY <2>2
      <3> QED BY <2>2, <3>1 DEF Steady
    <2>4. fbOpen => fbOpen'
      <3>1. udev[1] # "remove"
        BY <2>2 DEF Steady
      <3> QED BY <1>10, <3>1 DEF UdevEvent
    <2> QED BY <1>2, <2>1, <2>3, <2>4 DEF Steady, FbUsable, OnBus
  <1>11. CASE ServerEnd
    BY <1>11 DEF ServerEnd, Steady
  <1>12. CASE EntersFastboot
    <2>1. Uevents /\ fbOpen' = fbOpen /\ board' # "running" /\ ~OnBus
      BY <1>12 DEF EntersFastboot, OnBus
    <2> QED BY <1>4, <2>1 DEF FbUsable
  <1>13. CASE Resets
    <2>1. ~(board = "fastboot" /\ selected)
      BY <1>13, Zenon DEF Resets, Leaves
    <2>2. Uevents /\ fbOpen' = fbOpen /\ board' = "up" /\ ~FbUsable
      BY <1>13, <2>1 DEF Resets, Unplug, FbUsable, OnBus, Unselected
    <2>3. ~selected \/ ~OnBus
      BY <2>1 DEF OnBus
    <2> QED BY <1>4, <2>2, <2>3
  <1>14. CASE ActsLate
    <2>1. refused = "now" /\ refused' = "before"
      BY <1>14 DEF ActsLate, Starts, Unplug
    <2> QED BY <2>1
  <1> QED
    BY <1>5, <1>6, <1>7, <1>8, <1>9, <1>10, <1>11, <1>12, <1>13, <1>14
    DEF ServerNext, HandleStdin

LEMMA ServerDone ==
  ASSUME TypeOK, Unselected, ImageInv, DoneInv, ServerNext, UNCHANGED client
  PROVE  DoneInv'
  <1> SUFFICES ASSUME Faithful'
               PROVE  /\ NoContinue'
                      /\ \/ (File \in images)'
                         \/ (Unanswered /\ Steady /\ (InTransfer => Reaches))'
    BY DEF DoneInv
  <1>1. /\ Faithful
        /\ UNCHANGED <<opts, overlapped, crowded, flag, queued, inbox, offset>>
    <2>1. (left => left') /\ (refused # "no" => refused' # "no")
      BY ServerFrame
    <2>2. UNCHANGED <<opts, overlapped, crowded, flag, queued, inbox, offset>>
      BY DEF client
    <2>3. left \in BOOLEAN
      BY DEF TypeOK, ServerOK
    <2> QED BY <2>1, <2>2, <2>3 DEF Faithful
  <1>2. NoContinue
    BY <1>1 DEF DoneInv
  <1>3. /\ c2s \in Seq(Message) /\ s2c \in Seq(Message) /\ inbox \in Seq(Message)
    BY DEF TypeOK, WireOK, ClientOK
  <1>4. PICK ms : Says(ms)
    BY ServerSays
  <1>5. \A X : Has(s2c', X) => Has(s2c, X) \/ Has(ms, X)
    <2>1. ms \in Seq(Message) /\ (s2c' = s2c \/ s2c' = s2c \o ms)
      BY <1>4 DEF Says
    <2>2. \A X : Has(s2c \o ms, X) => Has(s2c, X) \/ Has(ms, X)
      BY <1>3, <2>1, HasConcat
    <2> QED BY <2>1, <2>2
  <1>6. \A X : Has(c2s', X) => Has(c2s, X)
    BY <1>3, ServerTakes, HasTail DEF TakesOther, TakesChunk, TakesNone
  <1>7. ~Continue
    <2> SUFFICES ASSUME Continue PROVE FALSE
      OBVIOUS
    <2>1. c2s # <<>> /\ c2s[1][1] = "continue"
      BY DEF Continue, Takes
    <2>2. c2s[1] \in Continues
      BY <1>3, <2>1, TailType DEF Continues, Message
    <2> QED BY <1>2, <1>3, <2>1, <2>2, HasTail DEF NoContinue
  <1>8. NoContinue'
    BY <1>1, <1>2, <1>4, <1>5, <1>6, <1>7 DEF NoContinue, Says
  <1>9. images' \subseteq {File} /\ images \subseteq images'
    <2>1. ImageInv'
      BY ServerImage
    <2> QED BY <1>1, <2>1, ServerTakes
            DEF ImageInv, Faithful, TakesOther, TakesChunk, TakesNone, Booted
  <1>10. CASE File \in images'
    BY <1>8, <1>10
  <1>11. CASE File \notin images'
    <2>1. Unanswered /\ Steady /\ (InTransfer => Reaches)
      BY <1>1, <1>9, <1>11 DEF DoneInv
    <2>2. payload \notin images'
      BY <1>9, <1>11
    <2>3. Steady' /\ (Reaches => Reaches')
      BY <1>7, <2>1, <2>2, BoardStays DEF Faithful, InTransfer
    <2>4. ~Has(ms, Chunked)
      BY <1>4, <2>1, <2>2 DEF Says, InTransfer, Reaches, Faithful
    <2>5. Unanswered'
      BY <1>1, <1>5, <2>1, <2>4 DEF Unanswered
    <2>6. InTransfer' => InTransfer \/ Has(ms, Appears)
      <3>1. payload' # <<>> => payload # <<>> \/ Has(c2s, Chunked)
        <4>1. CASE TakesChunk
          <5>1. c2s # <<>> /\ c2s[1][1] = "download"
            BY <4>1 DEF TakesChunk
          <5>2. c2s[1] \in Chunked
            BY <1>3, <5>1, TailType DEF Chunked, Message
          <5> QED BY <1>3, <5>1, <5>2, HasTail
        <4> QED BY <4>1, ServerTakes DEF TakesOther, TakesNone
      <3> QED BY <1>1, <1>5, <1>6, <3>1 DEF InTransfer, Live
    <2>7. InTransfer' => Reaches'
      BY <1>4, <2>1, <2>3, <2>6 DEF Says, Reaches
    <2> QED BY <1>8, <2>3, <2>5, <2>7
  <1> QED BY <1>10, <1>11

(* When the reply to the empty download makes the client take the boot.img *)
(* for booted, the board did boot it - unless it left fastboot otherwise,  *)
(* or refused what it was asked, or a second transfer ran into the first,  *)
(* or the work list is not sound.                                          *)
THEOREM DoneIsTrue == Spec => []DoneMeansBooted
  <1> DEFINE Done == Unselected /\ DoneInv
  <1>1. Init => Done
    <2> SUFFICES ASSUME Init PROVE Unselected /\ DoneInv
      OBVIOUS
    <2>1. /\ payload = <<>> /\ c2s = <<>> /\ s2c = <<>> /\ inbox = <<>>
          /\ udev = <<>> /\ fbOpen = FALSE /\ board # "running"
          /\ offset = [d \in Downloads |-> -1]
      BY DEF Init, WireInit, ClientInit, ServerInit
    <2>2. /\ opts.file => ~flag.cont
          /\ ~flag.done /\ "continue" \notin queued
      BY ClientAssumption DEF Init, ClientInit, Options, Verb
    <2>3. \A X : ~Has(<<>>, X)
      BY DEF Has
    <2>4. ~InTransfer
      BY <2>1, <2>3, ClientAssumption DEF InTransfer, Live
    <2> QED BY <2>1, <2>2, <2>3, <2>4
            DEF Unselected, DoneInv, Faithful, NoContinue, Unanswered, Steady
  <1>2. TypeOK /\ Ended /\ WorkInv /\ ImageInv /\ Done /\ [Next]_vars => Done'
    <2> SUFFICES ASSUME TypeOK, Ended, WorkInv, ImageInv, Unselected, DoneInv,
                        [Next]_vars
                 PROVE  Unselected' /\ DoneInv'
      OBVIOUS
    <2>1. CASE ClientNext /\ UNCHANGED server
      BY <2>1, ClientDone DEF server, Unselected
    <2>2. CASE ServerNext /\ UNCHANGED client
      BY <2>2, ServerDone, UnselectedStep
    <2>3. CASE UNCHANGED vars
      <3>1. /\ UNCHANGED <<opts, offset, inbox, flag, queued, crowded, overlapped>>
            /\ UNCHANGED <<spc, selected, payload, fbOpen, udev, board, usb, images>>
            /\ UNCHANGED <<left, refused>>
            /\ UNCHANGED <<c2s, s2c>>
        BY <2>3 DEF vars, client, server, wire
      <3> QED BY <3>1
              DEF Unselected, DoneInv, Faithful, NoContinue, Unanswered, Steady,
                  InTransfer, Live, Reaches, FbUsable, OnBus
    <2> QED BY <2>1, <2>2, <2>3 DEF Next
  <1>3. DoneInv => DoneMeansBooted
    BY DEF DoneInv, DoneMeansBooted, Faithful, Unanswered
  <1> QED BY <1>1, <1>2, <1>3, SessionTypes, InitWork, WorkStep, ImageStep, InitImage, PTL DEF Spec

-----------------------------------------------------------------------------
(***************************************************************************)
(* Whoever is not finished has something under way.                        *)
(***************************************************************************)

(* What select() brought is handled before the next.                       *)
AllHeard == cpc \notin {"tty", "stdout", "wait", "exited"} => inbox = <<>>

(* A board on the bus was plugged in after it was last unplugged.          *)
Plugged == selected /\ OnBus /\ udev # <<>> => udev[Len(udev)] = "add"

Going == Has(udev, {"remove"})

(* The server has a board open that is there, or will hear that it is not. *)
Attached == selected /\ spc # "gone" /\ fbOpen => OnBus \/ Going

LEMMA HeardStep ==
  ASSUME TypeOK, AllHeard, ClientNext
  PROVE  AllHeard'
  <1> USE DEF client, wire, list, state, hist, AllHeard
  <1>1. CASE Elapse
    BY <1>1 DEF Elapse
  <1>2. CASE LoopEnds
    BY <1>2 DEF LoopEnds
  <1>3. CASE PowerCycle
    BY <1>3 DEF PowerCycle, Arm, Die
  <1>4. CASE NoCycle
    BY <1>4 DEF NoCycle, Arm, Die
  <1>5. CASE SelectTimeout
    BY <1>5 DEF SelectTimeout
  <1>6. CASE SelectEOF
    BY <1>6 DEF SelectEOF
  <1>7. CASE HandleSelect
    BY <1>7 DEF HandleSelect, Handles
  <1>8. CASE HandleConsole
    BY <1>8 DEF HandleConsole, Handles
  <1>9. CASE HandlePowerOff
    BY <1>9 DEF HandlePowerOff, Handles
  <1>10. CASE HandlePresent
    BY <1>10 DEF HandlePresent, RequestFile, Die, Handles
  <1>11. CASE HandleDone
    BY <1>11 DEF HandleDone, Handles
  <1>12. CASE HandleList
    BY <1>12 DEF HandleList, Handles
  <1>13. CASE HandleInfo
    BY <1>13 DEF HandleInfo, Handles
  <1>14. CASE HandleOther
    BY <1>14 DEF HandleOther, Handles
  <1>15. CASE StdoutDone
    BY <1>15 DEF StdoutDone
  <1>16. CASE DrainStart
    BY <1>16 DEF DrainStart
  <1>17. CASE DrainEnd
    BY <1>17 DEF DrainEnd, Running
  <1>18. CASE Finish
    BY <1>18 DEF Finish
  <1>19. ASSUME NEW k \in 0 .. Len(s2c), Selects(k) PROVE AllHeard'
    <2>1. /\ inbox' = SubSeq(s2c, 1, k)
          /\ \/ cpc' \in {"tty", "stdout"}
             \/ ~(k > 0)
      BY <1>19 DEF Selects, SelectReady
    <2>2. CASE ~(k > 0)
      <3>1. k = 0 /\ s2c \in Seq(Message)
        BY <1>19, <2>2 DEF TypeOK, WireOK
      <3> QED BY <2>1, <3>1
    <2> QED BY <2>1, <2>2
  <1>20. ASSUME NEW key \in Keys, TtyCallback(key) PROVE AllHeard'
    BY <1>20 DEF TtyCallback, Die
  <1>21. ASSUME NEW node \in Requests, RunRequest(node) PROVE AllHeard'
    BY <1>21 DEF RunRequest, Broken, Die, Running
  <1>22. ASSUME NEW d \in Downloads, RunDownload(d) PROVE AllHeard'
    BY <1>22 DEF RunDownload, Broken, Die, Running
  <1> HIDE DEF AllHeard
  <1> QED
    BY SelectSplit, <1>1, <1>2, <1>3, <1>4, <1>5, <1>6, <1>7, <1>8, <1>9,
       <1>10, <1>11, <1>12, <1>13, <1>14, <1>15, <1>16, <1>17, <1>18, <1>19,
       <1>20, <1>21, <1>22 DEF ClientNext, Loop, HandleMessage, Drain

(* The converses of the lemmas on Has above.                               *)
LEMMA HasOnTail ==
  ASSUME NEW s \in Seq(Message), s # <<>>, NEW X, Has(s, X), s[1] \notin X
  PROVE  Has(Tail(s), X)
  <1>1. PICK i \in 1 .. Len(s) : s[i] \in X
    BY DEF Has
  <1>2. /\ i - 1 \in 1 .. Len(Tail(s)) /\ Tail(s)[i - 1] = s[i]
    BY <1>1
  <1> QED BY <1>1, <1>2 DEF Has

LEMMA HasOnAppend ==
  ASSUME NEW s \in Seq(Message), NEW m, NEW X, Has(s, X) \/ m \in X
  PROVE  Has(Append(s, m), X)
  <1>1. /\ Len(Append(s, m)) = Len(s) + 1 /\ Len(s) \in Nat
        /\ \A i \in 1 .. Len(s) : Append(s, m)[i] = s[i]
        /\ Append(s, m)[Len(s) + 1] = m
    OBVIOUS
  <1>2. Len(s) + 1 \in 1 .. (Len(s) + 1)
        /\ \A i \in 1 .. Len(s) : i \in 1 .. (Len(s) + 1)
    BY <1>1
  <1> QED BY <1>1, <1>2 DEF Has

LEMMA HasOnConcat ==
  ASSUME NEW s \in Seq(Message), NEW t \in Seq(Message), NEW X,
         Has(s, X) \/ Has(t, X)
  PROVE  Has(s \o t, X)
  <1>1. /\ Len(s) \in Nat /\ Len(t) \in Nat /\ Len(s \o t) = Len(s) + Len(t)
        /\ \A i \in 1 .. (Len(s) + Len(t)) :
             (s \o t)[i] = IF i <= Len(s) THEN s[i] ELSE t[i - Len(s)]
    BY ConcatProperties
  <1>2. CASE Has(s, X)
    <2>1. PICK i \in 1 .. Len(s) : s[i] \in X
      BY <1>2 DEF Has
    <2>2. i \in 1 .. (Len(s) + Len(t)) /\ i <= Len(s)
      BY <1>1
    <2> QED BY <1>1, <2>1, <2>2 DEF Has
  <1>3. CASE Has(t, X)
    <2>1. PICK i \in 1 .. Len(t) : t[i] \in X
      BY <1>3 DEF Has
    <2>2. /\ Len(s) + i \in 1 .. (Len(s) + Len(t)) /\ ~(Len(s) + i <= Len(s))
          /\ (Len(s) + i) - Len(s) = i
      BY <1>1
    <2> QED BY <1>1, <2>1, <2>2 DEF Has
  <1> QED BY <1>2, <1>3

LEMMA HasOnSplit ==
  ASSUME NEW s \in Seq(Message), NEW k \in 0 .. Len(s), NEW X, Has(s, X)
  PROVE  Has(SubSeq(s, 1, k), X) \/ Has(SubSeq(s, k + 1, Len(s)), X)
  <1>1. PICK i \in 1 .. Len(s) : s[i] \in X
    BY DEF Has
  <1>2. CASE i <= k
    <2>1. i \in 1 .. Len(SubSeq(s, 1, k)) /\ SubSeq(s, 1, k)[i] = s[i]
      BY <1>2
    <2> QED BY <1>1, <2>1 DEF Has
  <1>3. CASE i > k
    <2>1. /\ i - k \in 1 .. Len(SubSeq(s, k + 1, Len(s)))
          /\ SubSeq(s, k + 1, Len(s))[i - k] = s[i]
      BY <1>3
    <2> QED BY <1>1, <2>1 DEF Has
  <1> QED BY <1>2, <1>3

(* What the client was told it hears: the message stays on its way until   *)
(* it is handled.                                                          *)
LEMMA ToldStays ==
  ASSUME TypeOK, AllHeard, Hears, NEW M, Told(M)
  PROVE  \/ Told(M)'
         \/ HandleMessage /\ inbox # <<>> /\ inbox[1] \in M
  <1>1. s2c \in Seq(Message) /\ inbox \in Seq(Message)
    BY DEF TypeOK, WireOK, ClientOK
  <1>2. CASE UNCHANGED <<inbox, s2c>>
    BY <1>2 DEF Told
  <1>3. CASE HandleMessage /\ inbox # <<>> /\ inbox' = Tail(inbox) /\ UNCHANGED s2c
    BY <1>1, <1>3, HasOnTail DEF Told
  <1>4. ASSUME cpc = "select", NEW k \in 0 .. Len(s2c),
               inbox' = SubSeq(s2c, 1, k), s2c' = SubSeq(s2c, k + 1, Len(s2c))
        PROVE  Told(M)'
    <2>1. inbox = <<>>
      BY <1>4 DEF AllHeard
    <2>2. ~Has(inbox, M)
      BY <2>1 DEF Has
    <2> QED BY <1>1, <1>4, <2>2, HasOnSplit DEF Told
  <1> QED BY <1>2, <1>3, <1>4 DEF Hears

(* The work that answers a board in fastboot.                              *)
Answering == {"continue"} \cup Downloads

(* Work leaves the list when its message is sent, a download's when that   *)
(* is the last one.                                                        *)
Works ==
  \/ queued \subseteq queued'
  \/ \E node \in Requests :
       /\ queued' = queued \ {node}
       /\ node = "status" \/ c2s' = Append(c2s, MsgOf(node))
  \/ \E d \in Downloads :
       queued' = queued \ {d} /\ c2s' = Append(c2s, Msg("download"))

Keeps == /\ flag.quit => flag'.quit
         /\ flag'.auto => flag.auto \/ "off" \in queued'

LEMMA ClientWorks ==
  ASSUME TypeOK, ClientNext, ~clientGone'
  PROVE  Works /\ Keeps
  <1> USE DEF client, wire, list, state, hist, Works, Keeps
  <1>0. flag \in Flags
    BY DEF TypeOK, ClientOK
  <1>1. CASE Elapse
    BY <1>1 DEF Elapse
  <1>2. CASE LoopEnds
    BY <1>2 DEF LoopEnds
  <1>3. CASE PowerCycle
    <2>1. queued' = queued \cup {"off"}
      BY <1>3 DEF PowerCycle, Request
    <2>2. flag'.quit = flag.quit
      BY <1>0, <1>3 DEF PowerCycle, Flags
    <2> QED BY <2>1, <2>2
  <1>4. CASE NoCycle
    BY <1>4 DEF NoCycle
  <1>5. CASE SelectTimeout
    BY <1>0, <1>5 DEF SelectTimeout, Flags
  <1>6. CASE SelectEOF
    BY <1>6 DEF SelectEOF
  <1>7. CASE HandleSelect
    BY <1>7 DEF HandleSelect, Request
  <1>8. CASE HandleConsole
    <2>1. UNCHANGED queued
      BY <1>8 DEF HandleConsole
    <2>2. flag'.quit = flag.quit /\ flag'.auto = flag.auto
      BY <1>0, <1>8 DEF HandleConsole, Flags
    <2> QED BY <2>1, <2>2
  <1>9. CASE HandlePowerOff
    BY <1>9 DEF HandlePowerOff, Request
  <1>10. CASE HandleDone
    BY <1>0, <1>10 DEF HandleDone, Flags
  <1>11. CASE HandleList
    BY <1>0, <1>11 DEF HandleList, Flags
  <1>12. CASE HandleInfo
    BY <1>12 DEF HandleInfo
  <1>13. CASE HandleOther
    BY <1>13 DEF HandleOther
  <1>14. CASE StdoutDone
    BY <1>14 DEF StdoutDone
  <1>15. CASE DrainStart
    BY <1>15 DEF DrainStart
  <1>16. CASE DrainEnd
    BY <1>16 DEF DrainEnd
  <1>17. CASE Finish
    BY <1>17 DEF Finish
  <1>18. CASE HandlePresent
    <2>1. queued \subseteq queued'
      BY <1>18 DEF HandlePresent, RequestFile, Request
    <2>2. flag' \in {flag, [flag EXCEPT !.cont = FALSE], [flag EXCEPT !.quit = TRUE]}
      BY <1>18 DEF HandlePresent
    <2>3. (flag.quit => flag'.quit) /\ flag'.auto = flag.auto
      BY <1>0, <2>2 DEF Flags
    <2> QED BY <2>1, <2>3
  <1>19. ASSUME NEW k \in 0 .. Len(s2c), Selects(k) PROVE Works /\ Keeps
    BY <1>19 DEF Selects, SelectReady
  <1>20. ASSUME NEW key \in Keys, TtyCallback(key) PROVE Works /\ Keeps
    <2>1. UNCHANGED queued
      BY <1>20 DEF TtyCallback
    <2>2. UNCHANGED flag \/ flag' = [flag EXCEPT !.quit = @ \/ key = "quit"]
      BY <1>20 DEF TtyCallback
    <2>3. (flag.quit => flag'.quit) /\ flag'.auto = flag.auto
      BY <1>0, <2>2 DEF Flags
    <2> QED BY <2>1, <2>3
  <1>21. ASSUME NEW node \in Requests, RunRequest(node) PROVE Works /\ Keeps
    <2>1. queued' = queued \ {node} /\ UNCHANGED flag
      BY <1>21 DEF RunRequest
    <2>2. node = "status" \/ c2s' = Append(c2s, MsgOf(node))
      BY <1>21 DEF RunRequest, Broken, Die
    <2> QED BY <2>1, <2>2
  <1>22. ASSUME NEW d \in Downloads, RunDownload(d) PROVE Works /\ Keeps
    <2>1. UNCHANGED flag
      BY <1>22 DEF RunDownload
    <2>2. CASE Room /\ offset[d] = Chunks
      <3>1. queued' = queued \ {d}
        BY <1>22, <2>2 DEF RunDownload
      <3>2. c2s' = Append(c2s, <<"download", IF offset[d] < Chunks
                                               THEN offset[d] + 1 ELSE 0>>)
        BY <1>22, <2>2 DEF RunDownload, Broken, Die
      <3>3. ~(offset[d] < Chunks)
        BY <2>2, ClientAssumption
      <3> QED BY <2>1, <3>1, <3>2, <3>3 DEF Msg
    <2>3. CASE ~(Room /\ offset[d] = Chunks)
      BY <1>22, <2>1, <2>3 DEF RunDownload
    <2> QED BY <2>2, <2>3
  <1> HIDE DEF Works, Keeps
  <1> QED
    BY SelectSplit, <1>1, <1>2, <1>3, <1>4, <1>5, <1>6, <1>7, <1>8, <1>9,
       <1>10, <1>11, <1>12, <1>13, <1>14, <1>15, <1>16, <1>17, <1>18, <1>19,
       <1>20, <1>21, <1>22 DEF ClientNext, Loop, HandleMessage, Drain

(* What the client does about what it is told.                             *)
LEMMA Heeded ==
  ASSUME TypeOK, HandleMessage, ~clientGone'
  PROVE  /\ inbox[1] \in {Msg("power_off"), Msg("select")} /\ flag.auto
              => "on" \in queued'
         /\ inbox[1] = <<"present", 1>>
              => Answering \cap queued' # {} \/ flag'.quit
  <1>0. flag \in Flags
    BY DEF TypeOK, ClientOK
  <1>1. CASE inbox[1] = Msg("power_off")
    <2>1. inbox[1][1] = "power_off" /\ inbox[1] # <<"present", 1>>
      BY <1>1 DEF Msg
    <2>2. HandlePowerOff
      BY <2>1 DEF HandleMessage, HandleSelect, HandleConsole, HandlePresent,
                  HandleDone, HandleList, HandleInfo, HandleOther, Handles
    <2> QED BY <2>1, <2>2 DEF HandlePowerOff, Request
  <1>2. CASE inbox[1] = Msg("select")
    <2>1. inbox[1][1] = "select" /\ inbox[1] # <<"present", 1>>
      BY <1>2 DEF Msg
    <2>2. HandleSelect
      BY <2>1 DEF HandleMessage, HandlePowerOff, HandleConsole, HandlePresent,
                  HandleDone, HandleList, HandleInfo, HandleOther, Handles
    <2> QED BY <2>1, <2>2 DEF HandleSelect, Request
  <1>3. CASE inbox[1] = <<"present", 1>>
    <2>1. inbox[1][1] = "present" /\ inbox[1][2] = 1
          /\ inbox[1] \notin {Msg("power_off"), Msg("select")}
      BY <1>3 DEF Msg
    <2>2. HandlePresent
      BY <2>1 DEF HandleMessage, HandlePowerOff, HandleConsole, HandleSelect,
                  HandleDone, HandleList, HandleInfo, HandleOther, Handles
    <2>3. CASE flag.cont
      BY <2>1, <2>2, <2>3 DEF HandlePresent, Request, Answering
    <2>4. CASE ~flag.cont /\ (~flag.done \/ opts.repeat)
      <3>1. RequestFile
        BY <2>1, <2>2, <2>4 DEF HandlePresent
      <3>2. opts.file
        BY <3>1 DEF RequestFile, Die
      <3> DEFINE d == CHOOSE e \in Downloads : offset[e] = -1
      <3>3. d \in Downloads /\ queued' = queued \cup {d}
        BY <3>1, <3>2 DEF RequestFile, Request
      <3> QED BY <2>1, <3>3 DEF Answering
    <2>5. CASE ~flag.cont /\ ~(~flag.done \/ opts.repeat)
      <3>1. flag' = [flag EXCEPT !.quit = TRUE]
        BY <2>1, <2>2, <2>5 DEF HandlePresent
      <3> QED BY <1>0, <2>1, <3>1 DEF Flags
    <2> QED BY <2>3, <2>4, <2>5
  <1> QED BY <1>1, <1>2, <1>3

LEMMA SentStays ==
  ASSUME TypeOK, Framed, NEW M, Has(c2s, M)
  PROVE  Has(c2s', M)
  <1>1. c2s \in Seq(Message)
    BY DEF TypeOK, WireOK
  <1>2. CASE c2s' = c2s
    BY <1>2
  <1>3. ASSUME NEW m, c2s' = Append(c2s, m) PROVE Has(c2s', M)
    BY <1>1, <1>3, HasOnAppend
  <1> QED BY <1>2, <1>3 DEF Framed

LEMMA ClientPower ==
  ASSUME TypeOK, AllHeard, PowerComesBack, ClientNext, UNCHANGED server
  PROVE  PowerComesBack'
  <1> DEFINE Orders == {Msg("power_off"), Msg("power_on")}
             Replies == {Msg("power_off"), Msg("select")}
             Goal == \/ {"off", "on"} \cap queued # {}
                     \/ Has(c2s, Orders) \/ Told(Replies)
  <1>1. SUFFICES ASSUME InSession', flag'.auto, board' = "off"
                 PROVE  Goal'
    BY DEF PowerComesBack
  <1>2. ~clientGone' /\ Framed /\ Hears /\ c2s \in Seq(Message)
    BY <1>1, ClientFrame, ClientHears DEF InSession, TypeOK, WireOK
  <1>3. ~clientGone
    BY <1>2 DEF Framed
  <1>4. InSession /\ board = "off"
    BY <1>1, <1>3 DEF InSession, server
  <1>5. Works /\ Keeps
    BY <1>2, ClientWorks
  <1>6. CASE "off" \in queued'
    BY <1>6
  <1>7. CASE flag.auto
    <2>1. Goal
      BY <1>4, <1>7 DEF PowerComesBack
    <2>2. CASE {"off", "on"} \cap queued # {}
      <3>1. CASE queued \subseteq queued'
        BY <2>2, <3>1
      <3>2. ASSUME NEW node \in Requests, queued' = queued \ {node},
                   node = "status" \/ c2s' = Append(c2s, MsgOf(node))
            PROVE  Goal'
        <4>1. CASE node \in {"off", "on"}
          <5>1. MsgOf(node) \in Orders
            BY <4>1 DEF MsgOf
          <5>2. c2s' = Append(c2s, MsgOf(node))
            BY <3>2, <4>1
          <5> QED BY <1>2, <5>1, <5>2, HasOnAppend
        <4>2. CASE node \notin {"off", "on"}
          BY <2>2, <3>2, <4>2
        <4> QED BY <4>1, <4>2
      <3>3. ASSUME NEW d \in Downloads, queued' = queued \ {d} PROVE Goal'
        <4>1. d \notin {"off", "on"}
          BY ClientAssumption DEF Requests
        <4> QED BY <2>2, <3>3, <4>1
      <3> QED BY <1>5, <3>1, <3>2, <3>3 DEF Works
    <2>3. CASE Has(c2s, Orders)
      BY <1>2, <2>3, SentStays
    <2>4. CASE Told(Replies)
      <3>1. CASE Told(Replies)'
        BY <3>1
      <3>2. CASE HandleMessage /\ inbox # <<>> /\ inbox[1] \in Replies
        BY <1>2, <1>7, <3>2, Heeded
      <3> QED BY <1>2, <2>4, <3>1, <3>2, ToldStays
    <2> QED BY <2>1, <2>2, <2>3, <2>4
  <1> QED BY <1>1, <1>5, <1>6, <1>7 DEF Keeps

(* The announcement of the board is queued.                                *)
Awaits == ~FbUsable /\ udev # <<>> /\ udev[Len(udev)] = "add"

LEMMA ClientAnswers ==
  ASSUME TypeOK, AllHeard, FastbootIsAnswered, ClientNext, UNCHANGED server
  PROVE  FastbootIsAnswered'
  <1> DEFINE Present == {<<"present", 1>>}
             Finals == {Msg("continue"), Msg("download")}
             Goal == \/ Told(Present) \/ Answering \cap queued # {}
                     \/ Has(c2s, Finals) \/ flag.quit
  <1>1. SUFFICES ASSUME InSession', OnBus', refused' # "now", ~Awaits'
                 PROVE  (FbUsable /\ Goal)'
    BY DEF FastbootIsAnswered, Answering, Awaits
  <1>2. ~clientGone' /\ Framed /\ Hears /\ c2s \in Seq(Message)
    BY <1>1, ClientFrame, ClientHears DEF InSession, TypeOK, WireOK
  <1>3. ~clientGone
    BY <1>2 DEF Framed
  <1>4. InSession /\ OnBus /\ refused # "now" /\ ~Awaits
    BY <1>1, <1>3 DEF InSession, OnBus, Awaits, FbUsable, server
  <1>5. Works /\ Keeps
    BY <1>2, ClientWorks
  <1>6. FbUsable /\ Goal
    BY <1>4 DEF FastbootIsAnswered, Answering, Awaits
  <1>7. SUFFICES Goal'
    BY <1>6 DEF server, FbUsable, OnBus
  <1>8. CASE Told(Present)
    <2>1. CASE Told(Present)'
      BY <2>1
    <2>2. CASE HandleMessage /\ inbox # <<>> /\ inbox[1] \in Present
      BY <1>2, <2>2, Heeded
    <2> QED BY <1>2, <1>8, <2>1, <2>2, ToldStays
  <1>9. CASE Answering \cap queued # {}
    <2>1. CASE queued \subseteq queued'
      BY <1>9, <2>1
    <2>2. ASSUME NEW node \in Requests, queued' = queued \ {node},
                 node = "status" \/ c2s' = Append(c2s, MsgOf(node))
          PROVE  Goal'
      <3>1. CASE node = "continue"
        <4>1. MsgOf(node) \in Finals
          BY <3>1 DEF MsgOf
        <4>2. c2s' = Append(c2s, MsgOf(node))
          BY <2>2, <3>1
        <4> QED BY <1>2, <4>1, <4>2, HasOnAppend
      <3>2. CASE node # "continue"
        <4>1. node \notin Answering
          BY <3>2, ClientAssumption DEF Answering
        <4> QED BY <1>9, <2>2, <4>1
      <3> QED BY <3>1, <3>2
    <2>3. ASSUME NEW d \in Downloads, c2s' = Append(c2s, Msg("download"))
          PROVE  Goal'
      BY <1>2, <2>3, HasOnAppend
    <2> QED BY <1>5, <2>1, <2>2, <2>3 DEF Works
  <1>10. CASE Has(c2s, Finals)
    BY <1>2, <1>10, SentStays
  <1>11. CASE flag.quit
    BY <1>5, <1>11 DEF Keeps
  <1> QED BY <1>6, <1>8, <1>9, <1>10, <1>11

(* What becomes of the monitor's queue and of the open board.              *)
LEMMA Monitored ==
  ASSUME TypeOK, ServerNext
  PROVE  \/ SelectBoard
         \/ UdevEvent
         \/ UNCHANGED <<selected, udev, fbOpen, board, usb>>
         \/ UNCHANGED <<selected, fbOpen>> /\ Uevents
         \/ ServerEnd
  <1> USE DEF wire
  <1>1. CASE PowerOn \/ PowerOff
    BY <1>1 DEF PowerOn, PowerOff, Unplug
  <1>2. CASE Download
    BY <1>2 DEF Download, Segfault, Boot, Starts, Refuses, NotAsked, Unplug
  <1>3. CASE Continue
    BY <1>3 DEF Continue, Segfault, Starts, Refuses, NotAsked, Unplug
  <1>4. CASE StatusEnable \/ KeyPress \/ Console \/ Inform \/ Output
    BY <1>4 DEF StatusEnable, KeyPress, Console, Inform, Output, Segfault,
                Survives, server
  <1>5. CASE ServerEnd \/ EntersFastboot \/ Resets \/ ActsLate
    BY <1>5 DEF ServerEnd, EntersFastboot, Resets, ActsLate, Starts, Unplug
  <1> QED BY <1>1, <1>2, <1>3, <1>4, <1>5 DEF ServerNext, HandleStdin

(* The queue without its first uevent. *)
LEMMA UdevTail ==
  ASSUME TypeOK, udev # <<>>, udev' = Tail(udev)
  PROVE  /\ udev[1] \in {"add", "remove"}
         /\ udev' # <<>> => udev'[Len(udev')] = udev[Len(udev)]
         /\ udev' = <<>> => udev[Len(udev)] = udev[1] /\ Len(udev) = 1
         /\ Going <=> udev[1] = "remove" \/ Going'
         /\ Going' <=> \E i \in 2 .. Len(udev) : udev[i] = "remove"
  <1>1. udev \in Seq({"add", "remove"})
    BY DEF TypeOK, ServerOK
  <1>2. /\ Len(udev') = Len(udev) - 1 /\ Len(udev) \in Nat \ {0}
        /\ \A i \in 1 .. Len(udev') : udev'[i] = udev[i + 1]
        /\ udev[1] \in {"add", "remove"}
    BY <1>1
  <1>3. ASSUME udev' # <<>> PROVE Len(udev') # 0
    BY <1>1, <1>3
  <1>4. ASSUME udev' = <<>> PROVE Len(udev) = 1
    <2>1. Len(udev) \in Nat \ {0} /\ Len(Tail(udev)) = Len(udev) - 1
      BY <1>1
    <2>2. Tail(udev) = <<>>
      BY <1>4, Zenon
    <2> QED BY <2>1, <2>2
  <1>5. /\ \A i \in 1 .. Len(udev') : /\ i + 1 \in 2 .. Len(udev)
                                       /\ udev'[i] = udev[i + 1]
        /\ \A i \in 2 .. Len(udev) : /\ i - 1 \in 1 .. Len(udev')
                                     /\ i \in 1 .. Len(udev)
                                     /\ udev[i] = udev'[i - 1]
        /\ \A i \in 1 .. Len(udev) : i = 1 \/ i \in 2 .. Len(udev)
        /\ 1 \in 1 .. Len(udev)
    BY <1>2
  <1>6. Going' <=> \E i \in 2 .. Len(udev) : udev[i] = "remove"
    BY <1>2, <1>5 DEF Going, Has
  <1>7. Going <=> udev[1] = "remove" \/ \E i \in 2 .. Len(udev) : udev[i] = "remove"
    BY <1>5 DEF Going, Has
  <1> QED BY <1>2, <1>3, <1>4, <1>6, <1>7

LEMMA PluggedStep ==
  ASSUME TypeOK, Plugged, Attached, ServerNext
  PROVE  Plugged' /\ Attached'
  <1>1. CASE SelectBoard
    <2>1. CASE known
      <3>1. /\ udev' = <<"add">> \/ udev' = <<>>
            /\ fbOpen' = OnBus /\ UNCHANGED <<board, usb>>
        BY <1>1, <2>1 DEF SelectBoard
      <3>2. fbOpen' => OnBus
        BY <3>1, Zenon
      <3> QED BY <3>1, <3>2 DEF Plugged, Attached, OnBus
    <2>2. CASE ~known
      <3>1. UNCHANGED <<selected, udev, fbOpen, board, usb>> /\ spc # "gone"
        BY <1>1, <2>2 DEF SelectBoard, Takes
      <3> QED BY <3>1 DEF Plugged, Attached, OnBus, Going, Has
    <2> QED BY <2>1, <2>2
  <1>2. CASE UdevEvent
    <2>1. udev # <<>> /\ udev' = Tail(udev) /\ UNCHANGED <<board, usb, selected>>
          /\ spc # "gone"
      BY <1>2 DEF UdevEvent
    <2>2. Plugged'
      BY <2>1, UdevTail DEF Plugged, OnBus
    <2>3. Attached'
      <3>1. CASE udev[1] = "remove"
        <4>1. fbOpen' = FALSE \/ (fbOpen' = fbOpen /\ ~fbOpen)
          BY <1>2, <3>1 DEF UdevEvent
        <4> QED BY <4>1 DEF Attached
      <3>2. CASE udev[1] = "add"
        <4>1. fbOpen' = fbOpen \/ OnBus
          BY <1>2, <3>2 DEF UdevEvent
        <4> QED BY <2>1, <3>2, <4>1, UdevTail DEF Attached, OnBus
      <3> QED BY <2>1, <3>1, <3>2, UdevTail
    <2> QED BY <2>2, <2>3
  <1>3. CASE UNCHANGED <<selected, udev, fbOpen, board, usb>>
    BY <1>3, ServerTakes DEF Plugged, Attached, OnBus, Going, Has
  <1>4. CASE UNCHANGED <<selected, fbOpen>> /\ Uevents
    <2>1. Plugged'
      <3> SUFFICES ASSUME selected, OnBus', udev' # <<>>
                   PROVE  udev'[Len(udev')] = "add"
        BY <1>4 DEF Plugged
      <3>1. CASE udev' = udev
        BY <1>4, <3>1, OneUevent DEF Plugged
      <3> QED BY <1>4, <3>1, OneUevent
    <2>2. Attached'
      <3> SUFFICES ASSUME selected, spc' # "gone", fbOpen, ~OnBus'
                   PROVE  Going'
        BY <1>4 DEF Attached
      <3>1. spc # "gone"
        BY ServerTakes
      <3>2. CASE Going
        BY <1>4, <3>2, OneUevent DEF Going
      <3>3. CASE OnBus
        BY <1>4, <3>3, OneUevent DEF Going
      <3> QED BY <3>1, <3>2, <3>3 DEF Attached
    <2> QED BY <2>1, <2>2
  <1>5. CASE ServerEnd
    <2>1. /\ selected' = selected /\ udev' = udev /\ (selected => board' = "off")
          /\ spc' = "gone"
      BY <1>5 DEF ServerEnd
    <2> QED BY <2>1 DEF Plugged, Attached, OnBus
  <1> QED BY <1>1, <1>2, <1>3, <1>4, <1>5, Monitored

(* What is on its way to the client is not taken back.                     *)
LEMMA StaysTold ==
  ASSUME TypeOK, ServerNext, UNCHANGED client, NEW M, Told(M)
  PROVE  Told(M)'
  <1>1. PICK ms \in Seq(Message) : s2c' = s2c \/ s2c' = s2c \o ms
    BY ServerSays DEF Says
  <1>2. s2c \in Seq(Message)
    BY DEF TypeOK, WireOK
  <1>3. Has(s2c, M) => Has(s2c', M)
    BY <1>1, <1>2, HasOnConcat
  <1>4. inbox' = inbox
    BY DEF client
  <1> QED BY <1>3, <1>4 DEF Told

(* Send() reaches a client that is there.                                  *)
LEMMA SendTells ==
  ASSUME TypeOK, ~clientGone, NEW ms \in Seq(Message), Send(ms),
         NEW M, Has(ms, M)
  PROVE  Told(M)'
  <1>1. s2c' = s2c \o ms /\ s2c \in Seq(Message)
    BY DEF Send, TypeOK, WireOK
  <1> QED BY <1>1, HasOnConcat DEF Told

(* The server leaves the messages to it, or takes the first one off.       *)
Spares(M) == \/ UNCHANGED c2s
             \/ c2s # <<>> /\ c2s' = Tail(c2s) /\ c2s[1] \notin M

LEMMA ServerPower ==
  ASSUME TypeOK, PowerComesBack, ServerNext, UNCHANGED client
  PROVE  PowerComesBack'
  <1> DEFINE Orders == {Msg("power_off"), Msg("power_on")}
             Replies == {Msg("power_off"), Msg("select")}
             Goal == \/ {"off", "on"} \cap queued # {}
                     \/ Has(c2s, Orders) \/ Told(Replies)
  <1>1. SUFFICES ASSUME InSession', flag'.auto, board' = "off"
                 PROVE  Goal'
    BY DEF PowerComesBack
  <1>2. /\ ~clientGone /\ spc # "gone" /\ spc' # "gone" /\ selected'
        /\ flag.auto /\ UNCHANGED <<queued, flag>> /\ c2s \in Seq(Message)
    BY <1>1, ServerFrame, ServerTakes
    DEF InSession, TypeOK, WireOK, client, state, hist
  <1>3. ASSUME UNCHANGED selected, board = "off", Spares(Orders) PROVE Goal'
    <2>1. Goal
      BY <1>2, <1>3 DEF PowerComesBack, InSession
    <2>2. Has(c2s, Orders) => Has(c2s', Orders)
      BY <1>2, <1>3, HasOnTail DEF Spares
    <2>3. Told(Replies) => Told(Replies)'
      BY StaysTold
    <2> QED BY <1>2, <2>1, <2>2, <2>3
  <1>4. /\ << Msg("select") >> \in Seq(Message)
        /\ << Msg("power_off") >> \in Seq(Message)
        /\ << <<"present", 1>>, Msg("select") >> \in Seq(Message)
    BY MessageTypes DEF Types
  <1>5. /\ Has(<< Msg("select") >>, Replies)
        /\ Has(<< Msg("power_off") >>, Replies)
        /\ Has(<< <<"present", 1>>, Msg("select") >>, Replies)
    <2>1. Msg("select") \in Replies /\ Msg("power_off") \in Replies
      OBVIOUS
    <2> HIDE DEF Replies
    <2> QED BY <2>1 DEF Has
  <1> HIDE DEF Replies
  <1>6. CASE SelectBoard
    <2>1. CASE known
      <3>1. \/ Send(<< <<"present", 1>>, Msg("select") >>)
            \/ Send(<< Msg("select") >>)
        BY <1>6, <2>1 DEF SelectBoard
      <3>2. Told(Replies)'
        BY <1>2, <1>4, <1>5, <3>1, SendTells
      <3> QED BY <3>2
    <2>2. CASE ~known
      <3>1. s2c' = Append(s2c, Msg("select")) /\ s2c \in Seq(Message)
        BY <1>6, <2>2 DEF SelectBoard, TypeOK, WireOK
      <3>2. Msg("select") \in Replies
        BY DEF Replies
      <3>3. Told(Replies)'
        BY <3>1, <3>2, HasOnAppend DEF Told
      <3> QED BY <3>3
    <2> QED BY <2>1, <2>2
  <1>7. CASE PowerOff
    <2>1. Told(Replies)'
      BY <1>2, <1>4, <1>5, <1>7, SendTells DEF PowerOff
    <2> QED BY <2>1
  <1>8. CASE PowerOn
    BY <1>1, <1>2, <1>8 DEF PowerOn
  <1>9. CASE ServerEnd
    BY <1>2, <1>9 DEF ServerEnd
  <1>10. CASE Download
    <2>1. ~Segfault /\ Takes("download")
      BY <1>2, <1>10 DEF Download, Segfault
    <2>3. Spares(Orders)
      BY <2>1 DEF Takes, Spares, Msg
    <2>2. UNCHANGED selected /\ board' \in {"running", board}
      BY <1>10, <2>1
      DEF Download, Survives, Boot, Starts, Refuses, NotAsked
    <2> QED BY <1>1, <1>3, <2>2, <2>3
  <1>11. CASE Continue
    <2>1. ~Segfault /\ Takes("continue")
      BY <1>2, <1>11 DEF Continue, Segfault
    <2>3. Spares(Orders)
      BY <2>1 DEF Takes, Spares, Msg
    <2>2. UNCHANGED selected /\ board' \in {"running", board}
      BY <1>11, <2>1 DEF Continue, Survives, Starts, Refuses, NotAsked
    <2> QED BY <1>1, <1>3, <2>2, <2>3
  <1>12. CASE StatusEnable \/ KeyPress
    <2>1. ~Segfault /\ (Takes("status") \/ Takes("key"))
      BY <1>2, <1>12 DEF StatusEnable, KeyPress, Segfault
    <2>3. Spares(Orders)
      BY <2>1 DEF Takes, Spares, Msg
    <2>2. UNCHANGED <<selected, board>>
      BY <1>12, <2>1 DEF StatusEnable, KeyPress, Survives
    <2> QED BY <1>1, <1>3, <2>2, <2>3
  <1>13. CASE Console
    BY <1>1, <1>3, <1>13 DEF Console, server, Takes, Spares, Msg
  <1>14. CASE Inform
    BY <1>1, <1>3, <1>14 DEF Inform, Takes, Spares, Msg
  <1>15. CASE UdevEvent \/ Output \/ EntersFastboot \/ Resets
             \/ ActsLate
    BY <1>1, <1>3, <1>15
    DEF UdevEvent, Output, EntersFastboot, Resets, ActsLate, Starts, Spares,
        wire
  <1> QED
    BY <1>6, <1>7, <1>8, <1>9, <1>10, <1>11, <1>12, <1>13, <1>14, <1>15
    DEF ServerNext, HandleStdin

(* A board that refused is not asked again where it is.                    *)
LEMMA RefusalEnds ==
  ASSUME ServerNext, selected, refused = "now", refused' # "now"
  PROVE  ~OnBus'
  <1> USE DEF wire, OnBus
  <1>1. CASE SelectBoard \/ PowerOn \/ StatusEnable \/ KeyPress \/ Console \/ Inform
    BY <1>1 DEF SelectBoard, PowerOn, StatusEnable, KeyPress, Console, Inform,
                Segfault, server
  <1>2. CASE PowerOff \/ Resets \/ ActsLate
    BY <1>2 DEF PowerOff, Resets, ActsLate, Starts
  <1>3. CASE Download
    BY <1>3 DEF Download, Segfault, Boot, Starts, Refuses, NotAsked
  <1>4. CASE Continue
    BY <1>4 DEF Continue, Segfault, Starts, Refuses, NotAsked
  <1>5. CASE UdevEvent \/ ServerEnd \/ Output \/ EntersFastboot
    BY <1>5 DEF UdevEvent, ServerEnd, Output, EntersFastboot
  <1> QED BY <1>1, <1>2, <1>3, <1>4, <1>5 DEF ServerNext, HandleStdin

LEMMA ServerFastboot ==
  ASSUME TypeOK, Plugged, Attached, FastbootIsAnswered, ServerNext,
         UNCHANGED client
  PROVE  FastbootIsAnswered'
  <1> DEFINE Present == {<<"present", 1>>}
             Finals == {Msg("continue"), Msg("download")}
             Goal == \/ Told(Present) \/ Answering \cap queued # {}
                     \/ Has(c2s, Finals) \/ flag.quit
  <1>1. SUFFICES ASSUME InSession', OnBus', refused' # "now", ~Awaits'
                 PROVE  (FbUsable /\ Goal)'
    BY DEF FastbootIsAnswered, Answering, Awaits
  <1>2. /\ ~clientGone /\ spc # "gone" /\ spc' # "gone" /\ selected'
        /\ UNCHANGED <<queued, flag>> /\ c2s \in Seq(Message)
    BY <1>1, ServerFrame, ServerTakes
    DEF InSession, TypeOK, WireOK, client, state, hist
  <1>3. FbUsable <=> fbOpen /\ OnBus /\ ~Going
    BY DEF FbUsable, Going, Has
  <1>4. FbUsable' <=> fbOpen' /\ ~Going'
    BY <1>1 DEF FbUsable, Going, Has
  <1>5. ASSUME UNCHANGED selected, OnBus
        PROVE  refused # "now" /\ (Awaits \/ (FbUsable /\ Goal))
    <2>1. refused # "now"
      BY <1>1, <1>2, <1>5, RefusalEnds
    <2> QED BY <1>2, <1>5, <2>1
            DEF FastbootIsAnswered, InSession, Answering, Awaits
  <1>6. ASSUME UNCHANGED <<selected, board, usb, udev, fbOpen>>,
               ~Spares(Finals) => ~FbUsable
        PROVE  (FbUsable /\ Goal)'
    <2>1. OnBus /\ (FbUsable <=> FbUsable') /\ ~Awaits
      BY <1>1, <1>6 DEF OnBus, FbUsable, Awaits
    <2>2. FbUsable /\ Goal
      BY <1>5, <1>6, <2>1
    <2>3. Has(c2s, Finals) => Has(c2s', Finals)
      BY <1>2, <1>6, <2>2, HasOnTail DEF Spares
    <2>4. Told(Present) => Told(Present)'
      BY StaysTold
    <2> QED BY <1>2, <2>1, <2>2, <2>3, <2>4
  <1>7. ASSUME UNCHANGED <<selected, fbOpen>>, Uevents, ~OnBus
        PROVE  FALSE
    <2>1. udev' # udev
      BY <1>1, <1>2, <1>7, OneUevent
    <2>2. udev' # <<>> /\ udev'[Len(udev')] = "add"
      BY <1>1, <1>7, <2>1, OneUevent
    <2>3. fbOpen => Going
      BY <1>2, <1>7 DEF Attached
    <2>4. ~FbUsable'
      BY <1>4, <1>7, <2>3, OneUevent DEF Going
    <2> QED BY <1>1, <2>2, <2>4 DEF Awaits
  <1>8. ASSUME UNCHANGED <<selected, fbOpen>>, UNCHANGED usb \/ usb' = FALSE,
                NEW sent, FbUsable => Starts \/ Refuses(sent),
                ~FbUsable => NotAsked
         PROVE  (FbUsable /\ Goal)'
    <2>1. NotAsked /\ ~FbUsable
      BY <1>1, <1>8 DEF Starts, Refuses, OnBus
    <2>2. UNCHANGED <<board, usb>>
      BY <1>1, <1>8, <2>1 DEF NotAsked, OnBus
    <2>3. udev' = udev
      BY <2>1, <2>2 DEF NotAsked, Uevents, OnBus
    <2> QED BY <1>6, <1>8, <2>1, <2>2, <2>3
  <1>9. CASE SelectBoard
    <2>1. CASE known
      <3>1. /\ UNCHANGED <<board, usb>> /\ fbOpen' = OnBus
            /\ udev' = <<"add">> \/ udev' = <<>>
        BY <1>9, <2>1 DEF SelectBoard
      <3>2. OnBus
        BY <1>1, <3>1 DEF OnBus
      <3>3. Send(<< <<"present", 1>>, Msg("select") >>)
        BY <1>9, <2>1, <3>2 DEF SelectBoard
      <3>4. Has(<< <<"present", 1>>, Msg("select") >>, Present)
        BY DEF Has
      <3>5. Told(Present)'
        BY <1>2, <3>3, <3>4, SendTells, MessageTypes
      <3>6. fbOpen'
        BY <3>1, <3>2, Zenon
      <3>7. ~Going'
        BY <3>1 DEF Going, Has
      <3> QED BY <1>4, <3>5, <3>6, <3>7
    <2>2. CASE ~known
      <3>1. UNCHANGED <<selected, board, usb, udev, fbOpen>> /\ Takes("select")
        BY <1>9, <2>2 DEF SelectBoard
      <3> QED BY <1>6, <3>1 DEF Takes, Spares, Msg
    <2> QED BY <2>1, <2>2
  <1>10. CASE PowerOff
    BY <1>1, <1>2, <1>10 DEF PowerOff, OnBus
  <1>11. CASE PowerOn
    <2>1. Uevents /\ UNCHANGED <<selected, fbOpen>> /\ Takes("power_on") /\ selected
      BY <1>2, <1>11 DEF PowerOn
    <2>2. CASE OnBus
      <3>1. board = "fastboot" /\ usb = TRUE
        BY <2>2 DEF OnBus, TypeOK, ServerOK
      <3>2. UNCHANGED <<board, usb>>
        BY <1>11, <3>1 DEF PowerOn
      <3>3. udev' = udev
        BY <2>1, <3>2 DEF Uevents, OnBus
      <3> QED BY <1>6, <2>1, <3>2, <3>3 DEF Takes, Spares, Msg
    <2> QED BY <1>7, <2>1, <2>2
  <1>12. CASE ServerEnd
    BY <1>2, <1>12 DEF ServerEnd
  <1>13. CASE Download
    <2>1. ~Segfault /\ Takes("download")
      BY <1>2, <1>13 DEF Download, Segfault
    <2>2. CASE c2s[1][2] > 0
      <3>1. UNCHANGED <<selected, board, usb, udev, fbOpen>>
        BY <1>13, <2>2 DEF Download
      <3>2. Spares(Finals)
        BY <2>1, <2>2 DEF Takes, Spares, Msg
      <3> QED BY <1>6, <3>1, <3>2
    <2>3. CASE ~(c2s[1][2] > 0)
      <3>1. Boot(payload) /\ UNCHANGED <<selected, fbOpen>>
        BY <1>13, <2>1, <2>3 DEF Download
      <3> QED BY <1>8, <3>1 DEF Boot
    <2> QED BY <2>2, <2>3
  <1>14. CASE Continue
    <2>1. ~Segfault /\ Takes("continue")
      BY <1>2, <1>14 DEF Continue, Segfault
    <2>2. /\ UNCHANGED <<selected, fbOpen, usb>>
          /\ FbUsable => Starts \/ Refuses({})
          /\ ~FbUsable => NotAsked
      BY <1>14, <2>1 DEF Continue
    <2> QED BY <1>8, <2>2
  <1>15. CASE StatusEnable \/ KeyPress
    <2>1. ~Segfault /\ (Takes("status") \/ Takes("key"))
      BY <1>2, <1>15 DEF StatusEnable, KeyPress, Segfault
    <2>2. Spares(Finals)
      BY <2>1 DEF Takes, Spares, Msg
    <2>3. UNCHANGED <<selected, board, usb, udev, fbOpen>>
      BY <1>15, <2>1 DEF StatusEnable, KeyPress, Survives
    <2> QED BY <1>6, <2>2, <2>3
  <1>16. CASE Console
    BY <1>6, <1>16 DEF Console, server, Takes, Spares, Msg
  <1>17. CASE Inform
    BY <1>6, <1>17 DEF Inform, Takes, Spares, Msg
  <1>18. CASE Output
    BY <1>6, <1>18 DEF Output, Spares
  <1>19. CASE UdevEvent
    <2>1. udev # <<>> /\ udev' = Tail(udev) /\ UNCHANGED <<board, usb, selected>>
      BY <1>19 DEF UdevEvent
    <2>2. OnBus /\ (Awaits \/ (FbUsable /\ Goal))
      BY <1>1, <1>5, <2>1 DEF OnBus
    <2>3. CASE FbUsable
      <3>1. udev[1] = "add" /\ fbOpen /\ ~Going'
        BY <1>3, <2>1, <2>3, UdevTail
      <3>2. fbOpen'
        BY <1>19, <3>1 DEF UdevEvent
      <3>3. Goal
        BY <2>2, <2>3 DEF Awaits
      <3>4. Told(Present) => Told(Present)'
        BY StaysTold
      <3>5. c2s' = c2s
        BY <1>19 DEF UdevEvent
      <3> QED BY <1>2, <1>4, <3>1, <3>2, <3>3, <3>4, <3>5
    <2>4. CASE ~FbUsable
      <3>1. udev[Len(udev)] = "add"
        BY <2>2, <2>4 DEF Awaits
      <3>2. CASE ~fbOpen /\ udev[1] = "add" /\ ~Going'
        <4>1. fbOpen' = TRUE /\ Send(<< <<"present", 1>> >>)
          BY <1>19, <2>1, <2>2, <3>2, UdevTail DEF UdevEvent
        <4>2. Has(<< <<"present", 1>> >>, Present)
          BY DEF Has
        <4>3. << <<"present", 1>> >> \in Seq(Message)
          BY MessageTypes DEF Types
        <4>4. Told(Present)'
          BY <1>2, <4>1, <4>2, <4>3, SendTells
        <4> QED BY <1>4, <3>2, <4>1, <4>4
      <3>3. CASE ~(~fbOpen /\ udev[1] = "add" /\ ~Going')
        <4>1. ~fbOpen' \/ Going'
          <5>1. CASE udev[1] = "remove"
            <6>1. fbOpen' = FALSE \/ (fbOpen' = fbOpen /\ ~fbOpen)
              BY <1>19, <5>1 DEF UdevEvent
            <6> QED BY <6>1
          <5>2. CASE udev[1] = "add" /\ fbOpen
            BY <1>3, <2>1, <2>2, <2>4, <5>2, UdevTail
          <5> QED BY <2>1, <3>3, <5>1, <5>2, UdevTail
        <4>2. udev' # <<>>
          <5> SUFFICES ASSUME udev' = <<>> PROVE FALSE
            OBVIOUS
          <5>1. udev[1] = "add" /\ ~Going'
            BY <2>1, <3>1, UdevTail DEF Going, Has
          <5>2. fbOpen' = fbOpen /\ fbOpen
            BY <1>19, <3>3, <5>1 DEF UdevEvent
          <5> QED BY <4>1, <5>1, <5>2
        <4>3. Awaits'
          BY <1>4, <2>1, <3>1, <4>1, <4>2, UdevTail DEF Awaits
        <4> QED BY <1>1, <4>3
      <3> QED BY <3>2, <3>3
    <2> QED BY <2>3, <2>4
  <1>20. CASE EntersFastboot
    BY <1>7, <1>20 DEF EntersFastboot, OnBus
  <1>21. CASE Resets \/ ActsLate
    BY <1>1, <1>21 DEF Resets, ActsLate, Starts, OnBus
  <1> QED
    BY <1>9, <1>10, <1>11, <1>12, <1>13, <1>14, <1>15, <1>16, <1>17, <1>18,
       <1>19, <1>20, <1>21
    DEF ServerNext, HandleStdin

(* The safety that Repowered and FastbootIsServed rest on, for every set   *)
(* of options, length of the file and of the pipes.                        *)
THEOREM NobodyIsForgotten == Spec => [](PowerComesBack /\ FastbootIsAnswered)
  <1> DEFINE Inv == /\ AllHeard /\ Plugged /\ Attached
                    /\ PowerComesBack /\ FastbootIsAnswered
  <1>1. Init => Inv
    BY DEF Init, WireInit, ClientInit, ServerInit, AllHeard, Plugged,
           Attached, PowerComesBack, FastbootIsAnswered, InSession
  <1>2. TypeOK /\ Inv /\ [Next]_vars => Inv'
    <2> SUFFICES ASSUME TypeOK, Inv, [Next]_vars PROVE Inv'
      OBVIOUS
    <2>1. CASE UNCHANGED vars
      BY <2>1 DEF vars, client, server, wire, list, state, hist, AllHeard,
                  Plugged, Attached, Going, OnBus, FbUsable, PowerComesBack,
                  FastbootIsAnswered, InSession, Told, Has
    <2>2. CASE ClientNext /\ UNCHANGED server
      <3>1. Plugged' /\ Attached'
        BY <2>2 DEF Plugged, Attached, Going, OnBus, Has, server
      <3> QED BY <2>2, <3>1, HeardStep, ClientPower, ClientAnswers
    <2>3. CASE ServerNext /\ UNCHANGED client
      <3>1. AllHeard'
        BY <2>3 DEF AllHeard, client
      <3> QED BY <2>3, <3>1, PluggedStep, ServerPower, ServerFastboot
    <2> QED BY <2>1, <2>2, <2>3 DEF Next
  <1>3. Inv => PowerComesBack /\ FastbootIsAnswered
    OBVIOUS
  <1> QED BY <1>1, <1>2, <1>3, SessionTypes, PTL DEF Spec
=============================================================================
