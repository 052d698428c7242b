----------------------------- MODULE CdbaClient ----------------------------
(***************************************************************************)
(* cdba.c: the client's main loop.  One turn of the loop is                *)
(*   top -> select -> tty -> stdout -> drain -> top                 *)
(* with a step for each message handled and each work item run.            *)
(***************************************************************************)
EXTENDS Wire, List

CONSTANTS
  OptSets,     \* the command lines considered
  Downloads,   \* names for allocated fastboot_download_work
  Chunks,      \* the boot.img, in chunks of 2048 bytes
  TildeRun     \* '~' in a row that ask for a power cycle (20)

VARIABLES
  opts,       \* the command line
  cpc,        \* where main is
  heap,       \* the nodes of work_items
  work, next, \* main's cursors in the drain loop
  offset,     \* of each download: chunks sent, or -1 if not allocated
  wr,         \* FD_ISSET(ssh_fds[0], &wfds)
  inbox,      \* messages circ_fill read that are not handled yet
  flag,       \* the client's booleans
  cycles,     \* power_cycles
  chars,      \* power_off_chars
  clock,      \* idle, total: "off", "ahead", "past"; idleFirst: the
              \* inactivity deadline is the earlier one
  code,       \* exit status
  keys,       \* bound on key commands
  queued,     \* history: the work requested and not yet run
  owed,       \* history: replies outstanding that request a power-on
  crowded,    \* history: two such replies were outstanding at once, or a
              \* power-off was typed before a requested power-on was sent
  overlapped  \* history: a download was requested during another one

hist == <<queued, owed, crowded, overlapped>>
state == <<flag, cycles, chars>>
list == <<heap, work, next, offset>>
client == <<opts, cpc, heap, work, next, offset, wr, inbox, flag, cycles,
            chars, clock, code, keys, queued, owed, crowded, overlapped>>

Head0 == "head"
Requests == {"select", "list", "info", "status", "on", "off", "continue"}
Nodes == Requests \cup Downloads \cup {Head0}

Options == [verb : {"boot", "list", "info"},
            file : BOOLEAN, repeat : BOOLEAN,         \* boot.img, -R
            cycles : Int, onTimeout : BOOLEAN,        \* -c or -C
            status : BOOLEAN,                         \* -s
            idle : BOOLEAN, total : BOOLEAN,          \* -T, -t
            board : BOOLEAN,    \* the board exists and the user may use it
            maxKeys : Nat]      \* bound: key commands of the user

ASSUME ClientAssumption ==
  /\ Chunks \in Nat \ {0} /\ TildeRun \in Nat \ {0}
  /\ OptSets \subseteq Options
  /\ Downloads \cap (Requests \cup {Head0}) = {}

Flags == [gotOff : BOOLEAN,     \* received_power_off
          timedOut : BOOLEAN,   \* reached_timeout
          auto : BOOLEAN,       \* auto_power_on
          done : BOOLEAN,       \* fastboot_done
          cont : BOOLEAN,       \* fastboot_continue
          quit : BOOLEAN]

Verb(o) == IF o.verb = "boot" THEN "select" ELSE o.verb

(* Seeded fault: the status pipe is opened before the verb is acted on. *)
FirstWorkSwapped(o) ==
  LET h == ListInit(Nodes)
  IN ListAdd(IF o.status THEN ListAdd(h, Head0, "status") ELSE h,
             Head0, Verb(o))

(* main's set-up: the request of the verb, then status_pipe_open. *)
FirstWork(o) ==
  LET h == ListAdd(ListInit(Nodes), Head0, Verb(o))
  IN IF o.status THEN ListAdd(h, Head0, "status") ELSE h

ClientInit ==
  /\ opts \in OptSets
  /\ cpc = "top" /\ heap = FirstWork(opts) /\ work = Head0 /\ next = Head0
  /\ offset = [d \in Downloads |-> -1]
  /\ wr = FALSE /\ inbox = <<>>
  /\ flag = [gotOff |-> FALSE, timedOut |-> FALSE, auto |-> FALSE,
             done |-> FALSE, cont |-> opts.verb = "boot" /\ ~opts.file,
             quit |-> FALSE]
  /\ cycles = opts.cycles /\ chars = 0
  /\ \E first \in IF opts.idle /\ opts.total THEN BOOLEAN ELSE {FALSE} :
       clock = [idle |-> IF opts.idle THEN "ahead" ELSE "off",
                total |-> IF opts.total THEN "ahead" ELSE "off",
                idleFirst |-> first]
  /\ code = "none" /\ keys = 0
  /\ queued = {Verb(opts)} \cup (IF opts.status THEN {"status"} ELSE {})
  /\ owed = (IF opts.verb = "boot" THEN 1 ELSE 0) /\ crowded = FALSE
  /\ overlapped = FALSE
-----------------------------------------------------------------------------
(* list_add(&work_items, ...) *)
Request(node) == heap' = ListAdd(heap, Head0, node)
                 /\ queued' = queued \cup {node}

(* A power-off is queued: its reply may request a power-on. *)
OweReply == owed' = owed + 1 /\ crowded' = (crowded \/ owed > 0)

(* err(), or a signal: the process is gone at once. *)
Die(how) == cpc' = "exited" /\ code' = how /\ clientGone' = TRUE
            /\ UNCHANGED <<c2s, s2c, serverGone>>

(* write() to a pipe nobody reads raises SIGPIPE, which is not caught. *)
Broken == serverGone /\ Die("signal")

(* get_timeout(timeout_inactivity): its deadline moves to the future. *)
RearmIdle ==
  IF clock.idle = "off" THEN UNCHANGED clock
  ELSE \E first \in IF clock.total # "ahead" \/ ~clock.idleFirst
                      THEN {FALSE} ELSE BOOLEAN :
         clock' = [clock EXCEPT !.idle = "ahead", !.idleFirst = first]

UsesIdle == clock.idle # "off" /\ (clock.total = "off" \/ clock.idleFirst)
(* Seeded fault: the inactivity timeout hides the total one. *)
DeadlineIdle == IF clock.idle # "off" THEN clock.idle ELSE clock.total

(* The deadline select() is given: the earlier one. *)
Deadline == IF UsesIdle THEN clock.idle ELSE clock.total

(* Time passes: the earlier deadline first. *)
Elapse ==
  /\ cpc # "exited"
  /\ \/ /\ clock.idle = "ahead" /\ (clock.idleFirst \/ clock.total # "ahead")
        /\ clock' = [clock EXCEPT !.idle = "past"]
     \/ /\ clock.total = "ahead" /\ (~clock.idleFirst \/ clock.idle # "ahead")
        /\ clock' = [clock EXCEPT !.total = "past"]
  /\ UNCHANGED <<opts, cpc, list, wr, inbox, state, code, keys, hist, wire>>
-----------------------------------------------------------------------------
CycleAsked == flag.gotOff \/ flag.timedOut
GivesUp == flag.quit \/ (CycleAsked /\ (cycles <= 0
                              \/ (flag.timedOut /\ ~opts.onTimeout)))

(* The loop ends; the pipes are closed and ssh is waited for. *)
LoopEnds ==
  /\ cpc = "top" /\ GivesUp
  /\ cpc' = "wait" /\ clientGone' = TRUE
  /\ UNCHANGED <<opts, list, wr, inbox, state, clock, code, keys, hist, c2s,
                 s2c, serverGone>>

(* The descriptor sets and the timeout of select(): a deadline that has    *)
(* passed makes a negative timeout, which select() refuses.                *)
Arm ==
  IF Deadline' = "past"
    THEN Die("err") /\ UNCHANGED wr
    ELSE /\ cpc' = "select" /\ wr' = ~ListEmpty(heap', Head0)
         /\ UNCHANGED <<code, wire>>

(* A power cycle: request_power_off; its reply will request the power-on.  *)
PowerCycle ==
  /\ cpc = "top" /\ ~GivesUp /\ CycleAsked
  /\ flag' = [flag EXCEPT !.auto = TRUE, !.gotOff = FALSE, !.timedOut = FALSE]
  /\ cycles' = cycles - 1
  /\ Request("off") /\ OweReply
  /\ RearmIdle /\ Arm
  /\ UNCHANGED <<opts, work, next, offset, inbox, chars, keys, overlapped>>

NoCycle ==
  /\ cpc = "top" /\ ~GivesUp /\ ~CycleAsked
  /\ UNCHANGED clock /\ UNCHANGED heap /\ Arm
  /\ UNCHANGED <<opts, work, next, offset, inbox, state, keys, hist>>

Writable == wr /\ (Room \/ serverGone)

AfterStdout == IF wr' THEN "drain0" ELSE "top"

(* select() returns: k messages have arrived, the user typed, or the pipe  *)
(* takes more.                                                             *)
SelectReady(k, tty) ==
  /\ cpc = "select" /\ k <= Len(s2c) /\ (tty => keys < opts.maxKeys)
  /\ k > 0 \/ tty \/ Writable
  /\ wr' = Writable
  /\ inbox' = SubSeq(s2c, 1, k) /\ s2c' = SubSeq(s2c, k + 1, Len(s2c))
  /\ cpc' = IF tty THEN "tty" ELSE IF k > 0 THEN "stdout" ELSE AfterStdout
  /\ UNCHANGED <<opts, list, state, clock, code, keys, hist, c2s, clientGone,
                 serverGone>>

(* select() returns 0. *)
SelectTimeout ==
  /\ cpc = "select" /\ Deadline = "past" /\ ~Writable
  /\ flag' = [flag EXCEPT !.timedOut = TRUE]
  /\ wr' = FALSE
  /\ cpc' = "top"
  /\ UNCHANGED <<opts, list, inbox, cycles, chars, clock, code, keys, hist,
                 wire>>

(* End of file on stderr or stdout, whatever else there was to read. *)
SelectEOF ==
  /\ cpc = "select" /\ serverGone
  /\ cpc' = "wait" /\ clientGone' = TRUE
  /\ UNCHANGED <<opts, list, wr, inbox, state, clock, code, keys, hist, c2s,
                 s2c, serverGone>>

(* tty_callback: a key, and another one.  What cdba_send returns is ignored. *)
TtyCallback(key) ==
  /\ cpc = "tty"
  /\ keys' = keys + 1
  /\ \/ /\ serverGone /\ key # "quit" /\ Die("signal")
        /\ UNCHANGED <<flag, owed, crowded>>
     \/ /\ ~serverGone \/ key = "quit"
        /\ flag' = [flag EXCEPT !.quit = @ \/ key = "quit"]
        /\ c2s' = IF key # "quit" /\ Room THEN Append(c2s, Msg(key)) ELSE c2s
        /\ IF key = "power_off" /\ Room
             THEN /\ owed' = owed + 1
                  /\ crowded' = (crowded \/ owed > 0 \/ "on" \in queued)
             ELSE UNCHANGED <<owed, crowded>>
        /\ \/ cpc' = IF inbox # <<>> THEN "stdout"
                     ELSE IF wr THEN "drain0" ELSE "top"
           \/ cpc' = "tty" /\ keys' < opts.maxKeys
        /\ UNCHANGED <<code, s2c, clientGone, serverGone>>
  /\ UNCHANGED <<opts, list, wr, inbox, cycles, chars, clock, queued,
                 overlapped>>
-----------------------------------------------------------------------------
(* handle_message: one turn of its loop for the message at the front.      *)
Handles(type) == cpc = "stdout" /\ inbox # <<>> /\ inbox[1][1] = type
                 /\ inbox' = Tail(inbox)

Replied == owed' = owed - 1 /\ UNCHANGED crowded

HandleSelect ==
  /\ Handles("select")
  /\ Request("on") /\ Replied
  /\ UNCHANGED <<opts, cpc, work, next, offset, wr, state, clock, code, keys,
                 overlapped, wire>>

(* handle_console: a '~' completes a run of them, lengthens one, or any    *)
(* other character ends it; nothing is counted without -c.                 *)
HandleConsole ==
  /\ Handles("console")
  /\ LET tilde == inbox[1][2] = 1
         run == chars + 1 = TildeRun
     IN IF cycles < 0 THEN UNCHANGED <<flag, chars>>
        ELSE /\ flag' = [flag EXCEPT !.gotOff = @ \/ (tilde /\ run)]
             /\ chars' = IF tilde /\ ~run THEN chars + 1 ELSE 0
  /\ UNCHANGED <<opts, cpc, list, wr, cycles, clock, code, keys, hist, wire>>

(* Seeded fault: every MSG_POWER_OFF is followed by a power-on. *)
HandlePowerOffNever ==
  /\ Handles("power_off")
  /\ Replied
  /\ UNCHANGED <<opts, cpc, list, wr, state, clock, code, keys, queued,
                 overlapped, wire>>

(* MSG_POWER_OFF: in a power cycle, sleep(2) and request the power-on. *)
HandlePowerOff ==
  /\ Handles("power_off")
  /\ IF flag.auto THEN Request("on") ELSE UNCHANGED <<heap, queued>>
  /\ Replied
  /\ UNCHANGED <<opts, cpc, work, next, offset, wr, state, clock, code, keys,
                 overlapped, wire>>

(* request_fastboot_files: open(NULL) fails when there is no boot.img.     *)
RequestFile ==
  IF ~opts.file
    THEN Die("err") /\ UNCHANGED <<heap, offset, queued, overlapped>>
    ELSE LET d == CHOOSE e \in Downloads : offset[e] = -1
         IN
           /\ \E e \in Downloads : offset[e] = -1
           /\ offset' = [offset EXCEPT ![d] = 0]
           /\ Request(d)
           /\ overlapped' = (overlapped \/ \E e \in Downloads : offset[e] # -1)
           /\ UNCHANGED <<cpc, code, wire>>

(* MSG_FASTBOOT_PRESENT *)
HandlePresent ==
  /\ Handles("present")
  /\ IF inbox[1][2] = 0
       THEN UNCHANGED <<cpc, code, flag, heap, offset, queued, overlapped, wire>>
     ELSE IF flag.cont
       THEN /\ Request("continue") /\ flag' = [flag EXCEPT !.cont = FALSE]
            /\ UNCHANGED <<cpc, code, offset, overlapped, wire>>
     ELSE IF ~flag.done \/ opts.repeat
       THEN RequestFile /\ UNCHANGED flag
     ELSE /\ flag' = [flag EXCEPT !.quit = TRUE]
          /\ UNCHANGED <<cpc, code, heap, offset, queued, overlapped, wire>>
  /\ UNCHANGED <<opts, work, next, wr, cycles, chars, clock, keys, owed,
                 crowded>>

(* MSG_FASTBOOT_DOWNLOAD, MSG_FASTBOOT_CONTINUE: fastboot_done.            *)
HandleDone ==
  /\ Handles("download") \/ Handles("continue")
  /\ flag' = [flag EXCEPT !.done = TRUE]
  /\ UNCHANGED <<opts, cpc, list, wr, cycles, chars, clock, code, keys, hist,
                 wire>>

(* MSG_LIST_DEVICES: the empty one is the end of the list. *)
HandleList ==
  /\ Handles("list")
  /\ flag' = [flag EXCEPT !.quit = @ \/ inbox[1][2] = 0]
  /\ UNCHANGED <<opts, cpc, list, wr, cycles, chars, clock, code, keys, hist,
                 wire>>

(* MSG_BOARD_INFO: quit, and -1 ends the main loop. *)
HandleInfo ==
  /\ Handles("info")
  /\ flag' = [flag EXCEPT !.quit = TRUE]
  /\ cpc' = "wait" /\ clientGone' = TRUE
  /\ UNCHANGED <<opts, list, wr, cycles, chars, clock, code, keys, hist, c2s,
                 s2c, serverGone>>

(* Messages that are only written out, or ignored. *)
HandleOther ==
  /\ Handles("power_on") \/ Handles("status")
  /\ UNCHANGED <<opts, cpc, list, wr, state, clock, code, keys, hist, wire>>

(* All messages are handled: the inactivity timeout starts anew. *)
StdoutDone ==
  /\ cpc = "stdout" /\ inbox = <<>>
  /\ RearmIdle
  /\ cpc' = IF wr THEN "drain0" ELSE "top"
  /\ UNCHANGED <<opts, list, wr, inbox, state, code, keys, hist, wire>>

HandleMessage ==
  \/ HandleSelect \/ HandleConsole \/ HandlePowerOff \/ HandlePresent
  \/ HandleDone \/ HandleList \/ HandleInfo \/ HandleOther
-----------------------------------------------------------------------------
(* list_for_each_entry_safe(work, next, &work_items, node): first turn. *)
DrainStart ==
  /\ cpc = "drain0"
  /\ work' = heap.next[Head0] /\ next' = heap.next[heap.next[Head0]]
  /\ cpc' = "drain"
  /\ UNCHANGED <<opts, heap, offset, wr, inbox, state, clock, code, keys,
                 hist, wire>>

Running(node) == cpc = "drain" /\ work = node

(* Its next turn, read from the list as work->fn leaves it. *)
NextWork == work' = next /\ next' = heap'.next[next]

DrainEnd ==
  /\ Running(Head0)
  /\ cpc' = "top" /\ wr' = FALSE /\ next' = Head0
  /\ UNCHANGED <<opts, heap, work, offset, inbox, state, clock, code, keys,
                 hist, wire>>

MsgOf(node) == Msg(CASE node = "on" -> "power_on"
                     [] node = "off" -> "power_off"
                     [] OTHER -> node)

(* A request is taken off the list and sent.  Only status_enable_fn ignores*)
(* a full pipe.                                                            *)
RunRequest(node) ==
  /\ Running(node)
  /\ heap' = ListDel(heap, node) /\ queued' = queued \ {node}
  /\ NextWork
  /\ \/ Broken
     \/ /\ ~serverGone /\ ~Room
        /\ IF node = "status" THEN UNCHANGED <<cpc, code, wire>> ELSE Die("err")
     \/ /\ ~serverGone /\ Room
        /\ c2s' = Append(c2s, MsgOf(node))
        /\ UNCHANGED <<cpc, code, s2c, clientGone, serverGone>>
  /\ UNCHANGED <<opts, offset, wr, inbox, state, clock, keys, owed, crowded,
                 overlapped>>

(* Seeded fault: a download that meets a full pipe is dropped. *)
RunDownloadDropped(d) ==
  /\ Running(d)
  /\ IF Room /\ offset[d] < Chunks
       THEN heap' = ListAdd(ListDel(heap, d), Head0, d) /\ UNCHANGED queued
       ELSE heap' = ListFree(heap, d) /\ queued' = queued \ {d}
  /\ NextWork
  /\ \/ Broken /\ UNCHANGED offset
     \/ /\ ~serverGone /\ ~Room /\ UNCHANGED <<cpc, code, wire, offset>>
     \/ /\ ~serverGone /\ Room
        /\ offset' = [offset EXCEPT ![d] = IF @ < Chunks THEN @ + 1 ELSE -1]
        /\ c2s' = Append(c2s, <<"download", IF offset[d] < Chunks
                                              THEN offset[d] + 1 ELSE 0>>)
        /\ UNCHANGED <<cpc, code, s2c, clientGone, serverGone>>
  /\ UNCHANGED <<opts, wr, inbox, state, clock, keys, owed, crowded,
                 overlapped>>

(* fastboot_work_fn: the next chunk, or after the last one the empty       *)
(* message.  The work is queued again unless that was sent.                *)
RunDownload(d) ==
  /\ Running(d)
  /\ IF Room /\ offset[d] = Chunks
       THEN heap' = ListFree(heap, d) /\ queued' = queued \ {d}
       ELSE heap' = ListAdd(ListDel(heap, d), Head0, d) /\ UNCHANGED queued
  /\ NextWork
  /\ \/ Broken /\ UNCHANGED offset
     \/ /\ ~serverGone /\ ~Room /\ UNCHANGED <<cpc, code, wire, offset>>
     \/ /\ ~serverGone /\ Room
        /\ offset' = [offset EXCEPT ![d] = IF @ < Chunks THEN @ + 1 ELSE -1]
        /\ c2s' = Append(c2s, <<"download", IF offset[d] < Chunks
                                              THEN offset[d] + 1 ELSE 0>>)
        /\ UNCHANGED <<cpc, code, s2c, clientGone, serverGone>>
  /\ UNCHANGED <<opts, wr, inbox, state, clock, keys, owed, crowded,
                 overlapped>>

Drain == \/ DrainStart \/ DrainEnd
         \/ (\E node \in Requests : RunRequest(node))
         \/ (\E d \in Downloads : RunDownload(d))
-----------------------------------------------------------------------------
(* wait(NULL) returns: the exit status. *)
Finish ==
  /\ cpc = "wait" /\ serverGone
  /\ cpc' = "exited"
  /\ code' = IF flag.timedOut THEN (IF flag.done THEN "110" ELSE "2")
             ELSE IF flag.quit \/ flag.gotOff THEN "0" ELSE "1"
  /\ UNCHANGED <<opts, list, wr, inbox, state, clock, keys, hist, wire>>

Keys == {"quit", "power_on", "power_off", "status", "console", "key"}

Loop == \/ LoopEnds \/ PowerCycle \/ NoCycle
        \/ (\E k \in 1 .. Len(s2c) : SelectReady(k, FALSE))
        \/ (cpc = "select" /\ Writable /\ SelectReady(0, FALSE))
        \/ SelectTimeout \/ SelectEOF
        \/ HandleMessage \/ StdoutDone \/ Drain \/ Finish

ClientNext == \/ Loop \/ Elapse
              \/ (\E k \in 0 .. Len(s2c) : SelectReady(k, TRUE))
              \/ (\E key \in Keys : TtyCallback(key))

Client == Loop \/ (\E key \in Keys : TtyCallback(key))

ClientOK ==
  /\ opts \in Options
  /\ cpc \in {"top", "select", "tty", "stdout", "drain0", "drain",
              "wait", "exited"}
  /\ heap \in [next : [Nodes -> Nodes], prev : [Nodes -> Nodes]]
  /\ work \in Nodes /\ next \in Nodes
  /\ offset \in [Downloads -> -1 .. Chunks]
  /\ wr \in BOOLEAN /\ inbox \in Seq(Message)
  /\ flag \in Flags /\ cycles \in Int /\ chars \in 0 .. (TildeRun - 1)
  /\ clock \in [idle : {"off", "ahead", "past"},
                total : {"off", "ahead", "past"}, idleFirst : BOOLEAN]
  /\ code \in {"none", "0", "1", "2", "110", "err", "signal"}
  /\ keys \in Nat /\ queued \subseteq Nodes /\ owed \in Int
  /\ crowded \in BOOLEAN /\ overlapped \in BOOLEAN
=============================================================================
