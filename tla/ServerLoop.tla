----------------------------- MODULE ServerLoop -----------------------------
(***************************************************************************)
(* cdba-server around watch_main_loop: the descriptors it watches, in the  *)
(* order in which they were added, the callback of each, and the timers of *)
(* the status reports.  A callback reads once.  The other side of a        *)
(* descriptor comes to the end its kind has: the client leaves; a tty      *)
(* hangs up, and is read as zero bytes or as an error; conmux closes the   *)
(* connection; the status command exits, and its pty reads EIO.  Only the  *)
(* socket of the udev monitor has no end.                                  *)
(***************************************************************************)
EXTENDS FiniteSets, StatusParsers

CONSTANTS Devices,       \* the boards considered
          Replies,       \* what the conmux registry answers
          Routes,        \* which addresses of a conmux host answer, in order
          Greetings,     \* what a conmux console sends first
          ReadSizes,     \* how much of the board's stream a read may find
          MaxHangs,      \* bound: descriptors whose other side ends
          MaxMsgs,       \* bounds for each kind of control: messages after
          MaxText,       \* MSG_SELECT_BOARD; uevents, pieces of console and
          MaxLines       \* status output; status lines of the debug board

Cx == INSTANCE Conmux

Fds == {"stdin", "control", "console", "udev", "status"}
Controls == {"none", "qcomlt_dbg", "cdb_assist", "conmux"}
DeviceType == [control : Controls,
               console : {"tty", "conmux"}, statusCmd : BOOLEAN]

ASSUME ServerLoopAssumption ==
  /\ Devices \subseteq DeviceType
  /\ \A d \in Devices : d.control = "conmux" <=> d.console = "conmux"
  /\ ReadSizes \subseteq Nat \ {0} /\ MaxHangs \in Nat
  /\ Greetings \subseteq Seq(Cx!Words)
  /\ \A ws \in Greetings :                     \* a console answers once
       \A i, j \in 1 .. Len(ws) :
         {ws[i], ws[j]} \subseteq {"ok", "refused"} => i = j
  /\ MaxMsgs \in [Controls -> Nat] /\ MaxText \in [Controls -> Nat]
  /\ MaxLines \in [Controls -> 0 .. 9]

VARIABLES
  dev,        \* the board
  watches,    \* read_watches, in the order of the list
  rfds,       \* the descriptor set of watch_main_loop
  pc, at,     \* where the loop is; the watch it visits
  left,       \* messages of its read that handle_stdin has left
  quit,       \* quit_invoked
  end,        \* what ended the loop
  selected,   \* selected_device is set
  enabled,    \* device->status_enabled
  polls,      \* timers of qcomlt_dbg_request_status
  prints,     \* timers of cdb_assist_print_status
  qcomlt, cdb,             \* the parsers
  inbox, hung,             \* what a read returns; the other side's end
  gone,                    \* the client has closed both its ends
  polled, lines, noisy,    \* the debug board: asked, measurements sent,
                           \* and whether it sent anything else
  msgs, texts              \* bounds

dv == <<dev, selected, enabled, polls, prints>>
parsers == <<qcomlt, cdb>>
io == <<inbox, hung, gone>>
bounds == <<lines, noisy, msgs, texts>>
vars == <<watches, rfds, pc, at, left, quit, end, dv, parsers, io, polled,
          bounds>>

(* rfds is on the stack and nothing clears it. *)
Init ==
  /\ dev \in Devices
  /\ watches = <<"stdin">> /\ rfds \in SUBSET Fds
  /\ pc = "select" /\ at = 1 /\ left = 0 /\ quit = FALSE /\ end = ""
  /\ selected = FALSE /\ enabled = FALSE /\ polls = 0 /\ prints = 0
  /\ qcomlt = QcomltStart /\ cdb = CdbStart
  /\ inbox = [f \in Fds |-> IF f = "stdin" THEN <<"select">> ELSE <<>>]
  /\ hung = [f \in Fds |-> "open"] /\ gone = FALSE
  /\ polled = FALSE /\ lines = 0 /\ noisy = FALSE /\ msgs = 0 /\ texts = 0
-----------------------------------------------------------------------------
Watched(f) == f \in ToSet(watches)
Readable(f) == inbox[f] # <<>> \/ hung[f] # "open"
Ended(why) == pc' = "ended" /\ end' = why

(* Seeded fault: select() is given FD_SETSIZE. *)
ExaminedAll == rfds \cup ToSet(watches)

(* What select(nfds + 1, ...) looks at.  stdin is descriptor 0 and the     *)
(* others come after it.                                                   *)
Examined == IF ToSet(watches) = {"stdin"} THEN {"stdin"}
                                          ELSE rfds \cup ToSet(watches)

(* cdba_send_buf: a write to a client that is gone raises SIGPIPE, whose   *)
(* handler asks the loop to quit.                                          *)
Send == quit' = (quit \/ gone)

(* The head of the loop: it was asked to quit, or a bit of the set is of   *)
(* no open descriptor (EBADF).                                             *)
Bad == \E f \in Examined : ~Watched(f)

Leave ==
  /\ pc = "select" /\ (quit \/ Bad)
  /\ Ended(IF quit THEN "quit" ELSE "select")
  /\ UNCHANGED <<watches, rfds, at, left, quit, dv, parsers, io, polled,
                 bounds>>

(* Seeded fault: the set is left as it was filled. *)
WakeBlind ==
  /\ pc = "select" /\ ~quit /\ ~Bad
  /\ rfds' = Examined
  /\ pc' = "visit" /\ at' = 1
  /\ UNCHANGED <<watches, left, end, dev, selected, enabled, parsers, io,
                 bounds>>

(* select() returns, and has written over the set. *)
Wake ==
  /\ pc = "select" /\ ~quit /\ ~Bad
  /\ rfds' = {f \in Examined : Readable(f)}
  /\ pc' = "visit" /\ at' = 1
  /\ UNCHANGED <<watches, left, end, dev, selected, enabled, parsers, io,
                 bounds>>

(* watch_timer_invoke finds no timer due: something was readable, *)
Ready ==
  /\ Wake /\ rfds' # {}
  /\ UNCHANGED <<quit, polls, prints, polled>>

(* Seeded fault: the request is not repeated. *)
PollOnce ==
  /\ Wake /\ polls > 0
  /\ polled' = (hung["control"] = "open") /\ polls' = polls - 1
  /\ UNCHANGED <<quit, prints>>

(* or qcomlt_dbg_request_status asks the board, and adds its next timer    *)
(* before this one is deleted,                                             *)
Poll ==
  /\ Wake /\ polls > 0
  /\ polled' = (hung["control"] = "open")
  /\ UNCHANGED <<quit, polls, prints>>

(* or cdb_assist_print_status reports, once. *)
PrintStatus ==
  /\ Wake /\ prints > 0
  /\ prints' = prints - 1 /\ Send
  /\ UNCHANGED <<polls, polled>>
-----------------------------------------------------------------------------
(* The next watch of the pass whose bit is set (FD_ISSET). *)
Set == {i \in at .. Len(watches) : watches[i] \in rfds}
Chosen(f) == pc = "visit" /\ Set # {} /\ watches[Min(Set)] = f

(* Seeded fault: a pass ends with the first callback. *)
NextOnly == pc' = "select" /\ at' = 1 /\ UNCHANGED end

Next1 == pc' = "visit" /\ at' = Min(Set) + 1 /\ UNCHANGED end
Fail(why) == Ended(why) /\ UNCHANGED at

(* The callback goes on with what it has read, or returns. *)
More == IF left > 1 THEN UNCHANGED <<pc, at, end>> ELSE Next1

PassDone ==
  /\ pc = "visit" /\ Set = {}
  /\ pc' = "select" /\ at' = 1
  /\ UNCHANGED <<watches, rfds, left, quit, end, dv, parsers, io, polled,
                 bounds>>

(* What a callback that is not handle_stdin leaves alone. *)
Only(f) == Chosen(f) /\ UNCHANGED <<watches, rfds, left, dv, hung, gone,
                                    polled, bounds>>

(* A read of everything there is; of the rest of the stream. *)
ReadAll(f) == inbox[f] # <<>> /\ inbox' = [inbox EXCEPT ![f] = <<>>]
ReadEnd(f, how) == inbox[f] = <<>> /\ hung[f] = how /\ UNCHANGED inbox

(* console_data: a tty that hung up is sent on as empty messages.  *)
ConsoleData ==
  /\ dev.console = "tty" /\ Only("console")
  /\ \/ (ReadAll("console") \/ ReadEnd("console", "eof")) /\ Send /\ Next1
     \/ ReadEnd("console", "err") /\ UNCHANGED quit /\ Fail("console")
  /\ UNCHANGED parsers

(* conmux_data *)
ConmuxData ==
  /\ dev.console = "conmux" /\ Only("console")
  /\ \/ ReadAll("console") /\ Send /\ Next1
     \/ ReadEnd("console", "eof") /\ quit' = TRUE /\ Next1
     \/ ReadEnd("console", "err") /\ UNCHANGED quit /\ Fail("console")
  /\ UNCHANGED parsers

(* Seeded fault: the end of the status command is no error. *)
StatusDataIgnores ==
  /\ Only("status")
  /\ \/ ReadAll("status") /\ Send /\ Next1
     \/ ReadEnd("status", "err") /\ UNCHANGED quit /\ Next1
  /\ UNCHANGED parsers

(* status_data: a status command that ends takes the session with it. *)
StatusData ==
  /\ Only("status")
  /\ \/ ReadAll("status") /\ Send /\ Next1
     \/ ReadEnd("status", "err") /\ UNCHANGED quit /\ Fail("status")
  /\ UNCHANGED parsers

(* handle_udev_event: one uevent, which may be of the board's fastboot and *)
(* then is told to the client; the callback never fails.                   *)
UdevData ==
  /\ Only("udev") /\ inbox["udev"] # <<>>
  /\ inbox' = [inbox EXCEPT !["udev"] = Tail(@)]
  /\ Send \/ UNCHANGED quit
  /\ Next1
  /\ UNCHANGED parsers

(* How much of its stream a read with a buffer of this size may find.      *)
Pieces(size) ==
  LET n == Len(inbox["control"])
  IN {k \in ReadSizes : k <= Min({n, size})} \cup ({Min({n, size})} \ {0})

(* qcomlt_dbg_ctrl_data and cdb_assist_ctrl_data: a read, *)
CtrlData ==
  /\ Chosen("control")
  /\ \/ \E k \in Pieces(IF dev.control = "cdb_assist" THEN 9 ELSE 64) :
          left' = k /\ pc' = "control" /\ UNCHANGED <<at, end, inbox>>
     \/ ReadEnd("control", "eof") /\ Next1 /\ UNCHANGED left
     \/ ReadEnd("control", "err") /\ Fail("control") /\ UNCHANGED left
  /\ UNCHANGED <<watches, rfds, quit, dv, parsers, hung, gone, polled, bounds>>

(* and the parser for each character of it. *)
CtrlChar ==
  /\ pc = "control"
  /\ inbox' = [inbox EXCEPT !["control"] = Tail(@)]
  /\ IF dev.control = "qcomlt_dbg"
       THEN /\ qcomlt' = QcomltPush(qcomlt, Head(inbox["control"]))
            /\ \/ Len(qcomlt'.out) > Len(qcomlt.out) /\ Send
               \/ qcomlt'.out = qcomlt.out /\ UNCHANGED quit
            /\ UNCHANGED cdb
       ELSE /\ cdb' = CdbPush(cdb, Head(inbox["control"]))
            /\ UNCHANGED <<qcomlt, quit>>
  /\ left' = left - 1 /\ More
  /\ UNCHANGED <<watches, rfds, dv, hung, gone, polled, bounds>>
-----------------------------------------------------------------------------
(* handle_stdin: circ_fill, which may find less than was sent; when it     *)
(* meets the end of file it drops what it has just read.                   *)
StdinRead ==
  /\ Chosen("stdin")
  /\ \/ \E k \in 1 .. Len(inbox["stdin"]) :
          left' = k /\ pc' = "stdin" /\ UNCHANGED <<at, end>>
     \/ (inbox["stdin"] = <<>> \/ gone) /\ Fail("client") /\ UNCHANGED left
  /\ UNCHANGED <<watches, rfds, quit, dv, parsers, io, polled, bounds>>

(* The next message of that read; with the last one handle_stdin returns.  *)
Message(m) ==
  /\ pc = "stdin" /\ Head(inbox["stdin"]) = m
  /\ left' = left - 1
  /\ UNCHANGED <<rfds, parsers, hung, gone, polled, bounds>>

Handled == inbox' = [inbox EXCEPT !["stdin"] = Tail(@)]

(* The watches that device_open adds, and device_fastboot_open. *)
OpenWatches ==
  IF dev.control = "cdb_assist" THEN <<"control", "console", "udev">>
                                ELSE <<"console", "udev">>

(* MSG_SELECT_BOARD: the board is opened, *)
SelectBoard ==
  /\ Message("select") /\ dev.console = "tty"
  /\ selected' = TRUE /\ watches' = watches \o OpenWatches
  /\ Send /\ Handled /\ More
  /\ UNCHANGED <<dev, enabled, polls, prints>>

(* or is none of the user's,                                               *)
SelectFails ==
  /\ Message("select")
  /\ quit' = TRUE /\ Handled /\ More
  /\ UNCHANGED <<watches, dv>>

(* or is reached through conmux: what comes after the greeting is console  *)
(* output.                                                                 *)
SelectConmux ==
  /\ Message("select") /\ dev.console = "conmux"
  /\ \E reply \in Replies, up \in Routes, ws \in Greetings :
       \E k \in 1 .. Len(ws) :
         IF Cx!Found(reply) /\ Cx!Connected(up) /\ Cx!Accepts(SubSeq(ws, 1, k))
           THEN /\ selected' = TRUE /\ watches' = watches \o OpenWatches
                /\ inbox' = [inbox EXCEPT !["stdin"] = Tail(@),
                               !["console"] = SubSeq(ws, k + 1, Len(ws))]
                /\ Send /\ More
           ELSE /\ Fail("open") /\ Handled
                /\ UNCHANGED <<selected, watches, quit>>
  /\ UNCHANGED <<dev, enabled, polls, prints>>

(* MSG_STATUS_UPDATE: device_status_enable. *)
StatusEnable ==
  /\ Message("status") /\ selected /\ Handled /\ More
  /\ enabled' = TRUE
  /\ IF enabled THEN UNCHANGED <<polls, prints, watches>>
     ELSE /\ polls' = (IF dev.control = "qcomlt_dbg" THEN 1 ELSE 0)
          /\ prints' = (IF dev.control = "cdb_assist" THEN 1 ELSE 0)
          /\ watches' = watches
               \o (IF dev.control = "qcomlt_dbg" THEN <<"control">> ELSE <<>>)
               \o (IF dev.statusCmd THEN <<"status">> ELSE <<>>)
  /\ UNCHANGED <<quit, dev, selected>>

(* A message that is answered, and needs no board. *)
OtherMessage ==
  /\ Message("other") /\ Handled /\ Send /\ More
  /\ UNCHANGED <<watches, dv>>
-----------------------------------------------------------------------------
(* The other sides, at any time - but for the parsers, whose steps nobody   *)
(* else can see and are taken for one.                                     *)
Arrives(f, s) == inbox' = [inbox EXCEPT ![f] = @ \o s]
Outside == /\ pc # "control"
           /\ UNCHANGED <<watches, rfds, pc, at, left, quit, end, dv, parsers>>

ClientSends(m) ==
  /\ ~gone /\ selected /\ msgs < MaxMsgs[dev.control]
  /\ msgs' = msgs + 1 /\ Arrives("stdin", <<m>>)
  /\ UNCHANGED <<hung, gone, polled, lines, noisy, texts>> /\ Outside

ClientGoes ==
  /\ ~gone
  /\ gone' = TRUE /\ hung' = [hung EXCEPT !["stdin"] = "eof"]
  /\ UNCHANGED <<inbox, polled, bounds>> /\ Outside

Talks(f) ==
  /\ f \in {"console", "udev", "status"} /\ Watched(f) /\ hung[f] = "open"
  /\ texts < MaxText[dev.control]
  /\ texts' = texts + 1 /\ Arrives(f, <<"text">>)
  /\ UNCHANGED <<hung, gone, polled, lines, noisy, msgs>> /\ Outside

(* What the debug board prints: a status, asked for or - the CDB Assist -  *)
(* on its own, or something else.                                          *)
QcomltLine(k) == LET d == DigitChars[k + 1]
  IN <<"1", d, "m", "V", "sp", "1", d, "m", "A", "x">>
CdbLine(k) == LET d == DigitChars[k + 1]
  IN <<d, "m", "v", "/", d, "m", "v", "sp", d, "m", "a", "/", d, "m", "a", "sp",
       "x", ":", "o", "n", "sp", "x", "=", d, "m", "v", "sp">>

Answer ==
  /\ hung["control"] = "open" /\ lines < MaxLines[dev.control]
  /\ \/ dev.control = "qcomlt_dbg" /\ polled
          /\ Arrives("control", QcomltLine(lines + 1))
     \/ dev.control = "cdb_assist" /\ Watched("control")
          /\ Arrives("control", CdbLine(lines + 1))
  /\ lines' = lines + 1 /\ polled' = FALSE
  /\ UNCHANGED <<hung, gone, noisy, msgs, texts>> /\ Outside

(* Other output comes once, between the lines of the status. *)
Chatter ==
  /\ hung["control"] = "open" /\ ~noisy /\ dev.control = "qcomlt_dbg"
  /\ selected /\ noisy' = TRUE /\ Arrives("control", <<"2", "x">>)
  /\ UNCHANGED <<hung, gone, polled, lines, msgs, texts>> /\ Outside

HangsUp(f, how) ==
  /\ f \notin {"stdin", "udev"} /\ Watched(f) /\ hung[f] = "open"
  /\ Cardinality({g \in Fds \ {"stdin"} : hung[g] # "open"}) < MaxHangs
  /\ f = "status" => how = "err"
  /\ hung' = [hung EXCEPT ![f] = how]
  /\ UNCHANGED <<inbox, gone, polled, bounds>> /\ Outside
-----------------------------------------------------------------------------
Loop == \/ Leave \/ Ready \/ Poll \/ PrintStatus \/ PassDone
        \/ ConsoleData \/ ConmuxData \/ StatusData \/ UdevData \/ CtrlData
        \/ CtrlChar \/ StdinRead \/ SelectBoard \/ SelectFails
        \/ SelectConmux \/ StatusEnable \/ OtherMessage

Next == \/ Loop
        \/ \E m \in {"status", "other"} : ClientSends(m)
        \/ ClientGoes \/ Answer \/ Chatter
        \/ \E f \in Fds : Talks(f)
        \/ \E f \in Fds, how \in {"eof", "err"} : HangsUp(f, how)

Spec == Init /\ [][Next]_vars

(* The process runs.  The others need do nothing. *)
FairSpec == Spec /\ WF_vars(Loop)
-----------------------------------------------------------------------------
TypeOK ==
  /\ dev \in Devices /\ ToSet(watches) \subseteq Fds
  /\ \A i, j \in 1 .. Len(watches) : watches[i] = watches[j] => i = j
  /\ rfds \subseteq Fds
  /\ pc \in {"select", "visit", "stdin", "control", "ended"}
  /\ at \in 1 .. Len(watches) + 1
  /\ left \in Nat /\ quit \in BOOLEAN
  /\ end \in {"", "quit", "select", "client", "console", "control", "status",
              "open"}
  /\ selected \in BOOLEAN /\ enabled \in BOOLEAN /\ gone \in BOOLEAN
  /\ polls \in Nat /\ prints \in Nat
  /\ qcomlt.state \in QcomltStates /\ cdb.state \in CdbStates
  /\ \A f \in Fds : hung[f] \in {"open", "eof", "err"}
  /\ polled \in BOOLEAN /\ noisy \in BOOLEAN
  /\ lines \in 0 .. MaxLines[dev.control]
  /\ msgs \in 0 .. MaxMsgs[dev.control]
  /\ texts \in 0 .. MaxText[dev.control]

(* A callback runs only when its descriptor has something to read: the     *)
(* status pty and the conmux socket are blocking, and a tty without data   *)
(* reads as one that hung up.  Watches that a callback of this pass adds   *)
(* are visited in this pass, with the set that select() has written.       *)
NeverBlocks == \A f \in Fds : Chosen(f) => Readable(f)

(* The loop ends only because the client left, or is written to after it   *)
(* did, or was refused, or because the console, the debug board or the     *)
(* status command failed - never because a tty hung up quietly or because  *)
(* of what was in the descriptor set before.                               *)
EndsForCause ==
  pc = "ended" =>
    \/ end = "client" /\ gone
    \/ end = "quit" /\ (gone \/ ~selected
                          \/ (dev.console = "conmux"
                                /\ hung["console"] = "eof"))
    \/ end \in {"console", "control", "status"} /\ hung[end] = "err"
    \/ end = "open" /\ dev.console = "conmux" /\ ~selected

(* A conmux console is one that has answered OK: its answer has been read  *)
(* before its output is, so that no part of a refusal is taken for a       *)
(* session.                                                                *)
AnswerIsRead ==
  selected => {"ok", "refused"} \cap ToSet(inbox["console"]) = {}

(* While status is enabled there is exactly one timer that asks the board: *)
(* the requests neither stop nor multiply, however often the client        *)
(* enables status, and no descriptor is watched twice (TypeOK).             *)
OnePoll ==
  /\ TypeOK
  /\ polls = IF enabled /\ dev.control = "qcomlt_dbg" THEN 1 ELSE 0
  /\ prints <= 1

Measure(k) == <<10 + k, 10 + k>>

(* Wherever the reads split the stream and whatever else the board         *)
(* printed, every reported pair is a voltage and the current of one        *)
(* measurement, none is reported twice, and they keep their order.         *)
InMeasuredOrder ==
  LET out == qcomlt.out
  IN /\ \A i \in 1 .. Len(out) : \E k \in 1 .. lines : out[i] = Measure(k)
     /\ \A i, j \in 1 .. Len(out) : i < j => out[i][1] < out[j][1]

(* The comment of qcomlt_dbg_ctrl_data: what is dropped are unexpected     *)
(* control messages; every match is found and reported.                    *)
EveryMeasureReported ==
  (inbox["control"] = <<>> /\ ~noisy /\ dev.control = "qcomlt_dbg") =>
     \A k \in 1 .. lines : Contains(qcomlt.out, Measure(k))

(* Of two measurements in a row that were read whole, and not mixed with   *)
(* other output, at least one is reported.                                 *)
SkipsAtMostOne ==
  (inbox["control"] = <<>> /\ ~noisy /\ dev.control = "qcomlt_dbg") =>
     \A k \in 1 .. lines - 1 :
       Contains(qcomlt.out, Measure(k)) \/ Contains(qcomlt.out, Measure(k + 1))

(* What cdb_assist_print_status would report is from the last status line  *)
(* that was read, or partly from it and partly from the one before it.     *)
CdbSnapshot ==
  dev.control = "cdb_assist" =>
    /\ cdb.voltage_set \in 0 .. lines
    /\ cdb.current_actual \in {cdb.voltage_set, cdb.voltage_set - 1}
    /\ cdb.vref \in {cdb.voltage_set, cdb.voltage_set - 1}
    /\ cdb.vref <= cdb.current_actual

(* What is reported was measured. *)
ReportedIsMeasured == InMeasuredOrder /\ SkipsAtMostOne /\ CdbSnapshot

(* Whatever floods the loop - a tty that hung up is readable for ever -    *)
(* what arrives on a watched descriptor is read, or the loop ends.         *)
Served ==
  \A f \in Fds :
    (Watched(f) /\ inbox[f] # <<>>) ~> (inbox[f] = <<>> \/ pc = "ended")

(* A client that left, a closed conmux connection, a failed tty and a      *)
(* status command that exited end the loop.                                *)
Over == \/ gone
        \/ \E f \in Fds : Watched(f) /\ hung[f] = "err"
        \/ dev.console = "conmux" /\ hung["console"] = "eof"

EndIsNoticed == Over ~> pc = "ended"
=============================================================================
