----------------------------- MODULE MsgStream -----------------------------
(***************************************************************************)
(* One direction of the connection between cdba and cdba-server: the peer's*)
(* cdba_send_buf writes a header and then a payload into a pipe, and the   *)
(* receiver's loop - handle_stdin in the server, the stdout branch of main *)
(* and handle_message in the client - reads the bytes into its ring with   *)
(* circ_fill and cuts them into messages again.                            *)
(*                                                                         *)
(* The two processes interleave at the system calls: the header write, the *)
(* payload write, each read() of circ_fill, and the return to select().    *)
(*                                                                         *)
(* The client's end of the pipe is O_NONBLOCK and writes of these sizes are*)
(* atomic: one that finds no room fails and writes nothing.  A header that *)
(* fails leaves no trace; a payload that fails after its header tears the  *)
(* stream, and the caller goes on to write other messages behind it.       *)
(***************************************************************************)
EXTENDS CircBuf, Sequences

CONSTANTS HdrLen,      \* sizeof(struct msg)
          Lens,        \* the payload lengths that are sent
          PipeCap,     \* bytes the pipe holds
          MaxMsgs,     \* bound: messages sent in a behaviour
          MaxTorn      \* bound: bytes written from a torn message on

ASSUME StreamAssumption == /\ HdrLen \in Nat /\ HdrLen > 0
                           /\ Lens \subseteq Nat
                           /\ PipeCap \in Nat
                           /\ MaxMsgs \in Nat /\ MaxTorn \in Nat

VARIABLES
  wpc,        \* the writer: "idle", "payload" (header written), "closed"
  sent,       \* history: for each message its position in the stream and
              \* len, the torn one being the last
  torn,       \* history: a payload was not and will not be written
  written,    \* bytes written to the pipe so far
  fetched,    \* bytes read() from the pipe so far
  buf, head, tail,     \* the receiver's struct circ_buf
  rpc,        \* the receiver: "select", "fill" (circ_fill called), "refill"
              \* (after a short read), "parse", "closed"
  consumed,   \* history: bytes taken out of the ring by circ_read
  delivered   \* history: the bytes of each message handed to its handler

writer == <<wpc, sent, torn, written>>
vars == <<wpc, sent, torn, written, fetched, buf, head, tail, rpc, consumed,
          delivered>>

InPipe == written - fetched

Init == /\ wpc = "idle"
        /\ sent = <<>>
        /\ torn = FALSE
        /\ written = 0
        /\ fetched = 0
        /\ buf = [s \in Slots |-> 0]
        /\ head = 0
        /\ tail = 0
        /\ rpc = "select"
        /\ consumed = 0
        /\ delivered = <<>>
-----------------------------------------------------------------------------
Room(n) == InPipe + n <= PipeCap

(* cdba_send_buf: write(fd, &msg, sizeof(msg)) *)
WriteHdr(len) ==
  /\ wpc = "idle" /\ ~torn
  /\ Len(sent) < MaxMsgs
  /\ Room(HdrLen)
  /\ sent' = Append(sent, [pos |-> written, len |-> len])
  /\ written' = written + HdrLen
  /\ wpc' = IF len > 0 THEN "payload" ELSE "idle"
  /\ UNCHANGED <<torn, fetched, buf, head, tail, rpc, consumed, delivered>>

(* cdba_send_buf: write(fd, buf, len) *)
WritePayload ==
  /\ wpc = "payload"
  /\ Room(sent[Len(sent)].len)
  /\ written' = written + sent[Len(sent)].len
  /\ wpc' = "idle"
  /\ UNCHANGED <<sent, torn, fetched, buf, head, tail, rpc, consumed,
                 delivered>>

(* cdba_send_buf: write(fd, buf, len) fails with EAGAIN. *)
WriteTorn ==
  /\ wpc = "payload"
  /\ ~Room(sent[Len(sent)].len)
  /\ torn' = TRUE
  /\ wpc' = "idle"
  /\ UNCHANGED <<sent, written, fetched, buf, head, tail, rpc, consumed,
                 delivered>>

(* cdba_send_buf behind a torn message: fastboot_work_fn writes its chunk  *)
(* again, and the next work item its own message.                          *)
WriteOn(len) ==
  /\ wpc = "idle" /\ torn
  /\ written + HdrLen + len <= sent[Len(sent)].pos + MaxTorn
  /\ Room(HdrLen + len)
  /\ written' = written + HdrLen + len
  /\ UNCHANGED <<wpc, sent, torn, fetched, buf, head, tail, rpc, consumed,
                 delivered>>

(* The writer goes away and the pipe is closed - also when it is killed    *)
(* inside a message, whose payload then never comes.                       *)
Close ==
  /\ wpc # "closed"
  /\ wpc' = "closed"
  /\ torn' = (torn \/ wpc = "payload")
  /\ UNCHANGED <<sent, written, fetched, buf, head, tail, rpc, consumed,
                 delivered>>
-----------------------------------------------------------------------------
(* select() reports the descriptor readable: bytes, or end of file. *)
Select ==
  /\ rpc = "select"
  /\ InPipe > 0 \/ wpc = "closed"
  /\ rpc' = "fill"
  /\ UNCHANGED <<writer, fetched, buf, head, tail, consumed, delivered>>

Filling == rpc \in {"fill", "refill"}

(* circ_fill, no space: errno = EAGAIN, return -1 *)
FillFull ==
  /\ Filling
  /\ CircSpaceToEnd(head, tail) = 0
  /\ rpc' = "parse"
  /\ UNCHANGED <<writer, fetched, buf, head, tail, consumed, delivered>>

(* circ_fill, read() returns n bytes.  A read that got less than it asked  *)
(* for is followed by another; one that filled the space returns 0.        *)
FillRead(n) ==
  /\ Filling
  /\ n > 0 /\ n <= InPipe /\ n <= CircSpaceToEnd(head, tail)
  /\ buf' = Store(buf, head, fetched, n)
  /\ head' = Mask(head + n)
  /\ fetched' = fetched + n
  /\ rpc' = IF n = CircSpaceToEnd(head, tail) THEN "parse" ELSE "refill"
  /\ UNCHANGED <<writer, tail, consumed, delivered>>

(* circ_fill, read() finds nothing yet: EAGAIN, return -1.  What the peer  *)
(* wrote last may still be on its way.  select() promised that the first   *)
(* read finds something.                                                   *)
FillEmpty ==
  /\ rpc = "refill"
  /\ CircSpaceToEnd(head, tail) > 0
  /\ rpc' = "parse"
  /\ UNCHANGED <<writer, fetched, buf, head, tail, consumed, delivered>>

(* circ_fill, read() returns 0: errno = EPIPE, return -1; the caller leaves*)
(* its loop without looking at the ring again, whatever the reads before   *)
(* this one in the same call brought.                                      *)
FillEOF ==
  /\ Filling
  /\ CircSpaceToEnd(head, tail) > 0
  /\ InPipe = 0 /\ wpc = "closed"
  /\ rpc' = "closed"
  /\ UNCHANGED <<writer, fetched, buf, head, tail, consumed, delivered>>
-----------------------------------------------------------------------------
(* The len field of a header made of these bytes.  Bytes that are not the  *)
(* header of a message the peer sent can say any length.                   *)
LenFields(bytes) ==
  LET Is(i) == \A k \in 1 .. HdrLen : bytes[k] = sent[i].pos + (k - 1)
  IN IF \E i \in 1 .. Len(sent) : Is(i)
       THEN {sent[i].len : i \in {j \in 1 .. Len(sent) : Is(j)}}
       ELSE Lens

(* Seeded fault: only the header is waited for. *)
CompleteHeader(len) == CircAvail(head, tail) >= HdrLen

(* Seeded fault: one byte more is waited for. *)
CompleteStrict(len) == CircAvail(head, tail) > HdrLen + len

(* All of a message of this length is in the ring. *)
Complete(len) == CircAvail(head, tail) >= HdrLen + len

(* A complete message starts at tail and its header says len. *)
HasMsg(len) ==
  /\ CircCount(head, tail, HdrLen) = HdrLen
  /\ len \in LenFields(Peeked(buf, tail, HdrLen))
  /\ Complete(len)

(* Seeded fault: the message is peeked, not read. *)
ParsePeek(len) ==
  /\ rpc = "parse" /\ Len(delivered) < MaxMsgs
  /\ HasMsg(len)
  /\ delivered' = Append(delivered, Peeked(buf, tail, HdrLen + len))
  /\ UNCHANGED <<writer, fetched, buf, head, tail, rpc, consumed>>

(* Seeded fault: one message per call, then back to select(). *)
ParseOne(len) ==
  /\ rpc = "parse"
  /\ HasMsg(len)
  /\ delivered' = Append(delivered, Peeked(buf, tail, HdrLen + len))
  /\ tail' = ReadTail(head, tail, HdrLen + len)
  /\ consumed' = consumed + HdrLen + len
  /\ rpc' = "select"
  /\ UNCHANGED <<writer, fetched, buf, head>>

(* One turn of the for (;;) of handle_stdin and handle_message. *)
Parse(len) ==
  /\ rpc = "parse"
  /\ HasMsg(len)
  /\ delivered' = Append(delivered, Peeked(buf, tail, HdrLen + len))
  /\ tail' = ReadTail(head, tail, HdrLen + len)
  /\ consumed' = consumed + HdrLen + len
  /\ UNCHANGED <<writer, fetched, buf, head, rpc>>

(* No complete message left: return 0, back to select(). *)
ParseDone ==
  /\ rpc = "parse"
  /\ \/ CircCount(head, tail, HdrLen) # HdrLen
     \/ \E len \in LenFields(Peeked(buf, tail, HdrLen)) :
          ~Complete(len)
  /\ rpc' = "select"
  /\ UNCHANGED <<writer, fetched, buf, head, tail, consumed, delivered>>
-----------------------------------------------------------------------------
Receiver == \/ Select
            \/ FillFull
            \/ \E n \in 1 .. (Size - 1) : FillRead(n)
            \/ FillEmpty
            \/ FillEOF
            \/ \E len \in Lens : Parse(len)
            \/ ParseDone

Next == \/ \E len \in Lens : WriteHdr(len)
        \/ WritePayload
        \/ WriteTorn
        \/ \E len \in Lens : WriteOn(len)
        \/ Close
        \/ Receiver

(* The receiver's loop never stops on its own, and a writer that has       *)
(* written a header goes on to write the payload, or fails to.             *)
Fairness == WF_vars(Receiver) /\ WF_vars(WritePayload \/ WriteTorn)

Spec == Init /\ [][Next]_vars
FairSpec == Spec /\ Fairness
-----------------------------------------------------------------------------
Msgs == [pos : Nat, len : Lens]

TypeOK ==
  /\ wpc \in {"idle", "payload", "closed"}
  /\ sent \in Seq(Msgs)
  /\ torn \in BOOLEAN
  /\ wpc = "payload" \/ torn => Len(sent) > 0
  /\ wpc = "payload" => ~torn
  /\ written \in Nat /\ fetched \in Nat /\ consumed \in Nat
  /\ buf \in [Slots -> Nat]
  /\ head \in Slots /\ tail \in Slots
  /\ rpc \in {"select", "fill", "refill", "parse", "closed"}
  /\ delivered \in Seq(Seq(Nat))

(* The ring holds exactly the bytes read and not yet consumed, oldest at   *)
(* tail, across every wrap-around of head and tail: no unread byte is      *)
(* overwritten and none is read twice (circ_fill against circ_read).       *)
RingIntegrity ==
  /\ consumed <= fetched
  /\ fetched - consumed < Size
  /\ CircAvail(head, tail) = fetched - consumed
  /\ \A k \in 0 .. (Size - 1) :
       k < fetched - consumed => buf[Mask(tail + k)] = consumed + k

(* How many messages have been written whole, before the first torn one.   *)
Whole == Len(sent) - (IF wpc = "payload" \/ torn THEN 1 ELSE 0)

(* What a handler is given is, message by message, what the peer sent, with*)
(* nothing lost, repeated, merged or out of order, up to the first torn    *)
(* message; and nothing is made up before a write was torn.                *)
InOrder ==
  /\ Len(delivered) > Whole => torn
  /\ \A i \in 1 .. Len(delivered) :
       i <= Whole => delivered[i] = [k \in 1 .. (HdrLen + sent[i].len) |->
                                       sent[i].pos + (k - 1)]

(* A receiver that goes back to sleep holds no complete message: only what *)
(* arrives together with the end of file can be dropped unread (circ_fill  *)
(* reports EPIPE in the call that read it, and both callers then leave).   *)
NothingHeldAsleep ==
  rpc = "select" /\ Len(delivered) < Len(sent) =>
    LET next == sent[Len(delivered) + 1]
    IN fetched < next.pos + HdrLen + next.len

(* Every message written whole reaches its handler as long as the writer   *)
(* stays and the messages fit the ring: the receiver always makes room for *)
(* the rest of a message it holds in part.                                 *)
Fits(len) == HdrLen + len < Size

EveryMsgArrives ==
  \A i \in 1 .. MaxMsgs :
    (Len(sent) >= i /\ \A j \in 1 .. i : Fits(sent[j].len))
      ~> (Len(delivered) >= i \/ wpc = "closed" \/ (torn /\ i > Whole))

(* The stream is a first-in first-out channel of messages, as far as it is *)
(* whole: the write that completes a message posts it, handing it to its   *)
(* handler takes it, every other step - each read of circ_fill included -  *)
(* is invisible.                                                           *)
Posted == [i \in 1 .. Whole |-> sent[i].len]
Taken == [i \in 1 .. (IF Len(delivered) <= Whole THEN Len(delivered)
                      ELSE Whole) |-> Len(delivered[i]) - HdrLen]

Channel == INSTANCE MsgChannel WITH
  Contents <- Lens, posted <- Posted, taken <- Taken

ChannelSpec == Channel!Spec
=============================================================================
