-------------------------- MODULE MsgStreamProofs --------------------------
(***************************************************************************)
(* For every ring size, header length, set of payload lengths and number   *)
(* of messages: the ring holds exactly the unconsumed bytes and handlers   *)
(* are given exactly the messages sent, in order.                          *)
(***************************************************************************)
EXTENDS MsgStream, SequenceTheorems, TLAPS

(***************************************************************************)
(* Arithmetic of Mask, the "& (CIRC_BUF_SIZE - 1)" of circ_buf.c, and of   *)
(* the index computations of circ_buf.h, for every size of the ring.       *)
(***************************************************************************)

(* A masked index is a slot of the array. *)
LEMMA MaskRange == \A x \in Int : Mask(x) \in Slots
  BY SizeAssumption DEF Mask, Slots

(* Size * q + r has remainder r: every other fact below follows from it. *)
LEMMA MaskUnique == \A q \in Int, r \in Slots : Mask(Size * q + r) = r
  BY SizeAssumption DEF Mask, Slots

(* Multiples of Size. *)
LEMMA Multiples == /\ \A q \in Int : Size * q \in Int
                   /\ \A q, p \in Int : Size * (q + p) = Size * q + Size * p
                   /\ \A q \in Int : Size * (q - 1) = Size * q - Size
  BY SizeAssumption

(* Quotient and remainder. *)
LEMMA MaskQuotient == \A x \in Int : \E q \in Int : x = Size * q + Mask(x)
  <1>. TAKE x \in Int
  <1>1. x \div Size \in Int /\ x = Size * (x \div Size) + Mask(x)
    BY SizeAssumption DEF Mask
  <1>. QED  BY <1>1

(* A slot is its own index. *)
LEMMA MaskSlot == \A x \in Slots : Mask(x) = x
  BY SizeAssumption DEF Mask, Slots

(* Masking an intermediate sum changes nothing: head and tail may be       *)
(* advanced one masked step at a time.                                     *)
LEMMA MaskAdd == \A x, y \in Int : Mask(Mask(x) + y) = Mask(x + y)
  <1>. TAKE x, y \in Int
  <1>1. PICK q \in Int : x = Size * q + Mask(x)
    BY MaskQuotient
  <1>. DEFINE m == Mask(x) + y
  <1>2. Mask(x) \in Int /\ m \in Int
    BY MaskRange DEF Slots
  <1>3. PICK p \in Int : m = Size * p + Mask(m)
    BY <1>2, MaskQuotient
  <1>4. Mask(m) \in Slots
    BY <1>2, MaskRange
  <1>5. x + y = Size * q + (Size * p + Mask(m))
    <2>1. \A a, z \in Int : x = z + a => x + y = z + (a + y)
      OBVIOUS
    <2>2. Size * q \in Int
      BY Multiples
    <2>3. x + y = Size * q + m
      BY <1>1, <1>2, <2>1, <2>2, Zenon
    <2>. QED  BY <1>3, <2>3
  <1>6. Size * q + (Size * p + Mask(m)) = Size * (q + p) + Mask(m)
    BY <1>4, Multiples, SizeAssumption DEF Slots
  <1>7. Mask(Size * (q + p) + Mask(m)) = Mask(m)
    BY <1>4, MaskUnique
  <1>. QED  BY <1>5, <1>6, <1>7

(* Fewer than Size consecutive positions have different slots. *)
LEMMA MaskInjective ==
  \A x, y \in Int : x < y /\ y < x + Size => Mask(x) # Mask(y)
  <1>. SUFFICES ASSUME NEW x \in Int, NEW y \in Int,
                       x < y, y < x + Size, Mask(x) = Mask(y)
                PROVE  FALSE
    OBVIOUS
  <1>. DEFINE d == y - x
  <1>1. d \in Slots /\ d > 0
    BY SizeAssumption DEF Slots
  <1>2. PICK p \in Int : x = Size * p + Mask(x)
    BY MaskQuotient
  <1>3. PICK q \in Int : y = Size * q + Mask(y)
    BY MaskQuotient
  <1>4. Mask(x) \in Int
    BY MaskRange DEF Slots
  <1>5. d = Size * (q - p) + 0
    BY <1>2, <1>3, <1>4, SizeAssumption
  <1>6. Mask(d) = 0
    BY <1>5, MaskUnique, SizeAssumption DEF Slots
  <1>. QED  BY <1>1, <1>6, MaskSlot

(* The indices of the ring when tail stands for position c and head for    *)
(* position f: what CIRC_AVAIL counts, and where a read of n bytes ends.   *)
LEMMA AvailLemma ==
  ASSUME NEW c \in Int, NEW f \in Int, c <= f, f - c < Size
  PROVE  CircAvail(Mask(f), Mask(c)) = f - c
  <1>. DEFINE r == f - c
             y == 0 - Mask(c)
  <1>1. PICK p \in Int : c = Size * p + Mask(c)
    BY MaskQuotient
  <1>2. Mask(c) \in Int /\ Mask(f) \in Int /\ y \in Int /\ r \in Slots
    BY MaskRange, SizeAssumption DEF Slots
  <1>3. Mask(f) - Mask(c) = Mask(f) + y
    BY <1>2
  <1>4. f + y = Size * p + r
    BY <1>1, <1>2, Multiples, SizeAssumption
  <1>. HIDE DEF r, y
  <1>5. Mask(Mask(f) + y) = Mask(f + y)
    BY <1>2, MaskAdd
  <1>6. Mask(Size * p + r) = r
    BY <1>2, MaskUnique
  <1>. QED  BY <1>3, <1>4, <1>5, <1>6 DEF CircAvail, r

(* The space circ_fill asks for never reaches the slot before tail. *)
LEMMA SpaceLemma ==
  ASSUME NEW c \in Int, NEW f \in Int, c <= f, f - c < Size
  PROVE  CircSpace(Mask(f), Mask(c)) = Size - 1 - (f - c)
  <1>. DEFINE r == Size - 1 - (f - c)
             y == 0 - Mask(f) - 1
  <1>1. PICK p \in Int : f = Size * p + Mask(f)
    BY MaskQuotient
  <1>2. Mask(c) \in Int /\ Mask(f) \in Int /\ y \in Int /\ r \in Slots
    BY MaskRange, SizeAssumption DEF Slots
  <1>3. Mask(c) - Mask(f) - 1 = Mask(c) + y
    BY <1>2
  <1>4. c + y = Size * (p - 1) + r
    BY <1>1, <1>2, Multiples, SizeAssumption
  <1>. HIDE DEF r, y
  <1>5. Mask(Mask(c) + y) = Mask(c + y)
    BY <1>2, MaskAdd
  <1>6. Mask(Size * (p - 1) + r) = r
    BY <1>2, MaskUnique
  <1>. QED  BY <1>3, <1>4, <1>5, <1>6 DEF CircSpace, r
-----------------------------------------------------------------------------
(***************************************************************************)
(* The inductive invariant.  head and tail are the masked positions of the *)
(* next byte to read and to consume; the messages sent tile the stream;    *)
(* the receiver consumes at the start of the next message to deliver, as   *)
(* long as it is not behind a torn one.                                    *)
(***************************************************************************)
EndOf(i) == sent[i].pos + HdrLen + sent[i].len

(* Where message i starts, or will start. *)
StartOf(i) == IF i = 1 THEN 0 ELSE EndOf(i - 1)

Indices ==
  /\ consumed <= fetched /\ fetched <= written
  /\ fetched - consumed < Size
  /\ head = Mask(fetched) /\ tail = Mask(consumed)

RingContents == \A p \in Nat : consumed <= p /\ p < fetched => buf[Mask(p)] = p

Tiling ==
  /\ \A i \in 1 .. Len(sent) : sent[i].pos = StartOf(i)
  /\ \A i, j \in 1 .. Len(sent) : i < j => EndOf(i) <= sent[j].pos
  /\ wpc # "payload" /\ ~torn => written = StartOf(Len(sent) + 1)
  /\ wpc = "payload" =>
       /\ written = sent[Len(sent)].pos + HdrLen
       /\ sent[Len(sent)].len > 0

(* The torn header and what came in place of its payload are taken out.    *)
Behind == torn /\ Len(delivered) >= Len(sent)

Cursor ==
  ~Behind => /\ Len(delivered) <= Len(sent)
             /\ consumed = StartOf(Len(delivered) + 1)

IInv == TypeOK /\ Indices /\ RingContents /\ Tiling /\ Cursor /\ InOrder
-----------------------------------------------------------------------------
(* The receiver's indices agree with the history: the consequences of      *)
(* Indices the steps below use.                                            *)
LEMMA IndexFacts ==
  ASSUME TypeOK, Indices
  PROVE  /\ CircAvail(head, tail) = fetched - consumed
         /\ CircSpaceToEnd(head, tail) <= Size - 1 - (fetched - consumed)
         /\ CircSpaceToEnd(head, tail) <= Size - head
         /\ CircSpaceToEnd(head, tail) \in Nat
  <1>1. consumed \in Int /\ fetched \in Int /\ head \in Slots
    BY DEF TypeOK
  <1>2. consumed <= fetched /\ fetched - consumed < Size
        /\ head = Mask(fetched) /\ tail = Mask(consumed)
    BY DEF Indices
  <1>3. CircAvail(head, tail) = fetched - consumed
    BY <1>1, <1>2, AvailLemma
  <1>4. CircSpace(head, tail) = Size - 1 - (fetched - consumed)
    BY <1>1, <1>2, SpaceLemma
  <1>. QED  BY <1>1, <1>2, <1>3, <1>4, SizeAssumption DEF CircSpaceToEnd, Slots

(* What the ring holds, as its readers see it.                             *)
LEMMA RingFacts ==
  ASSUME TypeOK, Indices, RingContents,
         NEW n \in Nat, n <= fetched - consumed
  PROVE  Peeked(buf, tail, n) = [k \in 1 .. n |-> consumed + (k - 1)]
  <1>1. SUFFICES ASSUME NEW k \in 1 .. n
                 PROVE  buf[Mask(tail + k - 1)] = consumed + (k - 1)
    BY DEF Peeked
  <1>. DEFINE p == consumed + (k - 1)
  <1>2. consumed \in Nat /\ fetched \in Nat /\ k - 1 \in Int /\ p \in Nat
    BY DEF TypeOK
  <1>3. tail = Mask(consumed) /\ tail \in Int
    BY MaskRange, <1>2 DEF Indices, Slots
  <1>4. Mask(Mask(consumed) + (k - 1)) = Mask(consumed + (k - 1))
    BY <1>2, MaskAdd
  <1>5. tail + k - 1 = Mask(consumed) + (k - 1)
    BY <1>3
  <1>6. consumed <= p /\ p < fetched
    BY <1>2
  <1>7. buf[Mask(p)] = p
    BY <1>2, <1>6 DEF RingContents
  <1>. QED  BY <1>4, <1>5, <1>7

(* Types of the messages in the history. *)
LEMMA SentFacts ==
  ASSUME TypeOK
  PROVE  /\ Len(sent) \in Nat
         /\ \A i \in 1 .. Len(sent) : /\ sent[i].pos \in Nat
                                     /\ sent[i].len \in Nat
                                     /\ sent[i].len \in Lens
                                     /\ EndOf(i) \in Nat
  <1>1. sent \in Seq(Msgs) /\ Len(sent) \in Nat
    BY DEF TypeOK
  <1>2. SUFFICES ASSUME NEW i \in 1 .. Len(sent)
                 PROVE  /\ sent[i].pos \in Nat
                        /\ sent[i].len \in Nat
                        /\ sent[i].len \in Lens
                        /\ EndOf(i) \in Nat
    BY <1>1
  <1>3. sent[i] \in Msgs
    BY <1>1
  <1>4. sent[i].pos \in Nat /\ sent[i].len \in Lens
    BY <1>3 DEF Msgs
  <1>5. sent[i].len \in Nat /\ HdrLen \in Nat
    BY <1>4, StreamAssumption
  <1>. QED  BY <1>4, <1>5 DEF EndOf

(* Whole counts the messages sent, without the one that is not complete.   *)
LEMMA WholeFacts ==
  ASSUME TypeOK
  PROVE  /\ Whole \in Nat /\ Whole <= Len(sent)
         /\ wpc = "payload" \/ torn => Whole = Len(sent) - 1
         /\ wpc # "payload" /\ ~torn => Whole = Len(sent)
  <1>1. Len(sent) \in Nat /\ (wpc = "payload" \/ torn => Len(sent) > 0)
    BY DEF TypeOK
  <1>2. CASE wpc = "payload" \/ torn
    BY <1>1, <1>2 DEF Whole
  <1>3. CASE wpc # "payload" /\ ~torn
    BY <1>1, <1>3 DEF Whole
  <1>. QED  BY <1>2, <1>3

(* Before a write was torn, what is delivered is whole. *)
LEMMA DeliveredWhole ==
  ASSUME TypeOK, InOrder, ~torn
  PROVE  Len(delivered) \in Nat /\ Len(delivered) <= Whole
  <1>1. Len(delivered) \in Nat /\ Whole \in Nat
    BY WholeFacts DEF TypeOK
  <1>. QED  BY <1>1 DEF InOrder

(* The invariant holds initially. *)
LEMMA InitInv == Init => IInv
  <1>. SUFFICES ASSUME Init PROVE IInv
    OBVIOUS
  <1>1. Mask(0) = 0 /\ 0 \in Slots
    BY MaskSlot, SizeAssumption DEF Slots
  <1>2. TypeOK
    BY <1>1 DEF Init, TypeOK
  <1>. QED
    BY <1>1, <1>2, SizeAssumption
       DEF Init, IInv, Indices, RingContents, Tiling, Cursor, InOrder, StartOf,
           Behind, Whole

(* The header write: a new tile at the end of the stream. *)
LEMMA WriteHdrInv ==
  ASSUME IInv, NEW len \in Lens, WriteHdr(len)
  PROVE  IInv'
  <1>. DEFINE m == [pos |-> written, len |-> len]
  <1>0. PICK n \in Nat : n = Len(sent)
    BY SentFacts DEF IInv
  <1>1. TypeOK /\ m \in Msgs /\ len \in Nat /\ written \in Nat
    BY StreamAssumption DEF IInv, TypeOK, Msgs
  <1>2. n \in Nat /\ Len(sent') = n + 1 /\ sent'[n + 1] = m
        /\ (\A i \in 1 .. n : sent'[i] = sent[i])
        /\ sent' \in Seq(Msgs)
    BY <1>0, <1>1 DEF WriteHdr, TypeOK
  <1>3. TypeOK'
    BY <1>1, <1>2, StreamAssumption DEF WriteHdr, TypeOK
  <1>4. Indices' /\ RingContents'
    BY <1>1, StreamAssumption DEF IInv, WriteHdr, Indices, RingContents, TypeOK
  <1>5. written = StartOf(n + 1)
    BY <1>0 DEF IInv, Tiling, WriteHdr
  <1>6. \A i \in 1 .. n : EndOf(i)' = EndOf(i) /\ EndOf(i) \in Nat
    BY <1>0, <1>1, <1>2, SentFacts DEF EndOf
  <1>7. \A i \in 1 .. (n + 1) : StartOf(i)' = StartOf(i)
    BY <1>2, <1>6 DEF StartOf
  <1>8. \A i \in 1 .. n : EndOf(i) <= written
    <2>1. TAKE i \in 1 .. n
    <2>2. n # 0 /\ written = EndOf(n)
      BY <1>2, <1>5 DEF StartOf
    <2>3. i < n => EndOf(i) <= sent[n].pos
      BY <1>0, <1>2 DEF IInv, Tiling
    <2>4. n \in 1 .. n /\ sent[n].pos <= EndOf(n)
      BY <1>0, <1>1, <1>2, <2>2, SentFacts, StreamAssumption DEF EndOf
    <2>5. sent[n].pos \in Nat /\ EndOf(n) \in Nat /\ EndOf(i) \in Nat
      BY <1>0, <1>1, <1>6, <2>4, SentFacts
    <2>. QED  BY <1>2, <2>2, <2>3, <2>4, <2>5
  <1>9. Tiling'
    <2>1. \A i \in 1 .. (n + 1) : sent'[i].pos = StartOf(i)'
      BY <1>0, <1>2, <1>5, <1>7 DEF IInv, Tiling
    <2>2. \A i, j \in 1 .. (n + 1) : i < j => EndOf(i)' <= sent'[j].pos
      BY <1>0, <1>2, <1>6, <1>8 DEF IInv, Tiling
    <2>3. EndOf(n + 1)' = written + HdrLen + len
      <3>1. EndOf(n + 1)' = sent'[n + 1].pos + HdrLen + sent'[n + 1].len
        BY <1>0 DEF EndOf
      <3>. QED  BY <1>2, <3>1
    <2>4. wpc' # "payload" => written' = StartOf(n + 2)'
      <3>1. wpc' # "payload" => len = 0
        BY <1>1 DEF WriteHdr
      <3>2. StartOf(n + 2)' = EndOf(n + 1)'
        BY <1>2 DEF StartOf
      <3>. QED  BY <1>1, <2>3, <3>1, <3>2, StreamAssumption DEF WriteHdr
    <2>5. wpc' = "payload" => /\ written' = sent'[n + 1].pos + HdrLen
                              /\ sent'[n + 1].len > 0
      BY <1>1, <1>2 DEF WriteHdr
    <2>6. Len(sent') + 1 = n + 2 /\ Len(sent') = n + 1
      BY <1>2
    <2>. QED  BY <2>1, <2>2, <2>4, <2>5, <2>6 DEF Tiling
  <1>10. Cursor' /\ InOrder'
    <2>1. UNCHANGED <<delivered, consumed, torn>> /\ ~torn
          /\ wpc # "payload"
      BY DEF WriteHdr
    <2>2. Len(delivered) \in Nat /\ Len(delivered) <= n /\ Whole = n
      BY <1>0, <1>1, <2>1, DeliveredWhole, WholeFacts DEF IInv
    <2>3. Cursor'
      BY <1>2, <1>7, <2>1, <2>2 DEF IInv, Cursor, Behind
    <2>4. \A i \in 1 .. Len(delivered) : sent'[i] = sent[i] /\ i <= Whole
      BY <1>2, <2>2
    <2>5. Whole' \in {n, n + 1}
      BY <1>2, <2>1 DEF Whole
    <2>6. \A i \in 1 .. Len(delivered) :
            delivered[i] = [k \in 1 .. (HdrLen + sent'[i].len) |->
                              sent'[i].pos + (k - 1)]
      <3>1. TAKE i \in 1 .. Len(delivered)
      <3>2. i <= Whole /\ sent'[i] = sent[i]
        BY <2>4
      <3>. QED  BY <3>1, <3>2 DEF IInv, InOrder
    <2>7. ~(Len(delivered) > Whole')
      BY <1>0, <2>2, <2>5
    <2>8. InOrder'
      BY <2>1, <2>6, <2>7 DEF InOrder
    <2>. QED  BY <2>3, <2>8
  <1>. QED  BY <1>3, <1>4, <1>9, <1>10 DEF IInv

(* The payload write completes the last tile. *)
LEMMA WritePayloadInv ==
  ASSUME IInv, WritePayload
  PROVE  IInv'
  <1>. DEFINE n == Len(sent)
  <1>1. TypeOK /\ n \in Nat /\ n > 0
    BY SentFacts DEF IInv, TypeOK, WritePayload
  <1>2. sent[n].len \in Nat /\ sent[n].pos \in Nat
    BY <1>1, SentFacts
  <1>3. TypeOK'
    BY <1>1, <1>2 DEF WritePayload, TypeOK
  <1>4. Indices' /\ RingContents'
    BY <1>1, <1>2 DEF IInv, WritePayload, Indices, RingContents, TypeOK
  <1>5. (\A i : EndOf(i)' = EndOf(i)) /\ (\A i : StartOf(i)' = StartOf(i))
    BY DEF EndOf, StartOf, WritePayload
  <1>6. written' = StartOf(n + 1)
    BY <1>1, <1>2 DEF IInv, Tiling, WritePayload, StartOf, EndOf
  <1>7. Tiling'
    BY <1>5, <1>6 DEF IInv, Tiling, WritePayload
  <1>8. Cursor'
    BY <1>5 DEF IInv, Cursor, Behind, WritePayload
  <1>9. InOrder'
    <2>1. ~torn /\ UNCHANGED <<sent, torn, delivered>>
      BY <1>1 DEF TypeOK, WritePayload
    <2>2. Len(delivered) \in Nat /\ Len(delivered) <= Whole /\ Whole = n - 1
      BY <1>1, <2>1, DeliveredWhole, WholeFacts DEF IInv, WritePayload
    <2>3. Whole' = n
      BY <1>1, <2>1 DEF Whole, WritePayload
    <2>4. \A i \in 1 .. Len(delivered) : i <= Whole
      BY <1>1, <2>2
    <2>. QED  BY <1>1, <2>1, <2>2, <2>3, <2>4 DEF IInv, InOrder
  <1>. QED  BY <1>3, <1>4, <1>7, <1>8, <1>9 DEF IInv

(* A torn write and an end inside a message change nothing in the stream;  *)
(* what is written behind a torn one is more bytes.                        *)
LEMMA WriteTornInv ==
  ASSUME IInv, WriteTorn \/ Close
  PROVE  IInv'
  <1>0. /\ torn' = (torn \/ wpc = "payload") /\ wpc # "closed"
        /\ wpc' \in {"idle", "closed"}
        /\ UNCHANGED <<sent, written, fetched, buf, head, tail, rpc, consumed,
                       delivered>>
    BY DEF WriteTorn, Close
  <1>1. TypeOK'
    <2>1. torn' \in BOOLEAN
      BY <1>0 DEF IInv, TypeOK
    <2>. QED  BY <1>0, <2>1 DEF IInv, TypeOK
  <1>2. Indices' /\ RingContents'
    BY <1>0 DEF IInv, Indices, RingContents
  <1>3. Tiling' /\ Cursor'
    <2>1. (wpc' = "payload" \/ torn') = (wpc = "payload" \/ torn)
      BY <1>0
    <2>. QED  BY <1>0, <2>1 DEF IInv, TypeOK, Tiling, Cursor, Behind, StartOf, EndOf
  <1>4. Whole' = Whole
    BY <1>0 DEF Whole
  <1>5. InOrder'
    BY <1>0, <1>4 DEF IInv, InOrder
  <1>. QED  BY <1>1, <1>2, <1>3, <1>5 DEF IInv

LEMMA WriteOnInv ==
  ASSUME IInv, NEW len \in Lens, WriteOn(len)
  PROVE  IInv'
  <1>1. TypeOK /\ len \in Nat /\ HdrLen \in Nat /\ written \in Nat
    BY StreamAssumption DEF IInv, TypeOK
  <1>2. TypeOK'
    BY <1>1 DEF TypeOK, WriteOn
  <1>3. Indices' /\ RingContents'
    BY <1>1 DEF IInv, TypeOK, WriteOn, Indices, RingContents
  <1>4. Tiling' /\ Cursor'
    BY DEF IInv, WriteOn, Tiling, Cursor, Behind, StartOf, EndOf
  <1>5. InOrder'
    BY DEF IInv, WriteOn, InOrder, Whole
  <1>. QED  BY <1>2, <1>3, <1>4, <1>5 DEF IInv

(* Steps that only move a program counter. *)
LEMMA ControlInv ==
  ASSUME IInv,
         Select \/ FillFull \/ FillEmpty \/ FillEOF \/ ParseDone
  PROVE  IInv'
  <1>1. /\ UNCHANGED <<wpc, sent, torn, written, fetched, buf, head, tail,
                       consumed, delivered>>
        /\ rpc' \in {"select", "fill", "refill", "parse", "closed"}
    BY DEF IInv, TypeOK, Select, FillFull, FillEmpty, FillEOF,
           ParseDone, writer
  <1>2. TypeOK'
    BY <1>1 DEF IInv, TypeOK
  <1>3. Indices' /\ RingContents' /\ Cursor'
    BY <1>1 DEF IInv, Indices, RingContents, Cursor, Behind, StartOf, EndOf
  <1>5. InOrder'
    BY <1>1 DEF IInv, InOrder, Whole
  <1>4. Tiling'
    BY <1>1 DEF IInv, Tiling, StartOf, EndOf
  <1>. QED  BY <1>2, <1>3, <1>4, <1>5 DEF IInv

(* circ_fill's read() stores the next n bytes and nothing else: the slots  *)
(* it writes are not those of unconsumed bytes.                            *)
LEMMA FillReadInv ==
  ASSUME IInv, NEW n \in 1 .. (Size - 1), FillRead(n)
  PROVE  IInv'
  <1>. USE DEF IInv
  <1>1. /\ TypeOK /\ n \in Nat /\ n > 0
        /\ n <= written - fetched
        /\ n <= CircSpaceToEnd(head, tail)
    BY SizeAssumption DEF FillRead, InPipe
  <1>2. /\ n <= Size - 1 - (fetched - consumed)
        /\ head + n <= Size
    <2>1. /\ CircSpaceToEnd(head, tail) <= Size - 1 - (fetched - consumed)
          /\ CircSpaceToEnd(head, tail) <= Size - head
          /\ CircSpaceToEnd(head, tail) \in Nat
      BY IndexFacts
    <2>2. /\ fetched \in Int /\ consumed \in Int
          /\ head \in Int /\ Size \in Int
      BY <1>1, SizeAssumption DEF TypeOK, Slots
    <2>. QED  BY <1>1, <2>1, <2>2
  <1>3. head' = Mask(fetched')
    <2>1. head = Mask(fetched) /\ fetched \in Int /\ n \in Int
      BY <1>1 DEF TypeOK, Indices
    <2>. QED  BY <2>1, MaskAdd DEF FillRead
  <1>4. Indices'
    BY <1>1, <1>2, <1>3, SizeAssumption DEF FillRead, Indices, TypeOK, writer
  <1>5. head' \in Slots
    BY <1>1, <1>3, MaskRange DEF FillRead, TypeOK
  <1>6. \A s \in Slots :
          buf'[s] = IF head <= s /\ s < head + n
                      THEN fetched + (s - head) ELSE buf[s]
    BY DEF FillRead, Store
  <1>7. TypeOK'
    <2>1. buf' \in [Slots -> Nat]
      BY <1>1, SizeAssumption DEF FillRead, Store, TypeOK, Slots
    <2>. QED  BY <1>1, <1>5, <2>1 DEF FillRead, TypeOK, writer
  <1>8. RingContents'
    <2>1. SUFFICES ASSUME NEW p \in Nat, consumed <= p, p < fetched + n
                   PROVE  buf'[Mask(p)] = p
      BY DEF FillRead, RingContents
    <2>2. Mask(p) \in Slots /\ head \in Slots /\ fetched \in Nat
          /\ consumed \in Nat /\ head = Mask(fetched)
      BY MaskRange, <1>1 DEF TypeOK, Indices
    <2>3. CASE p >= fetched
      <3>. DEFINE d == p - fetched
      <3>1. d \in 0 .. (n - 1) /\ d \in Int /\ p = fetched + d
        BY <1>1, <2>1, <2>2, <2>3
      <3>2. head + d \in Slots
        BY <1>2, <2>2, <3>1, SizeAssumption DEF Slots
      <3>. HIDE DEF d
      <3>3. Mask(Mask(fetched) + d) = Mask(fetched + d)
        BY <2>2, <3>1, MaskAdd
      <3>4. Mask(p) = head + d
        BY <2>2, <3>1, <3>2, <3>3, MaskSlot
      <3>. QED
        BY <1>6, <2>2, <3>1, <3>2, <3>4, SizeAssumption DEF Slots
    <2>4. CASE p < fetched
      <3>1. buf[Mask(p)] = p
        BY <2>1, <2>4 DEF RingContents
      <3>2. \A d \in 0 .. (n - 1) : Mask(p) # head + d
        <4>1. TAKE d \in 0 .. (n - 1)
        <4>2. head + d \in Slots /\ d \in Int
          BY <1>2, <2>2, <4>1, SizeAssumption DEF Slots
        <4>3. Mask(Mask(fetched) + d) = Mask(fetched + d)
          BY <2>2, <4>2, MaskAdd
        <4>4. head + d = Mask(fetched + d)
          BY <2>2, <4>2, <4>3, MaskSlot
        <4>5. p < fetched + d /\ fetched + d < p + Size /\ fetched + d \in Int
          BY <1>1, <1>2, <2>1, <2>2, <2>4, <4>1, SizeAssumption
        <4>6. Mask(p) # Mask(fetched + d)
          BY <4>5, MaskInjective
        <4>. QED  BY <4>4, <4>6
      <3>3. ~(head <= Mask(p) /\ Mask(p) < head + n)
        <4>1. SUFFICES ASSUME head <= Mask(p), Mask(p) < head + n
                       PROVE  FALSE
          OBVIOUS
        <4>2. Mask(p) - head \in 0 .. (n - 1)
          BY <1>1, <2>2, <4>1, SizeAssumption DEF Slots
        <4>3. Mask(p) = head + (Mask(p) - head)
          BY <2>2, SizeAssumption DEF Slots
        <4>. QED  BY <3>2, <4>2, <4>3
      <3>. QED  BY <1>6, <2>2, <3>1, <3>3
    <2>. QED  BY <2>2, <2>3, <2>4
  <1>9. Tiling' /\ Cursor' /\ InOrder'
    BY DEF FillRead, Tiling, Cursor, Behind, InOrder, Whole, StartOf, EndOf,
           writer
  <1>. QED  BY <1>4, <1>7, <1>8, <1>9
-----------------------------------------------------------------------------
(* When a header is complete, the message at tail is the next one to       *)
(* deliver, and its header is the only one the bytes can be.               *)
LEMMA HeaderFacts ==
  ASSUME IInv, ~Behind, CircCount(head, tail, HdrLen) = HdrLen
  PROVE  /\ Len(delivered) < Len(sent)
         /\ sent[Len(delivered) + 1].pos = consumed
         /\ LenFields(Peeked(buf, tail, HdrLen))
              = {sent[Len(delivered) + 1].len}
  <1>. DEFINE bytes == Peeked(buf, tail, HdrLen)
  <1>0. PICK d \in Nat, n \in Nat : d = Len(delivered) /\ n = Len(sent)
    BY SentFacts DEF IInv, TypeOK
  <1>1. TypeOK /\ consumed \in Nat /\ fetched \in Nat /\ written \in Nat
    BY DEF IInv, TypeOK
  <1>2. HdrLen \in Nat /\ HdrLen > 0
    BY StreamAssumption
  <1>3. fetched - consumed >= HdrLen
    BY <1>1, <1>2, IndexFacts DEF CircCount, IInv
  <1>4. d <= n /\ consumed = StartOf(d + 1)
    BY <1>0 DEF IInv, Cursor
  <1>5. d < n
    <2>1. SUFFICES ASSUME d = n PROVE FALSE
      BY <1>4
    <2>0. ~torn
      BY <1>0, <2>1 DEF Behind
    <2>2. fetched <= consumed
      <3>1. CASE wpc # "payload"
        BY <1>0, <1>4, <2>0, <2>1, <3>1 DEF IInv, Tiling, Indices
      <3>2. CASE wpc = "payload"
        <4>1. n > 0
          BY <1>0, <1>1, <3>2 DEF TypeOK
        <4>2. consumed = EndOf(n)
          BY <1>4, <2>1, <4>1 DEF StartOf
        <4>3. written = sent[n].pos + HdrLen /\ sent[n].len > 0
          BY <1>0, <3>2 DEF IInv, Tiling
        <4>4. sent[n].pos \in Nat /\ sent[n].len \in Nat
          BY <1>0, <1>1, <4>1, SentFacts
        <4>5. fetched <= written
          BY DEF IInv, Indices
        <4>. QED  BY <1>1, <1>2, <4>2, <4>3, <4>4, <4>5 DEF EndOf
      <3>. QED  BY <3>1, <3>2
    <2>. QED  BY <1>1, <1>2, <1>3, <2>2
  <1>6. sent[d + 1].pos = consumed
    BY <1>0, <1>4, <1>5 DEF IInv, Tiling
  <1>7. bytes = [k \in 1 .. HdrLen |-> consumed + (k - 1)]
    BY <1>1, <1>2, <1>3, RingFacts DEF IInv
  <1>8. bytes[1] = consumed /\ \A k \in 1 .. HdrLen : bytes[k] = consumed + (k - 1)
    BY <1>1, <1>2, <1>7
  <1>. HIDE DEF bytes
  <1>9. \A i \in 1 .. n :
          (\A k \in 1 .. HdrLen : bytes[k] = sent[i].pos + (k - 1)) <=> i = d + 1
    <2>1. TAKE i \in 1 .. n
    <2>2. sent[i].pos \in Nat /\ \A j \in 1 .. n : sent[j].pos \in Nat /\ sent[j].len \in Nat
      BY <1>0, <1>1, SentFacts
    <2>3. i # d + 1 => sent[i].pos # consumed
      <3>1. \A a, b \in 1 .. n : a < b => sent[a].pos < sent[b].pos
        <4>1. TAKE a, b \in 1 .. n
        <4>2. a < b => EndOf(a) <= sent[b].pos
          BY <1>0 DEF IInv, Tiling
        <4>3. sent[a].pos \in Nat /\ sent[a].len \in Nat /\ sent[b].pos \in Nat
          BY <2>2
        <4>. QED  BY <1>2, <4>2, <4>3 DEF EndOf
      <3>2. d + 1 \in 1 .. n
        BY <1>5
      <3>. QED  BY <1>1, <1>6, <2>2, <3>1, <3>2
    <2>4. (\A k \in 1 .. HdrLen : bytes[k] = sent[i].pos + (k - 1))
             => sent[i].pos = consumed
      <3>1. 1 \in 1 .. HdrLen
        BY <1>2
      <3>. QED  BY <1>8, <2>2, <3>1
    <2>. QED  BY <1>6, <1>8, <2>3, <2>4
  <1>10. d + 1 \in 1 .. n
    BY <1>5
  <1>11. LenFields(bytes) = {sent[d + 1].len}
    BY <1>0, <1>9, <1>10 DEF LenFields
  <1>. QED  BY <1>0, <1>5, <1>6, <1>11 DEF bytes

(* A handler is given the next bytes of the ring, and unless that is behind*)
(* a torn message they are the next message, whole if none was torn.       *)
LEMMA ParseFacts ==
  ASSUME IInv, NEW len \in Lens, Parse(len)
  PROVE  /\ HdrLen + len <= fetched - consumed
         /\ Peeked(buf, tail, HdrLen + len)
              = [k \in 1 .. (HdrLen + len) |-> consumed + (k - 1)]
         /\ ~Behind => /\ Len(delivered) < Len(sent)
                       /\ len = sent[Len(delivered) + 1].len
                       /\ consumed = sent[Len(delivered) + 1].pos
         /\ ~torn => Len(delivered) < Whole
  <1>1. TypeOK /\ HdrLen + len \in Nat /\ HdrLen \in Nat /\ len \in Nat
    BY StreamAssumption DEF IInv
  <1>2. /\ CircCount(head, tail, HdrLen) = HdrLen
        /\ len \in LenFields(Peeked(buf, tail, HdrLen))
        /\ CircAvail(head, tail) >= HdrLen + len
    BY DEF Parse, HasMsg, Complete
  <1>3. HdrLen + len <= fetched - consumed
    BY <1>1, <1>2, IndexFacts DEF IInv, TypeOK
  <1>4. ~Behind => /\ Len(delivered) < Len(sent)
                   /\ len = sent[Len(delivered) + 1].len
                   /\ consumed = sent[Len(delivered) + 1].pos
    BY <1>2, HeaderFacts
  <1>5. ASSUME ~torn PROVE Len(delivered) < Whole
    <2>0. PICK d \in Nat, n \in Nat : d = Len(delivered) /\ n = Len(sent)
      BY <1>1, SentFacts DEF TypeOK
    <2>1. d < n /\ len = sent[d + 1].len /\ consumed = sent[d + 1].pos
      BY <1>4, <1>5, <2>0 DEF Behind
    <2>2. CASE wpc # "payload"
      BY <1>1, <1>5, <2>0, <2>1, <2>2, WholeFacts
    <2>3. CASE wpc = "payload"
      <3>1. Whole = n - 1
        BY <1>1, <2>0, <2>3, WholeFacts
      <3>2. SUFFICES ASSUME d + 1 = n PROVE FALSE
        BY <2>0, <2>1, <3>1
      <3>3. written = consumed + HdrLen /\ len > 0
        BY <2>0, <2>1, <2>3, <3>2 DEF IInv, Tiling
      <3>4. fetched <= written /\ fetched \in Nat /\ consumed \in Nat
        BY <1>1 DEF IInv, Indices, TypeOK
      <3>. QED  BY <1>1, <1>3, <3>3, <3>4
    <2>. QED  BY <2>2, <2>3
  <1>. QED  BY <1>1, <1>3, <1>4, <1>5, RingFacts DEF IInv

(* Taking a message moves tail and the cursor to the next one. *)
LEMMA ParseInv ==
  ASSUME IInv, NEW len \in Lens, Parse(len)
  PROVE  IInv'
  <1>0. PICK d \in Nat, n \in Nat : d = Len(delivered) /\ n = Len(sent)
    <2>1. Len(delivered) \in Nat /\ Len(sent) \in Nat
      BY DEF IInv, TypeOK
    <2>. QED  BY <2>1
  <1>. DEFINE L == HdrLen + len
              msg == [k \in 1 .. L |-> consumed + (k - 1)]
  <1>1. TypeOK /\ consumed \in Nat /\ fetched \in Nat /\ len \in Nat
        /\ HdrLen \in Nat /\ L \in Nat
    BY StreamAssumption DEF IInv, TypeOK
  <1>2. L <= fetched - consumed /\ Peeked(buf, tail, L) = msg
    BY ParseFacts
  <1>14. ASSUME ~Behind
         PROVE  d < n /\ len = sent[d + 1].len /\ consumed = sent[d + 1].pos
    BY <1>0, <1>14, ParseFacts
  <1>3. delivered' = Append(delivered, msg)
    BY <1>2 DEF Parse
  <1>4. msg \in Seq(Nat)
    BY <1>1
  <1>5. Len(delivered') = d + 1 /\ delivered'[d + 1] = msg
        /\ (\A i \in 1 .. d : delivered'[i] = delivered[i])
        /\ delivered' \in Seq(Seq(Nat))
    <2>1. delivered \in Seq(Seq(Nat))
      BY <1>1 DEF TypeOK
    <2>. HIDE DEF msg
    <2>. QED  BY <1>0, <1>3, <1>4, <2>1
  <1>6. tail' = Mask(consumed') /\ consumed' = consumed + L
    <2>1. tail' = Mask(tail + L)
      BY DEF Parse, ReadTail, HasMsg, Complete
    <2>2. tail = Mask(consumed)
      BY DEF IInv, Indices
    <2>3. consumed' = consumed + L
      BY <1>1 DEF Parse
    <2>. QED  BY <1>1, <2>1, <2>2, <2>3, MaskAdd
  <1>. HIDE DEF msg
  <1>7. TypeOK'
    <2>1. tail' \in Slots /\ consumed' \in Nat
      BY <1>1, <1>6, MaskRange
    <2>. QED  BY <1>5, <2>1 DEF IInv, TypeOK, Parse, writer
  <1>8. Indices'
    <2>1. UNCHANGED <<written, fetched, head>>
      BY DEF Parse, writer
    <2>2. consumed <= fetched /\ fetched <= written /\ fetched - consumed < Size
          /\ head = Mask(fetched) /\ Size \in Nat
      BY SizeAssumption DEF IInv, Indices
    <2>3. consumed' <= fetched /\ fetched - consumed' < Size
      BY <1>1, <1>2, <1>6, <2>2
    <2>. QED  BY <1>6, <2>1, <2>2, <2>3 DEF Indices
  <1>9. RingContents'
    BY <1>1, <1>6 DEF IInv, RingContents, Parse, writer
  <1>10. (\A i : EndOf(i)' = EndOf(i)) /\ (\A i : StartOf(i)' = StartOf(i))
    BY DEF EndOf, StartOf, Parse, writer
  <1>11. Tiling'
    BY <1>10 DEF IInv, Tiling, Parse, writer
  <1>12. Cursor'
    <2>1. UNCHANGED <<sent, torn>>
      BY DEF Parse, writer
    <2>2. SUFFICES ASSUME ~Behind'
                   PROVE  d + 1 <= n /\ consumed' = StartOf(d + 2)
      BY <1>0, <1>5, <1>10, <2>1 DEF Cursor
    <2>3. ~Behind
      BY <1>0, <1>5, <2>1, <2>2 DEF Behind
    <2>4. consumed' = EndOf(d + 1) /\ d + 1 <= n
      BY <1>0, <1>1, <1>6, <1>14, <2>3 DEF EndOf
    <2>. QED  BY <1>0, <2>4 DEF StartOf
  <1>13. InOrder'
    <2>1. sent' = sent /\ torn' = torn /\ wpc' = wpc /\ Whole' = Whole
      BY DEF Parse, writer, Whole
    <2>3. Whole \in Nat /\ (torn => Whole = n - 1)
      BY <1>0, <1>1, WholeFacts
    <2>8. ~torn => d < Whole
      BY <1>0, ParseFacts
    <2>2. d + 1 > Whole => torn
      BY <2>3, <2>8
    <2>4. ASSUME NEW i \in 1 .. (d + 1), i <= Whole
          PROVE  delivered'[i] = [k \in 1 .. (HdrLen + sent[i].len) |->
                                    sent[i].pos + (k - 1)]
      <3>1. CASE i = d + 1
        <4>1. ~Behind
          BY <1>0, <2>3, <2>4, <3>1 DEF Behind
        <4>. QED  BY <1>5, <1>14, <3>1, <4>1 DEF msg
      <3>2. CASE i # d + 1
        <4>1. i \in 1 .. d
          BY <3>2
        <4>2. delivered[i] = [k \in 1 .. (HdrLen + sent[i].len) |->
                                sent[i].pos + (k - 1)]
          BY <1>0, <2>4, <4>1 DEF IInv, InOrder
        <4>. QED  BY <1>5, <4>1, <4>2
      <3>. QED  BY <3>1, <3>2
    <2>5. \A i \in 1 .. (d + 1) :
            i <= Whole' => delivered'[i] = [k \in 1 .. (HdrLen + sent'[i].len) |->
                                              sent'[i].pos + (k - 1)]
      BY <2>1, <2>4
    <2>6. Len(delivered') > Whole' => torn'
      BY <1>5, <2>1, <2>2
    <2>7. Len(delivered') = d + 1
      BY <1>5
    <2>. QED  BY <2>5, <2>6, <2>7 DEF InOrder
  <1>. QED  BY <1>7, <1>8, <1>9, <1>11, <1>12, <1>13 DEF IInv
-----------------------------------------------------------------------------
(* Every step preserves the invariant. *)
LEMMA NextInv == IInv /\ [Next]_vars => IInv'
  <1>. SUFFICES ASSUME IInv, [Next]_vars PROVE IInv'
    OBVIOUS
  <1>1. ASSUME NEW len \in Lens, WriteHdr(len) PROVE IInv'
    BY <1>1, WriteHdrInv
  <1>2. CASE WritePayload
    BY <1>2, WritePayloadInv
  <1>7. CASE WriteTorn \/ Close
    BY <1>7, WriteTornInv
  <1>8. ASSUME NEW len \in Lens, WriteOn(len) PROVE IInv'
    BY <1>8, WriteOnInv
  <1>3. CASE Select \/ FillFull \/ FillEmpty \/ FillEOF \/ ParseDone
    BY <1>3, ControlInv
  <1>4. ASSUME NEW n \in 1 .. (Size - 1), FillRead(n) PROVE IInv'
    BY <1>4, FillReadInv
  <1>5. ASSUME NEW len \in Lens, Parse(len) PROVE IInv'
    BY <1>5, ParseInv
  <1>6. CASE UNCHANGED vars
    <2>1. TypeOK' /\ Indices' /\ RingContents'
      BY <1>6 DEF vars, IInv, TypeOK, Indices, RingContents
    <2>2. Tiling' /\ Cursor' /\ InOrder'
      BY <1>6 DEF vars, IInv, Tiling, Cursor, Behind, InOrder, Whole, StartOf,
                  EndOf
    <2>. QED  BY <2>1, <2>2 DEF IInv
  <1>. QED  BY <1>1, <1>2, <1>3, <1>4, <1>5, <1>6, <1>7, <1>8
            DEF Next, Receiver

(* The invariant holds in every behaviour. *)
THEOREM Invariance == Spec => []IInv
  <1>. QED  BY InitInv, NextInv, PTL DEF Spec

(* Type correctness of one direction of the connection. *)
THEOREM TypeCorrect == Spec => []TypeOK
  <1>1. IInv => TypeOK
    BY DEF IInv
  <1>. QED  BY <1>1, Invariance, PTL

(* circ_fill never overwrites an unconsumed byte and circ_read never       *)
(* returns one twice, whatever the sizes of the reads and messages.        *)
THEOREM RingIsSound == Spec => []RingIntegrity
  <1>1. IInv => RingIntegrity
    <2>. SUFFICES ASSUME IInv PROVE RingIntegrity
      OBVIOUS
    <2>1. TypeOK /\ Indices /\ RingContents
      BY DEF IInv
    <2>2. CircAvail(head, tail) = fetched - consumed
      BY <2>1, IndexFacts
    <2>3. \A k \in 0 .. (Size - 1) :
            k < fetched - consumed => buf[Mask(tail + k)] = consumed + k
      <3>1. TAKE k \in 0 .. (Size - 1)
      <3>2. HAVE k < fetched - consumed
      <3>3. consumed \in Nat /\ fetched \in Nat /\ k \in Nat
            /\ consumed + k \in Nat /\ tail = Mask(consumed)
        BY <2>1, SizeAssumption DEF TypeOK, Indices
      <3>4. Mask(Mask(consumed) + k) = Mask(consumed + k)
        BY <3>3, MaskAdd
      <3>5. consumed <= consumed + k /\ consumed + k < fetched
        BY <3>2, <3>3
      <3>. QED  BY <2>1, <3>3, <3>4, <3>5 DEF RingContents
    <2>. QED  BY <2>1, <2>2, <2>3 DEF RingIntegrity, Indices
  <1>. QED  BY <1>1, Invariance, PTL

(* The handlers of handle_stdin and handle_message are given the messages  *)
(* sent, whole, each once and in order, up to the first that was torn.     *)
THEOREM FramingIsSound == Spec => []InOrder
  <1>1. IInv => InOrder
    BY DEF IInv
  <1>. QED  BY <1>1, Invariance, PTL

(* The next message starts where the receiver has consumed to. *)
LEMMA NextStart ==
  ASSUME IInv, Len(delivered) < Len(sent)
  PROVE  sent[Len(delivered) + 1].pos = consumed
  <1>0. PICK d \in Nat, n \in Nat : d = Len(delivered) /\ n = Len(sent)
    <2>1. Len(delivered) \in Nat /\ Len(sent) \in Nat
      BY DEF IInv, TypeOK
    <2>. QED  BY <2>1
  <1>1. d + 1 \in 1 .. n /\ ~Behind
    BY <1>0 DEF Behind
  <1>. QED  BY <1>0, <1>1 DEF IInv, Cursor, Tiling

(* The receiver leaves the parse loop only without a complete message.     *)
LEMMA ParseDoneHoldsNone ==
  ASSUME IInv, ParseDone
  PROVE  NothingHeldAsleep'
  <1>1. SUFFICES ASSUME Len(delivered) < Len(sent)
                 PROVE  fetched < sent[Len(delivered) + 1].pos + HdrLen
                                    + sent[Len(delivered) + 1].len
    BY DEF ParseDone, NothingHeldAsleep, writer
  <1>2. sent[Len(delivered) + 1].pos = consumed
    BY <1>1, NextStart
  <1>3. Len(delivered) + 1 \in 1 .. Len(sent)
    BY <1>1 DEF IInv, TypeOK
  <1>4. sent[Len(delivered) + 1].len \in Nat /\ HdrLen \in Nat
        /\ consumed \in Nat /\ fetched \in Nat
    BY <1>3, SentFacts, StreamAssumption DEF IInv, TypeOK
  <1>5. CircAvail(head, tail) = fetched - consumed
    BY IndexFacts DEF IInv
  <1>6. CASE CircCount(head, tail, HdrLen) # HdrLen
    BY <1>2, <1>4, <1>5, <1>6 DEF CircCount
  <1>7. CASE CircCount(head, tail, HdrLen) = HdrLen
    <2>1. PICK len \in LenFields(Peeked(buf, tail, HdrLen)) : ~Complete(len)
      BY <1>7 DEF ParseDone
    <2>2. len = sent[Len(delivered) + 1].len
      <3>1. ~Behind
        BY <1>1 DEF Behind, IInv, TypeOK
      <3>. QED  BY <1>7, <2>1, <3>1, HeaderFacts
    <2>3. ~(fetched - consumed >= HdrLen + len)
      BY <1>5, <2>1 DEF Complete
    <2>. QED  BY <1>2, <1>4, <2>2, <2>3
  <1>. QED  BY <1>6, <1>7

(* A header written to a sleeping receiver is not a complete message yet.  *)
LEMMA WriteHdrHoldsNone ==
  ASSUME IInv, NothingHeldAsleep, NEW len \in Lens, WriteHdr(len)
  PROVE  NothingHeldAsleep'
  <1>0. PICK d \in Nat, n \in Nat : d = Len(delivered) /\ n = Len(sent)
    <2>1. Len(delivered) \in Nat /\ Len(sent) \in Nat
      BY DEF IInv, TypeOK
    <2>. QED  BY <2>1
  <1>. DEFINE m == [pos |-> written, len |-> len]
  <1>1. sent \in Seq(Msgs) /\ m \in Msgs /\ len \in Nat /\ HdrLen \in Nat
        /\ HdrLen > 0 /\ fetched \in Nat /\ written \in Nat
        /\ fetched <= written /\ d <= n
    BY <1>0, StreamAssumption
       DEF IInv, TypeOK, Msgs, Indices, Cursor, Behind, WriteHdr
  <1>2. Len(sent') = n + 1 /\ sent'[n + 1] = m
        /\ \A i \in 1 .. n : sent'[i] = sent[i]
    BY <1>0, <1>1 DEF WriteHdr
  <1>3. UNCHANGED <<fetched, rpc, delivered>>
    BY DEF WriteHdr
  <1>4. SUFFICES ASSUME rpc = "select"
                 PROVE  fetched < sent'[d + 1].pos + HdrLen + sent'[d + 1].len
    BY <1>0, <1>3 DEF NothingHeldAsleep
  <1>5. CASE d = n
    BY <1>1, <1>2, <1>5
  <1>6. CASE d < n
    <2>1. d + 1 \in 1 .. n
      BY <1>6
    <2>2. sent'[d + 1] = sent[d + 1]
      BY <1>2, <2>1
    <2>. QED  BY <1>0, <1>4, <1>6, <2>2 DEF NothingHeldAsleep
  <1>. QED  BY <1>1, <1>5, <1>6

(* A receiver asleep in select() holds no complete message, so only what   *)
(* arrives together with the end of file is ever dropped.                  *)
THEOREM SleepsEmpty == Spec => []NothingHeldAsleep
  <1>1. Init => NothingHeldAsleep
    BY DEF Init, NothingHeldAsleep
  <1>2. IInv /\ NothingHeldAsleep /\ [Next]_vars => NothingHeldAsleep'
    <2>. SUFFICES ASSUME IInv, NothingHeldAsleep, [Next]_vars
                  PROVE  NothingHeldAsleep'
      OBVIOUS
    <2>1. ASSUME NEW len \in Lens, WriteHdr(len) PROVE NothingHeldAsleep'
      BY <2>1, WriteHdrHoldsNone
    <2>2. CASE ParseDone
      BY <2>2, ParseDoneHoldsNone
    <2>3. CASE \/ WritePayload \/ WriteTorn \/ Close \/ UNCHANGED vars
               \/ \E len \in Lens : WriteOn(len)
      BY <2>3 DEF WritePayload, WriteTorn, WriteOn, Close, vars,
                  NothingHeldAsleep
    <2>4. CASE Select \/ FillFull \/ FillEmpty \/ FillEOF
      BY <2>4 DEF Select, FillFull, FillEmpty, FillEOF, NothingHeldAsleep
    <2>5. ASSUME NEW n \in 1 .. (Size - 1), FillRead(n)
          PROVE  NothingHeldAsleep'
      BY <2>5 DEF FillRead, NothingHeldAsleep
    <2>6. ASSUME NEW len \in Lens, Parse(len) PROVE NothingHeldAsleep'
      BY <2>6 DEF Parse, NothingHeldAsleep
    <2>. QED  BY <2>1, <2>2, <2>3, <2>4, <2>5, <2>6 DEF Next, Receiver
  <1>. QED  BY <1>1, <1>2, Invariance, PTL DEF Spec
-----------------------------------------------------------------------------
(* Posted and Taken, with their lengths and elements. *)
LEMMA MappedFacts ==
  ASSUME IInv
  PROVE  /\ Posted \in Seq(Nat) /\ Len(Posted) = Whole
         /\ Taken \in Seq(Int)
         /\ ~torn => Taken = [i \in 1 .. Len(delivered) |->
                                Len(delivered[i]) - HdrLen]
         /\ Len(delivered) <= Whole => Len(Taken) = Len(delivered)
  <1>1. TypeOK /\ Whole \in Nat /\ Whole <= Len(sent) /\ Len(sent) \in Nat
        /\ Len(delivered) \in Nat /\ HdrLen \in Nat
    BY WholeFacts, StreamAssumption DEF IInv, TypeOK
  <1>2. \A i \in 1 .. Whole : sent[i].len \in Nat
    BY <1>1, SentFacts
  <1>3. Posted \in Seq(Nat) /\ Len(Posted) = Whole
    BY <1>1, <1>2 DEF Posted
  <1>. DEFINE t == IF Len(delivered) <= Whole THEN Len(delivered) ELSE Whole
  <1>4. t \in Nat /\ t <= Len(delivered)
    BY <1>1
  <1>5. \A i \in 1 .. t : Len(delivered[i]) - HdrLen \in Int
    <2>1. delivered \in Seq(Seq(Nat))
      BY <1>1 DEF TypeOK
    <2>2. \A i \in 1 .. Len(delivered) : Len(delivered[i]) \in Nat
      BY <2>1
    <2>. QED  BY <1>1, <1>4, <2>2
  <1>6. Taken = [i \in 1 .. t |-> Len(delivered[i]) - HdrLen]
    BY DEF Taken
  <1>. HIDE DEF t
  <1>7. Taken \in Seq(Int) /\ Len(Taken) = t
    BY <1>4, <1>5, <1>6
  <1>8. Len(delivered) <= Whole => t = Len(delivered)
    BY DEF t
  <1>9. ~torn => Len(delivered) <= Whole
    BY DeliveredWhole DEF IInv
  <1>. QED  BY <1>3, <1>6, <1>7, <1>8, <1>9

(* The write that completes a message posts it. *)
LEMMA PostRefines ==
  ASSUME IInv, ~torn, UNCHANGED delivered,
         NEW w \in Nat, w = Whole, Whole' = w + 1,
         \A i \in 1 .. w : sent'[i] = sent[i],
         NEW len \in Lens, len = sent'[w + 1].len
  PROVE  Channel!Next
  <1>1. len \in Nat /\ Len(delivered) \in Nat /\ Len(delivered) <= w
    BY StreamAssumption, DeliveredWhole DEF IInv
  <1>2. Taken' = Taken
    BY <1>1 DEF Taken
  <1>3. Posted \in Seq(Nat) /\ Len(Posted) = w
        /\ Posted = [i \in 1 .. w |-> sent[i].len]
    BY MappedFacts DEF Posted
  <1>4. Posted' = [i \in 1 .. (w + 1) |-> sent'[i].len]
    BY DEF Posted
  <1>5. Posted' = [i \in 1 .. (w + 1) |-> IF i = w + 1 THEN len ELSE sent[i].len]
    BY <1>4
  <1>6. Append(Posted, len) = [i \in 1 .. (w + 1) |->
                                 IF i = w + 1 THEN len ELSE sent[i].len]
    BY <1>1, <1>3
  <1>. QED  BY <1>2, <1>5, <1>6 DEF Channel!Next, Channel!Post

(* Handing a whole message to its handler takes it. *)
LEMMA TakeRefines ==
  ASSUME IInv, NEW len \in Lens, Parse(len), Len(delivered) < Whole
  PROVE  Channel!Next
  <1>0. PICK d \in Nat, n \in Nat, w \in Nat :
          d = Len(delivered) /\ n = Len(sent) /\ w = Whole
    <2>1. Len(delivered) \in Nat /\ Len(sent) \in Nat /\ Whole \in Nat
      BY WholeFacts DEF IInv, TypeOK
    <2>. QED  BY <2>1
  <1>. DEFINE msg == Peeked(buf, tail, HdrLen + len)
  <1>1. len \in Nat /\ HdrLen \in Nat /\ d < w /\ w <= n
    BY <1>0, StreamAssumption, WholeFacts DEF IInv
  <1>2. len = sent[d + 1].len
    <2>1. ~Behind
      BY <1>0, <1>1 DEF Behind
    <2>. QED  BY <1>0, <2>1, ParseFacts
  <1>3. sent' = sent /\ Whole' = Whole /\ delivered' = Append(delivered, msg)
    BY DEF Parse, writer, Whole
  <1>4. msg \in Seq(Nat) /\ Len(msg) = HdrLen + len
    <2>1. msg = [k \in 1 .. (HdrLen + len) |-> consumed + (k - 1)]
      BY ParseFacts
    <2>2. consumed \in Nat /\ HdrLen + len \in Nat
      BY <1>1 DEF IInv, TypeOK
    <2>. HIDE DEF msg
    <2>. QED  BY <2>1, <2>2
  <1>5. delivered \in Seq(Seq(Nat))
    BY DEF IInv, TypeOK
  <1>. HIDE DEF msg
  <1>6. Len(delivered') = d + 1 /\ delivered'[d + 1] = msg
        /\ \A i \in 1 .. d : delivered'[i] = delivered[i]
    BY <1>0, <1>3, <1>4, <1>5
  <1>7. Taken = [i \in 1 .. d |-> Len(delivered[i]) - HdrLen]
        /\ Taken \in Seq(Int) /\ Len(Taken) = d
    <2>1. d <= w
      BY <1>1
    <2>. QED  BY <1>0, <2>1, MappedFacts DEF Taken
  <1>8. Taken' = [i \in 1 .. (d + 1) |-> Len(delivered'[i]) - HdrLen]
    <2>1. d + 1 <= w
      BY <1>1
    <2>. QED  BY <1>0, <1>3, <1>6, <2>1 DEF Taken
  <1>9. \A i \in 1 .. (d + 1) :
          Len(delivered'[i]) - HdrLen
            = IF i = d + 1 THEN len ELSE Len(delivered[i]) - HdrLen
    <2>1. Len(delivered'[d + 1]) - HdrLen = len
      BY <1>1, <1>4, <1>6
    <2>. QED  BY <1>6, <2>1
  <1>10. Append(Taken, len) =
           [i \in 1 .. (d + 1) |->
              IF i = d + 1 THEN len ELSE Len(delivered[i]) - HdrLen]
    BY <1>1, <1>7
  <1>11. Taken' = Append(Taken, len)
    BY <1>8, <1>9, <1>10
  <1>12. Posted' = Posted /\ Len(Posted) = w /\ Posted[d + 1] = len
    <2>1. d + 1 \in 1 .. w
      BY <1>1
    <2>2. Posted[d + 1] = sent[d + 1].len
      BY <1>0, <2>1 DEF Posted
    <2>. QED  BY <1>0, <1>2, <1>3, <2>2, MappedFacts DEF Posted
  <1>. QED  BY <1>1, <1>7, <1>11, <1>12 DEF Channel!Next, Channel!Take

(* What is handed over behind the whole messages is not seen. *)
LEMMA GarbageIsHidden ==
  ASSUME IInv, NEW len \in Lens, Parse(len), ~(Len(delivered) < Whole)
  PROVE  UNCHANGED <<Posted, Taken>>
  <1>0. PICK d \in Nat, w \in Nat : d = Len(delivered) /\ w = Whole
    <2>1. Len(delivered) \in Nat /\ Whole \in Nat
      BY WholeFacts DEF IInv, TypeOK
    <2>. QED  BY <2>1
  <1>. DEFINE msg == Peeked(buf, tail, HdrLen + len)
  <1>1. sent' = sent /\ Whole' = Whole /\ delivered' = Append(delivered, msg)
        /\ delivered \in Seq(Seq(Nat))
    BY DEF Parse, writer, Whole, IInv, TypeOK
  <1>. HIDE DEF msg
  <1>2. Len(delivered') = d + 1 /\ \A i \in 1 .. d : delivered'[i] = delivered[i]
    BY <1>0, <1>1
  <1>3. w <= d
    BY <1>0
  <1>4. Posted' = Posted
    BY <1>1 DEF Posted
  <1>5. Taken = [i \in 1 .. w |-> Len(delivered[i]) - HdrLen]
    BY <1>0, <1>3 DEF Taken
  <1>6. Taken' = [i \in 1 .. w |-> Len(delivered'[i]) - HdrLen]
    BY <1>0, <1>1, <1>2, <1>3 DEF Taken
  <1>7. \A i \in 1 .. w : delivered'[i] = delivered[i]
    BY <1>2, <1>3
  <1>. QED  BY <1>4, <1>5, <1>6, <1>7

(* Every step of the stream is a step of the channel or invisible to it.   *)
LEMMA StepRefines ==
  IInv /\ [Next]_vars => [Channel!Next]_<<Posted, Taken>>
  <1>. SUFFICES ASSUME IInv, [Next]_vars
                PROVE  [Channel!Next]_<<Posted, Taken>>
    OBVIOUS
  <1>0. PICK n \in Nat : n = Len(sent)
    BY SentFacts DEF IInv
  <1>1. ASSUME NEW len \in Lens, WriteHdr(len)
        PROVE  [Channel!Next]_<<Posted, Taken>>
    <2>. DEFINE m == [pos |-> written, len |-> len]
    <2>1. sent' = Append(sent, m) /\ UNCHANGED <<delivered, torn>> /\ ~torn
          /\ m.len = len /\ len \in Nat /\ sent \in Seq(Msgs) /\ m \in Msgs
      BY <1>1, StreamAssumption DEF WriteHdr, IInv, TypeOK, Msgs
    <2>. HIDE DEF m
    <2>2. Len(sent') = n + 1 /\ sent'[n + 1] = m
          /\ \A i \in 1 .. n : sent'[i] = sent[i]
      BY <1>0, <2>1
    <2>3. Whole = n
      BY <1>0, <1>1, WholeFacts DEF IInv, WriteHdr
    <2>4. CASE len = 0
      <3>1. Whole' = n + 1
        BY <1>1, <2>1, <2>2, <2>4 DEF WriteHdr, Whole
      <3>. QED  BY <2>1, <2>2, <2>3, <3>1, PostRefines
    <2>5. CASE len # 0
      <3>1. Whole' = n
        BY <1>1, <2>1, <2>2, <2>5 DEF WriteHdr, Whole
      <3>2. Posted' = Posted
        BY <2>2, <2>3, <3>1 DEF Posted
      <3>3. Taken' = Taken
        BY <2>1, <2>3, <3>1 DEF Taken
      <3>. QED  BY <3>2, <3>3
    <2>. QED  BY <2>4, <2>5
  <1>2. CASE WritePayload
    <2>1. ~torn /\ UNCHANGED <<sent, torn, delivered>> /\ n > 0
      BY <1>0, <1>2 DEF WritePayload, IInv, TypeOK
    <2>2. Whole = n - 1 /\ Whole' = n
      BY <1>0, <1>2, <2>1 DEF WritePayload, Whole
    <2>3. sent[n].len \in Lens
      BY <1>0, <2>1, SentFacts DEF IInv
    <2>. QED
      <3>. DEFINE w == n - 1
      <3>1. w \in Nat /\ w + 1 = n
        BY <2>1
      <3>. HIDE DEF w
      <3>2. w = Whole /\ Whole' = w + 1 /\ sent[n].len = sent'[w + 1].len
        BY <2>1, <2>2, <3>1
      <3>. QED  BY <2>1, <2>3, <3>1, <3>2, PostRefines
  <1>3. ASSUME NEW len \in Lens, Parse(len)
        PROVE  [Channel!Next]_<<Posted, Taken>>
    BY <1>3, TakeRefines, GarbageIsHidden
  <1>4. CASE \/ WriteTorn \/ Close \/ Select \/ FillFull \/ FillEmpty
             \/ FillEOF \/ ParseDone \/ UNCHANGED vars
             \/ \E len \in Lens : WriteOn(len)
             \/ \E k \in 1 .. (Size - 1) : FillRead(k)
    <2>1. sent' = sent /\ delivered' = delivered
      BY <1>4 DEF WriteTorn, WriteOn, Close, Select, FillFull, FillEmpty,
                  FillEOF, ParseDone, FillRead, vars, writer
    <2>2. (wpc' = "payload" \/ torn') <=> (wpc = "payload" \/ torn)
      <3>1. CASE WriteTorn
        BY <3>1, Zenon DEF WriteTorn
      <3>3. CASE Close
        <4>1. torn' <=> (torn \/ wpc = "payload")
          BY <3>3 DEF Close
        <4>2. wpc' = "closed"
          BY <3>3 DEF Close
        <4>. QED  BY <4>1, <4>2
      <3>4. CASE \E len \in Lens : WriteOn(len)
        <4>1. wpc' = wpc /\ torn' = torn
          BY <3>4 DEF WriteOn
        <4>. QED  BY <4>1
      <3>2. CASE wpc' = wpc /\ torn' = torn
        BY <3>2
      <3>. QED  BY <1>4, <3>1, <3>2, <3>3, <3>4
                DEF Select, FillFull, FillEmpty, FillEOF, ParseDone,
                    FillRead, vars, writer
    <2>3. Whole' = Whole
      BY <2>1, <2>2 DEF Whole
    <2>. QED  BY <2>1, <2>3 DEF Posted, Taken
  <1>. QED  BY <1>1, <1>2, <1>3, <1>4 DEF Next, Receiver

(* The stream implements the channel: whatever the interleaving of writes, *)
(* reads and parsing, messages are taken in order and exactly as posted.   *)
THEOREM StreamIsChannel == Spec => ChannelSpec
  <1>1. Init => Channel!Init
    <2>1. ASSUME Init PROVE Posted = <<>> /\ Taken = <<>>
      <3>1. Whole = 0 /\ Len(delivered) = 0
        BY <2>1 DEF Init, Whole
      <3>. QED  BY <3>1 DEF Posted, Taken
    <2>. QED  BY <2>1 DEF Channel!Init
  <1>. QED
    BY <1>1, StepRefines, Invariance, PTL DEF Spec, ChannelSpec, Channel!Spec
=============================================================================
