------------------------------ MODULE CircBuf ------------------------------
(***************************************************************************)
(* circ_buf.c and circ_buf.h: the ring both ends of the connection receive *)
(* into.  head is the slot the next byte read from the descriptor goes to, *)
(* tail the slot of the oldest unconsumed byte; one slot always stays free,*)
(* so head = tail means empty.  Size (CIRC_BUF_SIZE) is a power of two in  *)
(* the code, which is what makes "& (Size - 1)" the remainder taken here.  *)
(*                                                                         *)
(* A byte is represented by its position in the stream the peer writes:    *)
(* what the code must get right is which byte of the stream a slot holds.  *)
(***************************************************************************)
EXTENDS Integers

CONSTANT Size          \* CIRC_BUF_SIZE

ASSUME SizeAssumption == Size \in Nat /\ Size > 1

Slots == 0 .. (Size - 1)

(* x & (CIRC_BUF_SIZE - 1) *)
Mask(x) == x % Size

CircAvail(h, t) == Mask(h - t)

CircSpace(h, t) == Mask(t - h - 1)

CircSpaceToEnd(h, t) ==
  IF CircSpace(h, t) < Size - h THEN CircSpace(h, t) ELSE Size - h

(* read(fd, buf + head, n): the n bytes of the stream that follow position *)
(* first land in the slots from h on.                                      *)
Store(b, h, first, n) ==
  [s \in Slots |-> IF h <= s /\ s < h + n THEN first + (s - h) ELSE b[s]]

(* The bytes circ_peak and circ_read copy out, oldest first. *)
Peeked(b, t, n) == [k \in 1 .. n |-> b[Mask(t + k - 1)]]

(* circ_peak and circ_read return the length asked for, or 0 if the ring   *)
(* runs empty on the way.                                                  *)
CircCount(h, t, n) == IF CircAvail(h, t) >= n THEN n ELSE 0

(* circ_read leaves tail behind the last byte copied: at head if it ran    *)
(* empty.                                                                  *)
ReadTail(h, t, n) == IF CircAvail(h, t) >= n THEN Mask(t + n) ELSE h
=============================================================================
