---------------------------- MODULE MsgChannel -----------------------------
(***************************************************************************)
(* What one direction of the connection promises: messages are taken one   *)
(* at a time, in the order they were posted, each exactly as posted.       *)
(***************************************************************************)
EXTENDS Naturals, Sequences

CONSTANT Contents

VARIABLES posted, taken

Init == posted = <<>> /\ taken = <<>>

Post(m) == posted' = Append(posted, m) /\ UNCHANGED taken

Take == /\ Len(taken) < Len(posted)
        /\ taken' = Append(taken, posted[Len(taken) + 1])
        /\ UNCHANGED posted

Next == Take \/ \E m \in Contents : Post(m)

Spec == Init /\ [][Next]_<<posted, taken>>
=============================================================================
