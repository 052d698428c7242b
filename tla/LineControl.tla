---------------------------- MODULE LineControl ----------------------------
(***************************************************************************)
(* What a controller promises: a line of the board only ever moves to what *)
(* the line itself was last told.  A command may be lost, and a later one  *)
(* - to this line or to another - may then make up for it; a controller    *)
(* that is opened afresh forgets what its lines were told, at worst for    *)
(* the value a line has when nothing drives it (low).                      *)
(***************************************************************************)
CONSTANT Lines

VARIABLES told,    \* what each line was last told
          low,     \* what each line is told by a controller that forgot
          level    \* the line

vars == <<told, low, level>>

Init == told = low

Command(l, on) ==
  /\ told' = [told EXCEPT ![l] = on]
  /\ \A m \in Lines : level'[m] \in {level[m], told'[m]}
  /\ UNCHANGED low

Forget ==
  /\ \A l \in Lines : told'[l] \in {told[l], low[l]}
  /\ UNCHANGED <<low, level>>

Next == Forget \/ \E l \in Lines, on \in BOOLEAN : Command(l, on)

Spec == Init /\ [][Next]_vars
=============================================================================
