--------------------------- MODULE BoardSessions ---------------------------
(***************************************************************************)
(* What device_lock promises the users of a shared board: sessions follow  *)
(* each other, and the power line moves only during one.                   *)
(***************************************************************************)
CONSTANT Servers

VARIABLES active,   \* the servers in a session on the board
          power

Init == active = {} /\ power = FALSE

Begin(s) == active = {} /\ active' = {s} /\ UNCHANGED power

Drive == active # {} /\ power' \in BOOLEAN /\ UNCHANGED active

End == active # {} /\ active' = {} /\ UNCHANGED power

Next == (\E s \in Servers : Begin(s)) \/ Drive \/ End

Spec == Init /\ [][Next]_<<active, power>>
=============================================================================
