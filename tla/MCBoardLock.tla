---------------------------- MODULE MCBoardLock ----------------------------
(* Two slots of servers that are each started twice: a holder, a waiter    *)
(* and their successors.                                                   *)
EXTENDS BoardLock
=============================================================================
