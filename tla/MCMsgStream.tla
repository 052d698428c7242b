---------------------------- MODULE MCMsgStream ----------------------------
(* MsgStream on a ring of 8 slots with 3-byte headers, as in the code: an  *)
(* empty message, a short one, the longest that fits the ring and the      *)
(* shortest that does not.                                                 *)
EXTENDS MsgStream

MCLens == {0, 1, Size - 1 - HdrLen, Size - HdrLen}
=============================================================================
