-------------------------------- MODULE Wire -------------------------------
(***************************************************************************)
(* What cdba and cdba-server share: a channel of messages each way.  That  *)
(* circ_fill, circ_read and cdba_send_buf make such a channel of a byte    *)
(* stream is MsgStream.  A message is its type and the one fact about its  *)
(* payload that its handler looks at:                                      *)
(*   console   1 for a '~', 0 for other output                             *)
(*   present   1 fastboot appeared, 0 it is gone                           *)
(*   download  number of the chunk of the file, 0 for the empty message    *)
(*   list      1 a board, 0 the end of the list                            *)
(***************************************************************************)
EXTENDS Integers, Sequences

CONSTANT PipeCap   \* messages the pipe to the server takes

ASSUME PipeAssumption == PipeCap \in Nat \ {0}

VARIABLES
  c2s, s2c,    \* messages on their way
  clientGone, serverGone   \* a process closed its ends, or died

wire == <<c2s, s2c, clientGone, serverGone>>

Types == {"select", "console", "power_on", "power_off", "present", "download",
          "status", "list", "info", "continue", "key"}
Message == Types \X Nat

Msg(type) == <<type, 0>>

WireInit == c2s = <<>> /\ s2c = <<>> /\ clientGone = FALSE
            /\ serverGone = FALSE

WireOK == /\ c2s \in Seq(Message) /\ s2c \in Seq(Message)
          /\ clientGone \in BOOLEAN /\ serverGone \in BOOLEAN

(* The client's write() to the non-blocking pipe succeeds. *)
Room == Len(c2s) < PipeCap
=============================================================================
