------------------------------- MODULE Conmux -------------------------------
(***************************************************************************)
(* conmux_open: a lookup in the registry, a connection to the console, and *)
(* a reply.  A reply is a sequence of words - "ok" and "refused" stand for *)
(* status=, "pair" for any other key=value, "text" for what is none -      *)
(* and each of the two is whatever a single read() returned.               *)
(***************************************************************************)
EXTENDS Integers, Sequences, SequencesExt

Words == {"ok", "refused", "pair", "text"}

(* resp->status after parse_response: the last one counts. *)
Status(ws, s) ==
  \E i \in 1 .. Len(ws) :
    ws[i] = s /\ \A j \in i + 1 .. Len(ws) : ws[j] \notin {"ok", "refused"}

(* Seeded fault: a reply without a status is as good as one that says OK. *)
AcceptsLax(ws) == "text" \notin ToSet(ws) /\ ~Status(ws, "refused")

(* parse_response succeeds and says OK; without a status strcmp() gets     *)
(* NULL, which ends the process like the other failures.                   *)
Accepts(ws) == "text" \notin ToSet(ws) /\ Status(ws, "ok")

(* registry_lookup: the reply also needs a result with a colon in it. *)
Found(reply) == Accepts(reply.words) /\ reply.result

(* The loop over the addresses has no break: what counts is the last one,  *)
(* and the connections made before it stay open, unused.                   *)
Connected(up) == up # <<>> /\ Last(up)
=============================================================================
