------------------------------- MODULE Watch -------------------------------
(***************************************************************************)
(* The timer list of watch.c.  list_add appends, so the sequence is in the *)
(* order of the watch_timer_add calls, whatever the times they ask for;    *)
(* the callback and its data are one value, cb.                            *)
(***************************************************************************)
EXTENDS Integers, Sequences, SequencesExt

(* watch_timer_add(delay, cb, data) called at time t *)
TimerAdd(timers, t, delay, cb) == Append(timers, [due |-> t + delay, cb |-> cb])

(* timercmp(&t->tv, &now, <): the comparison is strict *)
Due(timer, t) == timer.due < t

(* list_del(&t->node); free(t) *)
TimerDel(timers, i) == RemoveAt(timers, i)

Pending(timers, cb) == \E i \in 1 .. Len(timers) : timers[i].cb = cb
=============================================================================
