--------------------------- MODULE MCCdbaSession ---------------------------
(* The command lines considered. *)
EXTENDS CdbaSession

Line(verb, file, rep, cyc) ==
  [verb |-> verb, file |-> file, repeat |-> rep, cycles |-> cyc,
   onTimeout |-> FALSE, status |-> FALSE, idle |-> FALSE, total |-> FALSE,
   board |-> TRUE, maxKeys |-> 0]

(* cdba -R -c 1 boot.img: power cycles on the tilde sequence *)
MCCycle == {Line("boot", TRUE, TRUE, 1)}

(* cdba -T .. -c 1 boot.img, and cdba -s .. -T .. -t .. -C 1 boot.img *)
MCTimeout == {[Line("boot", TRUE, FALSE, 1) EXCEPT
                 !.idle = TRUE, !.onTimeout = t, !.status = ~t, !.total = ~t] :
              t \in BOOLEAN}

(* cdba without an image, for a board and for one it is refused, cdba -l   *)
(* and cdba -i; each with and without -s                                   *)
MCVerbs == {[Line("boot", FALSE, FALSE, -1) EXCEPT
                !.status = s, !.board = b, !.maxKeys = IF b /\ ~s THEN 2 ELSE 1] :
              s \in BOOLEAN, b \in BOOLEAN}
           \cup {[Line(v, FALSE, FALSE, -1) EXCEPT !.status = s, !.maxKeys = 1] :
                   v \in {"list", "info"}, s \in BOOLEAN}

MCEnds == MCTimeout \cup MCVerbs
=============================================================================
