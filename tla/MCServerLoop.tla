---------------------------- MODULE MCServerLoop ----------------------------
(* Boards with each kind of control and console, with and without a status *)
(* command; conmux hosts with one and two addresses; greetings that come   *)
(* with console output, refuse, or say nothing.                            *)
EXTENDS ServerLoop

MCDevices ==
  {[control |-> "qcomlt_dbg", console |-> "tty", statusCmd |-> FALSE],
   [control |-> "cdb_assist", console |-> "tty", statusCmd |-> FALSE],
   [control |-> "conmux", console |-> "conmux", statusCmd |-> TRUE],
   [control |-> "none", console |-> "tty", statusCmd |-> TRUE]}

MCQcomlt ==
  {[control |-> "qcomlt_dbg", console |-> "tty", statusCmd |-> FALSE]}

(* The output of the console adds nothing to that of a debug board. *)
MCMaxText == [c \in Controls |->
                IF c \in {"qcomlt_dbg", "cdb_assist"} THEN 0 ELSE 2]

MCMaxMsgs == [c \in Controls |-> IF c = "cdb_assist" THEN 1 ELSE 2]
MCMaxLines == [c \in Controls |-> IF c = "qcomlt_dbg" THEN 3 ELSE 2]

MCReplies == {[words |-> ws, result |-> r] :
                ws \in {<<"ok", "pair">>, <<"refused">>}, r \in BOOLEAN}

MCRoutes == {<<TRUE>>, <<FALSE>>, <<TRUE, FALSE>>, <<TRUE, TRUE>>}

MCGreetings == {<<"ok">>, <<"pair", "ok">>, <<"ok", "text">>, <<"refused">>,
                <<"pair", "refused">>}
=============================================================================
