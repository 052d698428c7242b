--------------------------- MODULE StatusParsers ---------------------------
(***************************************************************************)
(* The parsers of what the debug boards print about themselves, one        *)
(* character at a time: qcomlt_dbg_ctrl_data reads "<n>mV <n>mA", and      *)
(* cdb_parser_push reads "<n>mv/<n>mv", "<n>ma/<n>ma" and "<key>=<n>mv".   *)
(* The stream is split across reads in any way, so a parser keeps where it *)
(* is in it.                                                               *)
(***************************************************************************)
EXTENDS Integers, Sequences, SequencesExt

DigitChars == <<"0", "1", "2", "3", "4", "5", "6", "7", "8", "9">>
Digits == ToSet(DigitChars)
Val(ch) == (CHOOSE i \in 1 .. 10 : DigitChars[i] = ch) - 1
Letters == {"m", "v", "a", "o", "f", "n", "x"}   \* x: any other; sp: a space

To(p, s) == [p EXCEPT !.state = s]
-----------------------------------------------------------------------------
(* struct qcomlt_dbg: parse_state (STATE_ is "start"), mv and ma; out is    *)
(* what the parser has reported with status_send_values, oldest first.     *)
QcomltStates == {"start", "num", "num_m", "num_mV", "num_mV_num",
                 "num_mV_num_m", "err"}

QcomltStart == [state |-> "start", mv |-> 0, ma |-> 0, out |-> <<>>]

(* The first digit of the current. *)
FirstOfMa(p, ch) == [To(p, "num_mV_num") EXCEPT !.ma = Val(ch)]

(* Seeded fault: a digit or an A in the error state starts over. *)
ResyncEarly(p, ch) == IF ch \in Digits \cup {"A"} THEN To(p, "start") ELSE p

(* STATE_err: everything up to an A is dropped. *)
Resync(p, ch) == IF ch = "A" THEN To(p, "start") ELSE p

(* One character of qcomlt_dbg_ctrl_data.  A match is reported and the     *)
(* state stays as it is.                                                   *)
QcomltPush(p, ch) ==
  CASE p.state = "start" /\ ch \in Digits ->
         [To(p, "num") EXCEPT !.mv = Val(ch)]
    [] p.state = "start" /\ ch \notin Digits -> p
    [] p.state = "num" /\ ch \in Digits -> [p EXCEPT !.mv = 10 * @ + Val(ch)]
    [] p.state = "num" /\ ch = "m" -> To(p, "num_m")
    [] p.state = "num_m" /\ ch = "V" -> To(p, "num_mV")
    [] p.state = "num_mV" /\ ch \in Digits -> FirstOfMa(p, ch)
    [] p.state = "num_mV" /\ ch = "sp" -> p
    [] p.state = "num_mV_num" /\ ch \in Digits ->
         [p EXCEPT !.ma = 10 * @ + Val(ch)]
    [] p.state = "num_mV_num" /\ ch = "m" -> To(p, "num_mV_num_m")
    [] p.state = "num_mV_num_m" /\ ch = "A" ->
         [p EXCEPT !.out = Append(@, <<p.mv, p.ma>>)]
    [] p.state = "err" -> Resync(p, ch)
    [] OTHER -> To(p, "err")

-----------------------------------------------------------------------------
(* struct cdb_assist: the parser's state, the two numbers, whether they    *)
(* are voltages, and what it has set.  The name of a key and the switches  *)
(* ("vbat:on") are parsed and used for nothing.                            *)
CdbStates == {"start", "key", "key_bool", "key_value", "key_o", "key_of",
              "key_num", "key_num_m", "num", "num_m", "num_mX", "num_mX_",
              "num_num_m"}

CdbStart == [state |-> "start", num |-> <<0, 0>>, voltage |-> FALSE,
             voltage_set |-> 0, current_actual |-> 0, vref |-> 0]

Digit(p, i, ch) == [p EXCEPT !.num[i] = 10 * @ + Val(ch)]

(* '/': the second number begins. *)
Second(p) == [To(p, "num_mX_") EXCEPT !.num[2] = 0]

(* cdb_parser_push *)
CdbPush(p, ch) ==
  CASE p.state = "start" /\ ch \in Digits ->
         [To(p, "num") EXCEPT !.num[1] = Val(ch)]
    [] p.state = "start" /\ ch \in Letters -> To(p, "key")
    [] p.state = "num" /\ ch \in Digits -> Digit(p, 1, ch)
    [] p.state = "num" /\ ch = "m" -> To(p, "num_m")
    [] p.state = "num_m" /\ ch \in {"v", "a"} ->
         [To(p, "num_mX") EXCEPT !.voltage = (ch = "v")]
    [] p.state = "num_mX" /\ ch = "/" -> Second(p)
    [] p.state = "num_mX_" /\ ch \in Digits -> Digit(p, 2, ch)
    [] p.state = "num_mX_" /\ ch = "m" -> To(p, "num_num_m")
    [] p.state = "num_num_m" /\ ch = "v" /\ p.voltage ->
         [To(p, "start") EXCEPT !.voltage_set = p.num[1]]
    [] p.state = "num_num_m" /\ ch = "a" /\ ~p.voltage ->
         [To(p, "start") EXCEPT !.current_actual = p.num[2]]
    [] p.state = "key" /\ ch \in Digits \cup Letters -> p
    [] p.state = "key" /\ ch = ":" -> To(p, "key_bool")
    [] p.state = "key" /\ ch = "=" -> To(p, "key_value")
    [] p.state = "key_bool" /\ ch = "o" -> To(p, "key_o")
    [] p.state = "key_o" /\ ch = "f" -> To(p, "key_of")
    [] p.state = "key_value" /\ ch \in Digits ->
         [To(p, "key_num") EXCEPT !.num[1] = Val(ch)]
    [] p.state = "key_num" /\ ch \in Digits -> Digit(p, 1, ch)
    [] p.state = "key_num" /\ ch = "m" -> To(p, "key_num_m")
    [] p.state = "key_num_m" /\ ch = "v" ->
         [To(p, "start") EXCEPT !.vref = p.num[1]]
    [] OTHER -> To(p, "start")
=============================================================================
