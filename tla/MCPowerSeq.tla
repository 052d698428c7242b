----------------------------- MODULE MCPowerSeq -----------------------------
(* The board configurations that differ in the steps device_tick takes, and*)
(* the two always-on options.                                              *)
EXTENDS PowerSeq

Board(pk, fb, uaon, paon) ==
  [hasKey |-> TRUE, hasPowerKey |-> pk, fbTimeout |-> fb,
   usbAlwaysOn |-> uaon, powerAlwaysOn |-> paon]

MCDevices == {Board(TRUE, TRUE, FALSE, FALSE), Board(FALSE, TRUE, FALSE, TRUE),
              Board(TRUE, FALSE, TRUE, FALSE)}
=============================================================================
