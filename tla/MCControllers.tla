--------------------------- MODULE MCControllers ---------------------------
(* Boards that take different paths: FTDI chips with shared and split      *)
(* interfaces, both polarities and a line beyond the byte (the example in  *)
(* the README has line 8); drivers with and without keys, power key, USB;  *)
(* the always-on options; a board without power control.                   *)
EXTENDS Controllers

Board(d, wired, low, fb, uaon, paon) ==
  [driver |-> d, wired |-> wired, activeLow |-> low,
   iface |-> [l \in Lines |-> IF l = "usb1" THEN 1 ELSE 3],
   offset |-> [l \in Lines |->
                CASE l = "power" -> 0 [] l = "fastboot" -> 8
                  [] l = "power_key" -> 2 [] l = "usb0" -> 3
                  [] l = "output_enable" -> 7 [] OTHER -> 4],
   fbTimeout |-> fb, usbAlwaysOn |-> uaon, powerAlwaysOn |-> paon]

Basic == {"power", "usb0", "fastboot", "power_key"}

MCBoards ==
  {Board("ftdi_gpio", Basic \cup {"output_enable"}, {"power", "power_key"},
         TRUE, FALSE, FALSE),
   Board("ftdi_gpio", {"power", "usb0", "usb1", "output_enable", "power_key"},
         {"usb0"}, FALSE, TRUE, FALSE),
   Board("local_gpio", Basic, {}, TRUE, TRUE, FALSE),
   Board("alpaca", Basic, {}, FALSE, FALSE, FALSE),
   Board("external", Basic, {}, TRUE, FALSE, TRUE),
   Board("cdb_assist", Basic, {}, TRUE, FALSE, FALSE),
   Board("qcomlt_dbg", Basic, {}, TRUE, FALSE, FALSE),
   Board("laurent", {"power", "usb0", "ppps", "ppps3"}, {}, FALSE, FALSE,
         TRUE),
   Board("conmux", {"power"}, {}, TRUE, FALSE, FALSE),
   Board("none", {"ppps"}, {}, FALSE, TRUE, FALSE)}
=============================================================================
