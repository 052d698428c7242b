--------------------------- MODULE MCBoardConfig ---------------------------
(* Three kinds of files: one about how to boot, one about drivers and their *)
(* options, and one with two boards and their users.                        *)
EXTENDS BoardConfig

MCFiles ==
  {[boards |-> 1, most |-> 6,
    entries |-> {<<"board", "b1">>, <<"fastboot", "s1">>, <<"console", "c1">>,
                 <<"broken_fastboot_boot", "true">>,
                 <<"broken_fastboot_boot", "false">>,
                 <<"fastboot_set_active", "true">>}],
   [boards |-> 1, most |-> 4,
    entries |-> {<<"board", "b1">>, <<"fastboot", "s1">>, <<"console", "c1">>,
                 <<"conmux", "m1">>, <<"alpaca", "a1">>,
                 <<"local_gpio", "options">>, <<"ftdi_gpio", "options">>,
                 <<"laurent", "options">>, <<"colour", "red">>}],
   [boards |-> 2, most |-> 5,
    entries |-> {<<"board", "b1">>, <<"board", "b2">>, <<"fastboot", "s1">>,
                 <<"console", "c1">>, <<"users", {}>>, <<"users", {"u1"}>>,
                 <<"description", "d1">>}]}

MCLineEntries ==
  {<<"line", "8">>, <<"interface", "C">>, <<"interface", "E">>,
   <<"chip", "gpiochip0">>, <<"active_low", "true">>,
   <<"active_low", "false">>, <<"serial", "f1">>}

MCLegacyTexts ==
  {[bank |-> "B", lines |-> <<[gpio |-> "power", offset |-> "0", low |-> TRUE],
                              [gpio |-> "power", offset |-> "7", low |-> FALSE]>>],
   [bank |-> "A", lines |-> <<[gpio |-> "usb1", offset |-> "0", low |-> TRUE]>>],
   [bank |-> "A", lines |-> <<[gpio |-> "usb0", offset |-> "8", low |-> TRUE]>>],
   [bank |-> "A", lines |-> <<>>]}
=============================================================================
