----------------------------- MODULE MCFastboot -----------------------------
(* The ways to boot a board that a configuration file can ask for, and     *)
(* fastboot_continue.                                                      *)
EXTENDS Fastboot

MCScripts == {<<"download", "boot">>, <<"set_active", "download", "boot">>,
              <<"download", "flash", "reboot">>, <<"continue">>}
=============================================================================
