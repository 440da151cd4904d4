----------------------------- MODULE MCFastboot -----------------------------
(* The protocol engine with a download area of 2 units, requests of       *)
(* exactly its capacity and one more, one line per registered command    *)
(* plus an unregistered one ("continue", commented out in                 *)
(* aboot_register_commands), three commands per run and one reconnect.    *)
EXTENDS Fastboot

MCDownloadMax == 2
MCDownLens == {2, 3}
MCLines ==
    { Getvar, Download, Flash, Erase, <<"oem", " system">>, OemPush,
      Boot, Reboot, RebootBl, <<"continue">> }
MCMaxCmds == 3
MCMaxConns == 2
=============================================================================
