---------------------------- MODULE MC_Launcher -----------------------------
(* The script's and the program's own times, in seconds.                   *)
EXTENDS Launcher
=============================================================================
