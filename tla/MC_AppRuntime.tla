--------------------------- MODULE MC_AppRuntime ---------------------------
(* AppRuntime with two profiles of different shape, distance and interval. *)
EXTENDS AppRuntime

MC_Line   == [pattern |-> "HORIZONTAL", move_px |-> 3, interval_sec |-> 1]
MC_Square == [pattern |-> "SQUARE", move_px |-> 1, interval_sec |-> 2]

MC_Settings    == {MC_Line, MC_Square}
MC_OneSettings == {MC_Line}
=============================================================================
