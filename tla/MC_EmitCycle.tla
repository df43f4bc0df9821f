---------------------------- MODULE MC_EmitCycle ----------------------------
(* The gesture at the program's constants: every distance at which the     *)
(* rounding changes its pattern, and the largest ones.                     *)
EXTENDS EmitCycle

MC_Settings ==
    [pattern : {"HORIZONTAL", "VERTICAL", "SQUARE"},
     move_px : (1..35) \union {127, 128, 1000} \union (1985..2000)]
    \union
    [pattern : {"RANDOM"}, move_px : 1..4]
=============================================================================
