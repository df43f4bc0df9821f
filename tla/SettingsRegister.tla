-------------------------- MODULE SettingsRegister --------------------------
(***************************************************************************)
(* What "Settings are stored atomically" (readme.md) promises: the file    *)
(* holds one value, which changes as a whole.  A crash of the program does *)
(* nothing to it.  A power failure may bring back a value it has held      *)
(* since the storage last caught up and, where the storage only pretends   *)
(* to have written, the defaults; nothing else.                            *)
(***************************************************************************)
CONSTANTS Legal, Default

VARIABLES
    value,    \* what a load returns
    earlier,  \* what a load may return after a power failure
    honest    \* the storage has written what it says it has

registerVars == <<value, earlier, honest>>

Init ==
    /\ value \in Legal
    /\ earlier = {value}
    /\ honest \in BOOLEAN

Store(new) ==
    /\ value' = new
    /\ earlier' = earlier \union {new} \union (IF honest THEN {} ELSE {Default})
    /\ UNCHANGED honest

Settle == earlier' = {value} /\ UNCHANGED <<value, honest>>

(* Somebody replaces the file by hand.                                     *)
Replace(new) == value' = new /\ earlier' = {new} /\ UNCHANGED honest

LosePower == value' \in earlier /\ earlier' = {value'} /\ UNCHANGED honest

Next == (\E new \in Legal : Store(new) \/ Replace(new)) \/ Settle \/ LosePower

Spec == Init /\ [][Next]_registerVars
=============================================================================
