----------------------------- MODULE MC_Gadget ------------------------------
(* The scripts' state is finite as it is; the modes say who starts them,   *)
(* what may go wrong and what other programs do.                           *)
EXTENDS Gadget

Any == {"TERM", "KILL"}

ByRuntime == [asRuntime |-> TRUE, undoFails |-> TRUE, recordStays |-> FALSE,
              setupSignals |-> Any, cleanupSignals |-> Any, others |-> {"load", "bind", "use"}]
ByHand    == [asRuntime |-> FALSE, undoFails |-> FALSE, recordStays |-> TRUE,
              setupSignals |-> Any, cleanupSignals |-> Any, others |-> {"load", "bind"}]
AllModes  == {ByRuntime, ByHand}

(* Nothing happens but that setup is interrupted.                          *)
Interrupted == {[asRuntime |-> FALSE, undoFails |-> FALSE, recordStays |-> FALSE,
                 setupSignals |-> {"TERM"}, cleanupSignals |-> {}, others |-> {}]}
=============================================================================
