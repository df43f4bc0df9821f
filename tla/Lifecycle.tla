----------------------------- MODULE Lifecycle ------------------------------
(***************************************************************************)
(* What app_runtime.h promises to a caller that only sees snapshots: the   *)
(* session's state, whether a gesture is being played, whether there is    *)
(* USB state to clean up, and how the shutdown ended.  No worker, helper   *)
(* process, device or request is visible here.                             *)
(***************************************************************************)
EXTENDS Integers

VARIABLES
    state,     \* AppRuntimeSnapshot.state
    gesture,   \* .gesture_active
    owned,     \* .setup_owned
    complete,  \* .shutdown_complete
    outcome    \* .shutdown_result, once the shutdown is complete

lifecycleVars == <<state, gesture, owned, complete, outcome>>

Transitional == {"PREPARING", "RETRYING"}

Init ==
    /\ state = "IDLE"
    /\ ~gesture
    /\ ~owned
    /\ ~complete
    /\ outcome = 0

(* The caller's requests.                                                  *)
Prepare ==
    /\ state \in {"IDLE", "READY", "DISCONNECTED", "ERROR"}
    /\ state' = IF state \in {"DISCONNECTED", "ERROR"} THEN "RETRYING"
                                                       ELSE "PREPARING"
    /\ UNCHANGED <<gesture, owned, complete, outcome>>

Start ==
    /\ state = "READY"
    /\ state' = "ACTIVE"
    /\ UNCHANGED <<gesture, owned, complete, outcome>>

Stop ==
    /\ state = "ACTIVE"
    /\ ~gesture
    /\ state' = "READY"
    /\ UNCHANGED <<gesture, owned, complete, outcome>>

RequestShutdown ==
    /\ state' = "EXITING"
    /\ UNCHANGED <<gesture, owned, complete, outcome>>

(* Ownership is taken and given back only behind PREPARING, RETRYING and   *)
(* EXITING.                                                                *)
ChangeOwnership ==
    /\ state \in Transitional \union {"EXITING"}
    /\ ~gesture
    /\ ~complete
    /\ owned' = ~owned
    /\ UNCHANGED <<state, gesture, complete, outcome>>

(* A preparation ends READY or DISCONNECTED, with something to clean up,   *)
(* or in ERROR.                                                            *)
Resolve ==
    /\ state \in Transitional
    /\ \/ owned /\ state' \in {"READY", "DISCONNECTED"}
       \/ state' = "ERROR"
    /\ UNCHANGED <<gesture, owned, complete, outcome>>

BeginGesture ==
    /\ state = "ACTIVE"
    /\ ~gesture
    /\ gesture' = TRUE
    /\ UNCHANGED <<state, owned, complete, outcome>>

(* The end of a gesture carries out a stop, or reports a lost device.      *)
EndGesture ==
    /\ gesture
    /\ gesture' = FALSE
    /\ \/ UNCHANGED state
       \/ state = "ACTIVE" /\ state' \in {"READY", "DISCONNECTED"}
    /\ UNCHANGED <<owned, complete, outcome>>

(* The worker is done; the outcome says whether anything is still owned.   *)
Complete ==
    /\ state = "EXITING"
    /\ ~gesture
    /\ ~complete
    /\ complete' = TRUE
    /\ outcome' = IF owned THEN -1 ELSE 0
    /\ UNCHANGED <<state, gesture, owned>>

Next ==
    \/ Prepare \/ Start \/ Stop \/ RequestShutdown
    \/ ChangeOwnership \/ Resolve \/ BeginGesture \/ EndGesture \/ Complete

Spec == Init /\ [][Next]_lifecycleVars

(* What the worker owes the caller: preparations, gestures and shutdowns   *)
(* come to an end.                                                         *)
FairSpec ==
    /\ Spec
    /\ WF_lifecycleVars(Resolve)
    /\ WF_lifecycleVars(EndGesture)
    /\ WF_lifecycleVars(Complete)

=============================================================================
