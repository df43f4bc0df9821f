-------------------------- MODULE AppRuntimeProofs --------------------------
(***************************************************************************)
(* What the worker, the callers and the helper processes of app_runtime.c  *)
(* keep true in every interleaving, for every set of settings, every       *)
(* interval and whatever an earlier run has left behind.                   *)
(*                                                                         *)
(* The invariant IInv says, for every place in the worker's code, what the *)
(* worker may rely on although it does not hold the mutex.  Each part is   *)
(* preserved action by action; the properties follow from it.              *)
(***************************************************************************)
EXTENDS AppRuntime, GestureProofs

----------------------------------------------------------------------------
(* Types.                                                                  *)

(* An interval is a legal time to wait.                                    *)
LEMMA IntervalTyped ==
    ASSUME SettingsAssumption
    PROVE  /\ MaxIntervalSec \in Nat
           /\ 0 \in 0..MaxIntervalSec
           /\ \A s \in Settings : s.interval_sec \in 0..MaxIntervalSec
  BY DEF SettingsAssumption

(* The shared fields, which every thread writes.                           *)
LEMMA FieldsTyped ==
    ASSUME SettingsAssumption, TypeOK, Next
    PROVE  FieldsTypeOK'
<1>. USE DEF TypeOK, FieldsTypeOK
<1>1. CASE TakeRequests
  BY <1>1 DEF TakeRequests, Goto, States, Threads, apiVars, flagVars
<1>2. CASE CleanupOwned
  BY <1>2 DEF CleanupOwned, Goto, States, Threads, apiVars, flagVars
<1>3. CASE ForkHelper
  BY <1>3 DEF ForkHelper, HelperReturns, Goto, States, Threads, apiVars,
              flagVars
<1>4. CASE ReapHelper
  BY <1>4 DEF ReapHelper, HelperReturns, Zombies, Goto, States, Threads,
              apiVars, flagVars
<1>5. CASE GiveUpHelper
  BY <1>5 DEF GiveUpHelper, Cancelled, Running, Goto, States, Threads, apiVars,
              flagVars
<1>6. CASE ReapTerminated
  BY <1>6 DEF ReapTerminated, HelperReturns, Zombies, Goto, States, Threads,
              apiVars, flagVars
<1>7. CASE KillHelper
  BY <1>7 DEF KillHelper, HelperReturns, Running, Goto, States, Threads,
              apiVars, flagVars
<1>8. CASE CleanupDone
  BY <1>8 DEF CleanupDone, Goto, States, Threads, apiVars, flagVars
<1>9. CASE PrepareAfterCleanup
  <2>1. state' \in States
    BY <1>9 DEF PrepareAfterCleanup, SetError, Broadcast, Goto, States
  <2>2. asleep' \subseteq Threads
    BY <1>9 DEF PrepareAfterCleanup, SetError, Broadcast, Goto, Threads
  <2>3. nextReport' \in 0..MaxIntervalSec
    BY <1>9, IntervalTyped DEF PrepareAfterCleanup, SetError, Broadcast, Goto
  <2>4. /\ setupOwned' \in BOOLEAN /\ cycleInProgress' \in BOOLEAN
        /\ hidOpen' \in BOOLEAN /\ stopAfterCycle' \in BOOLEAN
    BY <1>9 DEF PrepareAfterCleanup, SetError, Broadcast, Goto, flagVars
  <2>5. UNCHANGED <<settings, joined, waiter, prepareRequested,
                   shutdownRequested, workerFinished, shutdownResult>>
    BY <1>9 DEF PrepareAfterCleanup, SetError, Broadcast, Goto, flagVars,
                apiVars
  <2>. QED
    BY <2>1, <2>2, <2>3, <2>4, <2>5
<1>10. CASE SetupDone
  <2>1. state' \in States
    BY <1>10 DEF SetupDone, SetError, Broadcast, Goto, States
  <2>2. asleep' \subseteq Threads
    BY <1>10 DEF SetupDone, SetError, Broadcast, Goto, Threads
  <2>3. nextReport' \in 0..MaxIntervalSec
    BY <1>10, IntervalTyped DEF SetupDone, SetError, Broadcast, Goto
  <2>4. /\ setupOwned' \in BOOLEAN /\ cycleInProgress' \in BOOLEAN
        /\ hidOpen' \in BOOLEAN /\ stopAfterCycle' \in BOOLEAN
    BY <1>10 DEF SetupDone, SetError, Broadcast, Goto, flagVars
  <2>5. UNCHANGED <<settings, joined, waiter, prepareRequested,
                   shutdownRequested, workerFinished, shutdownResult>>
    BY <1>10 DEF SetupDone, SetError, Broadcast, Goto, flagVars, apiVars
  <2>. QED
    BY <2>1, <2>2, <2>3, <2>4, <2>5
<1>11. CASE OpenHid
  BY <1>11 DEF OpenHid, Goto, States, Threads, apiVars, flagVars
<1>12. CASE Publish
  <2>1. state' \in States
    BY <1>12 DEF Publish, SetError, Broadcast, Goto, States
  <2>2. asleep' \subseteq Threads
    BY <1>12 DEF Publish, SetError, Broadcast, Goto, Threads
  <2>3. nextReport' \in 0..MaxIntervalSec
    BY <1>12, IntervalTyped DEF Publish, SetError, Broadcast, Goto
  <2>4. /\ setupOwned' \in BOOLEAN /\ cycleInProgress' \in BOOLEAN
        /\ hidOpen' \in BOOLEAN /\ stopAfterCycle' \in BOOLEAN
    BY <1>12 DEF Publish, SetError, Broadcast, Goto, flagVars
  <2>5. UNCHANGED <<settings, joined, waiter, prepareRequested,
                   shutdownRequested, workerFinished, shutdownResult>>
    BY <1>12 DEF Publish, SetError, Broadcast, Goto, flagVars, apiVars
  <2>. QED
    BY <2>1, <2>2, <2>3, <2>4, <2>5
<1>13. CASE RecordShutdownResult
  BY <1>13 DEF RecordShutdownResult, Goto, States, Threads, apiVars, flagVars
<1>14. CASE FinishWorker
  BY <1>14 DEF FinishWorker, Broadcast, Goto, States, Threads, apiVars,
               flagVars
<1>15. CASE WaitForDeadline
  BY <1>15 DEF WaitForDeadline, Goto, States, Threads, apiVars, flagVars
<1>16. CASE BeginCycle
  <2>1. state' \in States
    BY <1>16 DEF BeginCycle, Goto, States
  <2>2. asleep' \subseteq Threads
    BY <1>16 DEF BeginCycle, Goto, Threads
  <2>3. nextReport' \in 0..MaxIntervalSec
    BY <1>16, IntervalTyped DEF BeginCycle, Goto
  <2>4. /\ setupOwned' \in BOOLEAN /\ cycleInProgress' \in BOOLEAN
        /\ hidOpen' \in BOOLEAN /\ stopAfterCycle' \in BOOLEAN
    BY <1>16 DEF BeginCycle, Goto, flagVars
  <2>5. UNCHANGED <<settings, joined, waiter, prepareRequested,
                   shutdownRequested, workerFinished, shutdownResult>>
    BY <1>16 DEF BeginCycle, Goto, flagVars, apiVars
  <2>. QED
    BY <2>1, <2>2, <2>3, <2>4, <2>5
<1>17. CASE EmitReport
  BY <1>17 DEF EmitReport, States, Threads, apiVars, flagVars
<1>18. CASE EmitReturns
  BY <1>18 DEF EmitReturns, Goto, States, Threads, apiVars, flagVars
<1>19. CASE FinishCycle
  <2>1. state' \in States
    BY <1>19 DEF FinishCycle, SetError, Broadcast, Goto, States
  <2>2. asleep' \subseteq Threads
    BY <1>19 DEF FinishCycle, SetError, Broadcast, Goto, Threads
  <2>3. nextReport' \in 0..MaxIntervalSec
    BY <1>19, IntervalTyped DEF FinishCycle, SetError, Broadcast, Goto
  <2>4. /\ setupOwned' \in BOOLEAN /\ cycleInProgress' \in BOOLEAN
        /\ hidOpen' \in BOOLEAN /\ stopAfterCycle' \in BOOLEAN
    BY <1>19 DEF FinishCycle, SetError, Broadcast, Goto, flagVars
  <2>5. UNCHANGED <<settings, joined, waiter, prepareRequested,
                   shutdownRequested, workerFinished, shutdownResult>>
    BY <1>19 DEF FinishCycle, SetError, Broadcast, Goto, flagVars, apiVars
  <2>. QED
    BY <2>1, <2>2, <2>3, <2>4, <2>5
<1>20. CASE IdleWait
  <2>1. state' \in States
    BY <1>20 DEF IdleWait, Goto, States
  <2>2. asleep' \subseteq Threads
    BY <1>20 DEF IdleWait, Goto, Threads
  <2>3. nextReport' \in 0..MaxIntervalSec
    BY <1>20, IntervalTyped DEF IdleWait, Goto
  <2>4. /\ setupOwned' \in BOOLEAN /\ cycleInProgress' \in BOOLEAN
        /\ hidOpen' \in BOOLEAN /\ stopAfterCycle' \in BOOLEAN
    BY <1>20 DEF IdleWait, Goto, flagVars
  <2>5. UNCHANGED <<settings, joined, waiter, prepareRequested,
                   shutdownRequested, workerFinished, shutdownResult>>
    BY <1>20 DEF IdleWait, Goto, flagVars, apiVars
  <2>. QED
    BY <2>1, <2>2, <2>3, <2>4, <2>5
<1>21. CASE WorkerWakes
  BY <1>21 DEF WorkerWakes, Goto, States, Threads, apiVars, flagVars
<1>22. CASE WaiterWakes
  BY <1>22 DEF WaiterWakes, States, Threads, apiVars, flagVars
<1>23. CASE WaiterTimesOut
  BY <1>23 DEF WaiterTimesOut, States, Threads, apiVars, flagVars
<1>24. CASE Prepare
  BY <1>24 DEF Prepare, Broadcast, States, Threads, apiVars, flagVars
<1>25. CASE Start
  BY <1>25, IntervalTyped DEF Start, Broadcast, States, Threads, apiVars,
                              flagVars
<1>26. CASE Stop
  BY <1>26, IntervalTyped DEF Stop, Broadcast, States, Threads, apiVars,
                              flagVars
<1>27. CASE RequestShutdown
  BY <1>27 DEF RequestShutdown, Broadcast, States, Threads, apiVars, flagVars
<1>28. CASE Join
  BY <1>28 DEF Join, States, Threads, apiVars, flagVars
<1>29. ASSUME NEW checked \in Settings, SetSettings(checked) PROVE FieldsTypeOK'
  BY <1>29, IntervalTyped DEF SetSettings, Broadcast, States, Threads, apiVars,
                              flagVars
<1>30. ASSUME NEW target \in WaitTargets, WaitForState(target) PROVE FieldsTypeOK'
  BY <1>30 DEF WaitForState, States, Threads, apiVars, flagVars
<1>31. CASE HelperDeadline
  BY <1>31 DEF HelperDeadline, States, Threads, apiVars, flagVars
<1>32. CASE Tick
  BY <1>32, IntervalTyped DEF Tick, Minus1, States, Threads, apiVars, flagVars
<1>33. CASE SpuriousWakeup
  BY <1>33 DEF SpuriousWakeup, States, Threads, apiVars, flagVars
<1>34. CASE Helper
  BY <1>34 DEF Helper, SetupRefuses, SetupBuilds, SetupBinds, SetupCommits,
               SetupFails, Remove, HelperFails, HelperSucceeds, TermArrives,
               UnchangedByHelper, apiVars, flagVars
<1>35. CASE Terminated
  BY <1>35 DEF Terminated, vars, apiVars, flagVars
<1>. QED
  BY <1>1, <1>2, <1>3, <1>4, <1>5, <1>6, <1>7, <1>8, <1>9, <1>10, <1>11, <1>12,
     <1>13, <1>14, <1>15, <1>16, <1>17, <1>18, <1>19, <1>20, <1>21, <1>22,
     <1>23, <1>24, <1>25, <1>26, <1>27, <1>28, <1>29, <1>30, <1>31, <1>32,
     <1>33, <1>34, <1>35
     DEF Next, Worker, Waiter, Api, Environment

(* The locals of the worker, which the other threads never touch.          *)
LEMMA WorkerTyped ==
    ASSUME SettingsAssumption, TypeOK, Next
    PROVE  WorkerTypeOK'
<1>. USE DEF TypeOK, WorkerTypeOK
<1>1. CASE TakeRequests
  BY <1>1 DEF TakeRequests, Goto, WorkerPCs, localVars, FieldsTypeOK
<1>2. CASE CleanupOwned
  BY <1>2 DEF CleanupOwned, Goto, WorkerPCs, localVars
<1>3. CASE ForkHelper
  BY <1>3 DEF ForkHelper, HelperReturns, Goto, WorkerPCs, localVars
<1>4. CASE ReapHelper
  BY <1>4 DEF ReapHelper, HelperReturns, Zombies, Goto, WorkerPCs, localVars
<1>5. CASE GiveUpHelper
  BY <1>5 DEF GiveUpHelper, Cancelled, Running, Goto, WorkerPCs, localVars
<1>6. CASE ReapTerminated
  BY <1>6 DEF ReapTerminated, HelperReturns, Zombies, Goto, WorkerPCs,
              localVars
<1>7. CASE KillHelper
  BY <1>7 DEF KillHelper, HelperReturns, Running, Goto, WorkerPCs, localVars
<1>8. CASE CleanupDone
  BY <1>8 DEF CleanupDone, Goto, WorkerPCs, localVars
<1>9. CASE PrepareAfterCleanup
  BY <1>9 DEF PrepareAfterCleanup, SetError, Broadcast, Goto, WorkerPCs,
              localVars
<1>10. CASE SetupDone
  BY <1>10 DEF SetupDone, SetError, Broadcast, Goto, WorkerPCs, localVars
<1>11. CASE OpenHid
  BY <1>11 DEF OpenHid, Goto, WorkerPCs, localVars
<1>12. CASE Publish
  BY <1>12 DEF Publish, SetError, Broadcast, Goto, WorkerPCs, localVars
<1>13. CASE RecordShutdownResult
  BY <1>13 DEF RecordShutdownResult, Goto, WorkerPCs, localVars
<1>14. CASE FinishWorker
  BY <1>14 DEF FinishWorker, Broadcast, Goto, WorkerPCs, localVars
<1>15. CASE WaitForDeadline
  BY <1>15 DEF WaitForDeadline, Goto, WorkerPCs, localVars
<1>16. CASE BeginCycle
  BY <1>16 DEF BeginCycle, Goto, WorkerPCs, localVars
<1>17. CASE EmitReport
  BY <1>17 DEF EmitReport, WorkerPCs, localVars
<1>18. CASE EmitReturns
  BY <1>18 DEF EmitReturns, Goto, WorkerPCs, localVars
<1>19. CASE FinishCycle
  BY <1>19 DEF FinishCycle, SetError, Broadcast, Goto, WorkerPCs, localVars
<1>20. CASE IdleWait
  BY <1>20 DEF IdleWait, Goto, WorkerPCs, localVars
<1>21. CASE WorkerWakes
  BY <1>21 DEF WorkerWakes, Goto, WorkerPCs, localVars
<1>22. CASE HelperDeadline
  BY <1>22 DEF HelperDeadline, WorkerPCs, localVars
<1>23. CASE Tick
  BY <1>23, IntervalTyped DEF Tick, Minus1, WorkerPCs, localVars
<1>24. CASE SpuriousWakeup
  BY <1>24 DEF SpuriousWakeup, WorkerPCs, localVars
<1>25. CASE Waiter \/ Api
  BY <1>25 DEF Waiter, WaiterWakes, WaiterTimesOut, Api, Prepare, Start, Stop,
               RequestShutdown, Join, SetSettings, WaitForState, localVars
<1>26. CASE Helper
  BY <1>26 DEF Helper, SetupRefuses, SetupBuilds, SetupBinds, SetupCommits,
               SetupFails, Remove, HelperFails, HelperSucceeds, TermArrives,
               UnchangedByHelper, localVars
<1>27. CASE Terminated
  BY <1>27 DEF Terminated, vars, localVars
<1>. QED
  BY <1>1, <1>2, <1>3, <1>4, <1>5, <1>6, <1>7, <1>8, <1>9, <1>10, <1>11, <1>12,
     <1>13, <1>14, <1>15, <1>16, <1>17, <1>18, <1>19, <1>20, <1>21, <1>22,
     <1>23, <1>24, <1>25, <1>26, <1>27
     DEF Next, Worker, Environment

(* The helper process, and what it leaves in the kernel.                   *)
LEMMA HelperTyped ==
    ASSUME TypeOK, Next
    PROVE  HelperTypeOK'
<1>. USE DEF TypeOK, HelperTypeOK
<1>1. CASE CleanupOwned
  BY <1>1 DEF CleanupOwned, Goto, Scripts, Running, Zombies, Children,
              Residues, helperVars
<1>2. CASE ForkHelper
  BY <1>2 DEF ForkHelper, HelperReturns, Goto, Scripts, Running, Zombies,
              Children, Residues, helperVars
<1>3. CASE ReapHelper
  BY <1>3 DEF ReapHelper, HelperReturns, Zombies, Goto, Scripts, Running,
              Children, Residues, helperVars
<1>4. CASE GiveUpHelper
  BY <1>4 DEF GiveUpHelper, Cancelled, Running, Goto, Scripts, Zombies,
              Children, Residues, helperVars
<1>5. CASE ReapTerminated
  BY <1>5 DEF ReapTerminated, HelperReturns, Zombies, Goto, Scripts, Running,
              Children, Residues, helperVars
<1>6. CASE KillHelper
  BY <1>6 DEF KillHelper, HelperReturns, Running, Goto, Scripts, Zombies,
              Children, Residues, helperVars
<1>7. CASE PrepareAfterCleanup
  BY <1>7 DEF PrepareAfterCleanup, SetError, Broadcast, Goto, Scripts, Running,
              Zombies, Children, Residues, helperVars
<1>8. CASE SetupRefuses
  BY <1>8 DEF SetupRefuses, UnchangedByHelper, Scripts, Running, Zombies,
              Children, Residues, helperVars
<1>9. CASE SetupBuilds
  BY <1>9 DEF SetupBuilds, UnchangedByHelper, Scripts, Running, Zombies,
              Children, Residues, helperVars
<1>10. CASE SetupBinds
  BY <1>10 DEF SetupBinds, UnchangedByHelper, Scripts, Running, Zombies,
               Children, Residues, helperVars
<1>11. CASE SetupCommits
  BY <1>11 DEF SetupCommits, UnchangedByHelper, Scripts, Running, Zombies,
               Children, Residues, helperVars
<1>12. CASE SetupFails
  BY <1>12 DEF SetupFails, UnchangedByHelper, Scripts, Running, Zombies,
               Children, Residues, helperVars
<1>13. CASE Remove
  BY <1>13 DEF Remove, UnchangedByHelper, Scripts, Running, Zombies, Children,
               Residues, helperVars
<1>14. CASE HelperFails
  BY <1>14 DEF HelperFails, UnchangedByHelper, Scripts, Running, Zombies,
               Children, Residues, helperVars
<1>15. CASE HelperSucceeds
  BY <1>15 DEF HelperSucceeds, UnchangedByHelper, Scripts, Running, Zombies,
               Children, Residues, helperVars
<1>16. CASE TermArrives
  BY <1>16 DEF TermArrives, Running, UnchangedByHelper, Scripts, Zombies,
               Children, Residues, helperVars
<1>17. CASE HelperDeadline
  BY <1>17 DEF HelperDeadline, Scripts, Running, Zombies, Children, Residues,
               helperVars
<1>18. CASE TakeRequests \/ CleanupDone \/ SetupDone \/ OpenHid \/ Publish \/
           RecordShutdownResult \/ FinishWorker \/ WaitForDeadline \/
           BeginCycle \/ EmitReport \/ EmitReturns \/ FinishCycle \/
           IdleWait \/ WorkerWakes
  BY <1>18 DEF TakeRequests, Goto, CleanupDone, SetupDone, SetError, Broadcast,
               OpenHid, Publish, RecordShutdownResult, FinishWorker,
               WaitForDeadline, BeginCycle, EmitReport, EmitReturns,
               FinishCycle, IdleWait, WorkerWakes, helperVars
<1>19. CASE Waiter \/ Api
  BY <1>19 DEF Waiter, WaiterWakes, WaiterTimesOut, Api, Prepare, Start, Stop,
               RequestShutdown, Join, SetSettings, WaitForState, helperVars
<1>20. CASE Tick \/ SpuriousWakeup
  BY <1>20 DEF Tick, SpuriousWakeup, helperVars
<1>21. CASE Terminated
  BY <1>21 DEF Terminated, vars, helperVars
<1>. QED
  BY <1>1, <1>2, <1>3, <1>4, <1>5, <1>6, <1>7, <1>8, <1>9, <1>10, <1>11, <1>12,
     <1>13, <1>14, <1>15, <1>16, <1>17, <1>18, <1>19, <1>20, <1>21
     DEF Next, Worker, Helper, Environment

----------------------------------------------------------------------------
(* The gesture.  EmitCycleProofs shows that a gesture stays on its path as *)
(* long as it is only begun and continued; here the worker does both.      *)
Play == INSTANCE EmitCycleProofs

(* The assumptions of EmitCycle follow from those of AppRuntime.           *)
LEMMA PlayAssumptions == Play!GestureAssumption /\ Play!EmitAssumption
<1>1. Play!GestureAssumption
  BY GestureAssumption DEF GestureAssumption, Play!GestureAssumption
<1>2. Play!EmitAssumption
  BY SettingsAssumption
     DEF SettingsAssumption, Play!EmitAssumption, Patterns, Play!Patterns
<1>. QED
  BY <1>1, <1>2

(* Emit, of AppRuntime, and Play are two instances of one module.          *)
LEMMA PlayIsEmit ==
    /\ Play!Complete <=> Emit!Complete
    /\ Play!EmitTypeOK <=> Emit!EmitTypeOK
    /\ Play!Init <=> Emit!EmitInit
    /\ Play!EmitReport <=> Emit!EmitReport
    /\ \A s : Play!EmitBegin(s) <=> Emit!EmitBegin(s)
<1>1. Play!Complete <=> Emit!Complete
  BY DEF Play!Complete, Emit!Complete
<1>2. Play!EmitTypeOK <=> Emit!EmitTypeOK
  BY DEF Play!EmitTypeOK, Emit!EmitTypeOK, Play!Vector, Emit!Vector
<1>3. Play!Init <=> Emit!EmitInit
  BY DEF Play!Init, Play!EmitInit, Emit!EmitInit, Play!Origin, Emit!Origin
<1>4. Play!EmitReport <=> Emit!EmitReport
  BY DEF Emit!EmitReport, Emit!Complete, Emit!InterpolateAccepts, Emit!Plus,
         Emit!HostMove, Emit!InterpolateStep, Emit!Byte, Emit!SignedByte,
         Emit!Target, Emit!CDiv,
         Play!EmitReport, Play!Complete, Play!InterpolateAccepts, Play!Plus,
         Play!HostMove, Play!InterpolateStep, Play!Byte, Play!SignedByte,
         Play!Target, Play!CDiv
<1>5. \A s : Play!EmitBegin(s) <=> Emit!EmitBegin(s)
  BY DEF Emit!EmitBegin, Emit!MovementVectors, Emit!RandomTargets,
         Emit!Opposite, Emit!Origin,
         Play!EmitBegin, Play!MovementVectors, Play!RandomTargets,
         Play!Opposite, Play!Origin
<1>. QED
  BY <1>1, <1>2, <1>3, <1>4, <1>5

(* The gesture is on its path, and the worker leaves emit_cycle with       *)
(* success only at the end of it.                                          *)
GestureOnPlan ==
    /\ Play!Played
    /\ wpc = "cycle_done" => Emit!Complete

(* No step of anyone takes a gesture off its plan.                         *)
LEMMA GesturePlanned ==
    ASSUME settings \in Settings, GestureOnPlan, Next
    PROVE  GestureOnPlan'
<1>1. CASE BeginCycle
  <2>1. CASE state = "ACTIVE"
    <3>1. Play!EmitBegin(settings)
      BY <1>1, <2>1, PlayIsEmit DEF BeginCycle
    <3>2. Play!Begin
      BY <3>1 DEF Play!Begin
    <3>3. Play!Played'
      BY <3>2, PlayAssumptions, Play!BeginPlayed
    <3>. QED
      BY <1>1, <2>1, <3>3 DEF BeginCycle, GestureOnPlan, Goto
  <2>2. CASE state # "ACTIVE"
    <3>1. UNCHANGED gestureVars /\ wpc' = "top"
      BY <1>1, <2>2 DEF BeginCycle, Goto
    <3>. QED
      BY <3>1, PlayAssumptions, Play!StutterPlayed
         DEF GestureOnPlan, gestureVars, Play!emitVars
  <2>. QED
    BY <2>1, <2>2
<1>2. CASE EmitReport
  <2>1. Play!EmitReport /\ wpc' = "emit"
    BY <1>2, PlayIsEmit DEF EmitReport
  <2>. QED
    BY <2>1, PlayAssumptions, Play!ReportPlayed DEF GestureOnPlan
<1>3. ASSUME UNCHANGED gestureVars, wpc' = "cycle_done" => Emit!Complete
      PROVE  GestureOnPlan'
  <2>1. Play!Played'
    BY <1>3, PlayAssumptions, Play!StutterPlayed
       DEF GestureOnPlan, gestureVars, Play!emitVars
  <2>2. Emit!Complete' <=> Emit!Complete
    BY <1>3 DEF gestureVars, Emit!Complete
  <2>. QED
    BY <1>3, <2>1, <2>2 DEF GestureOnPlan
<1>4. CASE EmitReturns
  <2>1. UNCHANGED gestureVars /\ (wpc' = "cycle_done" => Emit!Complete)
    BY <1>4 DEF EmitReturns, Goto
  <2>. QED
    BY <1>3, <2>1
<1>5. CASE CleanupOwned \/ TakeRequests \/ ForkHelper \/ ReapHelper \/ GiveUpHelper
           \/ ReapTerminated \/ KillHelper \/ CleanupDone \/ PrepareAfterCleanup
           \/ SetupDone \/ OpenHid \/ Publish \/ RecordShutdownResult
           \/ FinishWorker \/ WaitForDeadline \/ FinishCycle \/ IdleWait
           \/ WorkerWakes
  <2>1. UNCHANGED gestureVars /\ wpc' # "cycle_done"
    BY <1>5
       DEF CleanupOwned, TakeRequests, ForkHelper, ReapHelper, GiveUpHelper,
           ReapTerminated, KillHelper, CleanupDone, PrepareAfterCleanup,
           SetupDone, OpenHid, Publish, RecordShutdownResult, FinishWorker,
           WaitForDeadline, FinishCycle, IdleWait, WorkerWakes, Goto,
           HelperReturns
  <2>. QED
    BY <1>3, <2>1
<1>6. CASE Waiter \/ Api \/ Helper \/ Environment \/ Terminated
  <2>1. UNCHANGED <<wpc, gestureVars>>
    BY <1>6
       DEF Waiter, WaiterWakes, WaiterTimesOut, Api, Prepare, Start, Stop,
           RequestShutdown, Join, SetSettings, WaitForState, Helper,
           SetupRefuses, SetupBuilds, SetupBinds, SetupCommits, SetupFails,
           Remove, HelperFails, HelperSucceeds, TermArrives,
           UnchangedByHelper, Environment, HelperDeadline, Tick,
           SpuriousWakeup, Terminated, vars
  <2>. QED
    BY <1>3, <2>1 DEF GestureOnPlan
<1>. QED
  BY <1>1, <1>2, <1>4, <1>5, <1>6 DEF Next, Worker

----------------------------------------------------------------------------
(* The worker's promises.                                                  *)

(* The worker keeps its own promises: what one critical section leaves     *)
(* behind is what the next one relies on.                                  *)
LEMMA WorkerConsistent ==
    ASSUME IInv, Worker
    PROVE  Consistent'
<1>. USE DEF IInv, TypeOK, FieldsTypeOK, WorkerTypeOK, HelperTypeOK, Consistent,
        RequestsAgree, ChildBelongs, OwnershipFollowsWorker, DeviceFollowsWorker,
        SleepersAreWaiting, DeviceIsOurs, GestureHasDevice, NoLostWakeup,
        NoOrphanedPreparation, StopEndsThisGesture, Preparing, HelperPCs, GesturePCs, ExitPCs,
        States, WorkerPCs, Scripts, Running, Zombies, Children, Residues, Threads,
        apiVars, helperVars, localVars, flagVars
<1>1. CASE TakeRequests
  BY <1>1 DEF TakeRequests, Goto
<1>2. CASE CleanupOwned
  BY <1>2 DEF CleanupOwned, Goto
<1>3. CASE ForkHelper
  BY <1>3 DEF ForkHelper, HelperReturns, Goto
<1>4. CASE ReapHelper
  BY <1>4 DEF ReapHelper, HelperReturns, Zombies, Goto
<1>5. CASE GiveUpHelper
  BY <1>5 DEF GiveUpHelper, Cancelled, Running, Goto
<1>6. CASE ReapTerminated
  BY <1>6 DEF ReapTerminated, HelperReturns, Zombies, Goto
<1>7. CASE KillHelper
  BY <1>7 DEF KillHelper, HelperReturns, Running, Goto
<1>8. CASE CleanupDone
  <2>1. setupOwned' \in BOOLEAN /\ (setupOwned' <=> ~wResult)
    BY <1>8 DEF CleanupDone
  <2>. QED
    BY <1>8, <2>1 DEF CleanupDone, Goto
<1>9. CASE PrepareAfterCleanup
  BY <1>9 DEF PrepareAfterCleanup, SetError, Broadcast, Goto
<1>10. CASE SetupDone
  BY <1>10 DEF SetupDone, SetError, Broadcast, Goto
<1>11. CASE OpenHid
  <2>1. wFd' \in BOOLEAN /\ (wFd' => gadget = "ready")
    BY <1>11 DEF OpenHid
  <2>2. UNCHANGED <<state, setupOwned, hidOpen, asleep, gadget, waiter, child,
                   script, signalled, wGoal, flagVars>>
    BY <1>11 DEF OpenHid
  <2>3. wpc = "open" /\ wpc' = "publish"
    BY <1>11 DEF OpenHid, Goto
  <2>. QED
    BY <2>1, <2>2, <2>3
<1>12. CASE Publish
  BY <1>12 DEF Publish, SetError, Broadcast, Goto
<1>13. CASE RecordShutdownResult
  BY <1>13 DEF RecordShutdownResult, Goto
<1>14. CASE FinishWorker
  BY <1>14 DEF FinishWorker, Broadcast, Goto
<1>15. CASE WaitForDeadline
  BY <1>15 DEF WaitForDeadline, Goto
<1>16. CASE BeginCycle
  BY <1>16 DEF BeginCycle, Goto
<1>17. CASE EmitReport
  BY <1>17 DEF EmitReport
<1>18. CASE EmitReturns
  BY <1>18 DEF EmitReturns, Goto
<1>19. CASE FinishCycle
  <2>1. CASE wpc = "cycle_failed" /\ ~shutdownRequested
    BY <1>19, <2>1 DEF FinishCycle, SetError, Broadcast, Goto
  <2>2. CASE wpc = "cycle_done" /\ ~shutdownRequested /\ stopAfterCycle
    <3>1. state = "ACTIVE" /\ hidOpen /\ ~prepareRequested
      BY <2>2
    <3>2. /\ state' = "READY" /\ asleep' = {} /\ wpc' = "top"
          /\ cycleInProgress' = FALSE /\ stopAfterCycle' = FALSE
          /\ UNCHANGED <<setupOwned, hidOpen, gadget, waiter, helperVars,
                        localVars, prepareRequested, shutdownRequested,
                        workerFinished, shutdownResult>>
      BY <1>19, <2>2 DEF FinishCycle, Broadcast, Goto
    <3>. QED
      BY <2>2, <3>1, <3>2
  <2>3. CASE shutdownRequested \/ (wpc = "cycle_done" /\ ~stopAfterCycle)
    BY <1>19, <2>3 DEF FinishCycle, SetError, Broadcast, Goto
  <2>. QED
    BY <1>19, <2>1, <2>2, <2>3 DEF FinishCycle
<1>20. CASE IdleWait
  BY <1>20 DEF IdleWait, Goto
<1>21. CASE WorkerWakes
  BY <1>21 DEF WorkerWakes, Goto
<1>. QED
  BY <1>1, <1>2, <1>3, <1>4, <1>5, <1>6, <1>7, <1>8, <1>9, <1>10, <1>11, <1>12,
     <1>13, <1>14, <1>15, <1>16, <1>17, <1>18, <1>19, <1>20, <1>21 DEF Worker

(* A call edits the shared fields at any moment, whatever the worker is    *)
(* doing.                                                                  *)
LEMMA ApiConsistent ==
    ASSUME IInv, Api
    PROVE  Consistent'
<1>. USE DEF IInv, TypeOK, FieldsTypeOK, WorkerTypeOK, HelperTypeOK, Consistent,
        RequestsAgree, ChildBelongs, OwnershipFollowsWorker, DeviceFollowsWorker,
        SleepersAreWaiting, DeviceIsOurs, GestureHasDevice, NoLostWakeup,
        NoOrphanedPreparation, StopEndsThisGesture, Preparing, HelperPCs, GesturePCs, ExitPCs,
        States, WorkerPCs, Scripts, Running, Zombies, Children, Residues, Threads,
        apiVars, helperVars, localVars, flagVars
<1>1. CASE Prepare
  BY <1>1 DEF Prepare, Broadcast
<1>2. CASE Start
  BY <1>2 DEF Start, Broadcast
<1>3. CASE Stop
  BY <1>3 DEF Stop, Broadcast
<1>4. CASE RequestShutdown
  BY <1>4 DEF RequestShutdown, Broadcast
<1>5. CASE Join
  BY <1>5 DEF Join
<1>6. ASSUME NEW checked \in Settings, SetSettings(checked)
      PROVE  Consistent'
  BY <1>6 DEF SetSettings, Broadcast
<1>7. ASSUME NEW target \in WaitTargets, WaitForState(target)
      PROVE  Consistent'
  <2>1. /\ waiter' = target /\ asleep' = asleep \union {"waiter"}
        /\ state # target
    BY <1>7 DEF WaitForState
  <2>2. "waiter" \in asleep' => state # waiter' /\ waiter' # "none"
    BY <2>1, SettingsAssumption DEF SettingsAssumption
  <2>3. "worker" \in asleep' <=> "worker" \in asleep
    BY <2>1
  <2>4. UNCHANGED <<state, setupOwned, hidOpen, wpc, gadget, child, script,
                   signalled, wGoal, wResult, wFd, flagVars>>
    BY <1>7 DEF WaitForState
  <2>. HIDE DEF Threads
  <2>. QED
    BY <2>2, <2>3, <2>4
<1>. QED
  BY <1>1, <1>2, <1>3, <1>4, <1>5, <1>6, <1>7 DEF Api

(* The scripts change the kernel's state only while they may.              *)
LEMMA HelperConsistent ==
    ASSUME IInv, Helper
    PROVE  Consistent'
<1>. USE DEF IInv, TypeOK, FieldsTypeOK, WorkerTypeOK, HelperTypeOK, Consistent,
        RequestsAgree, ChildBelongs, OwnershipFollowsWorker, DeviceFollowsWorker,
        SleepersAreWaiting, DeviceIsOurs, GestureHasDevice, NoLostWakeup,
        NoOrphanedPreparation, StopEndsThisGesture, Preparing, HelperPCs, GesturePCs, ExitPCs,
        States, WorkerPCs, Scripts, Running, Zombies, Children, Residues, Threads,
        apiVars, helperVars, localVars, flagVars
<1>1. CASE SetupRefuses
  BY <1>1 DEF SetupRefuses, UnchangedByHelper
<1>2. CASE SetupBuilds
  BY <1>2 DEF SetupBuilds, UnchangedByHelper
<1>3. CASE SetupBinds
  BY <1>3 DEF SetupBinds, UnchangedByHelper
<1>4. CASE SetupCommits
  BY <1>4 DEF SetupCommits, UnchangedByHelper
<1>5. CASE SetupFails
  BY <1>5 DEF SetupFails, UnchangedByHelper
<1>6. CASE Remove
  BY <1>6 DEF Remove, UnchangedByHelper
<1>7. CASE HelperFails
  BY <1>7 DEF HelperFails, UnchangedByHelper
<1>8. CASE HelperSucceeds
  BY <1>8 DEF HelperSucceeds, UnchangedByHelper
<1>9. CASE TermArrives
  BY <1>9 DEF TermArrives, Running, UnchangedByHelper
<1>. QED
  BY <1>1, <1>2, <1>3, <1>4, <1>5, <1>6, <1>7, <1>8, <1>9 DEF Helper

(* Timeouts, the clock and wake-ups.                                       *)
LEMMA RestConsistent ==
    ASSUME IInv, (Waiter \/ Environment)
    PROVE  Consistent'
<1>. USE DEF IInv, TypeOK, FieldsTypeOK, WorkerTypeOK, HelperTypeOK, Consistent,
        RequestsAgree, ChildBelongs, OwnershipFollowsWorker, DeviceFollowsWorker,
        SleepersAreWaiting, DeviceIsOurs, GestureHasDevice, NoLostWakeup,
        NoOrphanedPreparation, StopEndsThisGesture, Preparing, HelperPCs, GesturePCs, ExitPCs,
        States, WorkerPCs, Scripts, Running, Zombies, Children, Residues, Threads,
        apiVars, helperVars, localVars, flagVars
<1>1. CASE WaiterWakes
  BY <1>1 DEF WaiterWakes
<1>2. CASE WaiterTimesOut
  BY <1>2 DEF WaiterTimesOut
<1>3. CASE HelperDeadline
  BY <1>3 DEF HelperDeadline
<1>4. CASE Tick
  BY <1>4 DEF Tick, Minus1
<1>5. CASE SpuriousWakeup
  BY <1>5 DEF SpuriousWakeup
<1>. QED
  BY <1>1, <1>2, <1>3, <1>4, <1>5 DEF Waiter, Environment

----------------------------------------------------------------------------
(* The theorems.                                                           *)

(* app_runtime_create establishes everything the worker relies on.         *)
LEMMA InitSound == Init => IInv /\ GestureOnPlan
<1>. SUFFICES ASSUME Init PROVE IInv /\ GestureOnPlan
  OBVIOUS
<1>1. GestureOnPlan
  <2>1. Play!Init /\ wpc = "top"
    BY PlayIsEmit DEF Init
  <2>. QED
    BY <2>1, PlayAssumptions, Play!EmitInitPlayed DEF GestureOnPlan
<1>2. Emit!EmitTypeOK
  BY <1>1, PlayIsEmit DEF GestureOnPlan, Play!Played
<1>3. FieldsTypeOK /\ WorkerTypeOK /\ HelperTypeOK
  BY SettingsAssumption, IntervalTyped
     DEF Init, SettingsAssumption, FieldsTypeOK, WorkerTypeOK, HelperTypeOK,
         States, Threads, WorkerPCs, Children, Running, Zombies, Scripts,
         Residues
<1>4. Consistent
  BY DEF Init, Consistent, RequestsAgree, ChildBelongs, OwnershipFollowsWorker,
         DeviceFollowsWorker, SleepersAreWaiting, DeviceIsOurs, GestureHasDevice,
         NoLostWakeup, NoOrphanedPreparation, StopEndsThisGesture, HelperPCs, GesturePCs,
         ExitPCs
<1>. QED
  BY <1>1, <1>2, <1>3, <1>4 DEF IInv, TypeOK

(* A step that leaves every variable alone.                                *)
LEMMA StutterSound ==
    ASSUME IInv, GestureOnPlan, UNCHANGED vars
    PROVE  IInv' /\ GestureOnPlan'
<1>1. UNCHANGED <<apiVars, gestureVars, helperVars, localVars, flagVars>>
      /\ UNCHANGED <<state, nextReport, setupOwned, hidOpen, asleep, wpc, gadget>>
  BY DEF vars
<1>2. GestureOnPlan'
  <2>1. Play!Played'
    BY <1>1, PlayAssumptions, Play!StutterPlayed
       DEF GestureOnPlan, gestureVars, Play!emitVars
  <2>. QED
    BY <1>1, <2>1 DEF GestureOnPlan, gestureVars, Emit!Complete
<1>3. TypeOK'
  BY <1>1
     DEF IInv, TypeOK, FieldsTypeOK, WorkerTypeOK, HelperTypeOK,
         Emit!EmitTypeOK, apiVars, gestureVars, helperVars, localVars, flagVars
<1>4. Consistent'
  BY <1>1
     DEF IInv, Consistent, RequestsAgree, ChildBelongs, OwnershipFollowsWorker,
         DeviceFollowsWorker, SleepersAreWaiting, DeviceIsOurs, GestureHasDevice,
         NoLostWakeup, NoOrphanedPreparation, StopEndsThisGesture, Preparing, apiVars,
         helperVars, localVars, flagVars
<1>. QED
  BY <1>2, <1>3, <1>4 DEF IInv

(* Every step of the worker, a caller, a script or the clock.              *)
LEMMA StepSound ==
    ASSUME IInv, GestureOnPlan, Next
    PROVE  IInv' /\ GestureOnPlan'
<1>1. TypeOK /\ settings \in Settings
  BY DEF IInv, TypeOK, FieldsTypeOK
<1>2. GestureOnPlan'
  BY <1>1, GesturePlanned
<1>3. Emit!EmitTypeOK'
  <2>1. Play!EmitTypeOK'
    BY <1>2 DEF GestureOnPlan, Play!Played
  <2>. QED
    BY <2>1 DEF Play!EmitTypeOK, Emit!EmitTypeOK, Play!Vector, Emit!Vector
<1>4. TypeOK'
  BY <1>1, <1>3, SettingsAssumption, FieldsTyped, WorkerTyped, HelperTyped
     DEF TypeOK
<1>5. Consistent'
  <2>1. CASE Terminated
    BY <2>1, StutterSound DEF Terminated, IInv
  <2>. QED
    BY <2>1, WorkerConsistent, ApiConsistent, HelperConsistent, RestConsistent
       DEF Next
<1>. QED
  BY <1>2, <1>4, <1>5 DEF IInv

(* The inductive invariant holds in every state the program reaches.       *)
THEOREM AlwaysSound == Spec => [](IInv /\ GestureOnPlan)
<1>1. Init => IInv /\ GestureOnPlan
  BY InitSound
<1>2. IInv /\ GestureOnPlan /\ [Next]_vars => (IInv /\ GestureOnPlan)'
  BY StepSound, StutterSound
<1>. QED
  BY <1>1, <1>2, PTL DEF Spec

(* Type correctness of struct AppRuntime, the worker's locals and the      *)
(* helper process.                                                         *)
THEOREM AlwaysTyped == Spec => []TypeOK
<1>1. IInv /\ GestureOnPlan => TypeOK
  BY DEF IInv
<1>. QED
  BY <1>1, AlwaysSound, PTL

(* hid_fd is open only on a live gadget this runtime owns and nobody is    *)
(* working on.                                                             *)
THEOREM DeviceAlwaysOurs == Spec => []DeviceIsOurs
<1>1. IInv /\ GestureOnPlan => DeviceIsOurs
  BY DEF IInv, Consistent
<1>. QED
  BY <1>1, AlwaysSound, PTL

(* prepare_runtime runs the setup script only when nothing is owned.       *)
THEOREM SetupAlwaysStartsClean == Spec => []SetupStartsClean
<1>1. IInv /\ GestureOnPlan => SetupStartsClean
  BY DEF IInv, Consistent, ChildBelongs, OwnershipFollowsWorker,
         SetupStartsClean
<1>. QED
  BY <1>1, AlwaysSound, PTL

(* Nobody closes the device or changes the state under emit_cycle.         *)
THEOREM GestureAlwaysHasDevice == Spec => []GestureHasDevice
<1>1. IInv /\ GestureOnPlan => GestureHasDevice
  BY DEF IInv, Consistent
<1>. QED
  BY <1>1, AlwaysSound, PTL

(* A stop that waits for the end of a gesture does not outlive it.         *)
THEOREM StopAlwaysEndsThisGesture == Spec => []StopEndsThisGesture
<1>1. IInv /\ GestureOnPlan => StopEndsThisGesture
  BY DEF IInv, Consistent
<1>. QED
  BY <1>1, AlwaysSound, PTL

(* PREPARING and RETRYING always have a preparation behind them.           *)
THEOREM PreparationNeverOrphaned == Spec => []NoOrphanedPreparation
<1>1. IInv /\ GestureOnPlan => NoOrphanedPreparation
  BY DEF IInv, Consistent
<1>. QED
  BY <1>1, AlwaysSound, PTL

(* Every change that someone sleeps for is broadcast.                      *)
THEOREM WakeupNeverLost == Spec => []NoLostWakeup
<1>1. IInv /\ GestureOnPlan => NoLostWakeup
  BY DEF IInv, Consistent
<1>. QED
  BY <1>1, AlwaysSound, PTL

(* The result of app_runtime_shutdown is the truth about ownership.        *)
THEOREM ExitAlwaysTellsTheTruth == Spec => []ExitTellsTheTruth
<1>1. IInv /\ GestureOnPlan => ExitTellsTheTruth
  BY DEF IInv, Consistent, RequestsAgree, ChildBelongs, OwnershipFollowsWorker,
         DeviceFollowsWorker, ExitTellsTheTruth, ExitPCs, GesturePCs
<1>. QED
  BY <1>1, AlwaysSound, PTL

----------------------------------------------------------------------------
(* The promise to callers: a Lifecycle.                                    *)

(* What one step looks like in two successive snapshots.                   *)
SnapshotStep == Snapshot!Next \/ UNCHANGED Snapshot!lifecycleVars

(* Nothing a snapshot shows has changed.                                   *)
LEMMA Unseen ==
    ASSUME UNCHANGED <<state, cycleInProgress, setupOwned, workerFinished>>,
           ~workerFinished \/ shutdownResult' = shutdownResult
    PROVE  SnapshotStep
  BY DEF SnapshotStep, Snapshot!lifecycleVars

(* The callers' requests are the requests of a Lifecycle.                  *)
LEMMA ApiRefines ==
    ASSUME IInv, Api
    PROVE  SnapshotStep
<1>. USE DEF SnapshotStep, flagVars
<1>1. CASE Prepare
  <2>1. state \in {"IDLE", "READY", "DISCONNECTED", "ERROR"}
    BY <1>1 DEF Prepare, IInv, TypeOK, FieldsTypeOK, States, Consistent,
                RequestsAgree
  <2>. QED
    BY <1>1, <2>1 DEF Prepare, Snapshot!Next, Snapshot!Prepare
<1>2. CASE Start
  BY <1>2 DEF Start, Snapshot!Next, Snapshot!Start
<1>3. CASE Stop
  <2>1. CASE cycleInProgress
    BY <1>3, <2>1 DEF Stop, Snapshot!lifecycleVars
  <2>2. CASE ~cycleInProgress
    BY <1>3, <2>2 DEF Stop, Snapshot!Next, Snapshot!Stop
  <2>. QED
    BY <2>1, <2>2
<1>4. CASE RequestShutdown
  BY <1>4 DEF RequestShutdown, Snapshot!Next, Snapshot!RequestShutdown
<1>5. CASE Join
  BY <1>5, Unseen DEF Join
<1>6. ASSUME NEW checked \in Settings, SetSettings(checked)
      PROVE  SnapshotStep
  BY <1>6, Unseen DEF SetSettings
<1>7. ASSUME NEW target \in WaitTargets, WaitForState(target)
      PROVE  SnapshotStep
  BY <1>7, Unseen DEF WaitForState
<1>. QED
  BY <1>1, <1>2, <1>3, <1>4, <1>5, <1>6, <1>7 DEF Api

(* The worker shows the callers only the steps a Lifecycle takes.          *)
LEMMA WorkerRefines ==
    ASSUME IInv, Worker
    PROVE  SnapshotStep
<1>. USE DEF SnapshotStep, flagVars, Goto
<1>1. CASE CleanupDone
  <2>1. wpc = "cleanup_done" /\ setupOwned /\ ~cycleInProgress
        /\ ~workerFinished /\ state \in {"PREPARING", "RETRYING", "EXITING"}
    BY <1>1 DEF CleanupDone, IInv, Consistent, RequestsAgree, HelperPCs,
                GesturePCs, OwnershipFollowsWorker
  <2>2. CASE wResult
    BY <1>1, <2>1, <2>2
       DEF CleanupDone, Snapshot!Next, Snapshot!ChangeOwnership,
           Snapshot!Transitional
  <2>3. CASE ~wResult
    <3>1. setupOwned' = setupOwned
      BY <1>1, <2>1, <2>3 DEF CleanupDone
    <3>. QED
      BY <1>1, <3>1, Unseen DEF CleanupDone
  <2>. QED
    BY <2>2, <2>3
<1>2. CASE PrepareAfterCleanup
  <2>1. ~shutdownRequested => state \in {"PREPARING", "RETRYING"}
    BY <1>2 DEF PrepareAfterCleanup, IInv, Consistent, RequestsAgree, HelperPCs
  <2>. QED
    BY <1>2, <2>1
       DEF PrepareAfterCleanup, SetError, Snapshot!Next, Snapshot!Resolve,
           Snapshot!Transitional, Snapshot!lifecycleVars
<1>3. CASE SetupDone
  <2>1. /\ wpc = "setup_done" /\ ~setupOwned /\ ~cycleInProgress
        /\ ~workerFinished /\ state \in {"PREPARING", "RETRYING", "EXITING"}
        /\ ~shutdownRequested => state \in {"PREPARING", "RETRYING"}
    BY <1>3 DEF SetupDone, IInv, Consistent, RequestsAgree, HelperPCs,
                GesturePCs, OwnershipFollowsWorker
  <2>2. CASE wResult
    BY <1>3, <2>1, <2>2
       DEF SetupDone, Snapshot!Next, Snapshot!ChangeOwnership,
           Snapshot!Transitional
  <2>3. CASE ~wResult
    BY <1>3, <2>1, <2>3
       DEF SetupDone, SetError, Snapshot!Next, Snapshot!Resolve,
           Snapshot!Transitional, Snapshot!lifecycleVars
  <2>. QED
    BY <2>2, <2>3
<1>4. CASE Publish
  <2>1. setupOwned /\ (~shutdownRequested => state \in {"PREPARING", "RETRYING"})
    BY <1>4 DEF Publish, IInv, Consistent, RequestsAgree, HelperPCs,
                OwnershipFollowsWorker
  <2>. QED
    BY <1>4, <2>1
       DEF Publish, SetError, Snapshot!Next, Snapshot!Resolve,
           Snapshot!Transitional, Snapshot!lifecycleVars
<1>5. CASE FinishWorker
  <2>1. /\ wpc = "finish" /\ state = "EXITING" /\ ~workerFinished
        /\ ~cycleInProgress /\ shutdownResult \in {0, -1}
        /\ shutdownResult = 0 <=> ~setupOwned
    BY <1>5 DEF FinishWorker, IInv, TypeOK, FieldsTypeOK, Consistent,
                RequestsAgree, OwnershipFollowsWorker, ExitPCs, GesturePCs
  <2>. QED
    BY <1>5, <2>1 DEF FinishWorker, Snapshot!Next, Snapshot!Complete
<1>6. CASE RecordShutdownResult
  <2>1. ~workerFinished
    BY <1>6 DEF RecordShutdownResult, IInv, Consistent, RequestsAgree
  <2>. QED
    BY <1>6, <2>1, Unseen DEF RecordShutdownResult
<1>7. CASE BeginCycle
  <2>1. ~cycleInProgress
    BY <1>7 DEF BeginCycle, IInv, Consistent, RequestsAgree, GesturePCs
  <2>. QED
    BY <1>7, <2>1
       DEF BeginCycle, Snapshot!Next, Snapshot!BeginGesture,
           Snapshot!lifecycleVars
<1>8. CASE FinishCycle
  <2>1. /\ cycleInProgress
        /\ ~shutdownRequested => state = "ACTIVE"
    BY <1>8 DEF FinishCycle, IInv, Consistent, RequestsAgree, GesturePCs,
                GestureHasDevice
  <2>. QED
    BY <1>8, <2>1
       DEF FinishCycle, SetError, Snapshot!Next, Snapshot!EndGesture
<1>9. CASE CleanupOwned \/ TakeRequests \/ ForkHelper \/ ReapHelper
           \/ GiveUpHelper \/ ReapTerminated \/ KillHelper \/ OpenHid
           \/ WaitForDeadline \/ EmitReport \/ EmitReturns \/ IdleWait
           \/ WorkerWakes
  BY <1>9, Unseen
     DEF CleanupOwned, TakeRequests, ForkHelper, ReapHelper, GiveUpHelper,
         ReapTerminated, KillHelper, OpenHid, WaitForDeadline, EmitReport,
         EmitReturns, IdleWait, WorkerWakes
<1>. QED
  BY <1>1, <1>2, <1>3, <1>4, <1>5, <1>6, <1>7, <1>8, <1>9 DEF Worker

(* Callers that only look at snapshots see a Lifecycle: every step of the  *)
(* runtime is one of its steps, or shows them nothing.                     *)
THEOREM SnapshotIsLifecycle == Spec => ImplementsLifecycle
<1>1. Init => Snapshot!Init
  BY DEF Init, Snapshot!Init
<1>2. IInv /\ [Next]_vars => [Snapshot!Next]_Snapshot!lifecycleVars
  <2>. SUFFICES ASSUME IInv, [Next]_vars PROVE SnapshotStep
    BY DEF SnapshotStep
  <2>1. CASE Waiter \/ Helper \/ Environment
    BY <2>1, Unseen
       DEF Waiter, WaiterWakes, WaiterTimesOut, Helper, SetupRefuses,
           SetupBuilds, SetupBinds, SetupCommits, SetupFails, Remove,
           HelperFails, HelperSucceeds, TermArrives, UnchangedByHelper,
           Environment, HelperDeadline, Tick, SpuriousWakeup, flagVars
  <2>2. CASE Terminated \/ UNCHANGED vars
    BY <2>2, Unseen DEF Terminated, vars, flagVars
  <2>. QED
    BY <2>1, <2>2, ApiRefines, WorkerRefines DEF Next
<1>3. IInv /\ GestureOnPlan => IInv
  OBVIOUS
<1>. QED
  BY <1>1, <1>2, <1>3, AlwaysSound, PTL
     DEF Spec, ImplementsLifecycle, Snapshot!Spec

----------------------------------------------------------------------------
(* What a step may never do.                                               *)

(* Nothing replaces EXITING: no state of a Lifecycle follows it.           *)
THEOREM ExitingAlwaysFinal == Spec => ExitingIsFinal
<1>1. [Snapshot!Next]_Snapshot!lifecycleVars
        => [state = "EXITING" => state' = "EXITING"]_vars
  BY DEF Snapshot!lifecycleVars, Snapshot!Next, Snapshot!Prepare,
         Snapshot!Start, Snapshot!Stop, Snapshot!RequestShutdown,
         Snapshot!ChangeOwnership, Snapshot!Resolve, Snapshot!BeginGesture,
         Snapshot!EndGesture, Snapshot!Complete, Snapshot!Transitional
<1>. QED
  BY <1>1, SnapshotIsLifecycle, PTL
     DEF ImplementsLifecycle, Snapshot!Spec, ExitingIsFinal

(* Only a cleanup that succeeded ends ownership.                           *)
THEOREM OwnershipAlwaysOutlivesResidue == Spec => OwnershipOutlivesResidue
<1>1. ASSUME IInv, [Next]_vars
      PROVE  [setupOwned /\ ~setupOwned' => gadget = "none"]_vars
  <2>1. CASE CleanupDone
    BY <1>1, <2>1
       DEF CleanupDone, IInv, Consistent, OwnershipFollowsWorker
  <2>2. CASE SetupDone
    BY <1>1, <2>2 DEF SetupDone
  <2>3. ASSUME UNCHANGED setupOwned
        PROVE  [setupOwned /\ ~setupOwned' => gadget = "none"]_vars
    BY <2>3
  <2>4. CASE Waiter \/ Helper \/ Environment \/ Api
    BY <2>3, <2>4
       DEF Waiter, WaiterWakes, WaiterTimesOut, Helper, SetupRefuses,
           SetupBuilds, SetupBinds, SetupCommits, SetupFails, Remove,
           HelperFails, HelperSucceeds, TermArrives, UnchangedByHelper,
           Environment, HelperDeadline, Tick, SpuriousWakeup, Api, Prepare,
           Start, Stop, RequestShutdown, Join, SetSettings, WaitForState
  <2>5. CASE CleanupOwned \/ TakeRequests \/ ForkHelper \/ ReapHelper
             \/ GiveUpHelper \/ ReapTerminated \/ KillHelper \/ OpenHid
             \/ WaitForDeadline \/ EmitReport \/ EmitReturns \/ IdleWait
             \/ WorkerWakes \/ PrepareAfterCleanup \/ Publish \/ FinishWorker
             \/ RecordShutdownResult \/ BeginCycle \/ FinishCycle
    BY <2>3, <2>5
       DEF CleanupOwned, TakeRequests, ForkHelper, ReapHelper, GiveUpHelper,
           ReapTerminated, KillHelper, OpenHid, WaitForDeadline, EmitReport,
           EmitReturns, IdleWait, WorkerWakes, PrepareAfterCleanup, Publish,
           FinishWorker, RecordShutdownResult, BeginCycle, FinishCycle
  <2>6. CASE Terminated \/ UNCHANGED vars
    BY <2>3, <2>6 DEF Terminated, vars
  <2>. QED
    BY <1>1, <2>1, <2>2, <2>4, <2>5, <2>6 DEF Next, Worker
<1>. QED
  BY <1>1, AlwaysSound, PTL DEF Spec, OwnershipOutlivesResidue

(* Only the time limit of run_helper makes the worker signal a cleanup.    *)
THEOREM CleanupNeverInterrupted == Spec => CleanupNotInterrupted
<1>1. ASSUME IInv, [Next]_vars
      PROVE  [~signalled /\ signalled' /\ child = "cleanup" => expired]_vars
  <2>1. CASE GiveUpHelper
    BY <1>1, <2>1
       DEF GiveUpHelper, Cancelled, IInv, Consistent, ChildBelongs
  <2>2. ASSUME signalled' => signalled
        PROVE  [~signalled /\ signalled' /\ child = "cleanup" => expired]_vars
    BY <2>2
  <2>3. CASE Waiter \/ Helper \/ Environment \/ Api
    BY <2>2, <2>3
       DEF Waiter, WaiterWakes, WaiterTimesOut, Helper, SetupRefuses,
           SetupBuilds, SetupBinds, SetupCommits, SetupFails, Remove,
           HelperFails, HelperSucceeds, TermArrives, UnchangedByHelper,
           Environment, HelperDeadline, Tick, SpuriousWakeup, Api, Prepare,
           Start, Stop, RequestShutdown, Join, SetSettings, WaitForState,
           helperVars
  <2>4. CASE CleanupOwned \/ TakeRequests \/ ForkHelper \/ ReapHelper
             \/ ReapTerminated \/ KillHelper \/ OpenHid \/ CleanupDone
             \/ WaitForDeadline \/ EmitReport \/ EmitReturns \/ IdleWait
             \/ WorkerWakes \/ PrepareAfterCleanup \/ Publish \/ FinishWorker
             \/ RecordShutdownResult \/ BeginCycle \/ FinishCycle \/ SetupDone
    BY <2>2, <2>4
       DEF CleanupOwned, TakeRequests, ForkHelper, ReapHelper, ReapTerminated,
           KillHelper, OpenHid, CleanupDone, WaitForDeadline, EmitReport,
           EmitReturns, IdleWait, WorkerWakes, PrepareAfterCleanup, Publish,
           FinishWorker, RecordShutdownResult, BeginCycle, FinishCycle,
           SetupDone, helperVars
  <2>5. CASE Terminated \/ UNCHANGED vars
    BY <2>2, <2>5 DEF Terminated, vars, helperVars
  <2>. QED
    BY <1>1, <2>1, <2>3, <2>4, <2>5 DEF Next, Worker
<1>. QED
  BY <1>1, AlwaysSound, PTL DEF Spec, CleanupNotInterrupted

(* Whatever is called meanwhile, a gesture ends with the pointer where it  *)
(* found it, or with a lost device.                                        *)
THEOREM GestureAlwaysReturns == Spec => GestureReturns
<1>. DEFINE Returned ==
       cycleInProgress /\ ~cycleInProgress' =>
         \/ cursor = Origin
         \/ wpc = "cycle_failed" /\ state' \in {"DISCONNECTED", "EXITING"}
<1>1. ASSUME IInv, GestureOnPlan, [Next]_vars
      PROVE  [Returned]_vars
  <2>1. CASE FinishCycle
    <3>1. CASE wpc = "cycle_done"
      <4>1. Play!Played /\ Play!Complete
        BY <1>1, <3>1, PlayIsEmit DEF GestureOnPlan
      <4>2. cursor = Play!Origin
        BY <4>1, PlayAssumptions, Play!PlayedReturns DEF Play!ReturnsHome
      <4>. QED
        BY <4>2 DEF Play!Origin, Origin
    <3>2. CASE wpc = "cycle_failed"
      BY <1>1, <2>1, <3>2
         DEF FinishCycle, SetError, IInv, Consistent, RequestsAgree
    <3>. QED
      BY <2>1, <3>1, <3>2 DEF FinishCycle
  <2>2. ASSUME cycleInProgress => cycleInProgress'
        PROVE  [Returned]_vars
    BY <2>2
  <2>3. CASE Waiter \/ Helper \/ Environment \/ Api
    BY <2>2, <2>3
       DEF Waiter, WaiterWakes, WaiterTimesOut, Helper, SetupRefuses,
           SetupBuilds, SetupBinds, SetupCommits, SetupFails, Remove,
           HelperFails, HelperSucceeds, TermArrives, UnchangedByHelper,
           Environment, HelperDeadline, Tick, SpuriousWakeup, Api, Prepare,
           Start, Stop, RequestShutdown, Join, SetSettings, WaitForState,
           flagVars
  <2>4. CASE CleanupOwned \/ TakeRequests \/ ForkHelper \/ ReapHelper
             \/ GiveUpHelper \/ ReapTerminated \/ KillHelper \/ OpenHid
             \/ CleanupDone \/ WaitForDeadline \/ EmitReport \/ EmitReturns
             \/ IdleWait \/ WorkerWakes \/ PrepareAfterCleanup \/ Publish
             \/ FinishWorker \/ RecordShutdownResult \/ BeginCycle
             \/ SetupDone
    BY <2>2, <2>4
       DEF CleanupOwned, TakeRequests, ForkHelper, ReapHelper, GiveUpHelper,
           ReapTerminated, KillHelper, OpenHid, CleanupDone, WaitForDeadline,
           EmitReport, EmitReturns, IdleWait, WorkerWakes,
           PrepareAfterCleanup, Publish, FinishWorker, RecordShutdownResult,
           BeginCycle, SetupDone, flagVars
  <2>5. CASE Terminated \/ UNCHANGED vars
    BY <2>2, <2>5 DEF Terminated, vars, flagVars
  <2>. QED
    BY <1>1, <2>1, <2>3, <2>4, <2>5 DEF Next, Worker
<1>. QED
  BY <1>1, AlwaysSound, PTL DEF Spec, GestureReturns
----------------------------------------------------------------------------
(* Progress.                                                               *)

(* The reports a gesture has left, seen by the worker.                     *)
LEMMA ReportsLeftTyped ==
    ASSUME GestureOnPlan
    PROVE  Emit!ReportsLeft \in 0..Emit!MaxReports /\ Emit!MaxReports \in Nat
<1>1. Play!ReportsLeft \in 0..Play!MaxReports /\ Play!MaxReports \in Nat
  BY PlayAssumptions, Play!ReportsBounded DEF GestureOnPlan
<1>. QED
  BY <1>1
     DEF Play!ReportsLeft, Play!MaxReports, Play!Complete, Emit!ReportsLeft,
         Emit!MaxReports, Emit!Complete

(* ... and each that is sent is one less.                                  *)
LEMMA ReportsLeftFalls ==
    ASSUME GestureOnPlan, EmitReport
    PROVE  Emit!ReportsLeft' = Emit!ReportsLeft - 1
<1>1. Play!Played /\ Play!EmitReport
  BY PlayIsEmit DEF GestureOnPlan, EmitReport
<1>2. Play!ReportsLeft' = Play!ReportsLeft - 1
  BY <1>1, PlayAssumptions, Play!ReportCounts
<1>. QED
  BY <1>2
     DEF Play!ReportsLeft, Play!Complete, Emit!ReportsLeft, Emit!Complete

(* No iteration has more steps than these.                                 *)
StepsBound == Emit!MaxReports + 12

(* What the measures are made of: numbers within their bounds.             *)
Measured ==
    /\ Emit!MaxReports \in Nat
    /\ Emit!ReportsLeft \in 0..Emit!MaxReports
    /\ StepsLeft \in 0..StepsBound

LEMMA StepsMeasured ==
    ASSUME IInv, GestureOnPlan
    PROVE  Measured
<1>1. Emit!ReportsLeft \in 0..Emit!MaxReports /\ Emit!MaxReports \in Nat
  BY ReportsLeftTyped
<1>2. wpc \in WorkerPCs
  BY DEF IInv, TypeOK, WorkerTypeOK
<1>3. CASE wpc = "emit"
  <2>1. StepsLeft = Emit!ReportsLeft + 2
    BY <1>3 DEF StepsLeft
  <2>. QED
    BY <1>1, <2>1 DEF Measured, StepsBound
<1>4. CASE wpc = "deadline"
  <2>1. StepsLeft = Emit!MaxReports + 3
    BY <1>4 DEF StepsLeft
  <2>. QED
    BY <1>1, <2>1 DEF Measured, StepsBound
<1>5. CASE wpc \in {"terminating", "helper", "fork"}
  <2>1. wpc = "terminating" => StepsLeft = 9 \/ StepsLeft = 4
    BY DEF StepsLeft, HelperStepsLeft
  <2>2. wpc = "helper" => StepsLeft = 10 \/ StepsLeft = 5
    BY DEF StepsLeft, HelperStepsLeft
  <2>3. wpc = "fork" => StepsLeft = 11 \/ StepsLeft = 6
    BY DEF StepsLeft, HelperStepsLeft
  <2>. QED
    BY <1>1, <1>5, <2>1, <2>2, <2>3 DEF Measured, StepsBound
<1>6. CASE wpc \notin {"emit", "deadline", "terminating", "helper", "fork"}
  <2>1. StepsLeft \in 0..12
    BY <1>2, <1>6 DEF StepsLeft, WorkerPCs
  <2>. QED
    BY <1>1, <2>1 DEF Measured, StepsBound
<1>. QED
  BY <1>3, <1>4, <1>5, <1>6

LEMMA AlwaysMeasured == Spec => []Measured
<1>1. IInv /\ GestureOnPlan => Measured
  BY StepsMeasured
<1>. QED
  BY <1>1, AlwaysSound, PTL

(* A step of the worker inside an iteration.                               *)
LEMMA WorkerAdvances ==
    ASSUME GestureOnPlan, Measured, Measured', Worker, wpc # "top"
    PROVE  StepsLeft' < StepsLeft
<1>1. /\ Emit!ReportsLeft \in Nat /\ Emit!MaxReports \in Nat
      /\ Emit!ReportsLeft' \in Nat /\ Emit!ReportsLeft' <= Emit!MaxReports
  <2>1. Emit!MaxReports' = Emit!MaxReports
    BY DEF Emit!MaxReports
  <2>. QED
    BY <2>1 DEF Measured
<1>. USE <1>1 DEF StepsLeft, HelperStepsLeft, Goto
<1>2. CASE CleanupOwned
  BY <1>2 DEF CleanupOwned
<1>3. CASE ForkHelper
  BY <1>3 DEF ForkHelper, HelperReturns
<1>4. CASE ReapHelper
  BY <1>4 DEF ReapHelper, HelperReturns
<1>5. CASE GiveUpHelper
  BY <1>5 DEF GiveUpHelper
<1>6. CASE ReapTerminated
  BY <1>6 DEF ReapTerminated, HelperReturns
<1>7. CASE KillHelper
  BY <1>7 DEF KillHelper, HelperReturns
<1>8. CASE CleanupDone
  BY <1>8 DEF CleanupDone
<1>9. CASE PrepareAfterCleanup
  BY <1>9 DEF PrepareAfterCleanup
<1>10. CASE SetupDone
  BY <1>10 DEF SetupDone
<1>11. CASE OpenHid
  BY <1>11 DEF OpenHid
<1>12. CASE Publish
  BY <1>12 DEF Publish
<1>13. CASE RecordShutdownResult
  BY <1>13 DEF RecordShutdownResult
<1>14. CASE FinishWorker
  BY <1>14 DEF FinishWorker
<1>15. CASE WaitForDeadline
  BY <1>15 DEF WaitForDeadline
<1>16. CASE BeginCycle
  BY <1>16 DEF BeginCycle
<1>17. CASE EmitReport
  <2>1. Emit!ReportsLeft' = Emit!ReportsLeft - 1
    BY <1>17, ReportsLeftFalls
  <2>. QED
    BY <1>17, <2>1 DEF EmitReport
<1>18. CASE EmitReturns
  BY <1>18 DEF EmitReturns
<1>19. CASE FinishCycle
  BY <1>19 DEF FinishCycle
<1>20. CASE IdleWait
  BY <1>20 DEF IdleWait
<1>21. CASE WorkerWakes
  BY <1>21 DEF WorkerWakes
<1>. QED
  BY <1>2, <1>3, <1>4, <1>5, <1>6, <1>7, <1>8, <1>9, <1>10, <1>11, <1>12,
     <1>13, <1>14, <1>15, <1>16, <1>17, <1>18, <1>19, <1>20, <1>21
     DEF Worker, TakeRequests

(* Nobody else touches what the measure is made of.                        *)
LEMMA OthersAddNothing ==
    ASSUME Waiter \/ Api \/ Helper \/ Environment \/ Terminated \/ UNCHANGED vars
    PROVE  UNCHANGED <<wpc, wGoal, StepsLeft, ExitStepsLeft>>
<1>1. UNCHANGED <<wpc, wGoal, script, gestureVars>>
  BY DEF Waiter, WaiterWakes, WaiterTimesOut, Api, Prepare, Start, Stop,
         RequestShutdown, Join, SetSettings, WaitForState, Helper,
         SetupRefuses, SetupBuilds, SetupBinds, SetupCommits, SetupFails,
         Remove, HelperFails, HelperSucceeds, TermArrives,
         UnchangedByHelper, Environment, HelperDeadline, Tick,
         SpuriousWakeup, Terminated, vars, localVars, helperVars
<1>2. UNCHANGED Emit!ReportsLeft
  BY <1>1 DEF gestureVars, Emit!ReportsLeft, Emit!Complete
<1>3. UNCHANGED StepsLeft
  BY <1>1, <1>2 DEF StepsLeft, HelperStepsLeft, Emit!MaxReports
<1>. QED
  BY <1>1, <1>3 DEF ExitStepsLeft, LeavingForGood

(* Every step of an iteration uses up some of the at most StepsBound steps *)
(* it has, so requests wait for no more than that.                         *)
THEOREM IterationAlwaysAdvances ==
    Spec => IterationAdvances /\ [](StepsLeft \in 0..StepsBound)
<1>1. Measured => StepsLeft \in 0..StepsBound
  BY DEF Measured
<1>2. ASSUME GestureOnPlan, Measured, Measured', [Next]_vars
      PROVE  [/\ Worker /\ wpc # "top" => StepsLeft' < StepsLeft
              /\ StepsLeft' > StepsLeft => wpc = "top"]_vars
  <2>1. StepsLeft \in Int /\ StepsLeft' \in Int
    BY <1>2 DEF Measured
  <2>2. CASE Worker /\ wpc # "top"
    BY <1>2, <2>1, <2>2, WorkerAdvances
  <2>3. CASE ~Worker
    <3>1. UNCHANGED StepsLeft
      BY <1>2, <2>3, OthersAddNothing DEF Next
    <3>. QED
      BY <2>1, <2>3, <3>1
  <2>. QED
    BY <2>2, <2>3
<1>3. IInv /\ GestureOnPlan => GestureOnPlan
  OBVIOUS
<1>. QED
  BY <1>1, <1>2, <1>3, AlwaysSound, AlwaysMeasured, PTL
     DEF Spec, IterationAdvances

(* A shutdown is complete after at most ExitBound steps of the worker.     *)
ExitBound == StepsBound + 13

(* The measure of the exit is a number when that of the iteration is.      *)
LEMMA ExitStepsTyped ==
    ASSUME StepsLeft \in Int
    PROVE  ExitStepsLeft \in Int
<1>1. CASE LeavingForGood
  BY <1>1 DEF ExitStepsLeft
<1>2. CASE ~LeavingForGood
  BY <1>2 DEF ExitStepsLeft
<1>. QED
  BY <1>1, <1>2

(* ... and falls with it, unless the worker leaves the shutdown branch.    *)
LEMMA ExitStepsFall ==
    ASSUME StepsLeft \in Int, StepsLeft' \in Int, StepsLeft' < StepsLeft,
           LeavingForGood => LeavingForGood'
    PROVE  ExitStepsLeft' < ExitStepsLeft /\ ExitStepsLeft' <= ExitStepsLeft
<1>1. ExitStepsLeft = StepsLeft \/ ExitStepsLeft = StepsLeft + 13
  BY DEF ExitStepsLeft
<1>2. ExitStepsLeft' = StepsLeft' \/ ExitStepsLeft' = StepsLeft' + 13
  BY DEF ExitStepsLeft
<1>3. LeavingForGood' \/ ~LeavingForGood
  OBVIOUS
<1>4. LeavingForGood' => ExitStepsLeft' = StepsLeft'
  BY DEF ExitStepsLeft
<1>5. ~LeavingForGood => ExitStepsLeft = StepsLeft + 13
  BY DEF ExitStepsLeft
<1>. QED
  BY <1>1, <1>2, <1>3, <1>4, <1>5

THEOREM ShutdownAlwaysAdvances ==
    Spec => ShutdownAdvances /\ [](ExitStepsLeft \in 0..ExitBound)
<1>1. Measured => ExitStepsLeft \in 0..ExitBound
  <2>. SUFFICES ASSUME Measured PROVE ExitStepsLeft \in 0..ExitBound
    OBVIOUS
  <2>1. StepsLeft \in 0..StepsBound /\ StepsBound \in Nat
    BY DEF Measured, StepsBound
  <2>2. ExitStepsLeft = StepsLeft \/ ExitStepsLeft = StepsLeft + 13
    BY DEF ExitStepsLeft
  <2>. QED
    BY <2>1, <2>2 DEF ExitBound
<1>2. ASSUME IInv, GestureOnPlan, Measured, Measured', [Next]_vars
      PROVE  [shutdownRequested =>
                /\ ExitStepsLeft' <= ExitStepsLeft
                /\ Worker => ExitStepsLeft' < ExitStepsLeft]_vars
  <2>. SUFFICES ASSUME shutdownRequested
                PROVE  /\ ExitStepsLeft' <= ExitStepsLeft
                       /\ Worker => ExitStepsLeft' < ExitStepsLeft
    OBVIOUS
  <2>1. StepsLeft \in Int /\ StepsLeft' \in Int
    BY <1>2 DEF Measured
  <2>2. CASE TakeRequests
    <3>1. /\ wpc = "top" /\ wpc' = "cleanup" /\ wGoal' = "exit"
      BY <2>2 DEF TakeRequests, Goto
    <3>. QED
      BY <3>1 DEF ExitStepsLeft, LeavingForGood, StepsLeft
  <2>3. CASE Worker /\ ~TakeRequests
    <3>1. wpc # "top" /\ wGoal' = wGoal
      BY <2>3
         DEF Worker, CleanupOwned, ForkHelper, ReapHelper, GiveUpHelper,
             ReapTerminated, KillHelper, CleanupDone, PrepareAfterCleanup,
             SetupDone, OpenHid, Publish, RecordShutdownResult, FinishWorker,
             WaitForDeadline, BeginCycle, EmitReport, EmitReturns, FinishCycle,
             IdleWait, WorkerWakes, localVars
    <3>2. StepsLeft' < StepsLeft
      BY <1>2, <2>3, <3>1, WorkerAdvances
    <3>3. LeavingForGood => LeavingForGood'
      <4>1. wpc # "exited" /\ (wpc = "finish" => wpc' = "exited")
        BY <2>3
           DEF Worker, CleanupOwned, ForkHelper, ReapHelper, GiveUpHelper,
               ReapTerminated, KillHelper, CleanupDone, PrepareAfterCleanup,
               SetupDone, OpenHid, Publish, RecordShutdownResult,
               FinishWorker, WaitForDeadline, BeginCycle, EmitReport,
               EmitReturns, FinishCycle, IdleWait, WorkerWakes, Goto
      <4>2. ASSUME wGoal = "exit", wpc \in {"cleanup", "fork", "helper",
                   "terminating", "cleanup_done", "cleaned"}
            PROVE  wpc' \in {"fork", "helper", "terminating", "cleanup_done",
                             "cleaned", "finish"}
        <5>1. wpc \in {"fork", "helper", "terminating"} => script = "cleanup"
          BY <1>2, <4>2
             DEF IInv, Consistent, RequestsAgree, TypeOK, HelperTypeOK, Scripts
        <5>. QED
          BY <2>3, <4>2, <5>1
             DEF Worker, CleanupOwned, ForkHelper, ReapHelper, GiveUpHelper,
                 ReapTerminated, KillHelper, CleanupDone, PrepareAfterCleanup,
                 SetupDone, OpenHid, Publish, RecordShutdownResult,
                 FinishWorker, WaitForDeadline, BeginCycle, EmitReport,
                 EmitReturns, FinishCycle, IdleWait, WorkerWakes, Goto,
                 HelperReturns
      <4>. QED
        BY <3>1, <4>1, <4>2 DEF LeavingForGood
    <3>. QED
      BY <2>1, <3>2, <3>3, ExitStepsFall
  <2>4. CASE ~Worker
    <3>1. UNCHANGED ExitStepsLeft
      BY <1>2, <2>4, OthersAddNothing DEF Next
    <3>. QED
      BY <2>1, <2>4, <3>1, ExitStepsTyped
  <2>. QED
    BY <2>2, <2>3, <2>4 DEF Worker
<1>. QED
  BY <1>1, <1>2, AlwaysSound, AlwaysMeasured, PTL DEF Spec, ShutdownAdvances

(* Requests wait for a bounded number of the worker's steps, and so does   *)
(* the end of a shutdown.                                                  *)
THEOREM WorkerAlwaysProgresses == Spec => WorkerProgresses
BY IterationAlwaysAdvances, ShutdownAlwaysAdvances DEF WorkerProgresses
=============================================================================
