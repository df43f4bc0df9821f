--------------------------- MODULE LauncherProofs ----------------------------
(***************************************************************************)
(* The launcher's promises, for all times the code may be given as long as *)
(* its budget covers a prompt gesture, a cleanup and a screen.             *)
(***************************************************************************)
EXTENDS Launcher, TLAPS

(* Which process the launcher knows of, and when it is done with one.      *)
OrderInv ==
    /\ pidOf["app"] = "set" => app # "none"
    /\ pidOf["gptk"] = "set" => gptk # "none"
    /\ pidOf["app"] = "cleared" => app = "ended"
    /\ pidOf["gptk"] = "cleared" => gptk = "ended"
    /\ lpc \in {"prepare", "record_gptk", "start_app"} => app = "none"
    /\ lpc = "prepare" => gptk = "none"
    /\ lpc = "record_gptk" => gptk # "none"
    /\ lpc = "record_app" => app # "none"
    /\ lpc = "poll_app" => pidOf["app"] = "set"
    /\ lpc = "poll_gptk" => pidOf["gptk"] = "set"
    /\ lpc \in {"stop_gptk", "poll_gptk", "pm_finish", "exited"} => pidOf["app"] # "set"
    /\ lpc \in {"pm_finish", "exited"} => pidOf["gptk"] # "set"
    /\ finish # "not_called" => lpc = "exited"

(* What the program's worker can be busy with, and for how long.           *)
WorkInv ==
    /\ app \in {"none", "loading", "starting"} =>
          work = "none" /\ ~owned /\ ~cancelled /\ ~Asked
    /\ app = "up" =>
          /\ work = "gesture" => left <= GestureTime
          /\ work \in {"setup", "retry_cleanup", "exit_cleanup"} => left <= HelperLimit
          /\ work = "setup" => ~owned
          /\ cancelled => work = "setup" /\ left <= Grace /\ Asked
          /\ work = "exit_cleanup" => Asked
          /\ Asked /\ met \notin Delays => work \notin Delays
    /\ app = "screen" => Asked /\ work = "none" /\ left <= ErrorShown

(* What the exit codes of the program and of the launcher tell.            *)
CodeInv ==
    /\ app = "ended" /\ appCode = 0 => ~owned /\ work = "none"
    /\ lpc \in Finishing \union {"exit_trap", "exited"} /\ status = 0 /\ pending = 0 =>
          app = "ended" /\ appCode = 0
    /\ lpc \in Finishing \union {"exited"} => pending = 0
    /\ lpc = "exited" => finish # "not_called"
    /\ lpc = "exited" /\ status = 0 => finish = "ok"

(* How long a program whose shutdown was requested still takes, at most.   *)
Rest ==
    IF app = "screen" THEN left
    ELSE IF work = "gesture" THEN left + HelperLimit + ErrorShown
    ELSE IF work = "exit_cleanup" THEN left + ErrorShown
    ELSE IF work = "setup" /\ cancelled THEN left
    ELSE IF work = "none" /\ app = "up" /\ ~owned THEN 0
    ELSE HelperLimit + ErrorShown

TimeInv ==
    /\ lpc = "poll_app" /\ Alive("app") =>
          /\ stop /\ app # "loading"
          /\ ~Asked => attempts = 0
          /\ Asked /\ met \notin Delays =>
                attempts + Rest <= GestureTime + HelperLimit + ErrorShown
    /\ killed => app = "ended"
    /\ KilledOnlyWhenDelayed

LauncherInv == TypeOK /\ OrderInv /\ WorkInv /\ CodeInv /\ TimeInv

(* What the end of a gesture or of a script changes.                       *)
OverEffect ==
    /\ app = "up" /\ ~cancelled'
    /\ cancelled' \in BOOLEAN /\ owned' \in BOOLEAN /\ app' \in {"up", "screen"} /\ left' \in Nat
    /\ work' \in {"none", "setup"}
    /\ work \in {"gesture", "slow_gesture"} => app' = app /\ work' = "none" /\ owned' = owned
    /\ work = "setup" =>
         app' = app /\ work' = "none" /\ (cancelled => ~owned')
    /\ work = "retry_cleanup" => app' = app
    /\ work = "exit_cleanup" => app' = "screen"
    /\ work' = "setup" =>
         work = "retry_cleanup" /\ ~owned' /\ left' = HelperLimit /\ ~Asked
    /\ app' = "screen" =>
         work = "exit_cleanup" /\ work' = "none" /\ left' <= ErrorShown
    /\ UNCHANGED <<appCode, stop, met, launcherVars, gptk, killed>>

LEMMA OverHasEffect ==
    ASSUME TypeOK, NEW ok \in BOOLEAN, work # "none", Over(ok)
    PROVE  OverEffect
PROOF
<1> USE DEF Over, Run, UnchangedByProgram, TypeOK, Works, OverEffect
<1>1. app = "up" /\ cancelled' = FALSE /\ ~cancelled' /\ cancelled' \in BOOLEAN
      /\ UNCHANGED <<appCode, stop, met, launcherVars, gptk, killed>>
  BY DEF launcherVars
<1>2. CASE work \in {"gesture", "slow_gesture"}
  <2>1. work' = "none" /\ left' = 0 /\ UNCHANGED <<app, owned>>
    BY <1>2
  <2>2. owned' \in BOOLEAN
    BY <2>1, Zenon
  <2>. QED
    BY <1>1, <1>2, <2>1, <2>2
<1>3. CASE work = "setup"
  <2>1. owned' = (ok /\ ~cancelled)
    BY <1>3
  <2>2. owned' \in BOOLEAN /\ (cancelled => ~owned')
    BY <2>1, Zenon
  <2>. QED
    BY <1>1, <1>3, <2>2
<1>4. CASE work = "retry_cleanup"
  <2>1. owned' = ~ok
    BY <1>4
  <2>2. owned' \in BOOLEAN /\ (ok => ~owned')
    BY <2>1, Zenon
  <2>. QED
    BY <1>1, <1>4, <2>2, LauncherAssumption
<1>5. CASE work = "exit_cleanup"
  <2>1. owned' = ~ok
    BY <1>5
  <2>2. owned' \in BOOLEAN
    BY <2>1, Zenon
  <2>. QED
    BY <1>1, <1>5, <2>2, LauncherAssumption
<1>. QED
  BY <1>2, <1>3, <1>4, <1>5

LEMMA WorkOver ==
    ASSUME TypeOK, WorkEnds \/ WorkTimesOut
    PROVE  OverEffect
PROOF
<1>1. CASE WorkEnds
  <2>1. PICK ok \in BOOLEAN : Over(ok)
    BY <1>1 DEF WorkEnds
  <2>. QED
    BY <1>1, <2>1, OverHasEffect DEF WorkEnds
<1>2. CASE WorkTimesOut
  <2>1. work # "none" /\ Over(FALSE) /\ FALSE \in BOOLEAN
    BY <1>2, Zenon DEF WorkTimesOut
  <2>. QED
    BY <2>1, OverHasEffect, Zenon
<1>. QED
  BY <1>1, <1>2

(* Every step leaves every variable in its range.                          *)
LEMMA TypeStep ==
    ASSUME TypeOK, [Next]_vars
    PROVE  TypeOK'
PROOF
<1> USE LauncherAssumption, BudgetAssumption DEF launcherVars, appVars, runVars, Alive,
             TypeOK, Trapped, Finishing, Works
<1>1. CASE StartGptk
  BY <1>1 DEF StartGptk, UnchangedByStart, At, Goto
<1>2. CASE RecordGptk
  BY <1>2 DEF RecordGptk, UnchangedByStart, At, Goto
<1>3. CASE StartApp
  BY <1>3 DEF StartApp, UnchangedByStart, At, Goto
<1>4. CASE RecordApp
  BY <1>4 DEF RecordApp, UnchangedByStart, At, Goto
<1>5. CASE GiveUp
  BY <1>5 DEF GiveUp, UnchangedByShell, At, Goto
<1>6. CASE WaitReturns
  BY <1>6 DEF WaitReturns, UnchangedByShell, At, Goto
<1>7. CASE Trap
  BY <1>7 DEF Trap, UnchangedByShell, At, Goto
<1>8. CASE ResetTraps
  BY <1>8 DEF ResetTraps, UnchangedByShell, At, Goto
<1>9. CASE StopProcess("app", "stop_app", "poll_app", "stop_gptk")
  <2>1. stop' \in BOOLEAN
    BY <1>9, Zenon DEF StopProcess, At, Goto
  <2>. QED
    BY <1>9, <2>1 DEF StopProcess, At, Goto
<1>10. CASE PollProcess("app", "poll_app", "stop_gptk")
  <2>1. killed' \in BOOLEAN
    BY <1>10, Zenon DEF PollProcess, At, Goto, Patience
  <2>. QED
    BY <1>10, <2>1 DEF PollProcess, At, Goto, Patience
<1>11. CASE StopProcess("gptk", "stop_gptk", "poll_gptk", "pm_finish")
  BY <1>11 DEF StopProcess, At, Goto
<1>12. CASE PollProcess("gptk", "poll_gptk", "pm_finish")
  BY <1>12 DEF PollProcess, At, Goto, Patience
<1>13. CASE PmFinish
  BY <1>13 DEF PmFinish, At, Goto
<1>14. CASE Install
  BY <1>14 DEF Install, UnchangedByProgram
<1>15. CASE ComeUp \/ Request
  BY <1>15 DEF ComeUp, Request, Run, UnchangedByProgram
<1>16. CASE Cancel
  BY <1>16 DEF Cancel, UnchangedByProgram
<1>17. CASE TakeShutdown
  BY <1>17 DEF TakeShutdown, Run, UnchangedByProgram
<1>18. CASE Close
  BY <1>18 DEF Close, UnchangedByProgram
<1>19. CASE Signal
  BY <1>19 DEF Signal, UnchangedByShell
<1>20. CASE WorkEnds \/ WorkTimesOut
  BY <1>20, WorkOver DEF OverEffect
<1>21. CASE BeginGesture \/ Use
  BY <1>21 DEF BeginGesture, Use, Run, UnchangedByProgram
<1>22. CASE Others
  BY <1>22 DEF Others, Run, UnchangedByProgram
<1>23. CASE Tick
  BY <1>23 DEF Tick, ProgramWaits, Polling, Patience
<1>24. CASE UNCHANGED vars
  BY <1>24 DEF vars
<1>. QED
  BY <1>1, <1>2, <1>3, <1>4, <1>5, <1>6, <1>7, <1>8, <1>9, <1>10, <1>11,
     <1>12, <1>13, <1>14, <1>15, <1>16, <1>17, <1>18, <1>19, <1>20, <1>21,
     <1>22, <1>23, <1>24
  DEF Next, Shell, Program

(* The launcher ends one process after the other.                          *)
LEMMA OrderStep ==
    ASSUME TypeOK, OrderInv, [Next]_vars
    PROVE  OrderInv'
PROOF
<1> USE LauncherAssumption, BudgetAssumption DEF launcherVars, appVars, runVars, Alive,
             TypeOK, Trapped, Finishing, Works, OrderInv
<1>1. CASE StartGptk
  BY <1>1 DEF StartGptk, UnchangedByStart, At, Goto
<1>2. CASE RecordGptk
  BY <1>2 DEF RecordGptk, UnchangedByStart, At, Goto
<1>3. CASE StartApp
  BY <1>3 DEF StartApp, UnchangedByStart, At, Goto
<1>4. CASE RecordApp
  BY <1>4 DEF RecordApp, UnchangedByStart, At, Goto
<1>5. CASE GiveUp
  BY <1>5 DEF GiveUp, UnchangedByShell, At, Goto
<1>6. CASE WaitReturns
  BY <1>6 DEF WaitReturns, UnchangedByShell, At, Goto
<1>7. CASE Trap
  BY <1>7 DEF Trap, UnchangedByShell, At, Goto
<1>8. CASE ResetTraps
  BY <1>8 DEF ResetTraps, UnchangedByShell, At, Goto
<1>9. CASE StopProcess("app", "stop_app", "poll_app", "stop_gptk")
  BY <1>9 DEF StopProcess, At, Goto
<1>10. CASE PollProcess("app", "poll_app", "stop_gptk")
  BY <1>10 DEF PollProcess, At, Goto, Patience
<1>11. CASE StopProcess("gptk", "stop_gptk", "poll_gptk", "pm_finish")
  BY <1>11 DEF StopProcess, At, Goto
<1>12. CASE PollProcess("gptk", "poll_gptk", "pm_finish")
  BY <1>12 DEF PollProcess, At, Goto, Patience
<1>13. CASE PmFinish
  BY <1>13 DEF PmFinish, At, Goto
<1>14. CASE Install
  BY <1>14 DEF Install, UnchangedByProgram
<1>15. CASE ComeUp \/ Request
  BY <1>15 DEF ComeUp, Request, Run, UnchangedByProgram
<1>16. CASE Cancel
  BY <1>16 DEF Cancel, UnchangedByProgram
<1>17. CASE TakeShutdown
  BY <1>17 DEF TakeShutdown, Run, UnchangedByProgram
<1>18. CASE Close
  BY <1>18 DEF Close, UnchangedByProgram
<1>19. CASE Signal
  BY <1>19 DEF Signal, UnchangedByShell
<1>20. CASE WorkEnds \/ WorkTimesOut
  BY <1>20, WorkOver DEF OverEffect
<1>21. CASE BeginGesture \/ Use
  BY <1>21 DEF BeginGesture, Use, Run, UnchangedByProgram
<1>22. CASE Others
  BY <1>22 DEF Others, Run, UnchangedByProgram
<1>23. CASE Tick
  BY <1>23 DEF Tick, ProgramWaits, Polling, Patience
<1>24. CASE UNCHANGED vars
  BY <1>24 DEF vars
<1>. QED
  BY <1>1, <1>2, <1>3, <1>4, <1>5, <1>6, <1>7, <1>8, <1>9, <1>10, <1>11,
     <1>12, <1>13, <1>14, <1>15, <1>16, <1>17, <1>18, <1>19, <1>20, <1>21,
     <1>22, <1>23, <1>24
  DEF Next, Shell, Program

(* The program's worker does one thing at a time.                          *)
LEMMA WorkStep ==
    ASSUME TypeOK, OrderInv, WorkInv, [Next]_vars
    PROVE  WorkInv'
PROOF
<1> USE LauncherAssumption, BudgetAssumption DEF launcherVars, appVars, runVars, Alive,
             TypeOK, Trapped, Finishing, Works, Delays, Asked, OrderInv, WorkInv
<1>1. CASE StartGptk
  BY <1>1 DEF StartGptk, UnchangedByStart, At, Goto
<1>2. CASE RecordGptk
  BY <1>2 DEF RecordGptk, UnchangedByStart, At, Goto
<1>3. CASE StartApp
  BY <1>3 DEF StartApp, UnchangedByStart, At, Goto
<1>4. CASE RecordApp
  BY <1>4 DEF RecordApp, UnchangedByStart, At, Goto
<1>5. CASE GiveUp
  BY <1>5 DEF GiveUp, UnchangedByShell, At, Goto
<1>6. CASE WaitReturns
  BY <1>6 DEF WaitReturns, UnchangedByShell, At, Goto
<1>7. CASE Trap
  BY <1>7 DEF Trap, UnchangedByShell, At, Goto
<1>8. CASE ResetTraps
  BY <1>8 DEF ResetTraps, UnchangedByShell, At, Goto
<1>9. CASE StopProcess("app", "stop_app", "poll_app", "stop_gptk")
  BY <1>9 DEF StopProcess, At, Goto
<1>10. CASE PollProcess("app", "poll_app", "stop_gptk")
  BY <1>10 DEF PollProcess, At, Goto, Patience
<1>11. CASE StopProcess("gptk", "stop_gptk", "poll_gptk", "pm_finish")
  BY <1>11 DEF StopProcess, At, Goto
<1>12. CASE PollProcess("gptk", "poll_gptk", "pm_finish")
  BY <1>12 DEF PollProcess, At, Goto, Patience
<1>13. CASE PmFinish
  BY <1>13 DEF PmFinish, At, Goto
<1>14. CASE Install
  BY <1>14 DEF Install, UnchangedByProgram
<1>15. CASE ComeUp \/ Request
  BY <1>15 DEF ComeUp, Request, Run, UnchangedByProgram
<1>16. CASE Cancel
  BY <1>16 DEF Cancel, UnchangedByProgram
<1>17. CASE TakeShutdown
  BY <1>17 DEF TakeShutdown, Run, UnchangedByProgram
<1>18. CASE Close
  BY <1>18 DEF Close, UnchangedByProgram
<1>19. CASE Signal
  BY <1>19 DEF Signal, UnchangedByShell
<1>20. CASE WorkEnds \/ WorkTimesOut
  BY <1>20, WorkOver DEF OverEffect
<1>21. CASE BeginGesture \/ Use
  BY <1>21 DEF BeginGesture, Use, Run, UnchangedByProgram
<1>22. CASE Others
  BY <1>22 DEF Others, Run, UnchangedByProgram
<1>23. CASE Tick
  BY <1>23 DEF Tick, ProgramWaits, Polling, Patience
<1>24. CASE UNCHANGED vars
  BY <1>24 DEF vars
<1>. QED
  BY <1>1, <1>2, <1>3, <1>4, <1>5, <1>6, <1>7, <1>8, <1>9, <1>10, <1>11,
     <1>12, <1>13, <1>14, <1>15, <1>16, <1>17, <1>18, <1>19, <1>20, <1>21,
     <1>22, <1>23, <1>24
  DEF Next, Shell, Program

(* The codes say what they should.                                         *)
LEMMA CodeStep ==
    ASSUME TypeOK, OrderInv, WorkInv, CodeInv, [Next]_vars
    PROVE  CodeInv'
PROOF
<1> USE LauncherAssumption, BudgetAssumption DEF launcherVars, appVars, runVars, Alive,
             TypeOK, Trapped, Finishing, Works, Delays, Asked, OrderInv, WorkInv, CodeInv
<1>1. CASE StartGptk
  BY <1>1 DEF StartGptk, UnchangedByStart, At, Goto
<1>2. CASE RecordGptk
  BY <1>2 DEF RecordGptk, UnchangedByStart, At, Goto
<1>3. CASE StartApp
  BY <1>3 DEF StartApp, UnchangedByStart, At, Goto
<1>4. CASE RecordApp
  BY <1>4 DEF RecordApp, UnchangedByStart, At, Goto
<1>5. CASE GiveUp
  BY <1>5 DEF GiveUp, UnchangedByShell, At, Goto
<1>6. CASE WaitReturns
  BY <1>6 DEF WaitReturns, UnchangedByShell, At, Goto
<1>7. CASE Trap
  BY <1>7 DEF Trap, UnchangedByShell, At, Goto
<1>8. CASE ResetTraps
  BY <1>8 DEF ResetTraps, UnchangedByShell, At, Goto
<1>9. CASE StopProcess("app", "stop_app", "poll_app", "stop_gptk")
  BY <1>9 DEF StopProcess, At, Goto
<1>10. CASE PollProcess("app", "poll_app", "stop_gptk")
  BY <1>10 DEF PollProcess, At, Goto, Patience
<1>11. CASE StopProcess("gptk", "stop_gptk", "poll_gptk", "pm_finish")
  BY <1>11 DEF StopProcess, At, Goto
<1>12. CASE PollProcess("gptk", "poll_gptk", "pm_finish")
  BY <1>12 DEF PollProcess, At, Goto, Patience
<1>13. CASE PmFinish
  BY <1>13 DEF PmFinish, At, Goto
<1>14. CASE Install
  BY <1>14 DEF Install, UnchangedByProgram
<1>15. CASE ComeUp \/ Request
  BY <1>15 DEF ComeUp, Request, Run, UnchangedByProgram
<1>16. CASE Cancel
  BY <1>16 DEF Cancel, UnchangedByProgram
<1>17. CASE TakeShutdown
  BY <1>17 DEF TakeShutdown, Run, UnchangedByProgram
<1>18. CASE Close
  BY <1>18 DEF Close, UnchangedByProgram
<1>19. CASE Signal
  BY <1>19 DEF Signal, UnchangedByShell
<1>20. CASE WorkEnds \/ WorkTimesOut
  BY <1>20, WorkOver DEF OverEffect
<1>21. CASE BeginGesture \/ Use
  BY <1>21 DEF BeginGesture, Use, Run, UnchangedByProgram
<1>22. CASE Others
  BY <1>22 DEF Others, Run, UnchangedByProgram
<1>23. CASE Tick
  BY <1>23 DEF Tick, ProgramWaits, Polling, Patience
<1>24. CASE UNCHANGED vars
  BY <1>24 DEF vars
<1>. QED
  BY <1>1, <1>2, <1>3, <1>4, <1>5, <1>6, <1>7, <1>8, <1>9, <1>10, <1>11,
     <1>12, <1>13, <1>14, <1>15, <1>16, <1>17, <1>18, <1>19, <1>20, <1>21,
     <1>22, <1>23, <1>24
  DEF Next, Shell, Program

(* A second of polling is a second less to wait for.                       *)
LEMMA TimeStep ==
    ASSUME TypeOK, OrderInv, WorkInv, TimeInv, [Next]_vars
    PROVE  TimeInv'
PROOF
<1> USE LauncherAssumption, BudgetAssumption DEF launcherVars, appVars, runVars, Alive,
             TypeOK, Trapped, Finishing, Works, Delays, Asked, OrderInv, WorkInv, TimeInv, Rest,
             KilledOnlyWhenDelayed
<1>1. CASE StartGptk
  BY <1>1 DEF StartGptk, UnchangedByStart, At, Goto
<1>2. CASE RecordGptk
  BY <1>2 DEF RecordGptk, UnchangedByStart, At, Goto
<1>3. CASE StartApp
  BY <1>3 DEF StartApp, UnchangedByStart, At, Goto
<1>4. CASE RecordApp
  BY <1>4 DEF RecordApp, UnchangedByStart, At, Goto
<1>5. CASE GiveUp
  BY <1>5 DEF GiveUp, UnchangedByShell, At, Goto
<1>6. CASE WaitReturns
  BY <1>6 DEF WaitReturns, UnchangedByShell, At, Goto
<1>7. CASE Trap
  BY <1>7 DEF Trap, UnchangedByShell, At, Goto
<1>8. CASE ResetTraps
  BY <1>8 DEF ResetTraps, UnchangedByShell, At, Goto
<1>9. CASE StopProcess("app", "stop_app", "poll_app", "stop_gptk")
  BY <1>9 DEF StopProcess, At, Goto
<1>10. CASE PollProcess("app", "poll_app", "stop_gptk")
  BY <1>10 DEF PollProcess, At, Goto, Patience
<1>11. CASE StopProcess("gptk", "stop_gptk", "poll_gptk", "pm_finish")
  BY <1>11 DEF StopProcess, At, Goto
<1>12. CASE PollProcess("gptk", "poll_gptk", "pm_finish")
  BY <1>12 DEF PollProcess, At, Goto, Patience
<1>13. CASE PmFinish
  BY <1>13 DEF PmFinish, At, Goto
<1>14. CASE Install
  BY <1>14 DEF Install, UnchangedByProgram
<1>15. CASE ComeUp \/ Request
  BY <1>15 DEF ComeUp, Request, Run, UnchangedByProgram
<1>16. CASE Cancel
  BY <1>16 DEF Cancel, UnchangedByProgram
<1>17. CASE TakeShutdown
  BY <1>17 DEF TakeShutdown, Run, UnchangedByProgram
<1>18. CASE Close
  BY <1>18 DEF Close, UnchangedByProgram
<1>19. CASE Signal
  BY <1>19 DEF Signal, UnchangedByShell
<1>20. CASE WorkEnds \/ WorkTimesOut
  <2> HIDE DEF TimeInv
  <2>1. OverEffect /\ work # "none"
    BY <1>20, WorkOver DEF WorkEnds, WorkTimesOut
  <2>2. app = "up" /\ UNCHANGED <<lpc, attempts, stop, met, killed>>
        /\ app' \in {"up", "screen"}
    BY <2>1 DEF OverEffect
  <2>3. ~killed /\ (~killed)'
    BY <2>2, Zenon DEF TimeInv
  <2>4. ASSUME Asked, met \notin Delays
        PROVE  Rest' <= Rest /\ Rest \in Int /\ Rest' \in Int
    <3>1. work \in {"gesture", "setup", "exit_cleanup"}
      BY <2>1, <2>2, <2>4
    <3>2. Rest \in Int /\ Rest' \in Int
      BY <2>1 DEF OverEffect
    <3>3. CASE work = "gesture"
      BY <2>1, <3>2, <3>3 DEF OverEffect
    <3>4. CASE work = "setup"
      BY <2>1, <2>4, <3>2, <3>4 DEF OverEffect
    <3>5. CASE work = "exit_cleanup"
      BY <2>1, <3>2, <3>5 DEF OverEffect
    <3>. QED
      BY <3>1, <3>2, <3>3, <3>4, <3>5
  <2>5. lpc = "poll_app" /\ Alive("app")
        => /\ stop' /\ app' # "loading"
           /\ ~Asked' => attempts' = 0
           /\ Asked' /\ met' \notin Delays =>
                 attempts' + Rest' <= GestureTime + HelperLimit + ErrorShown
    <3> HIDE DEF Rest
    <3>. QED
      BY <2>2, <2>4 DEF TimeInv
  <2>. QED
    BY <2>2, <2>3, <2>5 DEF TimeInv
<1>21. CASE BeginGesture \/ Use
  BY <1>21 DEF BeginGesture, Use, Run, UnchangedByProgram
<1>22. CASE Others
  BY <1>22 DEF Others, Run, UnchangedByProgram
<1>23. CASE Tick
  BY <1>23 DEF Tick, ProgramWaits, Polling, Patience
<1>24. CASE UNCHANGED vars
  BY <1>24 DEF vars
<1>. QED
  BY <1>1, <1>2, <1>3, <1>4, <1>5, <1>6, <1>7, <1>8, <1>9, <1>10, <1>11,
     <1>12, <1>13, <1>14, <1>15, <1>16, <1>17, <1>18, <1>19, <1>20, <1>21,
     <1>22, <1>23, <1>24
  DEF Next, Shell, Program

LEMMA InitInv == Init => LauncherInv
PROOF
<1> SUFFICES ASSUME Init PROVE LauncherInv
  OBVIOUS
<1> USE DEF Init, Trapped, Finishing, Works, Delays, Asked, Alive
<1>1. TypeOK
  <2>1. /\ stop \in BOOLEAN /\ cancelled \in BOOLEAN
        /\ owned \in BOOLEAN /\ killed \in BOOLEAN
    BY Zenon
  <2>2. pidOf \in [{"app", "gptk"} -> {"unset", "set", "cleared"}]
    BY DEF Init
  <2>. QED
    BY <2>1, <2>2, LauncherAssumption DEF TypeOK
<1>2. OrderInv /\ WorkInv
  BY DEF OrderInv, WorkInv
<1>3. CodeInv /\ TimeInv
  BY DEF CodeInv, TimeInv, KilledOnlyWhenDelayed
<1>. QED
  BY <1>1, <1>2, <1>3 DEF LauncherInv

(* The inductive invariant.                                                *)
THEOREM LauncherInvariant == Spec => []LauncherInv
PROOF
<1>1. LauncherInv /\ [Next]_vars => LauncherInv'
  BY TypeStep, OrderStep, WorkStep, CodeStep, TimeStep DEF LauncherInv
<1>. QED
  BY InitInv, <1>1, PTL DEF Spec

(* The launcher's state keeps its type.                                    *)
THEOREM LauncherAlwaysTyped == Spec => []TypeOK
PROOF
<1>1. LauncherInv => TypeOK
  BY DEF LauncherInv
<1>. QED
  BY LauncherInvariant, <1>1, PTL

(* pm_finish comes after the end of every process the launcher knows of.   *)
THEOREM FinishIsAlwaysLast == Spec => []FinishIsLast
PROOF
<1>1. LauncherInv => FinishIsLast
  BY DEF LauncherInv, TypeOK, OrderInv, FinishIsLast, Alive
<1>. QED
  BY LauncherInvariant, <1>1, PTL

(* The launcher's 0 is the program's, which owned nothing, and pm_finish's. *)
THEOREM ZeroAlwaysMeansNothingOwned == Spec => []ZeroMeansNothingOwned
PROOF
<1>1. LauncherInv => ZeroMeansNothingOwned
  BY DEF LauncherInv, CodeInv, ZeroMeansNothingOwned
<1>. QED
  BY LauncherInvariant, <1>1, PTL

(* SIGKILL meets no program but one that was cleaning up for a retry or    *)
(* playing to a slow host when its shutdown was requested, for all times   *)
(* with BudgetAssumption.                                                  *)
THEOREM NeverKilledUndelayed == Spec => []KilledOnlyWhenDelayed
PROOF
<1>1. LauncherInv => KilledOnlyWhenDelayed
  BY DEF LauncherInv, TimeInv
<1>. QED
  BY LauncherInvariant, <1>1, PTL

----------------------------------------------------------------------------
(* The launcher's end.                                                     *)

(* The measure at the places of the script.                                *)
LEMMA FinishLeftAt ==
    /\ lpc \in Trapped => FinishLeft = 2 * Budget + 7
    /\ lpc = "exit_trap" => FinishLeft = 2 * Budget + 6
    /\ lpc = "stop_app" => FinishLeft = 2 * Budget + 5
    /\ lpc = "poll_app" => FinishLeft = 2 * Budget + 4 - attempts
    /\ lpc = "stop_gptk" => FinishLeft = Budget + 3
    /\ lpc = "poll_gptk" => FinishLeft = Budget + 2 - attempts
    /\ lpc = "pm_finish" => FinishLeft = 1
    /\ lpc \in {"exited", "killed"} => FinishLeft = 0
  BY DEF FinishLeft, Trapped

(* A launcher that ends has that much to do at most.                       *)
FinishBound == 2 * Budget + 7

LEMMA FinishLeftBounded ==
    ASSUME TypeOK
    PROVE  FinishLeft \in 0..FinishBound
<1>1. attempts \in 0..Budget /\ Budget \in Nat
  BY LauncherAssumption DEF TypeOK
<1>2. lpc \in Trapped \union Finishing \union {"exit_trap", "exited", "killed"}
  BY DEF TypeOK
<1>. QED
  BY <1>1, <1>2, FinishLeftAt DEF FinishBound, Finishing

(* A command of the script.                                                *)
LEMMA ShellDrawsNearer ==
    ASSUME TypeOK, Ending, Shell
    PROVE  FinishLeft' < FinishLeft
<1>. USE LauncherAssumption DEF TypeOK, FinishLeft, Trapped, Ending, At, Goto
<1>1. CASE StartGptk \/ RecordGptk \/ StartApp \/ RecordApp \/ GiveUp \/ WaitReturns
  BY <1>1 DEF StartGptk, RecordGptk, StartApp, RecordApp, GiveUp, WaitReturns
<1>2. CASE Trap
  BY <1>2 DEF Trap
<1>3. CASE ResetTraps
  BY <1>3 DEF ResetTraps
<1>4. CASE StopProcess("app", "stop_app", "poll_app", "stop_gptk")
  BY <1>4 DEF StopProcess
<1>5. CASE PollProcess("app", "poll_app", "stop_gptk")
  BY <1>5 DEF PollProcess
<1>6. CASE StopProcess("gptk", "stop_gptk", "poll_gptk", "pm_finish")
  BY <1>6 DEF StopProcess
<1>7. CASE PollProcess("gptk", "poll_gptk", "pm_finish")
  BY <1>7 DEF PollProcess
<1>8. CASE PmFinish
  BY <1>8 DEF PmFinish
<1>. QED
  BY <1>1, <1>2, <1>3, <1>4, <1>5, <1>6, <1>7, <1>8 DEF Shell

(* A second of polling.                                                    *)
LEMMA PollDrawsNearer ==
    ASSUME TypeOK, Polling, Tick
    PROVE  FinishLeft' < FinishLeft
<1>1. attempts' = attempts + 1 /\ attempts \in 0..Budget /\ Budget \in Nat
  BY LauncherAssumption DEF Tick, TypeOK
<1>2. lpc' = lpc /\ lpc \in {"poll_app", "poll_gptk"}
  BY DEF Tick, Polling
<1>. QED
  BY <1>1, <1>2 DEF FinishLeft, Trapped

(* What anybody else does.                                                 *)
LEMMA OthersDoNotDelay ==
    ASSUME TypeOK, Ending,
           Signal \/ Program \/ WorkEnds \/ BeginGesture \/ Use \/ Others \/ (Tick /\ ~Polling)
             \/ UNCHANGED vars
    PROVE  FinishLeft' <= FinishLeft
<1>1. ASSUME UNCHANGED <<lpc, attempts>>
      PROVE  FinishLeft' <= FinishLeft
  <2>1. FinishLeft' = FinishLeft /\ FinishLeft \in Int
    BY <1>1, FinishLeftBounded DEF FinishLeft
  <2>. QED
    BY <2>1
<1>2. CASE Signal
  <2>1. CASE UNCHANGED lpc
    BY <1>1, <1>2, <2>1 DEF Signal, UnchangedByShell
  <2>2. CASE lpc' = "killed"
    BY <2>2, FinishLeftBounded DEF FinishLeft, FinishBound, Trapped
  <2>. QED
    BY <1>2, <2>1, <2>2 DEF Signal
<1>3. CASE WorkEnds \/ WorkTimesOut
  BY <1>1, <1>3, WorkOver DEF OverEffect, launcherVars
<1>4. CASE Install \/ ComeUp \/ Request \/ Cancel \/ TakeShutdown \/ Close \/ BeginGesture \/ Use
  BY <1>1, <1>4
     DEF Install, ComeUp, Request, Cancel, TakeShutdown, Close, BeginGesture, Use, UnchangedByProgram,
         launcherVars
<1>5. CASE Others
  BY <1>1, <1>5 DEF Others, UnchangedByProgram, launcherVars
<1>6. CASE Tick /\ ~Polling
  BY <1>1, <1>6 DEF Tick
<1>7. CASE UNCHANGED vars
  BY <1>1, <1>7 DEF vars, launcherVars
<1>. QED
  BY <1>2, <1>3, <1>4, <1>5, <1>6, <1>7 DEF Program

(* Once it is ending, the launcher is over after at most seven commands    *)
(* and two budgets of polling, whatever the processes and the signals do.  *)
THEOREM EndAlwaysDrawsNearer ==
    Spec => EndDrawsNearer /\ [](FinishLeft \in 0..FinishBound)
<1>1. LauncherInv => FinishLeft \in 0..FinishBound
  BY FinishLeftBounded DEF LauncherInv
<1>2. ASSUME LauncherInv, (FinishLeft \in 0..FinishBound)', [Next]_vars
      PROVE  [Ending => /\ FinishLeft' <= FinishLeft
                        /\ Shell \/ (Polling /\ Tick) => FinishLeft' < FinishLeft]_vars
  <2>. SUFFICES ASSUME Ending
                PROVE  /\ FinishLeft' <= FinishLeft
                       /\ Shell \/ (Polling /\ Tick) => FinishLeft' < FinishLeft
    OBVIOUS
  <2>1. TypeOK
    BY <1>2 DEF LauncherInv
  <2>2. FinishLeft \in Int /\ FinishLeft' \in Int
    <3>1. FinishLeft \in Int
      BY <2>1, FinishLeftBounded
    <3>2. FinishLeft' \in 0..FinishBound'
      BY <1>2 DEF FinishBound
    <3>. QED
      BY <3>1, <3>2, LauncherAssumption DEF FinishBound
  <2>3. CASE Shell
    <3>1. FinishLeft' < FinishLeft
      BY <2>1, <2>3, ShellDrawsNearer
    <3>. QED
      BY <2>2, <3>1
  <2>4. CASE Polling /\ Tick
    <3>1. FinishLeft' < FinishLeft
      BY <2>1, <2>4, PollDrawsNearer
    <3>. QED
      BY <2>2, <3>1
  <2>5. CASE ~Shell /\ ~(Polling /\ Tick)
    BY <1>2, <2>1, <2>5, OthersDoNotDelay DEF Next
  <2>. QED
    BY <2>3, <2>4, <2>5
<1>. QED
  BY <1>1, <1>2, LauncherInvariant, PTL DEF Spec, EndDrawsNearer
=============================================================================
