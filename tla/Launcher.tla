------------------------------ MODULE Launcher ------------------------------
(***************************************************************************)
(* usbjiggler.sh, from the place where it sets its traps, with the two     *)
(* processes it starts: the program and GPTOKEYB.  Of the program it sees  *)
(* that it lives, what a SIGTERM does to it and how it ends; how long that *)
(* takes depends on the scripts that the program has to run or wait for.   *)
(* SIGTERM only sets a flag.  What the worker starts between that and the  *)
(* next iteration of the main loop, which makes the flag a shutdown        *)
(* request, is still to come to its end.                                   *)
(*                                                                         *)
(* Time is counted in seconds.  It passes only while everybody waits: what *)
(* takes no time worth counting happens at once.                           *)
(***************************************************************************)
EXTENDS Integers

CONSTANTS
    Budget,       \* stop_process polls for as long as this
    HelperLimit,  \* helper_timeout_ms and HELPER_TERM_GRACE_MS
    Grace,        \* HELPER_TERM_GRACE_MS
    GestureTime,  \* a gesture lasts no longer, if the host polls promptly
    SlowTime,     \* a gesture lasts no longer, as every report may wait
    ErrorShown,   \* the screen of a failed shutdown stays no longer
    Signals       \* 128 and the number of INT, TERM or HUP

ASSUME LauncherAssumption ==
    /\ Budget \in Nat /\ HelperLimit \in Nat /\ Grace \in 0..HelperLimit
    /\ GestureTime \in Nat /\ SlowTime \in Nat /\ ErrorShown \in Nat
    /\ Signals \subseteq Nat \ {0}

(* The times of the code leave stop_process a second to spare.             *)
ASSUME BudgetAssumption == GestureTime + HelperLimit + ErrorShown < Budget

VARIABLES
    \* The launcher.
    lpc,       \* its next command
    pidOf,     \* app_pid and gptk_pid
    attempts,  \* time that stop_process has been waiting
    status,    \* the status it is going to exit with
    pending,   \* a trapped signal that it has not handled yet, or 0
    finish,    \* what pm_finish has returned, or "not_called"
    \* The processes.
    gptk, app,
    stop,      \* stop_requested
    met,       \* work when the shutdown was requested, or "unasked"
    work,      \* what its worker is busy with
    cancelled, \* a SIGTERM has been sent to its setup script
    left,      \* time until work, or the last screen, is over at the latest
    owned,     \* setup_owned
    appCode,   \* the program's exit code
    killed     \* stop_process has used SIGKILL on the program

launcherVars == <<lpc, pidOf, attempts, status, pending, finish>>
runVars == <<stop, met, work, cancelled, left, owned>>
appVars == <<app, appCode, runVars>>
vars == <<launcherVars, gptk, appVars, killed>>

Works == {"none", "gesture", "slow_gesture", "setup", "retry_cleanup", "exit_cleanup"}

(* What the budget does not cover.                                         *)
Delays == {"slow_gesture", "retry_cleanup"}

Trapped == {"prepare", "record_gptk", "start_app", "record_app", "wait"}
Finishing == {"stop_app", "poll_app", "stop_gptk", "poll_gptk", "pm_finish"}

(* The runtime has its shutdown request.                                   *)
Asked == met # "unasked"

Alive(process) ==
    IF process = "gptk" THEN gptk = "running"
                        ELSE app \in {"loading", "starting", "up", "screen"}

TypeOK ==
    /\ lpc \in Trapped \union Finishing \union {"exit_trap", "exited", "killed"}
    /\ pidOf \in [{"app", "gptk"} -> {"unset", "set", "cleared"}]
    /\ attempts \in 0..Budget
    /\ status \in Nat /\ appCode \in Nat
    /\ pending \in Signals \union {0}
    /\ finish \in {"not_called", "ok", "failed"}
    /\ gptk \in {"none", "running", "ended"}
    /\ app \in {"none", "loading", "starting", "up", "screen", "ended"}
    /\ work \in Works /\ met \in Works \union {"unasked"}
    /\ left \in Nat
    /\ stop \in BOOLEAN /\ cancelled \in BOOLEAN
    /\ owned \in BOOLEAN /\ killed \in BOOLEAN

Init ==
    /\ lpc = "prepare"
    /\ pidOf = [process \in {"app", "gptk"} |-> "unset"]
    /\ attempts = 0
    /\ status = 0
    /\ pending = 0
    /\ finish = "not_called"
    /\ gptk = "none" /\ app = "none"
    /\ stop = FALSE /\ cancelled = FALSE /\ owned = FALSE
    /\ work = "none" /\ left = 0 /\ met = "unasked"
    /\ appCode = 0
    /\ killed = FALSE

----------------------------------------------------------------------------
(* The launcher's commands.  bash handles a trapped signal before the next *)
(* one, and at once while it waits for the program.                        *)

At(place) == lpc = place /\ pending = 0
Goto(place) == lpc' = place

UnchangedByStart ==
    UNCHANGED <<attempts, status, pending, finish, runVars, appCode, killed>>

StartGptk ==
    /\ At("prepare")
    /\ gptk' = "running"
    /\ Goto("record_gptk")
    /\ UNCHANGED <<pidOf, app>>
    /\ UnchangedByStart

RecordGptk ==
    /\ At("record_gptk")
    /\ pidOf' = [pidOf EXCEPT !["gptk"] = "set"]
    /\ Goto("start_app")
    /\ UNCHANGED <<gptk, app>>
    /\ UnchangedByStart

StartApp ==
    /\ At("start_app")
    /\ app' = "loading"
    /\ Goto("record_app")
    /\ UNCHANGED <<pidOf, gptk>>
    /\ UnchangedByStart

RecordApp ==
    /\ At("record_app")
    /\ pidOf' = [pidOf EXCEPT !["app"] = "set"]
    /\ Goto("wait")
    /\ UNCHANGED <<gptk, app>>
    /\ UnchangedByStart

UnchangedByShell == UNCHANGED <<attempts, finish, gptk, appVars, killed>>

(* The game directory is gone, or GPTOKEYB is not configured.              *)
GiveUp ==
    /\ At("prepare")
    /\ status' = 1
    /\ Goto("exit_trap")
    /\ UNCHANGED <<pidOf, pending>>
    /\ UnchangedByShell

(* wait returns, the status is kept, and the launcher exits.               *)
WaitReturns ==
    /\ At("wait")
    /\ app = "ended"
    /\ status' = appCode
    /\ pidOf' = [pidOf EXCEPT !["app"] = "cleared"]
    /\ Goto("exit_trap")
    /\ UNCHANGED pending
    /\ UnchangedByShell

(* trap 'exit 130' INT and its like.                                       *)
Trap ==
    /\ lpc \in Trapped
    /\ pending # 0
    /\ status' = pending
    /\ pending' = 0
    /\ Goto("exit_trap")
    /\ UNCHANGED pidOf
    /\ UnchangedByShell

(* finish_port resets the traps first.  A signal that comes before it has  *)
(* done so makes it exit there and then.                                   *)
ResetTraps ==
    /\ lpc = "exit_trap"
    /\ IF pending = 0
         THEN Goto("stop_app") /\ UNCHANGED status
         ELSE Goto("killed") /\ status' = pending
    /\ UNCHANGED <<pidOf, pending>>
    /\ UnchangedByShell

(* stop_process, up to the first look at the process after SIGTERM.  A     *)
(* program that has not installed its handlers yet dies of it.             *)
StopProcess(process, place, polling, next) ==
    /\ At(place)
    /\ IF pidOf[process] = "set" /\ Alive(process)
         THEN /\ attempts' = 0
              /\ IF process = "app"
                   THEN /\ app' = IF app = "loading" THEN "ended" ELSE app
                        /\ appCode' = IF app = "loading" THEN 143 ELSE appCode
                        /\ stop' = TRUE
                   ELSE UNCHANGED <<app, appCode, stop>>
              /\ Goto(polling)
              /\ UNCHANGED pidOf
         ELSE /\ Goto(next)
              /\ pidOf' = [pidOf EXCEPT ![process] = IF @ = "set" THEN "cleared" ELSE @]
              /\ UNCHANGED <<attempts, app, appCode, stop>>
    /\ UNCHANGED <<status, pending, finish, gptk, met, work, cancelled, left, owned,
                   killed>>

(* Mutant: stop_process polls for thirty seconds.                          *)
PatienceShort == attempts >= 30

(* stop_process gives up polling.                                          *)
Patience == attempts >= Budget

(* Mutant: a process that takes its time is left alone.                    *)
PollProcessLeaves(process, polling, next) ==
    /\ At(polling)
    /\ ~Alive(process) \/ Patience
    /\ pidOf' = [pidOf EXCEPT ![process] = "cleared"]
    /\ Goto(next)
    /\ UNCHANGED <<attempts, status, pending, finish, gptk, appVars, killed>>

(* Mutant: no SIGKILL.                                                     *)
PollProcessWaits(process, polling, next) ==
    /\ At(polling)
    /\ ~Alive(process)
    /\ pidOf' = [pidOf EXCEPT ![process] = "cleared"]
    /\ Goto(next)
    /\ UNCHANGED <<attempts, status, pending, finish, gptk, appVars, killed>>

(* Mutant: a process that takes its time is given the same time again.     *)
PollProcessAgain(process, polling, next) ==
    /\ At(polling)
    /\ \/ /\ ~Alive(process)
          /\ pidOf' = [pidOf EXCEPT ![process] = "cleared"]
          /\ Goto(next)
          /\ UNCHANGED attempts
       \/ /\ Alive(process) /\ Patience
          /\ attempts' = 0
          /\ UNCHANGED <<pidOf, lpc>>
    /\ UNCHANGED <<status, pending, finish, gptk, appVars, killed>>

(* The process is gone, or is killed.  What the program had its worker do  *)
(* goes on: scripts have a process group of their own.                     *)
PollProcess(process, polling, next) ==
    /\ At(polling)
    /\ \/ ~Alive(process) /\ UNCHANGED <<gptk, app, appCode, left, killed>>
       \/ /\ Alive(process) /\ Patience
          /\ IF process = "gptk"
               THEN gptk' = "ended" /\ UNCHANGED <<app, appCode, left, killed>>
               ELSE /\ app' = "ended" /\ appCode' = 137
                    /\ left' = 0
                    /\ killed' = TRUE
                    /\ UNCHANGED gptk
    /\ pidOf' = [pidOf EXCEPT ![process] = "cleared"]
    /\ Goto(next)
    /\ UNCHANGED <<attempts, status, pending, finish, stop, met, work, cancelled, owned>>

(* Mutant: the status is that of pm_finish.                                *)
PmFinishDecides ==
    /\ At("pm_finish")
    /\ \/ finish' = "ok" /\ status' = 0
       \/ finish' = "failed" /\ status' = 1
    /\ Goto("exited")
    /\ UNCHANGED <<pidOf, attempts, pending, gptk, appVars, killed>>

PmFinish ==
    /\ At("pm_finish")
    /\ \/ finish' = "ok" /\ UNCHANGED status
       \/ finish' = "failed" /\ status' = IF status = 0 THEN 1 ELSE status
    /\ Goto("exited")
    /\ UNCHANGED <<pidOf, attempts, pending, gptk, appVars, killed>>

Shell ==
    \/ StartGptk \/ RecordGptk \/ StartApp \/ RecordApp \/ GiveUp
    \/ WaitReturns \/ Trap \/ ResetTraps
    \/ StopProcess("app", "stop_app", "poll_app", "stop_gptk")
    \/ PollProcess("app", "poll_app", "stop_gptk")
    \/ StopProcess("gptk", "stop_gptk", "poll_gptk", "pm_finish")
    \/ PollProcess("gptk", "poll_gptk", "pm_finish")
    \/ PmFinish

(* Without its traps the launcher dies of a signal, and leaves what it has *)
(* started to itself.                                                      *)
Signal ==
    /\ \E code \in Signals :
          \/ /\ lpc \in Trapped \union {"exit_trap"}
             /\ pending' = code
             /\ UNCHANGED <<lpc, status>>
          \/ /\ lpc \in Finishing
             /\ lpc' = "killed" /\ status' = code
             /\ UNCHANGED pending
    /\ UNCHANGED <<pidOf>>
    /\ UnchangedByShell

----------------------------------------------------------------------------
(* The program, as AppRuntime and MainLoop describe it.                    *)

UnchangedByProgram == UNCHANGED <<launcherVars, gptk, killed>>

(* The handlers are installed; then SDL and the runtime come up, or not,   *)
(* and the first preparation starts.                                       *)
Install ==
    /\ app = "loading"
    /\ app' = "starting"
    /\ UNCHANGED <<appCode, runVars>>
    /\ UnchangedByProgram

Run(what, time) == work' = what /\ left' = time

ComeUp ==
    /\ app = "starting"
    /\ \/ app' = "up" /\ Run("setup", HelperLimit) /\ UNCHANGED appCode
       \/ app' = "ended" /\ appCode' = 1 /\ UNCHANGED <<work, left>>
    /\ UNCHANGED <<stop, met, cancelled, owned>>
    /\ UnchangedByProgram

(* The next iteration of the main loop finds the flag.                     *)
Request ==
    /\ app = "up" /\ stop /\ ~Asked
    /\ met' = work
    /\ UNCHANGED <<app, appCode, stop, work, cancelled, left, owned>>
    /\ UnchangedByProgram

(* run_helper cancels a setup, and only a setup, for a shutdown.           *)
Cancel ==
    /\ app = "up" /\ work = "setup" /\ Asked /\ ~cancelled
    /\ cancelled' = TRUE
    /\ left' = IF left < Grace THEN left ELSE Grace
    /\ UNCHANGED <<app, appCode, stop, met, work, owned>>
    /\ UnchangedByProgram

(* The worker goes on when a gesture or a script is over.  A retry's       *)
(* cleanup is followed by a setup, the exit's by the last screen.          *)
Over(ok) ==
    /\ app = "up"
    /\ cancelled' = FALSE
    /\ CASE work \in {"gesture", "slow_gesture"} ->
              Run("none", 0) /\ UNCHANGED <<app, owned>>
         [] work = "setup" ->
              Run("none", 0) /\ owned' = (ok /\ ~cancelled) /\ UNCHANGED app
         [] work = "retry_cleanup" ->
              /\ owned' = ~ok
              /\ IF ok /\ ~Asked THEN Run("setup", HelperLimit) ELSE Run("none", 0)
              /\ UNCHANGED app
         [] work = "exit_cleanup" ->
              /\ owned' = ~ok
              /\ app' = "screen"
              /\ \E shown \in 0..ErrorShown : Run("none", IF ok THEN 0 ELSE shown)
    /\ UNCHANGED <<appCode, stop, met>>
    /\ UnchangedByProgram

WorkEnds == work # "none" /\ \E ok \in BOOLEAN : Over(ok)

(* The time limit: the script is killed.                                   *)
WorkTimesOut == work # "none" /\ left = 0 /\ Over(FALSE)

(* The worker takes the shutdown request.                                  *)
TakeShutdown ==
    /\ app = "up" /\ Asked /\ work = "none"
    /\ IF owned
         THEN Run("exit_cleanup", HelperLimit) /\ UNCHANGED app
         ELSE Run("none", 0) /\ app' = "screen"
    /\ UNCHANGED <<appCode, stop, met, cancelled, owned>>
    /\ UnchangedByProgram

Close ==
    /\ app = "screen" /\ left = 0
    /\ app' = "ended"
    /\ appCode' = IF owned THEN 1 ELSE 0
    /\ UNCHANGED runVars
    /\ UnchangedByProgram

Program ==
    Install \/ ComeUp \/ Request \/ Cancel \/ WorkTimesOut \/ TakeShutdown \/ Close

(* Until the shutdown is requested, a gesture may fall due.                *)
BeginGesture ==
    /\ app = "up" /\ ~Asked /\ work = "none" /\ owned
    /\ Run("gesture", GestureTime) \/ Run("slow_gesture", SlowTime)
    /\ UNCHANGED <<app, appCode, stop, met, cancelled, owned>>
    /\ UnchangedByProgram

(* And somebody may retry, or confirm an exit, which requests it.          *)
Use ==
    /\ app = "up" /\ ~Asked
    /\ \/ /\ work = "none"
          /\ Run(IF owned THEN "retry_cleanup" ELSE "setup", HelperLimit)
          /\ UNCHANGED met
       \/ met' = work /\ UNCHANGED <<work, left>>
    /\ UNCHANGED <<app, appCode, stop, cancelled, owned>>
    /\ UnchangedByProgram

(* GPTOKEYB ends when it likes.  A program that is killed by somebody else *)
(* leaves its script running, and so does stop_process; an orphan ends     *)
(* when it is done.                                                        *)
Others ==
    \/ /\ gptk = "running" /\ gptk' = "ended"
       /\ UNCHANGED <<launcherVars, appVars, killed>>
    \/ /\ Alive("app")
       /\ app' = "ended" /\ appCode' = 137 /\ left' = 0
       /\ UNCHANGED <<stop, met, work, cancelled, owned>>
       /\ UnchangedByProgram
    \/ /\ app = "ended" /\ work # "none"
       /\ Run("none", 0)
       /\ UNCHANGED <<app, appCode, stop, met, cancelled, owned>>
       /\ UnchangedByProgram

(* The program only waits: for a script, a gesture, a screen or its user,  *)
(* and its main loop has nothing to do.                                    *)
ProgramWaits ==
    \/ app \in {"none", "ended"}
    \/ app = "screen" /\ left > 0
    \/ /\ app = "up" /\ (stop => Asked)
       /\ IF work = "none" THEN ~Asked
                           ELSE left > 0 /\ (work = "setup" /\ Asked => cancelled)

Polling == lpc \in {"poll_app", "poll_gptk"} /\ ~Patience

Tick ==
    /\ ProgramWaits
    /\ Polling \/ (lpc \in {"wait", "exited", "killed"} /\ left > 0)
    /\ left' = IF left > 0 THEN left - 1 ELSE 0
    /\ attempts' = IF Polling THEN attempts + 1 ELSE attempts
    /\ UNCHANGED <<lpc, pidOf, status, pending, finish, gptk, app, appCode,
                   stop, met, work, cancelled, owned, killed>>

Next == Shell \/ Signal \/ Program \/ WorkEnds \/ BeginGesture \/ Use \/ Others \/ Tick

Spec == Init /\ [][Next]_vars

FairSpec == Spec /\ WF_vars(Shell) /\ WF_vars(Program) /\ WF_vars(Tick)

----------------------------------------------------------------------------
(* readme.md: the launcher "stops GPTOKEYB, and only then calls            *)
(* pm_finish".  Both processes have ended then, with an exception that     *)
(* readme.md does not make: a process that was started and not recorded    *)
(* yet when a signal came is overlooked, and goes on.                      *)
FinishIsLast ==
    finish # "not_called" =>
        \A process \in {"app", "gptk"} : Alive(process) => pidOf[process] = "unset"

(* readme.md: the launcher "waits for cleanup".  Its budget is enough for a *)
(* gesture or a setup in progress, then a cleanup that has to be killed and *)
(* its screen: the only program that SIGKILL can meet, perhaps in its last *)
(* cleanup, is one whose shutdown was requested while it was cleaning up   *)
(* for a retry, or playing to a host that leaves its reports waiting.      *)
(* Either may have begun after the SIGTERM, before the main loop saw it.   *)
KilledOnlyWhenDelayed == killed => met \in Delays

(* The launcher exits with 0 only if the program did, which then owned     *)
(* nothing and had nothing at work, and pm_finish succeeded.  It does not  *)
(* say that the kernel is clean: a setup that was broken off leaves what   *)
(* the program does not own (SuccessfulExitIsClean of AppRuntime).         *)
ZeroMeansNothingOwned ==
    lpc = "exited" /\ status = 0 =>
        app = "ended" /\ appCode = 0 /\ ~owned /\ work = "none" /\ finish = "ok"

(* The launcher has been asked to end, or is about to.                     *)
Ending == pending # 0 \/ lpc \notin Trapped

(* The commands it has left then and the seconds it still polls, at most.  *)
FinishLeft ==
    CASE lpc \in Trapped -> 2 * Budget + 7
      [] lpc = "exit_trap" -> 2 * Budget + 6
      [] lpc = "stop_app" -> 2 * Budget + 5
      [] lpc = "poll_app" -> 2 * Budget + 4 - attempts
      [] lpc = "stop_gptk" -> Budget + 3
      [] lpc = "poll_gptk" -> Budget + 2 - attempts
      [] lpc = "pm_finish" -> 1
      [] OTHER -> 0

(* Every command and every second of polling brings it nearer to its end,  *)
(* and no signal, no process that hangs and no program that goes on        *)
(* working takes it further away: after two budgets it is over.            *)
EndDrawsNearer ==
    [][Ending =>
         /\ FinishLeft' <= FinishLeft
         /\ Shell \/ (Polling /\ Tick) => FinishLeft' < FinishLeft]_vars

(* Whatever hangs, a launcher that has begun to finish comes to its end.   *)
LauncherEnds ==
    (pending # 0 \/ lpc \in Finishing \union {"exit_trap"}) ~> lpc \in {"exited", "killed"}
=============================================================================
