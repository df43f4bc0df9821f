----------------------------- MODULE AppRuntime -----------------------------
(***************************************************************************)
(* The runtime of the jiggler (src/app_runtime.c): one worker thread that  *)
(* owns all blocking work - the privileged setup and cleanup scripts, the  *)
(* HID device, the gestures - and an API that any thread calls, which only *)
(* takes the mutex, edits the shared fields and signals the condition.     *)
(*                                                                         *)
(* A step of the worker is one critical section of the mutex, or one       *)
(* unlocked operation whose effect others can see (fork, reap, signal,     *)
(* open, write).  An API call is one step: it is one critical section.     *)
(*                                                                         *)
(* Time is kept as the time remaining: nextReport is next_report_ms minus  *)
(* the clock, and 0 once it has passed (or is 0 in the program).           *)
(***************************************************************************)
EXTENDS Gesture

CONSTANTS
    MaxIntervalSec, \* JIGGLER_MAX_INTERVAL_SEC
    Settings,       \* the validated settings the callers use
    InitialSettings,\* the settings given to app_runtime_create
    LeftBehind,     \* what an earlier run of the program may have left
    WaitTargets,    \* the states callers wait for
    RollbackIsReliable \* a rollback that is let run removes everything, and
                       \* within HELPER_TERM_GRACE_MS

ASSUME SettingsAssumption ==
    /\ MaxIntervalSec \in Nat \ {0}
    /\ Settings \subseteq [pattern : Patterns, move_px : 1..MaxMovePx,
                           interval_sec : 1..MaxIntervalSec]
    /\ InitialSettings \in Settings
    /\ LeftBehind \subseteq {"none", "partial", "ready"}
    /\ WaitTargets \subseteq {"IDLE", "PREPARING", "READY", "ACTIVE",
                              "DISCONNECTED", "ERROR", "RETRYING", "EXITING"}
    /\ RollbackIsReliable \in BOOLEAN

VARIABLES
    \* Fields of struct AppRuntime, guarded by the mutex.
    state,           \* AppRuntimeState
    settings,        \* the settings the next gesture will use
    nextReport,      \* time left until next_report_ms
    setupOwned,      \* setup succeeded and has not been cleaned up since
    prepareRequested,
    shutdownRequested,
    cycleInProgress,
    stopAfterCycle,
    hidOpen,         \* hid_fd >= 0
    workerFinished,
    shutdownResult,
    joined,          \* worker_joined
    \* The condition variable.
    asleep,          \* threads blocked on it and not yet woken
    waiter,          \* state app_runtime_wait_for_state waits for, or "none"
    \* Locals of the worker thread.
    wpc,             \* where it is
    wGoal,           \* why it runs cleanup_owned: to prepare or to exit
    wNextReport,     \* its copy of nextReport
    wResult,         \* result of the last helper: did it exit with 0?
    wFd,             \* open_hid returned a descriptor
    vectors, vec, frame, cursor,  \* locals of emit_cycle, see EmitCycle
    \* The helper process and what it does to the kernel.
    child,           \* the script process
    script,          \* which script run_helper was called with
    expired,         \* helper_timeout_ms has passed since the fork
    signalled,       \* a SIGTERM sent to its process group is pending
    gadget           \* what is left in the kernel: module, gadget, device

apiVars    == <<settings, joined, waiter>>
gestureVars == <<vectors, vec, frame, cursor>>
helperVars == <<child, script, expired, signalled>>
localVars  == <<wGoal, wNextReport, wResult, wFd>>
flagVars   == <<prepareRequested, shutdownRequested, cycleInProgress,
                stopAfterCycle, workerFinished, shutdownResult>>
vars == <<state, nextReport, setupOwned, hidOpen, asleep, wpc, gadget,
          apiVars, gestureVars, helperVars, localVars, flagVars>>

Emit == INSTANCE EmitCycle

----------------------------------------------------------------------------
States == {"IDLE", "PREPARING", "READY", "ACTIVE", "DISCONNECTED", "ERROR",
           "RETRYING", "EXITING"}

WorkerPCs == {"top", "deadline", "emit", "cycle_done", "cycle_failed",
              "idle", "sleeping", "cleanup", "fork", "helper", "terminating",
              "cleanup_done", "cleaned", "setup_done", "open", "publish",
              "finish", "exited"}

Scripts == {"setup", "cleanup"}

(* The setup script checks its preconditions, builds, and is committed     *)
(* once it has set SETUP_COMPLETE=1 and reset its traps; until then a      *)
(* failure or a signal makes it undo what it built.                        *)
Running == {"checking", "building", "undoing", "committed", "cleanup"}
Zombies == {"exited_ok", "exited_failed"}
Children == {"none"} \union Running \union Zombies

(* "partial" stands for every mixture of a loaded module, a state file and *)
(* a gadget directory without a working /dev/hidg0.                        *)
Residues == {"none", "partial", "ready"}

Threads == {"worker", "waiter"}

FieldsTypeOK ==
    /\ state \in States
    /\ settings \in Settings
    /\ nextReport \in 0..MaxIntervalSec
    /\ setupOwned \in BOOLEAN
    /\ prepareRequested \in BOOLEAN
    /\ shutdownRequested \in BOOLEAN
    /\ cycleInProgress \in BOOLEAN
    /\ stopAfterCycle \in BOOLEAN
    /\ hidOpen \in BOOLEAN
    /\ workerFinished \in BOOLEAN
    /\ shutdownResult \in {0, -1}
    /\ joined \in BOOLEAN
    /\ asleep \subseteq Threads
    /\ waiter \in WaitTargets \union {"none"}

WorkerTypeOK ==
    /\ wpc \in WorkerPCs
    /\ wGoal \in {"prepare", "exit"}
    /\ wNextReport \in 0..MaxIntervalSec
    /\ wResult \in BOOLEAN
    /\ wFd \in BOOLEAN

HelperTypeOK ==
    /\ child \in Children
    /\ script \in Scripts
    /\ expired \in BOOLEAN
    /\ signalled \in BOOLEAN
    /\ gadget \in Residues

TypeOK == FieldsTypeOK /\ WorkerTypeOK /\ HelperTypeOK /\ Emit!EmitTypeOK

(* app_runtime_create: the worker starts with nothing prepared, whatever   *)
(* an earlier run of the program has left in the kernel.                   *)
Init ==
    /\ state = "IDLE"
    /\ settings = InitialSettings
    /\ nextReport = 0
    /\ setupOwned = FALSE
    /\ prepareRequested = FALSE
    /\ shutdownRequested = FALSE
    /\ cycleInProgress = FALSE
    /\ stopAfterCycle = FALSE
    /\ hidOpen = FALSE
    /\ workerFinished = FALSE
    /\ shutdownResult = 0
    /\ joined = FALSE
    /\ asleep = {}
    /\ waiter = "none"
    /\ wpc = "top"
    /\ wGoal = "prepare"
    /\ wNextReport = 0
    /\ wResult = TRUE
    /\ wFd = FALSE
    /\ Emit!EmitInit
    /\ child = "none"
    /\ script = "setup"
    /\ expired = FALSE
    /\ signalled = FALSE
    /\ gadget \in LeftBehind

----------------------------------------------------------------------------
(* Mutant: pthread_cond_signal, which wakes one thread.                    *)
BroadcastToOne ==
    \/ asleep = {} /\ asleep' = {}
    \/ \E thread \in asleep : asleep' = asleep \ {thread}

(* Mutant: the change is not announced.                                    *)
BroadcastForgotten == UNCHANGED asleep

(* pthread_cond_broadcast.                                                 *)
Broadcast == asleep' = {}

(* Mutant: only the text of the error is set.                              *)
SetErrorTextOnly(newState) == UNCHANGED state /\ Broadcast

(* set_error_locked; the text of the error is left out.                    *)
SetError(newState) == state' = newState /\ Broadcast

----------------------------------------------------------------------------
(* The API.  A call that the code refuses changes nothing and is no step.  *)

(* Mutant: prepare is accepted while a session is ACTIVE.                  *)
PrepareWhileActive ==
    /\ ~joined
    /\ ~shutdownRequested
    /\ state \notin {"PREPARING", "RETRYING"}
    /\ state' = IF state \in {"ERROR", "DISCONNECTED"} THEN "RETRYING"
                                                       ELSE "PREPARING"
    /\ prepareRequested' = TRUE
    /\ Broadcast
    /\ UNCHANGED <<nextReport, setupOwned, hidOpen, wpc, gadget, apiVars,
                   gestureVars, helperVars, localVars, shutdownRequested,
                   cycleInProgress, stopAfterCycle, workerFinished,
                   shutdownResult>>

Prepare ==
    /\ ~joined
    /\ ~shutdownRequested
    /\ state \notin {"PREPARING", "RETRYING", "ACTIVE"}
    /\ state' = IF state \in {"ERROR", "DISCONNECTED"} THEN "RETRYING"
                                                       ELSE "PREPARING"
    /\ prepareRequested' = TRUE
    /\ Broadcast
    /\ UNCHANGED <<nextReport, setupOwned, hidOpen, wpc, gadget, apiVars,
                   gestureVars, helperVars, localVars, shutdownRequested,
                   cycleInProgress, stopAfterCycle, workerFinished,
                   shutdownResult>>

Start ==
    /\ ~joined
    /\ state = "READY"
    /\ hidOpen
    /\ state' = "ACTIVE"
    /\ stopAfterCycle' = FALSE
    /\ nextReport' = settings.interval_sec
    /\ Broadcast
    /\ UNCHANGED <<setupOwned, hidOpen, wpc, gadget, apiVars, gestureVars,
                   helperVars, localVars, prepareRequested, shutdownRequested,
                   cycleInProgress, workerFinished, shutdownResult>>

(* Mutant: a stop takes effect at once, gesture or not.                    *)
StopAtOnce ==
    /\ ~joined
    /\ state = "ACTIVE"
    /\ state' = "READY"
    /\ nextReport' = 0
    /\ Broadcast
    /\ UNCHANGED <<setupOwned, hidOpen, wpc, gadget, apiVars, gestureVars,
                   helperVars, localVars, flagVars>>

(* A stop in the middle of a gesture only asks for the state change, which *)
(* FinishCycle makes.                                                      *)
Stop ==
    /\ ~joined
    /\ state = "ACTIVE"
    /\ \/ /\ cycleInProgress
          /\ stopAfterCycle' = TRUE
          /\ UNCHANGED <<state, nextReport, asleep>>
       \/ /\ ~cycleInProgress
          /\ state' = "READY"
          /\ nextReport' = 0
          /\ Broadcast
          /\ UNCHANGED stopAfterCycle
    /\ UNCHANGED <<setupOwned, hidOpen, wpc, gadget, apiVars, gestureVars,
                   helperVars, localVars, prepareRequested, shutdownRequested,
                   cycleInProgress, workerFinished, shutdownResult>>

SetSettings(checked) ==
    /\ ~joined
    /\ ~shutdownRequested
    /\ settings' = checked
    /\ IF state = "ACTIVE"
         THEN nextReport' = checked.interval_sec /\ Broadcast
         ELSE UNCHANGED <<nextReport, asleep>>
    /\ UNCHANGED <<state, setupOwned, hidOpen, wpc, gadget, joined, waiter,
                   gestureVars, helperVars, localVars, flagVars>>

RequestShutdown ==
    /\ ~joined
    /\ shutdownRequested' = TRUE
    /\ state' = "EXITING"
    /\ Broadcast
    /\ UNCHANGED <<nextReport, setupOwned, hidOpen, wpc, gadget, apiVars,
                   gestureVars, helperVars, localVars, prepareRequested,
                   cycleInProgress, stopAfterCycle, workerFinished,
                   shutdownResult>>

(* app_runtime_shutdown after its request: pthread_join returns once the   *)
(* worker has returned.                                                    *)
Join ==
    /\ ~joined
    /\ shutdownRequested
    /\ wpc = "exited"
    /\ joined' = TRUE
    /\ UNCHANGED <<state, nextReport, setupOwned, hidOpen, asleep, wpc, gadget,
                   settings, waiter, gestureVars, helperVars, localVars,
                   flagVars>>

(* app_runtime_wait_for_state: test the state, sleep, test it again when   *)
(* woken, until the state is there or the deadline has passed.             *)
WaitForState(target) ==
    /\ ~joined
    /\ waiter = "none"
    /\ state # target
    /\ waiter' = target
    /\ asleep' = asleep \union {"waiter"}
    /\ UNCHANGED <<state, nextReport, setupOwned, hidOpen, wpc, gadget,
                   settings, joined, gestureVars, helperVars, localVars,
                   flagVars>>

WaiterWakes ==
    /\ waiter # "none"
    /\ "waiter" \notin asleep
    /\ IF state = waiter
         THEN waiter' = "none" /\ UNCHANGED asleep
         ELSE asleep' = asleep \union {"waiter"} /\ UNCHANGED waiter
    /\ UNCHANGED <<state, nextReport, setupOwned, hidOpen, wpc, gadget,
                   settings, joined, gestureVars, helperVars, localVars,
                   flagVars>>

WaiterTimesOut ==
    /\ waiter # "none"
    /\ waiter' = "none"
    /\ asleep' = asleep \ {"waiter"}
    /\ UNCHANGED <<state, nextReport, setupOwned, hidOpen, wpc, gadget,
                   settings, joined, gestureVars, helperVars, localVars,
                   flagVars>>

----------------------------------------------------------------------------
(* The worker thread.                                                      *)

Goto(pc) == wpc' = pc

(* Mutant: a prepare that is still pending is served before a shutdown.    *)
TakeRequestsPrepareFirst ==
    /\ wpc = "top"
    /\ prepareRequested' = FALSE
    /\ wNextReport' = nextReport
    /\ wGoal' = IF shutdownRequested /\ ~prepareRequested THEN "exit"
                                                         ELSE "prepare"
    /\ Goto(CASE shutdownRequested \/ prepareRequested -> "cleanup"
              [] ~shutdownRequested /\ ~prepareRequested /\ state = "ACTIVE"
                   -> "deadline"
              [] OTHER -> "idle")
    /\ UNCHANGED <<state, nextReport, setupOwned, hidOpen, asleep, gadget,
                   apiVars, gestureVars, helperVars, wResult, wFd,
                   shutdownRequested, cycleInProgress, stopAfterCycle,
                   workerFinished, shutdownResult>>

(* Top of the loop of runtime_worker: take the requests and copy what the  *)
(* iteration is going to act on.                                           *)
TakeRequests ==
    /\ wpc = "top"
    /\ prepareRequested' = FALSE
    /\ wNextReport' = nextReport
    /\ wGoal' = IF shutdownRequested THEN "exit" ELSE "prepare"
    /\ Goto(CASE shutdownRequested \/ prepareRequested -> "cleanup"
              [] ~shutdownRequested /\ ~prepareRequested /\ state = "ACTIVE"
                   -> "deadline"
              [] OTHER -> "idle")
    /\ UNCHANGED <<state, nextReport, setupOwned, hidOpen, asleep, gadget,
                   apiVars, gestureVars, helperVars, wResult, wFd,
                   shutdownRequested, cycleInProgress, stopAfterCycle,
                   workerFinished, shutdownResult>>

(* Mutant: cleanup starts before the device is closed.                     *)
CleanupOwnedLeavesOpen ==
    /\ wpc = "cleanup"
    /\ \/ setupOwned  /\ script' = "cleanup" /\ Goto("fork")
                      /\ UNCHANGED wResult
       \/ ~setupOwned /\ wResult' = TRUE /\ Goto("cleaned")
                      /\ UNCHANGED script
    /\ UNCHANGED <<state, nextReport, setupOwned, hidOpen, asleep, gadget,
                   apiVars, gestureVars, child, expired, signalled, wGoal,
                   wNextReport, wFd, flagVars>>

(* cleanup_owned, first critical section.                                  *)
CleanupOwned ==
    /\ wpc = "cleanup"
    /\ hidOpen' = FALSE
    /\ \/ setupOwned  /\ script' = "cleanup" /\ Goto("fork")
                      /\ UNCHANGED wResult
       \/ ~setupOwned /\ wResult' = TRUE /\ Goto("cleaned")
                      /\ UNCHANGED script
    /\ UNCHANGED <<state, nextReport, setupOwned, asleep, gadget, apiVars,
                   gestureVars, child, expired, signalled, wGoal, wNextReport,
                   wFd, flagVars>>

(* Where run_helper returns to.                                            *)
HelperReturns(ok) ==
    /\ wResult' = ok
    /\ Goto(IF script = "cleanup" THEN "cleanup_done" ELSE "setup_done")

ForkHelper ==
    /\ wpc = "fork"
    /\ \/ /\ child' = IF script = "cleanup" THEN "cleanup" ELSE "checking"
          /\ expired' = FALSE
          /\ signalled' = FALSE
          /\ Goto("helper")
          /\ UNCHANGED wResult
       \/ HelperReturns(FALSE) /\ UNCHANGED <<child, expired, signalled>>
    /\ UNCHANGED <<state, nextReport, setupOwned, hidOpen, asleep, gadget,
                   apiVars, gestureVars, script, wGoal, wNextReport, wFd,
                   flagVars>>

(* waitpid finds that the script has exited.                               *)
ReapHelper ==
    /\ wpc = "helper"
    /\ child \in Zombies
    /\ child' = "none"
    /\ HelperReturns(child = "exited_ok")
    /\ UNCHANGED <<state, nextReport, setupOwned, hidOpen, asleep, gadget,
                   apiVars, gestureVars, script, expired, signalled, wGoal,
                   wNextReport, wFd, flagVars>>

(* Mutant: cleanup is cancelled as well.                                   *)
CancelledAlways == shutdownRequested

(* Only the setup script is cancellable.                                   *)
Cancelled == script = "setup" /\ shutdownRequested

(* Mutant: helper_timeout_ms is not looked at.                             *)
GiveUpHelperOnlyCancelled ==
    /\ wpc = "helper"
    /\ Cancelled
    /\ signalled' = (child \in Running)
    /\ Goto("terminating")
    /\ UNCHANGED <<state, nextReport, setupOwned, hidOpen, asleep, gadget,
                   apiVars, gestureVars, child, script, expired, wGoal,
                   wNextReport, wResult, wFd, flagVars>>

(* waitpid found the script running, and it may not go on: terminate_helper *)
(* sends SIGTERM to the process group.  The script may have exited since.  *)
GiveUpHelper ==
    /\ wpc = "helper"
    /\ Cancelled \/ expired
    /\ signalled' = (child \in Running)
    /\ Goto("terminating")
    /\ UNCHANGED <<state, nextReport, setupOwned, hidOpen, asleep, gadget,
                   apiVars, gestureVars, child, script, expired, wGoal,
                   wNextReport, wResult, wFd, flagVars>>

(* Mutant: a script that ends when it is told to has succeeded.            *)
ReapTerminatedAsSuccess ==
    /\ wpc = "terminating"
    /\ child \in Zombies
    /\ child' = "none"
    /\ signalled' = FALSE
    /\ HelperReturns(TRUE)
    /\ UNCHANGED <<state, nextReport, setupOwned, hidOpen, asleep, gadget,
                   apiVars, gestureVars, script, expired, wGoal, wNextReport,
                   wFd, flagVars>>

(* terminate_helper reaps the script and does not look at its exit status. *)
ReapTerminated ==
    /\ wpc = "terminating"
    /\ child \in Zombies
    /\ child' = "none"
    /\ signalled' = FALSE
    /\ HelperReturns(FALSE)
    /\ UNCHANGED <<state, nextReport, setupOwned, hidOpen, asleep, gadget,
                   apiVars, gestureVars, script, expired, wGoal, wNextReport,
                   wFd, flagVars>>

(* The grace period is over and the script still runs: SIGKILL, and reap.  *)
KillHelper ==
    /\ wpc = "terminating"
    /\ ~RollbackIsReliable
    /\ child \in Running
    /\ child' = "none"
    /\ signalled' = FALSE
    /\ HelperReturns(FALSE)
    /\ UNCHANGED <<state, nextReport, setupOwned, hidOpen, asleep, gadget,
                   apiVars, gestureVars, script, expired, wGoal, wNextReport,
                   wFd, flagVars>>

(* Mutant: ownership ends with cleanup, whatever came of it.               *)
CleanupDoneForgets ==
    /\ wpc = "cleanup_done"
    /\ setupOwned' = FALSE
    /\ Goto("cleaned")
    /\ UNCHANGED <<state, nextReport, hidOpen, asleep, gadget, apiVars,
                   gestureVars, helperVars, localVars, flagVars>>

(* cleanup_owned, second critical section.                                 *)
CleanupDone ==
    /\ wpc = "cleanup_done"
    /\ setupOwned' = (setupOwned /\ ~wResult)
    /\ Goto("cleaned")
    /\ UNCHANGED <<state, nextReport, hidOpen, asleep, gadget, apiVars,
                   gestureVars, helperVars, localVars, flagVars>>

(* Mutant: setup runs although cleanup has failed.                         *)
PrepareAfterAnyCleanup ==
    /\ wpc = "cleaned"
    /\ wGoal = "prepare"
    /\ IF shutdownRequested THEN Goto("top") /\ UNCHANGED script
                            ELSE script' = "setup" /\ Goto("fork")
    /\ UNCHANGED <<state, nextReport, setupOwned, hidOpen, asleep, gadget,
                   apiVars, gestureVars, child, expired, signalled, localVars,
                   flagVars>>

(* prepare_runtime after cleanup_owned: a failed cleanup refuses the setup, *)
(* a shutdown makes it pointless.                                          *)
PrepareAfterCleanup ==
    /\ wpc = "cleaned"
    /\ wGoal = "prepare"
    /\ \/ /\ ~wResult /\ ~shutdownRequested
          /\ SetError("ERROR")
          /\ Goto("top")
          /\ UNCHANGED script
       \/ /\ shutdownRequested
          /\ Goto("top")
          /\ UNCHANGED <<state, asleep, script>>
       \/ /\ wResult /\ ~shutdownRequested
          /\ script' = "setup"
          /\ Goto("fork")
          /\ UNCHANGED <<state, asleep>>
    /\ UNCHANGED <<nextReport, setupOwned, hidOpen, gadget, apiVars,
                   gestureVars, child, expired, signalled, localVars,
                   flagVars>>

(* prepare_runtime after the setup script.                                 *)
SetupDone ==
    /\ wpc = "setup_done"
    /\ \/ /\ wResult
          /\ setupOwned' = TRUE
          /\ Goto("open")
          /\ UNCHANGED <<state, asleep>>
       \/ /\ ~wResult
          /\ IF shutdownRequested THEN UNCHANGED <<state, asleep>>
                                  ELSE SetError("ERROR")
          /\ Goto("top")
          /\ UNCHANGED setupOwned
    /\ UNCHANGED <<nextReport, hidOpen, gadget, apiVars, gestureVars,
                   helperVars, localVars, flagVars>>

(* open_hid fails when there is no working /dev/hidg0, and may fail anyway. *)
OpenHid ==
    /\ wpc = "open"
    /\ wFd' \in IF gadget = "ready" THEN BOOLEAN ELSE {FALSE}
    /\ Goto("publish")
    /\ UNCHANGED <<state, nextReport, setupOwned, hidOpen, asleep, gadget,
                   apiVars, gestureVars, helperVars, wGoal, wNextReport,
                   wResult, flagVars>>

(* The last critical section of prepare_runtime.                           *)
Publish ==
    /\ wpc = "publish"
    /\ \/ shutdownRequested /\ UNCHANGED <<state, hidOpen, asleep>>
       \/ ~shutdownRequested /\ ~wFd /\ SetError("DISCONNECTED")
                             /\ UNCHANGED hidOpen
       \/ ~shutdownRequested /\ wFd /\ hidOpen' = TRUE /\ state' = "READY"
                             /\ Broadcast
    /\ wFd' = FALSE
    /\ Goto("top")
    /\ UNCHANGED <<nextReport, setupOwned, gadget, apiVars, gestureVars,
                   helperVars, wGoal, wNextReport, wResult, flagVars>>

(* The shutdown branch of runtime_worker: first the result, then the flag  *)
(* that tells the callers to look at it.                                   *)
RecordShutdownResult ==
    /\ wpc = "cleaned"
    /\ wGoal = "exit"
    /\ shutdownResult' = IF wResult THEN shutdownResult ELSE -1
    /\ Goto("finish")
    /\ UNCHANGED <<state, nextReport, setupOwned, hidOpen, asleep, gadget,
                   apiVars, gestureVars, helperVars, localVars,
                   prepareRequested, shutdownRequested, cycleInProgress,
                   stopAfterCycle, workerFinished>>

FinishWorker ==
    /\ wpc = "finish"
    /\ workerFinished' = TRUE
    /\ Broadcast
    /\ Goto("exited")
    /\ UNCHANGED <<state, nextReport, setupOwned, hidOpen, gadget, apiVars,
                   gestureVars, helperVars, localVars, prepareRequested,
                   shutdownRequested, cycleInProgress, stopAfterCycle,
                   shutdownResult>>

(* ACTIVE, and the copied deadline is still to come: a timed wait of at    *)
(* most 100 ms, ended early by any broadcast.                              *)
WaitForDeadline ==
    /\ wpc = "deadline"
    /\ wNextReport > 0
    /\ Goto("top")
    /\ UNCHANGED <<state, nextReport, setupOwned, hidOpen, asleep, gadget,
                   apiVars, gestureVars, helperVars, localVars, flagVars>>

(* The copied deadline has passed: look at the state again, under the      *)
(* mutex, and start a gesture with the settings of this moment.            *)
BeginCycle ==
    /\ wpc = "deadline"
    /\ wNextReport = 0
    /\ \/ /\ state # "ACTIVE"
          /\ Goto("top")
          /\ UNCHANGED <<cycleInProgress, gestureVars>>
       \/ /\ state = "ACTIVE"
          /\ cycleInProgress' = TRUE
          /\ Emit!EmitBegin(settings)
          /\ Goto("emit")
    /\ UNCHANGED <<state, nextReport, setupOwned, hidOpen, asleep, gadget,
                   apiVars, helperVars, localVars, prepareRequested,
                   shutdownRequested, stopAfterCycle, workerFinished,
                   shutdownResult>>

(* A report is written; emit_cycle looks at no request between reports.    *)
EmitReport ==
    /\ wpc = "emit"
    /\ hidOpen /\ gadget = "ready"
    /\ Emit!EmitReport
    /\ UNCHANGED <<state, nextReport, setupOwned, hidOpen, asleep, wpc, gadget,
                   apiVars, helperVars, localVars, flagVars>>

(* Mutant: emit_cycle breaks off when a stop is pending.                   *)
EmitReturnsOnStop ==
    /\ wpc = "emit"
    /\ Goto(IF Emit!Complete \/ stopAfterCycle THEN "cycle_done"
                                               ELSE "cycle_failed")
    /\ UNCHANGED <<state, nextReport, setupOwned, hidOpen, asleep, gadget,
                   apiVars, gestureVars, helperVars, localVars, flagVars>>

(* emit_cycle returns: all reports are out, or the poll before a write     *)
(* timed out or the write failed.                                          *)
EmitReturns ==
    /\ wpc = "emit"
    /\ Goto(IF Emit!Complete THEN "cycle_done" ELSE "cycle_failed")
    /\ UNCHANGED <<state, nextReport, setupOwned, hidOpen, asleep, gadget,
                   apiVars, gestureVars, helperVars, localVars, flagVars>>

(* Mutant: the end of a gesture does not look at a pending stop.           *)
FinishCycleIgnoresStop ==
    /\ wpc \in {"cycle_done", "cycle_failed"}
    /\ cycleInProgress' = FALSE
    /\ \/ /\ wpc = "cycle_failed" /\ ~shutdownRequested
          /\ hidOpen' = FALSE
          /\ SetError("DISCONNECTED")
          /\ UNCHANGED nextReport
       \/ /\ wpc = "cycle_done" \/ shutdownRequested
          /\ nextReport' = IF state = "ACTIVE" THEN settings.interval_sec
                                               ELSE nextReport
          /\ UNCHANGED <<state, hidOpen, asleep>>
    /\ Goto("top")
    /\ UNCHANGED <<setupOwned, gadget, apiVars, gestureVars, helperVars,
                   localVars, prepareRequested, shutdownRequested,
                   stopAfterCycle, workerFinished, shutdownResult>>

(* The critical section after emit_cycle.                                  *)
FinishCycle ==
    /\ wpc \in {"cycle_done", "cycle_failed"}
    /\ cycleInProgress' = FALSE
    /\ \/ /\ wpc = "cycle_failed" /\ ~shutdownRequested
          /\ hidOpen' = FALSE
          /\ stopAfterCycle' = FALSE
          /\ SetError("DISCONNECTED")
          /\ UNCHANGED nextReport
       \/ /\ wpc = "cycle_done" /\ ~shutdownRequested /\ stopAfterCycle
          /\ stopAfterCycle' = FALSE
          /\ state' = "READY"
          /\ nextReport' = 0
          /\ Broadcast
          /\ UNCHANGED hidOpen
       \/ /\ shutdownRequested \/ (wpc = "cycle_done" /\ ~stopAfterCycle)
          /\ nextReport' = IF state = "ACTIVE" THEN settings.interval_sec
                                               ELSE nextReport
          /\ UNCHANGED <<state, hidOpen, stopAfterCycle, asleep>>
    /\ Goto("top")
    /\ UNCHANGED <<setupOwned, gadget, apiVars, gestureVars, helperVars,
                   localVars, prepareRequested, shutdownRequested,
                   workerFinished, shutdownResult>>

(* Nothing to do: sleep on the condition unless that has changed since     *)
(* TakeRequests.                                                           *)
IdleWait ==
    /\ wpc = "idle"
    /\ IF ~shutdownRequested /\ ~prepareRequested /\ state # "ACTIVE"
         THEN asleep' = asleep \union {"worker"} /\ Goto("sleeping")
         ELSE Goto("top") /\ UNCHANGED asleep
    /\ UNCHANGED <<state, nextReport, setupOwned, hidOpen, gadget, apiVars,
                   gestureVars, helperVars, localVars, flagVars>>

WorkerWakes ==
    /\ wpc = "sleeping"
    /\ "worker" \notin asleep
    /\ Goto("top")
    /\ UNCHANGED <<state, nextReport, setupOwned, hidOpen, asleep, gadget,
                   apiVars, gestureVars, helperVars, localVars, flagVars>>

----------------------------------------------------------------------------
(* The helper process (scripts/gadget_setup.sh, scripts/gadget_cleanup.sh) *)
(* as far as the runtime is concerned.                                     *)

UnchangedByHelper ==
    UNCHANGED <<state, nextReport, setupOwned, hidOpen, asleep, wpc, apiVars,
                gestureVars, script, expired, localVars, flagVars>>

(* A precondition does not hold, in particular because something is left   *)
(* in the kernel: setup exits without having touched it.                   *)
SetupRefuses ==
    /\ child = "checking"
    /\ child' = "exited_failed"
    /\ UNCHANGED <<gadget, signalled>>
    /\ UnchangedByHelper

(* insmod, and the state file and the gadget directory after it.           *)
SetupBuilds ==
    /\ child = "checking"
    /\ gadget = "none"
    /\ ~signalled
    /\ child' = "building"
    /\ gadget' = "partial"
    /\ UNCHANGED signalled
    /\ UnchangedByHelper

(* The gadget is bound to the UDC and /dev/hidg0 has appeared.             *)
SetupBinds ==
    /\ child = "building"
    /\ gadget = "partial"
    /\ gadget' = "ready"
    /\ UNCHANGED <<child, signalled>>
    /\ UnchangedByHelper

(* SETUP_COMPLETE=1 and the traps are reset.                               *)
SetupCommits ==
    /\ child = "building"
    /\ gadget = "ready"
    /\ ~signalled
    /\ child' = "committed"
    /\ UNCHANGED <<gadget, signalled>>
    /\ UnchangedByHelper

(* Some command failed: the EXIT trap resets all traps and rolls back.     *)
SetupFails ==
    /\ child = "building"
    /\ ~signalled
    /\ child' = "undoing"
    /\ UNCHANGED <<gadget, signalled>>
    /\ UnchangedByHelper

(* Removing what is there takes two kinds of steps, unbinding the gadget   *)
(* and removing the rest; both setup's rollback and cleanup make them.     *)
Remove ==
    /\ child \in {"undoing", "cleanup"}
    /\ \/ gadget = "ready" /\ gadget' = "partial"
       \/ gadget = "partial" /\ gadget' = "none"
    /\ UNCHANGED <<child, signalled>>
    /\ UnchangedByHelper

(* The end of a rollback or of a failed cleanup.  A rollback ignores the   *)
(* failures of its own commands, so it may leave something behind.         *)
HelperFails ==
    /\ child \in {"undoing", "cleanup"}
    /\ child = "undoing" /\ RollbackIsReliable => gadget = "none"
    /\ child' = "exited_failed"
    /\ UNCHANGED <<gadget, signalled>>
    /\ UnchangedByHelper

HelperSucceeds ==
    /\ \/ child = "committed"
       \/ child = "cleanup" /\ gadget = "none"
    /\ child' = "exited_ok"
    /\ UNCHANGED <<gadget, signalled>>
    /\ UnchangedByHelper

(* SIGTERM takes effect: the trap of a setup under way rolls back; without *)
(* a trap - in cleanup, in the rollback itself, after the commit, or       *)
(* before anything was built - it just ends the script.                    *)
TermArrives ==
    /\ signalled
    /\ child \in Running
    /\ child' = IF child = "building" THEN "undoing" ELSE "exited_failed"
    /\ signalled' = FALSE
    /\ UNCHANGED gadget
    /\ UnchangedByHelper

----------------------------------------------------------------------------
(* Time and the C library.                                                 *)

HelperDeadline ==
    /\ wpc = "helper"
    /\ ~expired
    /\ expired' = TRUE
    /\ UNCHANGED <<state, nextReport, setupOwned, hidOpen, asleep, wpc, gadget,
                   apiVars, gestureVars, child, script, signalled, localVars,
                   flagVars>>

Minus1(t) == IF t > 0 THEN t - 1 ELSE 0

Tick ==
    /\ nextReport > 0 \/ wNextReport > 0
    /\ nextReport' = Minus1(nextReport)
    /\ wNextReport' = Minus1(wNextReport)
    /\ UNCHANGED <<state, setupOwned, hidOpen, asleep, wpc, gadget, apiVars,
                   gestureVars, helperVars, wGoal, wResult, wFd, flagVars>>

(* pthread_cond_wait may return without a broadcast.                       *)
SpuriousWakeup ==
    /\ \E thread \in asleep : asleep' = asleep \ {thread}
    /\ UNCHANGED <<state, nextReport, setupOwned, hidOpen, wpc, gadget, apiVars,
                   gestureVars, helperVars, localVars, flagVars>>

(* The program has joined the worker and freed the runtime.                *)
Terminated == joined /\ UNCHANGED vars

----------------------------------------------------------------------------
Worker ==
    \/ TakeRequests \/ CleanupOwned \/ ForkHelper \/ ReapHelper
    \/ GiveUpHelper \/ ReapTerminated \/ KillHelper \/ CleanupDone
    \/ PrepareAfterCleanup \/ SetupDone \/ OpenHid \/ Publish \/ RecordShutdownResult
    \/ FinishWorker \/ WaitForDeadline \/ BeginCycle \/ EmitReport
    \/ EmitReturns \/ FinishCycle \/ IdleWait \/ WorkerWakes

Waiter == WaiterWakes \/ WaiterTimesOut

Api ==
    \/ Prepare \/ Start \/ Stop \/ RequestShutdown \/ Join
    \/ \E checked \in Settings : SetSettings(checked)
    \/ \E target \in WaitTargets : WaitForState(target)

Helper ==
    \/ SetupRefuses \/ SetupBuilds \/ SetupBinds \/ SetupCommits \/ SetupFails
    \/ Remove \/ HelperFails \/ HelperSucceeds \/ TermArrives

Environment == HelperDeadline \/ Tick \/ SpuriousWakeup

Next == Worker \/ Waiter \/ Api \/ Helper \/ Environment \/ Terminated

Spec == Init /\ [][Next]_vars

(* The scheduler runs the worker; every wait of its own is timed or a poll *)
(* of bounded length; and time passes.  No fairness is asked of the API's  *)
(* callers or of the helper scripts, which may hang.                       *)
FairSpec ==
    /\ Spec
    /\ WF_vars(Worker)
    /\ WF_vars(HelperDeadline)
    /\ WF_vars(Tick)

----------------------------------------------------------------------------
(* Safety.                                                                 *)

(* The worker is somewhere inside prepare_runtime.                         *)
Preparing ==
    /\ wGoal = "prepare"
    /\ wpc \in {"cleanup", "fork", "helper", "terminating", "cleanup_done",
                "cleaned", "setup_done", "open", "publish"}

(* hid_fd is open only on a gadget that is up, that this runtime owns and  *)
(* that no script is working on; READY and ACTIVE promise exactly that.    *)
DeviceIsOurs ==
    /\ hidOpen => setupOwned /\ gadget = "ready" /\ child = "none"
    /\ state \in {"READY", "ACTIVE"} => hidOpen

(* prepare_runtime never runs setup over state it still owns, and never    *)
(* takes a result for granted: whatever failed before, a running setup     *)
(* means that ownership has been given back.                               *)
SetupStartsClean ==
    child \in {"checking", "building", "undoing", "committed"} => ~setupOwned

(* From its first to its last report a gesture has the device to itself,   *)
(* and no state but ACTIVE and EXITING is reported meanwhile: stop,        *)
(* prepare and a failure elsewhere cannot close it or change the state     *)
(* under emit_cycle.                                                       *)
GestureHasDevice ==
    cycleInProgress <=> wpc \in {"emit", "cycle_done", "cycle_failed"}
                        /\ hidOpen /\ state \in {"ACTIVE", "EXITING"}

(* A pending stop belongs to the gesture in progress: it cannot survive it *)
(* and end the next session after its first gesture.                       *)
StopEndsThisGesture ==
    stopAfterCycle /\ ~shutdownRequested => cycleInProgress

(* PREPARING and RETRYING are left only by the worker, so there is always  *)
(* a request it has not taken yet or is working on.  Conversely a request  *)
(* never lies around in another state, where it would tear the session     *)
(* down later.                                                             *)
NoOrphanedPreparation ==
    /\ state \in {"PREPARING", "RETRYING"} => prepareRequested \/ Preparing
    /\ prepareRequested => state \in {"PREPARING", "RETRYING", "EXITING"}

(* Nobody sleeps through what it waits for: the worker is never left       *)
(* blocked with a request pending, nor a caller of wait_for_state in the   *)
(* state it asked for.                                                     *)
NoLostWakeup ==
    /\ "worker" \in asleep =>
         ~shutdownRequested /\ ~prepareRequested /\ state # "ACTIVE"
    /\ "waiter" \in asleep => state # waiter

(* What shutdown reports is what happened to everything this runtime owns. *)
ExitTellsTheTruth ==
    workerFinished =>
        /\ ~hidOpen
        /\ child = "none"
        /\ shutdownResult = 0 <=> ~setupOwned

(* setup_owned is given up only when nothing is left in the kernel.        *)
OwnershipOutlivesResidue ==
    [][setupOwned /\ ~setupOwned' => gadget = "none"]_vars

(* EXITING is final: no late result of the worker (a setup that succeeds,  *)
(* a gesture that fails) and no call replaces it.                          *)
ExitingIsFinal == [][state = "EXITING" => state' = "EXITING"]_vars

(* Shutdown cancels a setup but waits for a cleanup: only the time limit   *)
(* ends a cleanup early.                                                   *)
CleanupNotInterrupted ==
    [][~signalled /\ signalled' /\ child = "cleanup" => expired]_vars

(* A gesture ends where it began, whatever is called while it is played,   *)
(* shutdown included; only a failed write breaks it off, and that ends the *)
(* session as well.                                                        *)
GestureReturns ==
    [][cycleInProgress /\ ~cycleInProgress' =>
         \/ cursor = Origin
         \/ wpc = "cycle_failed" /\ state' \in {"DISCONNECTED", "EXITING"}]_vars

----------------------------------------------------------------------------
(* Progress: how much the worker can still do before it looks at requests  *)
(* again, counted in its own steps.                                        *)

(* The steps of run_helper and, after a cleanup, of the setup behind it.   *)
HelperStepsLeft(place) ==
    IF script = "cleanup" THEN place + 8 ELSE place + 3

(* The most steps the worker can take before it is at the top again or has *)
(* exited.                                                                 *)
StepsLeft ==
    CASE wpc \in {"top", "exited"} -> 0
      [] wpc \in {"sleeping", "cycle_done", "cycle_failed", "publish",
                  "finish"} -> 1
      [] wpc \in {"idle", "open"} -> 2
      [] wpc = "setup_done" -> 3
      [] wpc = "terminating" -> HelperStepsLeft(1)
      [] wpc = "helper" -> HelperStepsLeft(2)
      [] wpc = "fork" -> HelperStepsLeft(3)
      [] wpc = "cleaned" -> 7
      [] wpc = "cleanup_done" -> 8
      [] wpc = "cleanup" -> 12
      [] wpc = "emit" -> Emit!ReportsLeft + 2
      [] wpc = "deadline" -> Emit!MaxReports + 3

(* Every step of an iteration uses some of them up, failures and retries   *)
(* of the scripts, a stop, new settings and lost reports included, and no  *)
(* call, script or signal gives the worker more to do: requests wait for   *)
(* the next iteration.  This bounds how long a stop, a prepare or a        *)
(* shutdown goes unnoticed.                                                *)
IterationAdvances ==
    [][/\ Worker /\ wpc # "top" => StepsLeft' < StepsLeft
       /\ StepsLeft' > StepsLeft => wpc = "top"]_vars

(* The worker is in the shutdown branch of runtime_worker.                 *)
LeavingForGood ==
    \/ wpc \in {"finish", "exited"}
    \/ wGoal = "exit" /\ wpc \in {"cleanup", "fork", "helper", "terminating",
                                  "cleanup_done", "cleaned"}

(* The most steps before it has exited: the rest of the iteration, then    *)
(* the top and the shutdown branch.                                        *)
ExitStepsLeft == IF LeavingForGood THEN StepsLeft ELSE StepsLeft + 13

(* Once shutdown is requested every step of the worker brings it nearer to *)
(* its exit, and nothing takes it further away: no second iteration, no    *)
(* retry of a cleanup that failed, no preparation that was still pending.  *)
ShutdownAdvances ==
    [][shutdownRequested =>
         /\ ExitStepsLeft' <= ExitStepsLeft
         /\ Worker => ExitStepsLeft' < ExitStepsLeft]_vars

(* Each step of the worker is progress towards what was requested.         *)
WorkerProgresses == IterationAdvances /\ ShutdownAdvances

----------------------------------------------------------------------------
(* The inductive invariant behind these properties: what the worker's      *)
(* place in the code implies about the fields it does not hold the mutex   *)
(* for.                                                                    *)

(* The part of the worker that runs helpers.                               *)
HelperPCs == {"cleanup", "fork", "helper", "terminating", "cleanup_done",
              "cleaned", "setup_done", "open", "publish"}
GesturePCs == {"emit", "cycle_done", "cycle_failed"}
ExitPCs == {"finish", "exited"}

RequestsAgree ==
    /\ shutdownRequested <=> state = "EXITING"
    /\ wpc \in HelperPCs =>
         IF wGoal = "exit"
           THEN shutdownRequested
           ELSE /\ state \in {"PREPARING", "RETRYING", "EXITING"}
                /\ ~prepareRequested
    /\ wpc \in {"setup_done", "open", "publish"} => wGoal = "prepare"
    /\ wpc \in {"fork", "helper", "terminating"} /\ script = "setup"
         => wGoal = "prepare"
    /\ wpc \in ExitPCs => shutdownRequested
    /\ workerFinished <=> wpc = "exited"
    /\ cycleInProgress <=> wpc \in GesturePCs

(* Only run_helper has a child, and it is the script it was called with.   *)
ChildBelongs ==
    /\ child # "none" => wpc \in {"helper", "terminating"}
    /\ child = "cleanup" => script = "cleanup"
    /\ child \in {"checking", "building", "undoing", "committed"}
         => script = "setup"
    /\ child = "exited_ok" /\ script = "cleanup" => gadget = "none"
    /\ signalled => wpc = "terminating"

(* Cleanup runs on owned state, setup on state that is not owned.          *)
OwnershipFollowsWorker ==
    /\ wpc \in {"fork", "helper", "terminating"}
         => (setupOwned <=> script = "cleanup")
    /\ wpc = "cleanup_done" =>
         setupOwned /\ script = "cleanup" /\ (wResult => gadget = "none")
    /\ wpc = "cleaned" => (wResult <=> ~setupOwned)
    /\ wpc = "setup_done" => ~setupOwned
    /\ wpc \in {"open", "publish"} => setupOwned
    /\ wpc = "publish" /\ wFd => gadget = "ready"
    /\ wpc \in ExitPCs => (shutdownResult = 0 <=> ~setupOwned)
    /\ wpc \notin ExitPCs => shutdownResult = 0

(* The descriptor is closed before the first helper of an iteration runs.  *)
DeviceFollowsWorker ==
    hidOpen => wpc \in {"top", "deadline", "idle", "sleeping", "cleanup"}
                       \union GesturePCs

SleepersAreWaiting ==
    /\ "worker" \in asleep => wpc = "sleeping"
    /\ "waiter" \in asleep => waiter # "none"

Consistent ==
    /\ RequestsAgree
    /\ ChildBelongs
    /\ OwnershipFollowsWorker
    /\ DeviceFollowsWorker
    /\ SleepersAreWaiting
    /\ DeviceIsOurs
    /\ GestureHasDevice
    /\ NoLostWakeup
    /\ NoOrphanedPreparation
    /\ StopEndsThisGesture

IInv == TypeOK /\ Consistent

----------------------------------------------------------------------------
(* What the documents say and the code does not do.                        *)

(* docs/ui-flow.md: "Successful exit requires runtime cleanup success."    *)
(* Exit code 0 should mean that nothing is left of what this run built.    *)
SuccessfulExitIsClean ==
    workerFinished /\ shutdownResult = 0 => gadget = "none"

(* readme.md: on DISCONNECTED or ERROR "press A for a safe                 *)
(* cleanup-and-retry cycle".  A retry only cleans what is owned, so a live *)
(* gadget should be owned in these states.                                 *)
RetryCanClean ==
    state \in {"ERROR", "DISCONNECTED"} /\ gadget = "ready" => setupOwned

----------------------------------------------------------------------------
(* Liveness, under FairSpec.                                               *)

(* Shutdown ends, however the helper scripts behave.                       *)
ShutdownCompletes == shutdownRequested ~> workerFinished

(* A stop that was accepted during a gesture takes effect.                 *)
StopTakesEffect == stopAfterCycle ~> state # "ACTIVE"

(* A session whose countdown has run out goes on to a gesture unless it is *)
(* stopped or its countdown set again.                                     *)
TimerFires ==
    state = "ACTIVE" /\ nextReport = 0
        ~> cycleInProgress \/ state # "ACTIVE" \/ nextReport > 0

----------------------------------------------------------------------------
(* app_runtime_snapshot, as far as callers act on it, and the promise it   *)
(* makes.                                                                  *)
Snapshot == INSTANCE Lifecycle WITH
    gesture  <- cycleInProgress,
    owned    <- setupOwned,
    complete <- workerFinished,
    outcome  <- IF workerFinished THEN shutdownResult ELSE 0

(* Callers that only look at snapshots see a Lifecycle.                    *)
ImplementsLifecycle == Snapshot!Spec

(* ... whose preparations, gestures and shutdowns come to an end.          *)
ImplementsFairLifecycle == Snapshot!FairSpec
=============================================================================
