------------------------------- MODULE Gadget -------------------------------
(***************************************************************************)
(* scripts/gadget_setup.sh and scripts/gadget_cleanup.sh, command by       *)
(* command, over the resources they make and remove: the kernel module,    *)
(* the state file, the gadget directory and its binding to the UDC.  One   *)
(* script runs at a time.  Any command may fail, a SIGTERM or SIGKILL may  *)
(* arrive between any two, and other programs may load the module or take  *)
(* the UDC meanwhile.                                                      *)
(***************************************************************************)
EXTENDS Integers, FiniteSets

CONSTANT
    Modes  \* who starts the scripts, and what may go wrong:
           \*   asRuntime       app_runtime.c starts and signals them
           \*   undoFails       commands of a rollback may fail
           \*   recordStays     so may cleanup's removal of the state file
           \*   setupSignals    signals that may reach a running setup
           \*   cleanupSignals  ... and a running cleanup
           \*   others          what other programs may do meanwhile

ASSUME GadgetAssumption ==
    Modes \subseteq [asRuntime : BOOLEAN, undoFails : BOOLEAN, recordStays : BOOLEAN,
                     setupSignals : SUBSET {"TERM", "KILL"},
                     cleanupSignals : SUBSET {"TERM", "KILL"},
                     others : SUBSET {"load", "bind", "use"}]

VARIABLES
    \* What is in the system.
    module,     \* usb_f_hid, and who has loaded it
    stateFile,  \* /tmp/usbjiggler-gadget.state; "empty" until it records
                \* that the module was loaded by setup
    dir,        \* the gadget directory, and whether it holds hid.usb0
    udc,        \* whose gadget the UDC is bound to
    otherHid,   \* another gadget has a HID function, which uses the module
    \* The script process.
    script,     \* which script runs
    pc,         \* its next command
    made,       \* the *_BY_SETUP flags that are 1
    recorded,   \* module_loaded_by_setup, as cleanup has read it
    rc,         \* the status it exits with: 0 or 1
    signal,     \* SIGTERM has been sent to it, or handled by it
    \* Who starts the scripts, and what a setup found.
    mode,       \* the member of Modes that this behaviour is about
    owned,      \* AppRuntime's setup_owned
    found       \* what existed when the script was started and has not been
                \* taken away by others since

resources == <<module, stateFile, dir, udc>>
vars == <<resources, otherHid, script, pc, made, recorded, rc, signal,
          mode, owned, found>>

----------------------------------------------------------------------------
Checks == {"check", "insmod"}
Builds == {"flag_module", "open_state", "write_state", "mkdir", "flag_gadget",
           "configure", "bind", "verify", "commit"}
Undoes == {"undo_bind", "undo_function", "undo_dir", "undo_module",
           "undo_state", "undone"}
Cleans == {"read_state", "unbind", "rm_function", "rmdir", "rmmod",
           "rm_state", "look_at_log"}

Resources == {"module", "state", "dir", "udc"}

TypeOK ==
    /\ module \in {"absent", "ours", "foreign"}
    /\ stateFile \in {"none", "empty", "written"}
    /\ dir \in {"none", "bare", "function"}
    /\ udc \in {"none", "ours", "foreign"}
    /\ otherHid \in BOOLEAN
    /\ script \in {"none", "setup", "cleanup"}
    /\ pc \in Checks \union Builds \union Undoes \union Cleans
              \union {"refused", "committed", "exited"}
    /\ made \subseteq {"MODULE", "STATE", "GADGET"}
    /\ recorded \in BOOLEAN
    /\ rc \in {0, 1}
    /\ signal \in {"none", "pending", "handled"}
    /\ mode \in Modes
    /\ owned \in BOOLEAN
    /\ found \subseteq Resources

(* What setup's checks and commands would run into.                        *)
Existing ==
    {r \in Resources :
        \/ r = "module" /\ module # "absent"
        \/ r = "state"  /\ stateFile # "none"
        \/ r = "dir"    /\ dir # "none"
        \/ r = "udc"    /\ udc # "none"}

(* What is there because of a setup.                                       *)
Ours ==
    {r \in Resources :
        \/ r = "module" /\ module = "ours"
        \/ r = "state"  /\ stateFile # "none"
        \/ r = "dir"    /\ dir # "none"
        \/ r = "udc"    /\ udc = "ours"}

Init ==
    /\ module = "absent"
    /\ stateFile = "none"
    /\ dir = "none"
    /\ udc = "none"
    /\ otherHid = FALSE
    /\ script = "none"
    /\ pc = "exited"
    /\ made = {}
    /\ recorded = FALSE
    /\ rc = 0
    /\ signal = "none"
    /\ mode \in Modes
    /\ owned = FALSE
    /\ found = {}

----------------------------------------------------------------------------
(* The starter: run_helper, or somebody at a shell.                        *)

(* The runtime sets up only what it does not own and cleans up only what   *)
(* it owns.                                                                *)
Start(which, first) ==
    /\ script = "none"
    /\ mode.asRuntime => (owned <=> which = "cleanup")
    /\ script' = which
    /\ pc' = first
    /\ made' = {}
    /\ recorded' = FALSE
    /\ rc' = 0
    /\ signal' = "none"
    /\ found' = Existing
    /\ UNCHANGED <<resources, otherHid, mode, owned>>

StartSetup == Start("setup", "check")
StartCleanup == Start("cleanup", "read_state")

(* The starter learns how the script ended; one it has signalled counts as *)
(* a failure, whatever its status.                                         *)
Reap ==
    /\ script # "none"
    /\ pc = "exited"
    /\ script' = "none"
    /\ owned' = IF rc = 0 /\ signal = "none" THEN script = "setup" ELSE owned
    /\ UNCHANGED <<resources, otherHid, pc, made, recorded, rc, signal, mode, found>>

Signals == IF script = "setup" THEN mode.setupSignals ELSE mode.cleanupSignals

Term ==
    /\ script # "none" /\ pc # "exited"
    /\ "TERM" \in Signals
    /\ signal = "none"
    /\ signal' = "pending"
    /\ UNCHANGED <<resources, otherHid, script, pc, made, recorded, rc, mode,
                   owned, found>>

(* SIGKILL ends the script wherever it is.  The runtime sends it only when *)
(* a SIGTERM has not helped.                                               *)
Kill ==
    /\ script # "none" /\ pc # "exited"
    /\ "KILL" \in Signals
    /\ mode.asRuntime => signal # "none"
    /\ script' = "none"
    /\ pc' = "exited"
    /\ UNCHANGED <<resources, otherHid, made, recorded, rc, signal, mode,
                   owned, found>>

----------------------------------------------------------------------------
(* Commands.  A shell that has a signal pending handles it before the next *)
(* one.                                                                    *)

At(place) == script # "none" /\ pc = place /\ signal # "pending"

Goto(place) == pc' = place /\ UNCHANGED rc

Exit(status) == pc' = "exited" /\ rc' = status

(* exit 1 with the EXIT trap set: finish, which has nothing to undo before *)
(* the first resource is made.                                             *)
Fail == pc' = (IF pc \in Checks THEN "refused" ELSE "undo_bind") /\ rc' = 1

UnchangedByCommand == UNCHANGED <<otherHid, script, signal, mode, owned, found>>
UnchangedBySetup == UNCHANGED recorded /\ UnchangedByCommand

(* Mutant: an existing state file does not stop setup.                     *)
SetupChecksNoState ==
    /\ At("check")
    /\ \/ dir = "none" /\ udc = "none" /\ Goto("insmod")
       \/ Fail
    /\ UNCHANGED <<resources, made>>
    /\ UnchangedBySetup

(* Preconditions, of the system and of the packaged module.                *)
SetupChecks ==
    /\ At("check")
    /\ \/ dir = "none" /\ stateFile = "none" /\ udc = "none" /\ Goto("insmod")
       \/ Fail
    /\ UNCHANGED <<resources, made>>
    /\ UnchangedBySetup

Insmod ==
    /\ At("insmod")
    /\ \/ module = "absent" /\ module' = "ours" /\ Goto("flag_module")
       \/ Fail /\ UNCHANGED module
    /\ UNCHANGED <<stateFile, dir, udc, made>>
    /\ UnchangedBySetup

FlagModule ==
    /\ At("flag_module")
    /\ made' = made \union {"MODULE"}
    /\ Goto("open_state")
    /\ UNCHANGED resources
    /\ UnchangedBySetup

(* Mutant: STATE_CREATED_BY_SETUP is never set.                            *)
OpenStateUnflagged ==
    /\ At("open_state")
    /\ \/ stateFile' = "empty" /\ Goto("write_state")
       \/ Fail /\ UNCHANGED stateFile
    /\ UNCHANGED <<module, dir, udc, made>>
    /\ UnchangedBySetup

(* The flag is set before the file is opened, so that a failure to write   *)
(* it is rolled back as well.                                              *)
OpenState ==
    /\ At("open_state")
    /\ made' = made \union {"STATE"}
    /\ \/ stateFile' = "empty" /\ Goto("write_state")
       \/ Fail /\ UNCHANGED stateFile
    /\ UNCHANGED <<module, dir, udc>>
    /\ UnchangedBySetup

WriteState ==
    /\ At("write_state")
    /\ \/ stateFile' = "written" /\ Goto("mkdir")
       \/ Fail /\ UNCHANGED stateFile
    /\ UNCHANGED <<module, dir, udc, made>>
    /\ UnchangedBySetup

Mkdir ==
    /\ At("mkdir")
    /\ \/ dir = "none" /\ dir' = "bare" /\ Goto("flag_gadget")
       \/ Fail /\ UNCHANGED dir
    /\ UNCHANGED <<module, stateFile, udc, made>>
    /\ UnchangedBySetup

FlagGadget ==
    /\ At("flag_gadget")
    /\ made' = made \union {"GADGET"}
    /\ Goto("configure")
    /\ UNCHANGED resources
    /\ UnchangedBySetup

Configure ==
    /\ At("configure")
    /\ \/ dir' = "function" /\ Goto("bind")
       \/ dir' \in {"bare", "function"} /\ Fail
    /\ UNCHANGED <<module, stateFile, udc, made>>
    /\ UnchangedBySetup

(* The kernel refuses a UDC that has another owner.                        *)
Bind ==
    /\ At("bind")
    /\ \/ udc = "none" /\ udc' = "ours" /\ Goto("verify")
       \/ Fail /\ UNCHANGED udc
    /\ UNCHANGED <<module, stateFile, dir, made>>
    /\ UnchangedBySetup

(* /dev/hidg0 appears in time, and the kernel log shows no fault.          *)
Verify ==
    /\ At("verify")
    /\ Goto("commit") \/ Fail
    /\ UNCHANGED <<resources, made>>
    /\ UnchangedBySetup

(* SETUP_COMPLETE=1, and the traps are reset: from here on nothing is      *)
(* rolled back.                                                            *)
Commit ==
    /\ At("commit")
    /\ Goto("committed")
    /\ UNCHANGED <<resources, made>>
    /\ UnchangedBySetup

ExitReady ==
    /\ At("committed")
    /\ Exit(0)
    /\ UNCHANGED <<resources, made>>
    /\ UnchangedBySetup

----------------------------------------------------------------------------
(* finish: the traps are reset first; every command's failure is ignored.  *)

Undoing(flag) == flag \in made

(* A removal by the rollback that may fail.                                *)
Gone(value, was) == IF mode.undoFails THEN {value, was} ELSE {value}

UndoBind ==
    /\ At("undo_bind")
    /\ udc' \in IF Undoing("GADGET") /\ udc = "ours" THEN Gone("none", udc)
                                                     ELSE {udc}
    /\ Goto("undo_function")
    /\ UNCHANGED <<module, stateFile, dir, made>>
    /\ UnchangedBySetup

(* Unlinking the function makes the kernel release the UDC.                *)
UndoFunction ==
    /\ At("undo_function")
    /\ dir' \in IF Undoing("GADGET") /\ dir = "function" THEN Gone("bare", dir)
                                                         ELSE {dir}
    /\ udc' = IF udc = "ours" /\ dir' = "bare" THEN "none" ELSE udc
    /\ Goto("undo_dir")
    /\ UNCHANGED <<module, stateFile, made>>
    /\ UnchangedBySetup

UndoDir ==
    /\ At("undo_dir")
    /\ dir' \in IF Undoing("GADGET") /\ dir = "bare" THEN Gone("none", dir)
                                                     ELSE {dir}
    /\ Goto("undo_module")
    /\ UNCHANGED <<module, stateFile, udc, made>>
    /\ UnchangedBySetup

(* The kernel does not unload a module that a function uses.               *)
ModuleUnused == dir # "function" /\ ~otherHid

UndoModule ==
    /\ At("undo_module")
    /\ module' \in IF Undoing("MODULE") /\ module # "absent" /\ ModuleUnused
                   THEN Gone("absent", module) ELSE {module}
    /\ Goto("undo_state")
    /\ UNCHANGED <<stateFile, dir, udc, made>>
    /\ UnchangedBySetup

UndoState ==
    /\ At("undo_state")
    /\ stateFile' \in IF Undoing("STATE") THEN Gone("none", stateFile)
                                          ELSE {stateFile}
    /\ Goto("undone")
    /\ UNCHANGED <<module, dir, udc, made>>
    /\ UnchangedBySetup

(* The end of finish; a fault in the kernel log turns the status to 1.     *)
ExitUndone ==
    /\ At("undone") \/ At("refused")
    /\ \E status \in {rc, 1} : Exit(status)
    /\ UNCHANGED <<resources, made>>
    /\ UnchangedBySetup

----------------------------------------------------------------------------
(* gadget_cleanup.sh                                                       *)

UnchangedByCleanup == UNCHANGED made /\ UnchangedByCommand

(* Mutant: the record is removed when it has been read.                    *)
ReadStateConsumes ==
    /\ At("read_state")
    /\ recorded' = (stateFile = "written")
    /\ stateFile' = "none"
    /\ Goto("unbind") \/ Exit(1)
    /\ UNCHANGED <<module, dir, udc>>
    /\ UnchangedByCleanup

(* Without a complete record nothing is known of the module.               *)
ReadState ==
    /\ At("read_state")
    /\ recorded' = (stateFile = "written")
    /\ Goto("unbind") \/ Exit(1)
    /\ UNCHANGED resources
    /\ UnchangedByCleanup

Unbind ==
    /\ At("unbind")
    /\ \/ dir # "none" /\ udc = "ours" /\ udc' = "none" /\ Goto("rm_function")
       \/ ~(dir # "none" /\ udc = "ours") /\ UNCHANGED udc /\ Goto("rm_function")
       \/ dir # "none" /\ udc = "ours" /\ UNCHANGED udc /\ Exit(1)
    /\ UNCHANGED <<module, stateFile, dir, recorded>>
    /\ UnchangedByCleanup

RmFunction ==
    /\ At("rm_function")
    /\ \/ dir = "function" /\ dir' = "bare" /\ Goto("rmdir")
       \/ dir # "function" /\ UNCHANGED dir /\ Goto("rmdir")
       \/ dir # "none" /\ UNCHANGED dir /\ Exit(1)
    /\ UNCHANGED <<module, stateFile, udc, recorded>>
    /\ UnchangedByCleanup

Rmdir ==
    /\ At("rmdir")
    /\ \/ dir' = "none" /\ Goto("rmmod")
       \/ dir # "none" /\ UNCHANGED dir /\ Exit(1)
    /\ UNCHANGED <<module, stateFile, udc, recorded>>
    /\ UnchangedByCleanup

(* Mutant: a module that cannot be unloaded does not stop cleanup.         *)
RmmodIgnoresFailure ==
    /\ At("rmmod")
    /\ \/ recorded /\ module # "absent" /\ ~otherHid
          /\ module' = "absent" /\ Goto("rm_state")
       \/ UNCHANGED module /\ Goto("rm_state")
    /\ UNCHANGED <<stateFile, dir, udc, recorded>>
    /\ UnchangedByCleanup

Rmmod ==
    /\ At("rmmod")
    /\ \/ recorded /\ module # "absent" /\ ~otherHid
          /\ module' = "absent" /\ Goto("rm_state")
       \/ ~(recorded /\ module # "absent") /\ UNCHANGED module /\ Goto("rm_state")
       \/ recorded /\ module # "absent" /\ UNCHANGED module /\ Exit(1)
    /\ UNCHANGED <<stateFile, dir, udc, recorded>>
    /\ UnchangedByCleanup

(* Nobody looks at how rm -f ends.                                         *)
RmState ==
    /\ At("rm_state")
    /\ stateFile' \in {"none"} \union (IF mode.recordStays THEN {stateFile} ELSE {})
    /\ Goto("look_at_log")
    /\ UNCHANGED <<module, dir, udc, recorded>>
    /\ UnchangedByCleanup

LookAtLog ==
    /\ At("look_at_log")
    /\ \E status \in {0, 1} : Exit(status)
    /\ UNCHANGED <<resources, recorded>>
    /\ UnchangedByCleanup

----------------------------------------------------------------------------
(* The shell handles a SIGTERM: setup's trap calls finish, with $? of the  *)
(* command just run as the status to exit with; without a trap the shell   *)
(* ends.                                                                   *)
HandleTerm ==
    /\ script # "none" /\ pc # "exited"
    /\ signal = "pending"
    /\ signal' = "handled"
    /\ \/ pc \in Checks /\ pc' = "refused" /\ rc' \in {0, 1}
       \/ pc \in Builds /\ pc' = "undo_bind" /\ rc' \in {0, 1}
       \/ pc \notin Checks \union Builds /\ Exit(1)
    /\ UNCHANGED <<resources, otherHid, script, made, recorded, mode, owned,
                   found>>

(* Other programs load and unload the module, take and free the UDC, and   *)
(* add and remove HID functions of their own.                              *)
OtherProgram ==
    /\ \/ /\ "load" \in mode.others
          /\ \/ module = "absent" /\ module' = "foreign" /\ UNCHANGED found
             \/ /\ module = "foreign" /\ ModuleUnused
                /\ module' = "absent" /\ found' = found \ {"module"}
          /\ UNCHANGED <<udc, otherHid>>
       \/ /\ "bind" \in mode.others
          /\ \/ udc = "none" /\ udc' = "foreign" /\ UNCHANGED found
             \/ udc = "foreign" /\ udc' = "none" /\ found' = found \ {"udc"}
          /\ UNCHANGED <<module, otherHid>>
       \/ /\ "use" \in mode.others
          /\ otherHid' = ~otherHid
          /\ otherHid' => module # "absent"
          /\ UNCHANGED <<module, udc, found>>
    /\ UNCHANGED <<stateFile, dir, script, pc, made, recorded, rc, signal, mode,
                   owned>>

Setup ==
    \/ SetupChecks \/ Insmod \/ FlagModule \/ OpenState \/ WriteState
    \/ Mkdir \/ FlagGadget \/ Configure \/ Bind \/ Verify \/ Commit
    \/ ExitReady
    \/ UndoBind \/ UndoFunction \/ UndoDir \/ UndoModule \/ UndoState
    \/ ExitUndone

Cleanup ==
    \/ ReadState \/ Unbind \/ RmFunction \/ Rmdir \/ Rmmod \/ RmState
    \/ LookAtLog

Starter == StartSetup \/ StartCleanup \/ Reap \/ Term \/ Kill

Next == Starter \/ Setup \/ Cleanup \/ HandleTerm \/ OtherProgram

Spec == Init /\ [][Next]_vars

----------------------------------------------------------------------------
(* The runtime's own starts: as long as the module that its setup loaded   *)
(* is there and the runtime owns it, the state file says so: whatever      *)
(* ended earlier cleanups, the next one will know what to unload.          *)
OwnedIsRecorded ==
    mode.asRuntime /\ owned /\ module = "ours" => stateFile = "written"

(* readme.md: the program "removes only resources owned by the current     *)
(* invocation".  What existed when setup was started, it leaves alone,     *)
(* failures, signals and rollback included.                                *)
SetupTouchesOnlyItsOwn ==
    [][Setup => found \cap Existing \subseteq Existing']_vars

(* A setup that fails by itself, and whose rollback commands work - the    *)
(* kernel does not unload a module that others use - leaves nothing of its *)
(* own behind.                                                             *)
RollbackRestores ==
    /\ script = "setup" /\ pc = "exited" /\ rc = 1
    /\ signal = "none" /\ ~mode.undoFails /\ "use" \notin mode.others
    => Ours \subseteq found

(* A cleanup that has found the record of the setup and exits with 0 has   *)
(* removed everything, but for a record that could not be removed.         *)
CleanupRemovesRecorded ==
    script = "cleanup" /\ pc = "exited" /\ rc = 0 /\ recorded =>
        Ours \subseteq IF mode.recordStays THEN {"state"} ELSE {}

(* gadget_cleanup.sh logs "GADGET_CLEANUP_COMPLETE=YES" and exits with 0   *)
(* when it is done; nothing of ours should be left then.                   *)
CleanupCompleteIsTrue ==
    script = "cleanup" /\ pc = "exited" /\ rc = 0 => Ours = {}

----------------------------------------------------------------------------
(* The two scripts as AppRuntime models them.                              *)

seenChild ==
    CASE script = "none" -> "none"
      [] script # "none" /\ pc = "exited" ->
           IF rc = 0 /\ signal # "handled" THEN "exited_ok" ELSE "exited_failed"
      [] script = "cleanup" /\ pc # "exited" -> "cleanup"
      [] script = "setup" /\ pc \in Checks \union {"refused"} -> "checking"
      [] script = "setup" /\ pc \in Builds -> "building"
      [] script = "setup" /\ pc \in Undoes -> "undoing"
      [] script = "setup" /\ pc = "committed" -> "committed"

seenGadget ==
    CASE Ours = {} -> "none"
      [] Ours = Resources /\ stateFile = "written" /\ dir = "function" -> "ready"
      [] OTHER -> "partial"

Seen == INSTANCE AppRuntime WITH
    SegmentFrames <- 1, MaxMovePx <- 1, MaxIntervalSec <- 1,
    Settings <- {}, InitialSettings <- {}, LeftBehind <- {}, WaitTargets <- {},
    RollbackIsReliable <- FALSE,
    state <- "IDLE", settings <- {}, nextReport <- 0, setupOwned <- owned,
    prepareRequested <- FALSE, shutdownRequested <- FALSE,
    cycleInProgress <- FALSE, stopAfterCycle <- FALSE, hidOpen <- FALSE,
    workerFinished <- FALSE, shutdownResult <- 0, joined <- FALSE,
    asleep <- {}, waiter <- "none", wpc <- "helper", wGoal <- "prepare",
    wNextReport <- 0, wResult <- FALSE, wFd <- FALSE,
    vectors <- << >>, vec <- 1, frame <- 1, cursor <- <<0, 0>>,
    child <- seenChild, script <- script, expired <- FALSE,
    signalled <- (signal = "pending"), gadget <- seenGadget

(* Every step of the scripts is one that AppRuntime lets its helper        *)
(* process make, or invisible to it.  AppRuntime takes a cleanup that      *)
(* exits with 0 at its word, so this needs that the record can be removed. *)
ScriptsAsRuntimeAssumes ==
    [][mode.asRuntime /\ ~mode.recordStays /\ ~Starter => Seen!Helper]_<<seenChild, seenGadget>>
=============================================================================
