---------------------------- MODULE GadgetProofs -----------------------------
(***************************************************************************)
(* What the two scripts leave behind, for every set of modes: whoever      *)
(* starts them, whatever fails, is signalled or interferes.                *)
(***************************************************************************)
EXTENDS Gadget, TLAPS

AfterCheck == Builds \union Undoes \union {"insmod", "committed"}
AfterWrite == {"mkdir", "flag_gadget", "configure", "bind", "verify", "commit", "committed"}

(* Where each script can be.                                               *)
PlaceInv ==
    /\ script = "setup" =>
          pc \in Checks \union Builds \union Undoes \union {"refused", "committed", "exited"}
    /\ script = "cleanup" => pc \in Cleans \union {"exited"}
    /\ script = "setup" /\ pc \in Checks \union Builds \union {"committed"} => rc = 0
    /\ script = "setup" /\ pc \in Undoes \union {"refused"} /\ rc = 0 => signal = "handled"
    /\ script = "setup" /\ pc = "write_state" => "STATE" \in made
    /\ script = "setup" /\ pc \in {"configure", "bind"} => "GADGET" \in made

(* What setup found is still there, and has passed its checks.             *)
FoundInv ==
    script = "setup" =>
        /\ "module" \in found => module # "absent"
        /\ "state" \in found => stateFile # "none"
        /\ "dir" \in found => dir # "none"
        /\ "udc" \in found => udc # "none"
        /\ pc \in AfterCheck => found \subseteq {"module"}
        /\ pc \in AfterCheck \ {"insmod"} => "module" \notin found
        /\ made # {} => pc \notin Checks \union {"refused"}

(* The record, for the runtime's own starts and for a cleanup.             *)
RecordInv ==
    /\ OwnedIsRecorded
    /\ mode.asRuntime /\ script # "none" => (owned <=> script = "cleanup")
    /\ script = "setup" /\ pc \in AfterWrite => stateFile = "written"
    /\ script = "setup" /\ pc = "exited" /\ rc = 0 /\ signal = "none" => stateFile = "written"
    /\ script = "cleanup" /\ pc \in {"unbind", "rm_function", "rmdir", "rmmod"} =>
          (recorded <=> stateFile = "written")
    /\ mode.asRuntime /\ script = "cleanup" /\ pc = "rm_state" => module # "ours"

(* What a cleanup has removed when it has come to a place.                 *)
CleanInv ==
    /\ udc = "ours" => dir = "function"
    /\ script = "setup" /\ pc \in {"insmod"} \union (Builds \ {"verify", "commit"}) =>
          udc # "ours"
    /\ script = "setup" /\ pc = "bind" => dir = "function"
    /\ script = "cleanup" =>
          /\ pc \in {"rm_function", "rmdir", "rmmod", "rm_state", "look_at_log"} => udc # "ours"
          /\ pc \in {"rmmod", "rm_state", "look_at_log"} => dir = "none"
          /\ pc \in {"rm_state", "look_at_log"} /\ recorded => module # "ours"
          /\ pc = "look_at_log" /\ ~mode.recordStays => stateFile = "none"
    /\ CleanupRemovesRecorded

(* What is there of a setup's own is flagged and not undone yet, about to  *)
(* be flagged, or left by a success.                                       *)
Kept(resource, flag, unflagged, undone) ==
    \/ resource \in found
    \/ flag \in made /\ pc \notin undone \union {"exited"}
    \/ pc = unflagged
    \/ pc = "exited" /\ rc = 0

RollbackInv ==
    /\ "use" \notin mode.others => ~otherHid
    /\ script = "setup" /\ signal = "none" /\ ~mode.undoFails /\ "use" \notin mode.others =>
        /\ module = "ours" => Kept("module", "MODULE", "flag_module", {"undo_state", "undone"})
        /\ stateFile # "none" => Kept("state", "STATE", "none", {"undone"})
        /\ dir # "none" => Kept("dir", "GADGET", "flag_gadget",
                               {"undo_module", "undo_state", "undone"})
        /\ udc = "ours" => Kept("udc", "GADGET", "none",
                               {"undo_function", "undo_dir", "undo_module", "undo_state", "undone"})
        /\ pc = "undo_dir" /\ "dir" \notin found => dir # "function"

(* What a setup has made on its way to a command.                          *)
ChainInv ==
    script = "setup" =>
        /\ pc = "insmod" => stateFile = "none" /\ dir = "none"
        /\ pc \in Builds \union {"committed"} => module = "ours"
        /\ pc \in {"bind", "verify", "commit", "committed"} => dir = "function"
        /\ pc \in {"verify", "commit", "committed"} => udc = "ours"

GadgetInv == TypeOK /\ PlaceInv /\ FoundInv /\ RecordInv /\ CleanInv
             /\ RollbackInv /\ ChainInv

(* Every command leaves every variable in its range.                       *)
LEMMA TypeStep ==
    ASSUME TypeOK, [Next]_vars
    PROVE  TypeOK'
PROOF
<1> USE DEF At, Goto, Exit, Fail, UnchangedByCommand, UnchangedBySetup,
             UnchangedByCleanup, resources, Checks, Builds, Undoes, Cleans, TypeOK
<1>1. CASE StartSetup
  BY <1>1 DEF StartSetup, Start, Existing, Resources
<1>2. CASE StartCleanup
  BY <1>2 DEF StartCleanup, Start, Existing, Resources
<1>3. CASE Reap
  BY <1>3 DEF Reap
<1>4. CASE Term
  BY <1>4 DEF Term, Signals
<1>5. CASE Kill
  BY <1>5 DEF Kill, Signals
<1>6. CASE SetupChecks
  BY <1>6 DEF SetupChecks
<1>7. CASE Insmod
  BY <1>7 DEF Insmod
<1>8. CASE FlagModule
  BY <1>8 DEF FlagModule
<1>9. CASE OpenState
  BY <1>9 DEF OpenState
<1>10. CASE WriteState
  BY <1>10 DEF WriteState
<1>11. CASE Mkdir
  BY <1>11 DEF Mkdir
<1>12. CASE FlagGadget
  BY <1>12 DEF FlagGadget
<1>13. CASE Configure
  BY <1>13 DEF Configure
<1>14. CASE Bind
  BY <1>14 DEF Bind
<1>15. CASE Verify
  BY <1>15 DEF Verify
<1>16. CASE Commit
  BY <1>16 DEF Commit
<1>17. CASE ExitReady
  BY <1>17 DEF ExitReady
<1>18. CASE UndoBind
  BY <1>18 DEF UndoBind, Undoing, Gone
<1>19. CASE UndoFunction
  BY <1>19 DEF UndoFunction, Undoing, Gone
<1>20. CASE UndoDir
  BY <1>20 DEF UndoDir, Undoing, Gone
<1>21. CASE UndoModule
  BY <1>21 DEF UndoModule, Undoing, Gone, ModuleUnused
<1>22. CASE UndoState
  BY <1>22 DEF UndoState, Undoing, Gone
<1>23. CASE ExitUndone
  BY <1>23 DEF ExitUndone
<1>24. CASE ReadState
  BY <1>24 DEF ReadState
<1>25. CASE Unbind
  BY <1>25 DEF Unbind
<1>26. CASE RmFunction
  BY <1>26 DEF RmFunction
<1>27. CASE Rmdir
  BY <1>27 DEF Rmdir
<1>28. CASE Rmmod
  BY <1>28 DEF Rmmod
<1>29. CASE RmState
  BY <1>29 DEF RmState
<1>30. CASE LookAtLog
  BY <1>30 DEF LookAtLog
<1>31. CASE HandleTerm
  BY <1>31 DEF HandleTerm
<1>32. CASE OtherProgram
  <2>1. otherHid' \in BOOLEAN
    BY <1>32, Zenon DEF OtherProgram
  <2>. QED
    BY <1>32, <2>1 DEF OtherProgram, ModuleUnused
<1>33. CASE UNCHANGED vars
  BY <1>33 DEF vars
<1>. QED
  BY <1>1, <1>2, <1>3, <1>4, <1>5, <1>6, <1>7, <1>8, <1>9, <1>10, <1>11,
     <1>12, <1>13, <1>14, <1>15, <1>16, <1>17, <1>18, <1>19, <1>20, <1>21,
     <1>22, <1>23, <1>24, <1>25, <1>26, <1>27, <1>28, <1>29, <1>30, <1>31,
     <1>32, <1>33
  DEF Next, Starter, Setup, Cleanup

(* A script stays among its own commands; its status is 0 until it fails.  *)
LEMMA PlaceStep ==
    ASSUME TypeOK,
             PlaceInv, [Next]_vars
    PROVE  PlaceInv'
PROOF
<1> USE DEF At, Goto, Exit, Fail, UnchangedByCommand, UnchangedBySetup,
             UnchangedByCleanup, resources, Checks, Builds, Undoes, Cleans, TypeOK,
             PlaceInv
<1>1. CASE StartSetup
  BY <1>1 DEF StartSetup, Start
<1>2. CASE StartCleanup
  BY <1>2 DEF StartCleanup, Start
<1>3. CASE Reap
  BY <1>3 DEF Reap
<1>4. CASE Term
  BY <1>4 DEF Term, Signals
<1>5. CASE Kill
  BY <1>5 DEF Kill, Signals
<1>6. CASE SetupChecks
  BY <1>6 DEF SetupChecks
<1>7. CASE Insmod
  BY <1>7 DEF Insmod
<1>8. CASE FlagModule
  BY <1>8 DEF FlagModule
<1>9. CASE OpenState
  BY <1>9 DEF OpenState
<1>10. CASE WriteState
  BY <1>10 DEF WriteState
<1>11. CASE Mkdir
  BY <1>11 DEF Mkdir
<1>12. CASE FlagGadget
  BY <1>12 DEF FlagGadget
<1>13. CASE Configure
  BY <1>13 DEF Configure
<1>14. CASE Bind
  BY <1>14 DEF Bind
<1>15. CASE Verify
  BY <1>15 DEF Verify
<1>16. CASE Commit
  BY <1>16 DEF Commit
<1>17. CASE ExitReady
  BY <1>17 DEF ExitReady
<1>18. CASE UndoBind
  BY <1>18 DEF UndoBind, Undoing, Gone
<1>19. CASE UndoFunction
  BY <1>19 DEF UndoFunction, Undoing, Gone
<1>20. CASE UndoDir
  BY <1>20 DEF UndoDir, Undoing, Gone
<1>21. CASE UndoModule
  BY <1>21 DEF UndoModule, Undoing, Gone, ModuleUnused
<1>22. CASE UndoState
  BY <1>22 DEF UndoState, Undoing, Gone
<1>23. CASE ExitUndone
  BY <1>23 DEF ExitUndone
<1>24. CASE ReadState
  BY <1>24 DEF ReadState
<1>25. CASE Unbind
  BY <1>25 DEF Unbind
<1>26. CASE RmFunction
  BY <1>26 DEF RmFunction
<1>27. CASE Rmdir
  BY <1>27 DEF Rmdir
<1>28. CASE Rmmod
  BY <1>28 DEF Rmmod
<1>29. CASE RmState
  BY <1>29 DEF RmState
<1>30. CASE LookAtLog
  BY <1>30 DEF LookAtLog
<1>31. CASE HandleTerm
  BY <1>31 DEF HandleTerm
<1>32. CASE OtherProgram
  BY <1>32 DEF OtherProgram, ModuleUnused
<1>33. CASE UNCHANGED vars
  BY <1>33 DEF vars
<1>. QED
  BY <1>1, <1>2, <1>3, <1>4, <1>5, <1>6, <1>7, <1>8, <1>9, <1>10, <1>11,
     <1>12, <1>13, <1>14, <1>15, <1>16, <1>17, <1>18, <1>19, <1>20, <1>21,
     <1>22, <1>23, <1>24, <1>25, <1>26, <1>27, <1>28, <1>29, <1>30, <1>31,
     <1>32, <1>33
  DEF Next, Starter, Setup, Cleanup

(* A setup past its checks has found at most somebody's module.            *)
LEMMA FoundStep ==
    ASSUME TypeOK,
             PlaceInv, FoundInv, [Next]_vars
    PROVE  FoundInv'
PROOF
<1> USE DEF At, Goto, Exit, Fail, UnchangedByCommand, UnchangedBySetup,
             UnchangedByCleanup, resources, Checks, Builds, Undoes, Cleans, TypeOK,
             PlaceInv, FoundInv, AfterCheck, Resources
<1>1. CASE StartSetup
  BY <1>1 DEF StartSetup, Start, Existing, Resources
<1>2. CASE StartCleanup
  BY <1>2 DEF StartCleanup, Start, Existing, Resources
<1>3. CASE Reap
  BY <1>3 DEF Reap
<1>4. CASE Term
  BY <1>4 DEF Term, Signals
<1>5. CASE Kill
  BY <1>5 DEF Kill, Signals
<1>6. CASE SetupChecks
  BY <1>6 DEF SetupChecks
<1>7. CASE Insmod
  BY <1>7 DEF Insmod
<1>8. CASE FlagModule
  BY <1>8 DEF FlagModule
<1>9. CASE OpenState
  BY <1>9 DEF OpenState
<1>10. CASE WriteState
  BY <1>10 DEF WriteState
<1>11. CASE Mkdir
  BY <1>11 DEF Mkdir
<1>12. CASE FlagGadget
  BY <1>12 DEF FlagGadget
<1>13. CASE Configure
  BY <1>13 DEF Configure
<1>14. CASE Bind
  BY <1>14 DEF Bind
<1>15. CASE Verify
  BY <1>15 DEF Verify
<1>16. CASE Commit
  BY <1>16 DEF Commit
<1>17. CASE ExitReady
  BY <1>17 DEF ExitReady
<1>18. CASE UndoBind
  BY <1>18 DEF UndoBind, Undoing, Gone
<1>19. CASE UndoFunction
  BY <1>19 DEF UndoFunction, Undoing, Gone
<1>20. CASE UndoDir
  BY <1>20 DEF UndoDir, Undoing, Gone
<1>21. CASE UndoModule
  BY <1>21 DEF UndoModule, Undoing, Gone, ModuleUnused
<1>22. CASE UndoState
  BY <1>22 DEF UndoState, Undoing, Gone
<1>23. CASE ExitUndone
  BY <1>23 DEF ExitUndone
<1>24. CASE ReadState
  BY <1>24 DEF ReadState
<1>25. CASE Unbind
  BY <1>25 DEF Unbind
<1>26. CASE RmFunction
  BY <1>26 DEF RmFunction
<1>27. CASE Rmdir
  BY <1>27 DEF Rmdir
<1>28. CASE Rmmod
  BY <1>28 DEF Rmmod
<1>29. CASE RmState
  BY <1>29 DEF RmState
<1>30. CASE LookAtLog
  BY <1>30 DEF LookAtLog
<1>31. CASE HandleTerm
  BY <1>31 DEF HandleTerm
<1>32. CASE OtherProgram
  BY <1>32 DEF OtherProgram, ModuleUnused
<1>33. CASE UNCHANGED vars
  BY <1>33 DEF vars
<1>. QED
  BY <1>1, <1>2, <1>3, <1>4, <1>5, <1>6, <1>7, <1>8, <1>9, <1>10, <1>11,
     <1>12, <1>13, <1>14, <1>15, <1>16, <1>17, <1>18, <1>19, <1>20, <1>21,
     <1>22, <1>23, <1>24, <1>25, <1>26, <1>27, <1>28, <1>29, <1>30, <1>31,
     <1>32, <1>33
  DEF Next, Starter, Setup, Cleanup

(* The state file is complete before anything is bound, and goes last.     *)
LEMMA RecordStep ==
    ASSUME TypeOK,
             PlaceInv, RecordInv, [Next]_vars
    PROVE  RecordInv'
PROOF
<1> USE DEF At, Goto, Exit, Fail, UnchangedByCommand, UnchangedBySetup,
             UnchangedByCleanup, resources, Checks, Builds, Undoes, Cleans, TypeOK,
             PlaceInv, RecordInv, OwnedIsRecorded, AfterWrite
<1>1. CASE StartSetup
  BY <1>1, GadgetAssumption DEF StartSetup, Start
<1>2. CASE StartCleanup
  BY <1>2, GadgetAssumption DEF StartCleanup, Start
<1>3. CASE Reap
  BY <1>3, GadgetAssumption DEF Reap
<1>4. CASE Term
  BY <1>4, GadgetAssumption DEF Term, Signals
<1>5. CASE Kill
  BY <1>5, GadgetAssumption DEF Kill, Signals
<1>6. CASE SetupChecks
  BY <1>6, GadgetAssumption DEF SetupChecks
<1>7. CASE Insmod
  BY <1>7, GadgetAssumption DEF Insmod
<1>8. CASE FlagModule
  BY <1>8, GadgetAssumption DEF FlagModule
<1>9. CASE OpenState
  BY <1>9, GadgetAssumption DEF OpenState
<1>10. CASE WriteState
  BY <1>10, GadgetAssumption DEF WriteState
<1>11. CASE Mkdir
  BY <1>11, GadgetAssumption DEF Mkdir
<1>12. CASE FlagGadget
  BY <1>12, GadgetAssumption DEF FlagGadget
<1>13. CASE Configure
  BY <1>13, GadgetAssumption DEF Configure
<1>14. CASE Bind
  BY <1>14, GadgetAssumption DEF Bind
<1>15. CASE Verify
  BY <1>15, GadgetAssumption DEF Verify
<1>16. CASE Commit
  BY <1>16, GadgetAssumption DEF Commit
<1>17. CASE ExitReady
  BY <1>17, GadgetAssumption DEF ExitReady
<1>18. CASE UndoBind
  BY <1>18, GadgetAssumption DEF UndoBind, Undoing, Gone
<1>19. CASE UndoFunction
  BY <1>19, GadgetAssumption DEF UndoFunction, Undoing, Gone
<1>20. CASE UndoDir
  BY <1>20, GadgetAssumption DEF UndoDir, Undoing, Gone
<1>21. CASE UndoModule
  BY <1>21, GadgetAssumption DEF UndoModule, Undoing, Gone, ModuleUnused
<1>22. CASE UndoState
  BY <1>22, GadgetAssumption DEF UndoState, Undoing, Gone
<1>23. CASE ExitUndone
  BY <1>23, GadgetAssumption DEF ExitUndone
<1>24. CASE ReadState
  BY <1>24, GadgetAssumption DEF ReadState
<1>25. CASE Unbind
  BY <1>25, GadgetAssumption DEF Unbind
<1>26. CASE RmFunction
  BY <1>26, GadgetAssumption DEF RmFunction
<1>27. CASE Rmdir
  BY <1>27, GadgetAssumption DEF Rmdir
<1>28. CASE Rmmod
  BY <1>28, GadgetAssumption DEF Rmmod
<1>29. CASE RmState
  BY <1>29, GadgetAssumption DEF RmState
<1>30. CASE LookAtLog
  BY <1>30, GadgetAssumption DEF LookAtLog
<1>31. CASE HandleTerm
  BY <1>31, GadgetAssumption DEF HandleTerm
<1>32. CASE OtherProgram
  BY <1>32, GadgetAssumption DEF OtherProgram, ModuleUnused
<1>33. CASE UNCHANGED vars
  BY <1>33 DEF vars
<1>. QED
  BY <1>1, <1>2, <1>3, <1>4, <1>5, <1>6, <1>7, <1>8, <1>9, <1>10, <1>11,
     <1>12, <1>13, <1>14, <1>15, <1>16, <1>17, <1>18, <1>19, <1>20, <1>21,
     <1>22, <1>23, <1>24, <1>25, <1>26, <1>27, <1>28, <1>29, <1>30, <1>31,
     <1>32, <1>33
  DEF Next, Starter, Setup, Cleanup

(* A cleanup comes to a place only past the removals before it.            *)
LEMMA CleanStep ==
    ASSUME TypeOK,
             PlaceInv, RecordInv, CleanInv, [Next]_vars
    PROVE  CleanInv'
PROOF
<1> USE DEF At, Goto, Exit, Fail, UnchangedByCommand, UnchangedBySetup,
             UnchangedByCleanup, resources, Checks, Builds, Undoes, Cleans, TypeOK,
             PlaceInv, RecordInv, CleanInv, CleanupRemovesRecorded,
             Ours, Resources
<1>1. CASE StartSetup
  BY <1>1 DEF StartSetup, Start
<1>2. CASE StartCleanup
  BY <1>2 DEF StartCleanup, Start
<1>3. CASE Reap
  BY <1>3 DEF Reap
<1>4. CASE Term
  BY <1>4 DEF Term, Signals
<1>5. CASE Kill
  BY <1>5 DEF Kill, Signals
<1>6. CASE SetupChecks
  BY <1>6 DEF SetupChecks
<1>7. CASE Insmod
  BY <1>7 DEF Insmod
<1>8. CASE FlagModule
  BY <1>8 DEF FlagModule
<1>9. CASE OpenState
  BY <1>9 DEF OpenState
<1>10. CASE WriteState
  BY <1>10 DEF WriteState
<1>11. CASE Mkdir
  BY <1>11 DEF Mkdir
<1>12. CASE FlagGadget
  BY <1>12 DEF FlagGadget
<1>13. CASE Configure
  BY <1>13 DEF Configure
<1>14. CASE Bind
  BY <1>14 DEF Bind
<1>15. CASE Verify
  BY <1>15 DEF Verify
<1>16. CASE Commit
  BY <1>16 DEF Commit
<1>17. CASE ExitReady
  BY <1>17 DEF ExitReady
<1>18. CASE UndoBind
  BY <1>18 DEF UndoBind, Undoing, Gone
<1>19. CASE UndoFunction
  BY <1>19 DEF UndoFunction, Undoing, Gone
<1>20. CASE UndoDir
  BY <1>20 DEF UndoDir, Undoing, Gone
<1>21. CASE UndoModule
  BY <1>21 DEF UndoModule, Undoing, Gone, ModuleUnused
<1>22. CASE UndoState
  BY <1>22 DEF UndoState, Undoing, Gone
<1>23. CASE ExitUndone
  BY <1>23 DEF ExitUndone
<1>24. CASE ReadState
  BY <1>24 DEF ReadState
<1>25. CASE Unbind
  BY <1>25 DEF Unbind
<1>26. CASE RmFunction
  BY <1>26 DEF RmFunction
<1>27. CASE Rmdir
  BY <1>27 DEF Rmdir
<1>28. CASE Rmmod
  BY <1>28 DEF Rmmod
<1>29. CASE RmState
  BY <1>29 DEF RmState
<1>30. CASE LookAtLog
  BY <1>30 DEF LookAtLog
<1>31. CASE HandleTerm
  BY <1>31 DEF HandleTerm
<1>32. CASE OtherProgram
  BY <1>32 DEF OtherProgram, ModuleUnused
<1>33. CASE UNCHANGED vars
  BY <1>33 DEF vars
<1>. QED
  BY <1>1, <1>2, <1>3, <1>4, <1>5, <1>6, <1>7, <1>8, <1>9, <1>10, <1>11,
     <1>12, <1>13, <1>14, <1>15, <1>16, <1>17, <1>18, <1>19, <1>20, <1>21,
     <1>22, <1>23, <1>24, <1>25, <1>26, <1>27, <1>28, <1>29, <1>30, <1>31,
     <1>32, <1>33
  DEF Next, Starter, Setup, Cleanup

(* What setup makes is flagged before the next thing is made, so that      *)
(* finish knows what to undo.                                              *)
LEMMA RollbackStep ==
    ASSUME TypeOK,
             PlaceInv, FoundInv, CleanInv, RollbackInv, [Next]_vars
    PROVE  RollbackInv'
PROOF
<1> USE DEF At, Goto, Exit, Fail, UnchangedByCommand, UnchangedBySetup,
             UnchangedByCleanup, resources, Checks, Builds, Undoes, Cleans, TypeOK,
             PlaceInv, FoundInv, AfterCheck, CleanInv, RollbackInv, Kept
<1>1. CASE StartSetup
  BY <1>1, GadgetAssumption DEF StartSetup, Start, Existing, Resources
<1>2. CASE StartCleanup
  BY <1>2, GadgetAssumption DEF StartCleanup, Start, Existing, Resources
<1>3. CASE Reap
  BY <1>3, GadgetAssumption DEF Reap
<1>4. CASE Term
  BY <1>4, GadgetAssumption DEF Term, Signals
<1>5. CASE Kill
  BY <1>5, GadgetAssumption DEF Kill, Signals
<1>6. CASE SetupChecks
  BY <1>6, GadgetAssumption DEF SetupChecks
<1>7. CASE Insmod
  BY <1>7, GadgetAssumption DEF Insmod
<1>8. CASE FlagModule
  BY <1>8, GadgetAssumption DEF FlagModule
<1>9. CASE OpenState
  BY <1>9, GadgetAssumption DEF OpenState
<1>10. CASE WriteState
  BY <1>10, GadgetAssumption DEF WriteState
<1>11. CASE Mkdir
  BY <1>11, GadgetAssumption DEF Mkdir
<1>12. CASE FlagGadget
  BY <1>12, GadgetAssumption DEF FlagGadget
<1>13. CASE Configure
  BY <1>13, GadgetAssumption DEF Configure
<1>14. CASE Bind
  BY <1>14, GadgetAssumption DEF Bind
<1>15. CASE Verify
  BY <1>15, GadgetAssumption DEF Verify
<1>16. CASE Commit
  BY <1>16, GadgetAssumption DEF Commit
<1>17. CASE ExitReady
  BY <1>17, GadgetAssumption DEF ExitReady
<1>18. CASE UndoBind
  BY <1>18, GadgetAssumption DEF UndoBind, Undoing, Gone
<1>19. CASE UndoFunction
  BY <1>19, GadgetAssumption DEF UndoFunction, Undoing, Gone
<1>20. CASE UndoDir
  BY <1>20, GadgetAssumption DEF UndoDir, Undoing, Gone
<1>21. CASE UndoModule
  BY <1>21, GadgetAssumption DEF UndoModule, Undoing, Gone, ModuleUnused
<1>22. CASE UndoState
  BY <1>22, GadgetAssumption DEF UndoState, Undoing, Gone
<1>23. CASE ExitUndone
  BY <1>23, GadgetAssumption DEF ExitUndone
<1>24. CASE ReadState
  BY <1>24, GadgetAssumption DEF ReadState
<1>25. CASE Unbind
  BY <1>25, GadgetAssumption DEF Unbind
<1>26. CASE RmFunction
  BY <1>26, GadgetAssumption DEF RmFunction
<1>27. CASE Rmdir
  BY <1>27, GadgetAssumption DEF Rmdir
<1>28. CASE Rmmod
  BY <1>28, GadgetAssumption DEF Rmmod
<1>29. CASE RmState
  BY <1>29, GadgetAssumption DEF RmState
<1>30. CASE LookAtLog
  BY <1>30, GadgetAssumption DEF LookAtLog
<1>31. CASE HandleTerm
  BY <1>31, GadgetAssumption DEF HandleTerm
<1>32. CASE OtherProgram
  BY <1>32, GadgetAssumption DEF OtherProgram, ModuleUnused
<1>33. CASE UNCHANGED vars
  BY <1>33 DEF vars
<1>. QED
  BY <1>1, <1>2, <1>3, <1>4, <1>5, <1>6, <1>7, <1>8, <1>9, <1>10, <1>11,
     <1>12, <1>13, <1>14, <1>15, <1>16, <1>17, <1>18, <1>19, <1>20, <1>21,
     <1>22, <1>23, <1>24, <1>25, <1>26, <1>27, <1>28, <1>29, <1>30, <1>31,
     <1>32, <1>33
  DEF Next, Starter, Setup, Cleanup

(* Setup's commands run in order.                                          *)
LEMMA ChainStep ==
    ASSUME TypeOK,
             PlaceInv, RecordInv, ChainInv, [Next]_vars
    PROVE  ChainInv'
PROOF
<1> USE DEF At, Goto, Exit, Fail, UnchangedByCommand, UnchangedBySetup,
             UnchangedByCleanup, resources, Checks, Builds, Undoes, Cleans, TypeOK,
             PlaceInv, RecordInv, AfterWrite, ChainInv
<1>1. CASE StartSetup
  BY <1>1 DEF StartSetup, Start
<1>2. CASE StartCleanup
  BY <1>2 DEF StartCleanup, Start
<1>3. CASE Reap
  BY <1>3 DEF Reap
<1>4. CASE Term
  BY <1>4 DEF Term, Signals
<1>5. CASE Kill
  BY <1>5 DEF Kill, Signals
<1>6. CASE SetupChecks
  BY <1>6 DEF SetupChecks
<1>7. CASE Insmod
  BY <1>7 DEF Insmod
<1>8. CASE FlagModule
  BY <1>8 DEF FlagModule
<1>9. CASE OpenState
  BY <1>9 DEF OpenState
<1>10. CASE WriteState
  BY <1>10 DEF WriteState
<1>11. CASE Mkdir
  BY <1>11 DEF Mkdir
<1>12. CASE FlagGadget
  BY <1>12 DEF FlagGadget
<1>13. CASE Configure
  BY <1>13 DEF Configure
<1>14. CASE Bind
  BY <1>14 DEF Bind
<1>15. CASE Verify
  BY <1>15 DEF Verify
<1>16. CASE Commit
  BY <1>16 DEF Commit
<1>17. CASE ExitReady
  BY <1>17 DEF ExitReady
<1>18. CASE UndoBind
  BY <1>18 DEF UndoBind, Undoing, Gone
<1>19. CASE UndoFunction
  BY <1>19 DEF UndoFunction, Undoing, Gone
<1>20. CASE UndoDir
  BY <1>20 DEF UndoDir, Undoing, Gone
<1>21. CASE UndoModule
  BY <1>21 DEF UndoModule, Undoing, Gone, ModuleUnused
<1>22. CASE UndoState
  BY <1>22 DEF UndoState, Undoing, Gone
<1>23. CASE ExitUndone
  BY <1>23 DEF ExitUndone
<1>24. CASE ReadState
  BY <1>24 DEF ReadState
<1>25. CASE Unbind
  BY <1>25 DEF Unbind
<1>26. CASE RmFunction
  BY <1>26 DEF RmFunction
<1>27. CASE Rmdir
  BY <1>27 DEF Rmdir
<1>28. CASE Rmmod
  BY <1>28 DEF Rmmod
<1>29. CASE RmState
  BY <1>29 DEF RmState
<1>30. CASE LookAtLog
  BY <1>30 DEF LookAtLog
<1>31. CASE HandleTerm
  BY <1>31 DEF HandleTerm
<1>32. CASE OtherProgram
  BY <1>32 DEF OtherProgram, ModuleUnused
<1>33. CASE UNCHANGED vars
  BY <1>33 DEF vars
<1>. QED
  BY <1>1, <1>2, <1>3, <1>4, <1>5, <1>6, <1>7, <1>8, <1>9, <1>10, <1>11,
     <1>12, <1>13, <1>14, <1>15, <1>16, <1>17, <1>18, <1>19, <1>20, <1>21,
     <1>22, <1>23, <1>24, <1>25, <1>26, <1>27, <1>28, <1>29, <1>30, <1>31,
     <1>32, <1>33
  DEF Next, Starter, Setup, Cleanup

-----------------------------------------------------------------------------
LEMMA InitInv == Init => GadgetInv
PROOF
BY DEF Init, GadgetInv, TypeOK,
             PlaceInv, FoundInv, RecordInv, OwnedIsRecorded,
       CleanInv, CleanupRemovesRecorded, RollbackInv, ChainInv, AfterCheck, AfterWrite,
       Checks, Builds, Undoes, Cleans, Resources

(* The inductive invariant.                                                *)
THEOREM GadgetInvariant == Spec => []GadgetInv
PROOF
<1>1. GadgetInv /\ [Next]_vars => GadgetInv'
  BY TypeStep, PlaceStep, FoundStep, RecordStep, CleanStep, RollbackStep,
     ChainStep DEF GadgetInv
<1>. QED
  BY InitInv, <1>1, PTL DEF Spec

(* The scripts' state keeps its type.                                      *)
THEOREM AlwaysTyped == Spec => []TypeOK
PROOF
<1>1. GadgetInv => TypeOK
  BY DEF GadgetInv
<1>. QED
  BY GadgetInvariant, <1>1, PTL

(* However the runtime's helpers fail or are ended, the module that its    *)
(* setup has loaded stays on record until it is unloaded.                  *)
THEOREM OwnedAlwaysRecorded == Spec => []OwnedIsRecorded
PROOF
<1>1. GadgetInv => OwnedIsRecorded
  BY DEF GadgetInv, RecordInv
<1>. QED
  BY GadgetInvariant, <1>1, PTL

(* A cleanup that reports success after reading the record is complete.    *)
THEOREM CleanupAlwaysRemovesRecorded == Spec => []CleanupRemovesRecorded
PROOF
<1>1. GadgetInv => CleanupRemovesRecorded
  BY DEF GadgetInv, CleanInv
<1>. QED
  BY GadgetInvariant, <1>1, PTL

(* A setup that fails by itself leaves nothing of its own, wherever the    *)
(* failure was, if the rollback's commands work.                           *)
THEOREM RollbackAlwaysRestores == Spec => []RollbackRestores
PROOF
<1>1. GadgetInv => RollbackRestores
  BY DEF GadgetInv, TypeOK, RollbackInv, Kept, RollbackRestores, Ours, Resources
<1>. QED
  BY GadgetInvariant, <1>1, PTL

(* No command of setup or of its rollback removes what setup has found.    *)
LEMMA SetupStepKeeps ==
    ASSUME GadgetInv, Setup
    PROVE  found \cap Existing \subseteq Existing'
PROOF
<1> USE DEF At, Goto, Exit, Fail, UnchangedByCommand, UnchangedBySetup, resources,
             Checks, Builds, Undoes, Cleans, TypeOK,
             PlaceInv, FoundInv, AfterCheck,
             GadgetInv, Existing, Resources
<1>1. CASE SetupChecks
  BY <1>1 DEF SetupChecks
<1>2. CASE Insmod
  BY <1>2 DEF Insmod
<1>3. CASE FlagModule
  BY <1>3 DEF FlagModule
<1>4. CASE OpenState
  BY <1>4 DEF OpenState
<1>5. CASE WriteState
  BY <1>5 DEF WriteState
<1>6. CASE Mkdir
  BY <1>6 DEF Mkdir
<1>7. CASE FlagGadget
  BY <1>7 DEF FlagGadget
<1>8. CASE Configure
  BY <1>8 DEF Configure
<1>9. CASE Bind
  BY <1>9 DEF Bind
<1>10. CASE Verify
  BY <1>10 DEF Verify
<1>11. CASE Commit
  BY <1>11 DEF Commit
<1>12. CASE ExitReady
  BY <1>12 DEF ExitReady
<1>13. CASE UndoBind
  BY <1>13 DEF UndoBind, Undoing, Gone
<1>14. CASE UndoFunction
  BY <1>14 DEF UndoFunction, Undoing, Gone
<1>15. CASE UndoDir
  BY <1>15 DEF UndoDir, Undoing, Gone
<1>16. CASE UndoModule
  BY <1>16 DEF UndoModule, Undoing, Gone, ModuleUnused
<1>17. CASE UndoState
  BY <1>17 DEF UndoState, Undoing, Gone
<1>18. CASE ExitUndone
  BY <1>18 DEF ExitUndone
<1>. QED
  BY <1>1, <1>2, <1>3, <1>4, <1>5, <1>6, <1>7, <1>8, <1>9, <1>10, <1>11,
     <1>12, <1>13, <1>14, <1>15, <1>16, <1>17, <1>18
  DEF Setup

(* What the program removes is its own.                                    *)
THEOREM SetupAlwaysTouchesOnlyItsOwn == Spec => SetupTouchesOnlyItsOwn
PROOF
<1>1. GadgetInv /\ [Next]_vars => [Setup => found \cap Existing \subseteq Existing']_vars
  BY SetupStepKeeps
<1>. QED
  BY GadgetInvariant, <1>1, PTL DEF Spec, SetupTouchesOnlyItsOwn
-----------------------------------------------------------------------------
(* The scripts implement AppRuntime's helper.  seenGadget, resource by     *)
(* resource:                                                               *)
Full == module = "ours" /\ stateFile = "written" /\ dir = "function" /\ udc = "ours"
Bare == module # "ours" /\ stateFile = "none" /\ dir = "none" /\ udc # "ours"
Look == IF Bare THEN "none" ELSE IF Full THEN "ready" ELSE "partial"

LEMMA SeenResources == seenGadget = Look
PROOF
<1>1. Ours = {} <=> Bare
  BY DEF Ours, Bare, Resources
<1>2. Full <=> Ours = Resources /\ stateFile = "written" /\ dir = "function"
  BY DEF Ours, Full, Resources
<1>3. ~(Bare /\ Full)
  BY DEF Bare, Full
<1>4. CASE Bare
  BY <1>1, <1>2, <1>3, <1>4, Zenon DEF Look, seenGadget
<1>5. CASE Full
  BY <1>1, <1>2, <1>3, <1>5 DEF Look, seenGadget
<1>6. CASE ~Bare /\ ~Full
  BY <1>1, <1>2, <1>6 DEF Look, seenGadget
<1>. QED
  BY <1>4, <1>5, <1>6

(* Every command is one of the helper's steps or changes nothing of what   *)
(* the runtime can see.                                                    *)
LEMMA ScriptStepIsHelper ==
    ASSUME GadgetInv, mode.asRuntime, ~mode.recordStays, Setup \/ Cleanup \/ HandleTerm \/ OtherProgram
    PROVE  [Seen!Helper]_<<seenChild, seenGadget>>
PROOF
<1>a. seenGadget = Look /\ (seenGadget = Look)'
  BY SeenResources, PTL
<1> USE <1>a DEF At, Goto, Exit, Fail, UnchangedByCommand, UnchangedBySetup,
       UnchangedByCleanup, resources, Checks, Builds, Undoes, Cleans, TypeOK, PlaceInv,
       RecordInv, AfterWrite, CleanInv, GadgetInv, ChainInv, Look, Bare, Full, seenChild,
       Seen!Helper, Seen!UnchangedByHelper, Seen!Running, Seen!apiVars, Seen!gestureVars,
       Seen!localVars, Seen!flagVars, Seen!SetupRefuses, Seen!SetupBuilds,
       Seen!SetupBinds, Seen!SetupCommits, Seen!SetupFails, Seen!Remove,
       Seen!HelperFails, Seen!HelperSucceeds, Seen!TermArrives
<1>1. CASE SetupChecks
  BY <1>1 DEF SetupChecks
<1>2. CASE Insmod
  BY <1>2 DEF Insmod
<1>3. CASE FlagModule
  BY <1>3 DEF FlagModule
<1>4. CASE OpenState
  BY <1>4 DEF OpenState
<1>5. CASE WriteState
  BY <1>5 DEF WriteState
<1>6. CASE Mkdir
  BY <1>6 DEF Mkdir
<1>7. CASE FlagGadget
  BY <1>7 DEF FlagGadget
<1>8. CASE Configure
  BY <1>8 DEF Configure
<1>9. CASE Bind
  BY <1>9 DEF Bind
<1>10. CASE Verify
  BY <1>10 DEF Verify
<1>11. CASE Commit
  BY <1>11 DEF Commit
<1>12. CASE ExitReady
  BY <1>12 DEF ExitReady
<1>13. CASE UndoBind
  BY <1>13 DEF UndoBind, Undoing, Gone
<1>14. CASE UndoFunction
  BY <1>14 DEF UndoFunction, Undoing, Gone
<1>15. CASE UndoDir
  BY <1>15 DEF UndoDir, Undoing, Gone
<1>16. CASE UndoModule
  BY <1>16 DEF UndoModule, Undoing, Gone, ModuleUnused
<1>17. CASE UndoState
  BY <1>17 DEF UndoState, Undoing, Gone
<1>18. CASE ExitUndone
  BY <1>18 DEF ExitUndone
<1>19. CASE ReadState
  BY <1>19 DEF ReadState
<1>20. CASE Unbind
  BY <1>20 DEF Unbind
<1>21. CASE RmFunction
  BY <1>21 DEF RmFunction
<1>22. CASE Rmdir
  BY <1>22 DEF Rmdir
<1>23. CASE Rmmod
  BY <1>23 DEF Rmmod
<1>24. CASE RmState
  BY <1>24 DEF RmState
<1>25. CASE LookAtLog
  BY <1>25 DEF LookAtLog
<1>26. CASE HandleTerm
  BY <1>26 DEF HandleTerm
<1>27. CASE OtherProgram
  BY <1>27 DEF OtherProgram, ModuleUnused
<1>. QED
  BY <1>1, <1>2, <1>3, <1>4, <1>5, <1>6, <1>7, <1>8, <1>9, <1>10, <1>11,
     <1>12, <1>13, <1>14, <1>15, <1>16, <1>17, <1>18, <1>19, <1>20, <1>21,
     <1>22, <1>23, <1>24, <1>25, <1>26, <1>27
  DEF Setup, Cleanup

(* What the runtime's model assumes of its scripts, they do.               *)
THEOREM ScriptsAlwaysAsRuntimeAssumes == Spec => ScriptsAsRuntimeAssumes
PROOF
<1>1. GadgetInv /\ [Next]_vars
      => [mode.asRuntime /\ ~mode.recordStays /\ ~Starter => Seen!Helper]_<<seenChild, seenGadget>>
  <2>1. CASE UNCHANGED vars
    BY <2>1 DEF vars, resources, seenChild, seenGadget, Ours
  <2>2. CASE Next
    BY <2>2, ScriptStepIsHelper DEF Next
  <2>. QED
    BY <2>1, <2>2
<1>. QED
  BY GadgetInvariant, <1>1, PTL DEF Spec, ScriptsAsRuntimeAssumes
=============================================================================
