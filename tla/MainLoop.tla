------------------------------ MODULE MainLoop ------------------------------
(***************************************************************************)
(* The main loop of src/usbjiggler.c.  It composes the view model, the     *)
(* screens, the input tracker and the runtime, of which it sees what       *)
(* Lifecycle promises: the runtime's worker moves on between any two steps *)
(* of the loop.  One iteration of the loop is one tick of the clock.       *)
(***************************************************************************)
EXTENDS Screen, UiInput

CONSTANTS
    ActionOf,  \* what a source asks for while it is pressed
    MaxBatch,  \* events that arrive during one iteration, at most
    MinShown   \* iterations the last screen stays, by shutdown result

ASSUME MainLoopAssumption ==
    /\ ActionOf \in [Sources -> Actions]
    /\ MaxBatch \in Nat \ {0}
    /\ MinShown \in [{0, -1} -> Nat]
    /\ Sources \cap {"none", "window"} = {}

(* A source that asks for a direction reports its release, too.            *)
ASSUME ReleaseAssumption ==
    \A source \in Sources : ActionOf[source] \in Directions => source \in Tracked

VARIABLES
    \* The runtime, as Lifecycle describes it, and its settings.
    state, gesture, owned, complete, outcome,
    rtSettings,
    \* The loop.
    pc,             \* where it is
    snap,           \* snapshot.state, as taken before the events are handled
    stopRequested,  \* stop_requested
    shownFor,       \* iterations since shutdown_screen_started_at, or -1
    exitCode,       \* result
    \* The settings file, and whether the last attempt to write it failed.
    saved, saveFailed,
    \* The outside.
    down,           \* the sources that are pressed
    events          \* events that SDL has queued

Runtime == INSTANCE Lifecycle

sessionVars == <<state, gesture, owned, complete, outcome>>
runtimeVars == <<sessionVars, rtSettings>>
fileVars == <<saved, saveFailed>>
inputVars == <<down, events>>
vars == <<uiVars, trackerVars, runtimeVars, pc, snap, stopRequested,
          shownFor, exitCode, fileVars, inputVars>>

States == {"IDLE", "PREPARING", "READY", "ACTIVE", "RETRYING",
           "DISCONNECTED", "ERROR", "EXITING"}

Shown == 0..(IF MinShown[0] > MinShown[-1] THEN MinShown[0] ELSE MinShown[-1])

Events == [source : Sources \union {"window"}, value : Actions \union {"NONE"}]

TypeOK ==
    /\ UiTypeOK
    /\ TrackerTypeOK
    /\ state \in States /\ snap \in States
    /\ gesture \in BOOLEAN /\ owned \in BOOLEAN /\ complete \in BOOLEAN
    /\ outcome \in {0, -1}
    /\ Legal(rtSettings) /\ Legal(saved)
    /\ pc \in {"top", "poll", "look", "closed"}
    /\ stopRequested \in BOOLEAN /\ saveFailed \in BOOLEAN
    /\ shownFor \in Shown \union {-1}
    /\ exitCode \in {0, 1}
    /\ down \subseteq Tracked
    /\ events \in Seq(Events) /\ Len(events) <= MaxBatch

(* settings_load, app_runtime_create and the first app_runtime_prepare.    *)
Init ==
    /\ view = "MAIN"
    /\ selected = "INTERVAL"
    /\ settings = Lowest
    /\ TrackerInit
    /\ state = "PREPARING"
    /\ gesture = FALSE /\ owned = FALSE /\ complete = FALSE
    /\ outcome = 0
    /\ rtSettings = settings
    /\ pc = "top"
    /\ snap = "IDLE"
    /\ stopRequested = FALSE
    /\ shownFor = -1
    /\ exitCode = 1
    /\ saved = settings
    /\ saveFailed = FALSE
    /\ down = {}
    /\ events = << >>

----------------------------------------------------------------------------
(* Calls of the loop into the runtime; a call the state does not allow is  *)
(* refused and changes nothing.                                            *)

Unchanged == UNCHANGED sessionVars

CallStart == IF state = "READY" THEN Runtime!Start ELSE Unchanged
CallStop == IF state = "ACTIVE" /\ ~gesture THEN Runtime!Stop ELSE Unchanged
CallPrepare == IF state \in {"READY", "DISCONNECTED", "ERROR"} THEN Runtime!Prepare
                                                              ELSE Unchanged
CallShutdown == Runtime!RequestShutdown

(* Mutant: settings do not reach the runtime while a gesture is played.    *)
SetSettingsBetweenGestures ==
    rtSettings' = IF state = "EXITING" \/ gesture THEN rtSettings ELSE settings'

(* app_runtime_set_settings refuses once a shutdown was requested.         *)
SetSettings ==
    rtSettings' = IF state = "EXITING" THEN rtSettings ELSE settings'

(* persist_settings, whose failure is only reported.                       *)
Persist ==
    \/ saved' = settings' /\ saveFailed' = FALSE
    \/ saveFailed' = TRUE /\ UNCHANGED saved

(* dispatch_action, with the snapshot taken before the events.             *)
Dispatch(action, heldTime) ==
    LET effect == Effect(action, snap) IN
    /\ Handle(action, heldTime)
    /\ view' = IF effect = "EXIT" THEN "MAIN" ELSE ViewAfter(action)
    /\ IF effect = "SETTINGS_CHANGED"
         THEN SetSettings /\ Persist
         ELSE UNCHANGED <<rtSettings, fileVars>>
    /\ CASE effect = "START" -> CallStart
         [] effect = "STOP"  -> CallStop
         [] effect = "RETRY" -> CallPrepare
         [] effect = "EXIT"  -> CallShutdown
         [] OTHER -> Unchanged

NoDispatch == UNCHANGED <<uiVars, runtimeVars, fileVars>>

----------------------------------------------------------------------------
(* The loop.                                                               *)

Top ==
    /\ pc = "top"
    /\ pc' = "poll"
    /\ TrackerTick
    /\ IF stopRequested THEN view' = "MAIN" /\ CallShutdown
                        ELSE UNCHANGED view /\ Unchanged
    /\ snap' = state'
    /\ UNCHANGED <<selected, settings, rtSettings, stopRequested, shownFor,
                   exitCode, fileVars, inputVars>>

UnchangedByEvents == UNCHANGED <<snap, stopRequested, shownFor, exitCode, down>>

(* Mutant: no input while the help screen is up.                           *)
IgnoresInHelp == snap = "EXITING" \/ view = "HELP"

(* While the program is exiting, no input is looked at, and the tracker    *)
(* does not hear of it either.                                             *)
Ignores == snap = "EXITING"

(* SDL_PollEvent returns an event.  A window that is closed asks for       *)
(* confirmation.                                                           *)
Poll ==
    /\ pc = "poll"
    /\ events # << >>
    /\ events' = Tail(events)
    /\ LET event == Head(events) IN
       CASE event.source = "window" ->
              /\ view' = "EXIT_CONFIRM"
              /\ UNCHANGED <<selected, settings, trackerVars, runtimeVars, fileVars>>
         [] event.source # "window" /\ Ignores ->
              NoDispatch /\ UNCHANGED trackerVars
         [] event.source # "window" /\ ~Ignores ->
              /\ TrackerEvent(event.source, event.value)
              /\ IF EventAction(event.value) = "NONE" THEN NoDispatch
                                                      ELSE Dispatch(event.value, 0)
    /\ UNCHANGED pc
    /\ UnchangedByEvents

(* The queue is empty: a held direction may be due.                        *)
Repeat ==
    /\ pc = "poll"
    /\ events = << >>
    /\ pc' = "look"
    /\ IF RepeatDue THEN TrackerRepeat /\ Dispatch(held, heldFor)
                    ELSE NoDispatch /\ UNCHANGED trackerVars
    /\ UNCHANGED events
    /\ UnchangedByEvents

(* Mutant: every iteration starts the time of the last screen anew.        *)
ShownRestarted == IF state = "EXITING" THEN 0 ELSE shownFor

(* How long the last screen has been up.                                   *)
ShownSince ==
    IF state = "EXITING" /\ shownFor + 1 \in Shown THEN shownFor + 1 ELSE shownFor

(* Mutant: the loop ends with the request, not with the end, of a shutdown. *)
MayCloseEarly == ShownSince # -1 /\ ShownSince >= MinShown[outcome]

MayClose == complete /\ ShownSince # -1 /\ ShownSince >= MinShown[outcome]

(* Mutant: the view is left as it is.                                      *)
ViewKept == view

ViewToDraw == IF state = "EXITING" THEN "MAIN" ELSE view

(* The second snapshot, and the screen.  When the shutdown is complete and *)
(* its screen has been up for long enough, the settings are written once   *)
(* more and the program ends; app_runtime_shutdown has nothing to wait for. *)
Look ==
    /\ pc = "look"
    /\ UNCHANGED <<selected, settings, trackerVars, runtimeVars, snap,
                   stopRequested, inputVars>>
    /\ view' = ViewToDraw
    /\ shownFor' = ShownSince
    /\ IF MayClose
         THEN /\ pc' = "closed"
              /\ exitCode' = IF outcome = 0 THEN 0 ELSE 1
              /\ Persist
         ELSE /\ pc' = "top"
              /\ UNCHANGED <<exitCode, fileVars>>

Loop == Top \/ Poll \/ Repeat \/ Look

----------------------------------------------------------------------------
(* The runtime's worker.                                                   *)

UnchangedByWorker ==
    UNCHANGED <<uiVars, trackerVars, rtSettings, pc, snap, stopRequested,
                shownFor, exitCode, fileVars, inputVars>>

ChangeOwnership == Runtime!ChangeOwnership /\ UnchangedByWorker
Resolve == Runtime!Resolve /\ UnchangedByWorker
BeginGesture == Runtime!BeginGesture /\ UnchangedByWorker
EndGesture == Runtime!EndGesture /\ UnchangedByWorker
Complete == Runtime!Complete /\ UnchangedByWorker

(* The outside.  Events arrive while the loop sleeps at its end.           *)

UnchangedByOutside ==
    UNCHANGED <<uiVars, trackerVars, runtimeVars, pc, snap, shownFor,
                exitCode, fileVars>>

Queue(source, value) ==
    /\ pc = "top"
    /\ Len(events) < MaxBatch
    /\ events' = Append(events, [source |-> source, value |-> value])

PressDirection(source) ==
    /\ source \in Tracked \ down
    /\ down' = down \union {source}
    /\ Queue(source, ActionOf[source])
    /\ UNCHANGED stopRequested
    /\ UnchangedByOutside

ReleaseDirection(source) ==
    /\ source \in down
    /\ down' = down \ {source}
    /\ Queue(source, "NONE")
    /\ UNCHANGED stopRequested
    /\ UnchangedByOutside

(* The tracker ignores the release of a button.                            *)
PressButton(source) ==
    /\ source \in Sources \ Tracked
    /\ Queue(source, ActionOf[source])
    /\ UNCHANGED <<down, stopRequested>>
    /\ UnchangedByOutside

CloseWindow ==
    /\ Queue("window", "NONE")
    /\ UNCHANGED <<down, stopRequested>>
    /\ UnchangedByOutside

(* SIGINT or SIGTERM, as the launcher sends it.                            *)
Signal ==
    /\ pc # "closed"
    /\ stopRequested' = TRUE
    /\ UNCHANGED inputVars
    /\ UnchangedByOutside

Next ==
    \/ Loop
    \/ ChangeOwnership \/ Resolve \/ BeginGesture \/ EndGesture \/ Complete
    \/ \E source \in Sources :
          PressDirection(source) \/ ReleaseDirection(source) \/ PressButton(source)
    \/ CloseWindow
    \/ Signal

Spec == Init /\ [][Next]_vars

(* The loop goes on, and the worker ends gestures and shutdowns, as        *)
(* Lifecycle's fairness says.                                              *)
FairSpec ==
    /\ Spec
    /\ WF_vars(Loop)
    /\ WF_vars(EndGesture)
    /\ WF_vars(Complete)

----------------------------------------------------------------------------
(* Until the program is exiting, the settings that are edited, played and  *)
(* stored are the same, but for a file that could not be written.          *)
SettingsInStep ==
    /\ state # "EXITING" => rtSettings = settings
    /\ ~saveFailed => saved = settings

(* The program ends only when the runtime's worker has done what a shutdown *)
(* does, with 0 exactly when the runtime then owns nothing, and after the  *)
(* outcome has been on the screen.  What a setup that was broken off has   *)
(* left is not owned, and 0 does not say that there is nothing of it       *)
(* (SuccessfulExitIsClean of AppRuntime).                                  *)
ClosesOnOutcome ==
    pc = "closed" =>
        /\ complete /\ ~gesture
        /\ exitCode = 0 <=> ~owned
        /\ shownFor >= MinShown[outcome]

(* Repeats come only of a direction somebody holds.                        *)
RepeatsAreHeld ==
    [][Repeat /\ settings' # settings /\ snap # "EXITING" =>
        \E source \in down : ActionOf[source] = held]_vars

(* docs/ui-flow.md: "Holding Left or Right accelerates adjustment".  When  *)
(* nobody holds it any longer, the settings stay as they are.              *)
AdjustmentEndsWithHold ==
    [][Repeat /\ settings' # settings =>
        \E source \in down : ActionOf[source] = held]_vars

(* A hint is kept if the button would do what it says.  A save there is    *)
(* nothing left to do for is kept as well.                                 *)
Kept(hint, runtimeState) ==
    \/ Does(hint[1], hint[2], runtimeState)
    \/ hint[2] = "SAVE" /\ saved = settings

(* What a button is said to do on a screen that is drawn, it would do if   *)
(* nothing else happened; while input is ignored nothing is said.  There   *)
(* is one exception: after a write that failed, "SAVE AND BACK" goes back  *)
(* and saves nothing.                                                      *)
HintsHold(runtimeState) ==
    \A hint \in Hints(runtimeState) :
        /\ runtimeState # "EXITING"
        /\ Kept(hint, runtimeState) \/ (hint[2] = "SAVE" /\ saveFailed)

ScreenKeepsItsWord == [][Look => HintsHold(state)']_vars

(* The settings screen says "A SAVE AND BACK" (draw_settings_screen): with *)
(* A, the settings are saved, unless they are saved already.               *)
SaveAndBackSaves ==
    [][Look => (\A hint \in Hints(state) : hint[2] = "SAVE" => Kept(hint, state))']_vars

(* The iterations until the last screen has been up for long enough, once  *)
(* the outcome is known.                                                   *)
IterationsLeft ==
    IF shownFor < MinShown[outcome] THEN MinShown[outcome] - shownFor ELSE 1

(* An iteration is its top, a batch of events, the repeat and the look.    *)
IterationSteps == MaxBatch + 3

(* The steps the loop has left, at most.                                   *)
LoopStepsLeft ==
    CASE pc = "top" -> IterationsLeft * IterationSteps
      [] pc = "poll" -> (IterationsLeft - 1) * IterationSteps + 2 + Len(events)
      [] pc = "look" -> (IterationsLeft - 1) * IterationSteps + 1
      [] pc = "closed" -> 0

(* Once the shutdown is complete, every step of the loop brings it nearer  *)
(* to its end, and no event, signal or closed window takes it further      *)
(* away: the time of the last screen goes on whatever is pressed.          *)
CloseDrawsNearer ==
    [][complete => /\ LoopStepsLeft' <= LoopStepsLeft
                   /\ Loop => LoopStepsLeft' < LoopStepsLeft]_vars

(* A signal or a confirmed exit ends the program, whatever is pressed.     *)
ExitCloses == stopRequested \/ state = "EXITING" ~> pc = "closed"
=============================================================================
