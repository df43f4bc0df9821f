--------------------------- MODULE MainLoopProofs ----------------------------
(***************************************************************************)
(* The main loop, for all limits of the settings, all sources and any      *)
(* number of events between two iterations.                                *)
(***************************************************************************)
EXTENDS MainLoop, SequenceTheorems, TLAPS

SessionOK ==
    /\ state \in States
    /\ gesture \in BOOLEAN /\ owned \in BOOLEAN /\ complete \in BOOLEAN
    /\ outcome \in {0, -1}

(* A completed shutdown is final, and what the loop has closed with.       *)
EndInv ==
    /\ state # "IDLE"
    /\ complete => state = "EXITING" /\ ~gesture /\ (outcome = 0 <=> ~owned)
    /\ ClosesOnOutcome

MainInv == TypeOK /\ SettingsInStep /\ EndInv

-----------------------------------------------------------------------------
(* The view model.                                                         *)

(* An adjustment stays within the limits.                                  *)
LEMMA AdjustedIsLegal ==
    ASSUME UiTypeOK, NEW action \in Actions, NEW heldTime \in Nat
    PROVE  Legal(Adjusted(action, heldTime))
PROOF
<1> DEFINE direction == IF action = "RIGHT" THEN 1 ELSE -1
           moved == settings[selected] + direction * Step(heldTime)
           value == IF selected = "PATTERN" THEN moved % (Highest[selected] + 1)
                    ELSE Clamp(moved, Lowest[selected], Highest[selected])
<1>1. Step(heldTime) \in Nat
  BY UiAssumption DEF UiTypeOK, Step
<1>2. selected \in Adjustable /\ Lowest[selected] \in Int /\ Highest[selected] \in Int
      /\ Lowest[selected] <= Highest[selected] /\ settings[selected] \in Int
  BY UiAssumption DEF UiTypeOK, Legal
<1>3. direction \in {-1, 1}
  OBVIOUS
<1>4. moved \in Int
  <2> HIDE DEF direction
  <2>1. direction * Step(heldTime) \in Int
    BY <1>1, <1>3
  <2>. QED
    BY <2>1, <1>2
<1>5. value \in Int /\ value \in Lowest[selected]..Highest[selected]
  <2> HIDE DEF moved
  <2>1. CASE selected = "PATTERN"
    <3>1. Lowest[selected] = 0 /\ Highest[selected] + 1 \in Nat \ {0}
      BY <1>2, <2>1, UiAssumption
    <3>. QED
      BY <1>2, <1>4, <2>1, <3>1
  <2>2. CASE selected # "PATTERN"
    BY <1>2, <1>4, <2>2 DEF Clamp
  <2>. QED
    BY <2>1, <2>2
<1>6. Adjusted(action, heldTime) = [settings EXCEPT ![selected] = value]
  BY DEF Adjusted
<1>. HIDE DEF value
<1>. QED
  BY <1>2, <1>5, <1>6 DEF Legal, UiTypeOK

(* Settings change only with SETTINGS_CHANGED.                             *)
LEMMA EffectOfAdjusting ==
    ASSUME NEW action \in Actions
    PROVE  /\ Adjusts(action) => Effect(action, snap) = "SETTINGS_CHANGED"
           /\ ~Adjusts(action) => Effect(action, snap) # "SETTINGS_CHANGED"
PROOF
BY DEF Effect, Adjusts

(* The hints of a screen, for a runtime that is not exiting behind it.     *)
LEMMA HintsAreTrue ==
    ASSUME NEW runtimeState \in States \ {"IDLE"},
           view \in {"MAIN", "SETTINGS", "HELP", "EXIT_CONFIRM"},
           runtimeState = "EXITING" => view = "MAIN",
           SettingsInStep
    PROVE  HintsHold(runtimeState)
PROOF
<1> SUFFICES ASSUME NEW hint \in Hints(runtimeState)
             PROVE  /\ runtimeState # "EXITING"
                    /\ \/ Does(hint[1], hint[2], runtimeState)
                       \/ hint[2] = "SAVE" /\ (saved = settings \/ saveFailed)
  BY DEF HintsHold, Kept
<1>1. CASE DrawnScreen(runtimeState) = "MAIN"
  <2>1. view = "MAIN" /\ runtimeState \in {"READY", "ACTIVE"}
    BY <1>1 DEF DrawnScreen, States
  <2>2. hint \in FooterHints(runtimeState)
    BY <1>1 DEF Hints
  <2>3. Effect("ACCEPT", runtimeState) = Primary(runtimeState)
        /\ Primary(runtimeState) \in {"START", "STOP"}
    BY <2>1 DEF Effect, Adjusts, Primary
  <2>4. /\ ViewAfter("HELP") = "HELP" /\ ViewAfter("BACK") = "EXIT_CONFIRM"
        /\ \A direction \in {"UP", "DOWN", "LEFT", "RIGHT"} : ViewAfter(direction) = "SETTINGS"
    BY <2>1 DEF ViewAfter
  <2>. QED
    <3>1. \/ hint[1] = "ACCEPT" /\ hint[2] = Primary(runtimeState)
          \/ hint[1] = "HELP" /\ hint[2] = "HELP"
          \/ hint[1] = "BACK" /\ hint[2] = "EXIT"
          \/ hint[1] \in {"UP", "DOWN", "LEFT", "RIGHT"} /\ hint[2] = "SETTINGS"
      BY <2>2 DEF FooterHints, Leave
    <3>. QED
      BY <2>1, <2>3, <2>4, <3>1 DEF Does
<1>2. CASE DrawnScreen(runtimeState) = "ERROR"
  <2>1. view = "MAIN" /\ runtimeState \in {"ERROR", "DISCONNECTED"}
    BY <1>2 DEF DrawnScreen, States
  <2>2. hint \in ErrorHints
    BY <1>2 DEF Hints
  <2>3. Effect("ACCEPT", runtimeState) = "RETRY"
    BY <2>1 DEF Effect, Adjusts
  <2>4. ViewAfter("HELP") = "HELP" /\ ViewAfter("BACK") = "EXIT_CONFIRM"
    BY <2>1 DEF ViewAfter
  <2>. QED
    <3>1. \/ hint[1] = "ACCEPT" /\ hint[2] = "RETRY"
          \/ hint[1] = "HELP" /\ hint[2] = "HELP"
          \/ hint[1] = "BACK" /\ hint[2] = "EXIT"
      BY <2>2 DEF ErrorHints, Leave
    <3>. QED
      BY <2>1, <2>3, <2>4, <3>1 DEF Does
<1>3. CASE DrawnScreen(runtimeState) = "PREPARING"
  <2>1. view = "MAIN"
    BY <1>3 DEF DrawnScreen, States
  <2>2. hint \in Leave /\ runtimeState # "EXITING"
    BY <1>3 DEF Hints, PreparingHints
  <2>3. ViewAfter("HELP") = "HELP" /\ ViewAfter("BACK") = "EXIT_CONFIRM"
    BY <2>1 DEF ViewAfter
  <2>. QED
    <3>1. \/ hint[1] = "HELP" /\ hint[2] = "HELP"
          \/ hint[1] = "BACK" /\ hint[2] = "EXIT"
      BY <2>2 DEF Leave
    <3>. QED
      BY <2>1, <2>2, <2>3, <3>1 DEF Does
<1>4. CASE view = "SETTINGS"
  <2>1. hint \in SettingsHints
    BY <1>4 DEF Hints, DrawnScreen
  <2>2. saved = settings \/ saveFailed
    BY DEF SettingsInStep
  <2>3. hint[2] = "SAVE" \/ (hint[1] \in {"ACCEPT", "BACK"} /\ hint[2] = "RETURN")
    BY <2>1 DEF SettingsHints
  <2>. QED
    BY <1>4, <2>2, <2>3 DEF Does, ViewAfter
<1>5. CASE view = "HELP"
  <2>1. hint \in HelpHints
    BY <1>5 DEF Hints, DrawnScreen
  <2>. QED
    BY <1>5, <2>1 DEF HelpHints, Does, ViewAfter
<1>6. CASE view = "EXIT_CONFIRM"
  <2>1. hint \in OverlayHints
    BY <1>6 DEF Hints, DrawnScreen
  <2>2. Effect("ACCEPT", runtimeState) = "EXIT" /\ ViewAfter("BACK") = "MAIN"
    BY <1>6 DEF Effect, Adjusts, ViewAfter
  <2>. QED
    <3>1. \/ hint[1] = "ACCEPT" /\ hint[2] = "EXIT"
          \/ hint[1] = "BACK" /\ hint[2] = "RETURN"
      BY <2>1 DEF OverlayHints
    <3>. QED
      BY <1>6, <2>2, <3>1 DEF Does
<1>7. view = "MAIN" =>
        DrawnScreen(runtimeState) \in {"MAIN", "ERROR", "PREPARING"}
  BY DEF DrawnScreen
<1>. QED
  BY <1>1, <1>2, <1>3, <1>4, <1>5, <1>6, <1>7

-----------------------------------------------------------------------------
(* One action's effect on everything it can reach: the settings stay       *)
(* legal and in step, and the runtime moves only as its caller may.        *)
DispatchEffect ==
    /\ view' \in {"MAIN", "SETTINGS", "HELP", "EXIT_CONFIRM"}
    /\ selected' \in Adjustable
    /\ Legal(settings') /\ Legal(rtSettings') /\ Legal(saved')
    /\ saveFailed' \in BOOLEAN
    /\ state' \in States \ {"IDLE"} /\ (state = "EXITING" => state' = "EXITING")
    /\ UNCHANGED <<gesture, owned, complete, outcome>>
    /\ state' # "EXITING" => rtSettings' = settings'
    /\ ~saveFailed' => saved' = settings'

LEMMA ViewAfterOK ==
    ASSUME UiTypeOK, NEW action \in Actions
    PROVE  ViewAfter(action) \in {"MAIN", "SETTINGS", "HELP", "EXIT_CONFIRM"}
PROOF
BY DEF UiTypeOK, ViewAfter

LEMMA NoDispatchOK ==
    ASSUME MainInv, NoDispatch
    PROVE  DispatchEffect
PROOF
BY DEF MainInv, TypeOK, UiTypeOK, SettingsInStep, EndInv, NoDispatch, DispatchEffect,
       uiVars, runtimeVars, sessionVars, fileVars

LEMMA DispatchOK ==
    ASSUME MainInv, NEW action \in Actions, NEW heldTime \in Nat, Dispatch(action, heldTime)
    PROVE  DispatchEffect
PROOF
<1> DEFINE effect == Effect(action, snap)
<1>1. UiTypeOK /\ Legal(settings) /\ Legal(rtSettings) /\ Legal(saved)
      /\ selected \in Adjustable /\ saveFailed \in BOOLEAN /\ SettingsInStep
  BY DEF MainInv, TypeOK, UiTypeOK
<1>2. view' \in {"MAIN", "SETTINGS", "HELP", "EXIT_CONFIRM"}
  BY <1>1, ViewAfterOK DEF Dispatch
<1>3. selected' \in Adjustable
  BY <1>1 DEF Dispatch, Handle, SelectedAfter, Above, Below, Adjustable
<1>4. Legal(settings') /\ (~Adjusts(action) => settings' = settings)
  BY <1>1, AdjustedIsLegal DEF Dispatch, Handle
<1>5. /\ state' \in States \ {"IDLE"} /\ (state = "EXITING" => state' = "EXITING")
      /\ UNCHANGED <<gesture, owned, complete, outcome>>
  <2>1. \/ CallStart \/ CallStop \/ CallPrepare \/ CallShutdown \/ Unchanged
    BY DEF Dispatch
  <2>2. state \in States \ {"IDLE"}
    BY DEF MainInv, TypeOK, EndInv
  <2>. QED
    BY <2>1, <2>2 DEF CallStart, CallStop, CallPrepare, CallShutdown, Unchanged,
       sessionVars, Runtime!Start, Runtime!Stop, Runtime!Prepare,
       Runtime!RequestShutdown, States
<1>6. CASE effect = "SETTINGS_CHANGED"
  <2>1. SetSettings /\ Persist /\ Unchanged
    BY <1>6 DEF Dispatch
  <2>2. state' = state
    BY <2>1 DEF Unchanged, sessionVars
  <2>3. /\ Legal(rtSettings')
        /\ state' # "EXITING" => rtSettings' = settings'
    BY <1>1, <1>4, <2>1, <2>2 DEF SetSettings
  <2>4. /\ saveFailed' \in BOOLEAN
        /\ Legal(saved')
        /\ ~saveFailed' => saved' = settings'
    <3>1. CASE saved' = settings' /\ saveFailed' = FALSE
      BY <1>4, <3>1
    <3>2. CASE saveFailed' = TRUE /\ UNCHANGED saved
      BY <1>1, <3>2
    <3>. QED
      BY <2>1, <3>1, <3>2 DEF Persist
  <2>. QED
    BY <1>2, <1>3, <1>4, <1>5, <2>3, <2>4 DEF DispatchEffect
<1>7. CASE effect # "SETTINGS_CHANGED"
  <2>1. UNCHANGED <<rtSettings, saved, saveFailed>>
    BY <1>7 DEF Dispatch, fileVars
  <2>2. settings' = settings
    BY <1>4, <1>7, EffectOfAdjusting
  <2>3. state' # "EXITING" => state # "EXITING"
    BY <1>5
  <2>4. saveFailed' \in BOOLEAN /\ (~saveFailed' => ~saveFailed)
    BY <1>1, <2>1
  <2>. QED
    BY <1>1, <1>2, <1>3, <1>4, <1>5, <2>1, <2>2, <2>3, <2>4
    DEF DispatchEffect, SettingsInStep
<1>. QED
  BY <1>6, <1>7

-----------------------------------------------------------------------------
(* The steps.                                                              *)

LEMMA EventsOK ==
    ASSUME TypeOK, events # << >>
    PROVE  /\ Head(events) \in Events
           /\ Tail(events) \in Seq(Events) /\ Len(Tail(events)) <= MaxBatch
PROOF
BY HeadTailProperties, MainLoopAssumption DEF TypeOK

LEMMA QueueOK ==
    ASSUME TypeOK, NEW source \in Sources \union {"window"},
           NEW value \in Actions \union {"NONE"}, Queue(source, value)
    PROVE  pc = "top" /\ events' \in Seq(Events) /\ Len(events') <= MaxBatch
PROOF
<1>1. [source |-> source, value |-> value] \in Events
  BY DEF Events
<1>. QED
  BY <1>1, AppendProperties, MainLoopAssumption DEF TypeOK, Queue

LEMMA TrackerOK ==
    ASSUME TrackerTypeOK, NEW source \in Sources, NEW value \in Actions \union {"NONE"},
           TrackerEvent(source, value)
    PROVE  TrackerTypeOK'
PROOF
BY InputAssumption
DEF TrackerTypeOK, TrackerEvent, Release, Press, Duplicate, trackerVars, Actions, Directions

LEMMA TrackerTickOK ==
    ASSUME TrackerTypeOK, TrackerTick \/ TrackerRepeat \/ UNCHANGED trackerVars
    PROVE  TrackerTypeOK'
PROOF
BY InputAssumption DEF TrackerTypeOK, TrackerTick, TrackerRepeat, trackerVars

(* The iteration's events and repeats.                                     *)
LEMMA PollStep ==
    ASSUME MainInv, Poll
    PROVE  /\ TrackerTypeOK' /\ events' \in Seq(Events) /\ Len(events') <= MaxBatch
           /\ DispatchEffect
           /\ UNCHANGED <<pc, snap, stopRequested, shownFor, exitCode, down>>
PROOF
<1> DEFINE event == Head(events)
<1>1. TypeOK /\ TrackerTypeOK /\ events # << >> /\ events' = Tail(events)
  BY DEF MainInv, TypeOK, Poll
<1>2. event \in Events /\ events' \in Seq(Events) /\ Len(events') <= MaxBatch
  BY <1>1, EventsOK
<1>3. UNCHANGED <<pc, snap, stopRequested, shownFor, exitCode, down>>
  BY DEF Poll, UnchangedByEvents
<1>4. CASE event.source = "window"
  <2>1. /\ view' = "EXIT_CONFIRM"
        /\ UNCHANGED <<selected, settings, trackerVars, runtimeVars, fileVars>>
    BY <1>4 DEF Poll
  <2>2. DispatchEffect
    BY <2>1 DEF MainInv, TypeOK, UiTypeOK, SettingsInStep, EndInv, DispatchEffect,
       runtimeVars, sessionVars, fileVars
  <2>. QED
    BY <1>1, <1>2, <1>3, <2>1, <2>2, TrackerTickOK
<1>5. CASE event.source # "window" /\ Ignores
  BY <1>1, <1>2, <1>3, <1>5, NoDispatchOK, TrackerTickOK DEF Poll
<1>6. CASE event.source # "window" /\ ~Ignores
  <2>1. event.source \in Sources /\ event.value \in Actions \union {"NONE"}
    BY <1>2, <1>6 DEF Events
  <2>2. TrackerEvent(event.source, event.value)
    BY <1>6 DEF Poll
  <2>3. TrackerTypeOK'
    BY <1>1, <2>1, <2>2, TrackerOK
  <2>4. CASE EventAction(event.value) = "NONE"
    BY <1>2, <1>3, <1>6, <2>3, <2>4, NoDispatchOK DEF Poll
  <2>5. CASE EventAction(event.value) # "NONE"
    <3>1. Dispatch(event.value, 0) /\ event.value \in Actions
      BY <1>6, <2>1, <2>5 DEF Poll, EventAction
    <3>. QED
      BY <1>2, <1>3, <2>3, <3>1, DispatchOK
  <2>. QED
    BY <2>4, <2>5
<1>. QED
  BY <1>4, <1>5, <1>6

LEMMA RepeatStep ==
    ASSUME MainInv, Repeat
    PROVE  /\ TrackerTypeOK' /\ DispatchEffect
           /\ pc' = "look"
           /\ UNCHANGED <<events, snap, stopRequested, shownFor, exitCode, down>>
PROOF
<1>1. TrackerTypeOK
  BY DEF MainInv, TypeOK
<1>2. pc' = "look" /\ UNCHANGED <<events, snap, stopRequested, shownFor, exitCode, down>>
  BY DEF Repeat, UnchangedByEvents
<1>3. CASE RepeatDue
  <2>1. TrackerRepeat /\ Dispatch(held, heldFor)
    BY <1>3 DEF Repeat
  <2>2. held \in Actions /\ heldFor \in Nat
    BY <1>1, <1>3, InputAssumption DEF RepeatDue, TrackerTypeOK, Actions
  <2>. QED
    BY <1>1, <1>2, <2>1, <2>2, DispatchOK, TrackerTickOK
<1>4. CASE ~RepeatDue
  BY <1>1, <1>2, <1>4, NoDispatchOK, TrackerTickOK DEF Repeat
<1>. QED
  BY <1>3, <1>4

(* The runtime's state after the top of an iteration.                      *)
LEMMA TopStep ==
    ASSUME MainInv, Top
    PROVE  /\ TrackerTypeOK' /\ DispatchEffect
           /\ pc' = "poll" /\ snap' \in States
           /\ UNCHANGED <<settings, events, stopRequested, shownFor, exitCode, down>>
PROOF
<1>1. TrackerTypeOK /\ SettingsInStep /\ state \in States \ {"IDLE"}
  BY DEF MainInv, TypeOK, EndInv
<1>2. /\ view' \in {"MAIN", "SETTINGS", "HELP", "EXIT_CONFIRM"}
      /\ state' \in States \ {"IDLE"} /\ (state = "EXITING" => state' = "EXITING")
      /\ UNCHANGED <<gesture, owned, complete, outcome>>
  BY <1>1 DEF Top, MainInv, TypeOK, UiTypeOK, CallShutdown, Runtime!RequestShutdown,
     Unchanged, sessionVars, States
<1>3. pc' = "poll" /\ snap' = state' /\ TrackerTick
      /\ UNCHANGED <<selected, settings, rtSettings, stopRequested, shownFor, exitCode,
                     saved, saveFailed, down, events>>
  BY DEF Top, fileVars, inputVars
<1>4. DispatchEffect
  BY <1>1, <1>2, <1>3 DEF MainInv, TypeOK, UiTypeOK, SettingsInStep, DispatchEffect
<1>. QED
  BY <1>1, <1>2, <1>3, <1>4, TrackerTickOK

LEMMA LookStep ==
    ASSUME MainInv, Look
    PROVE  /\ view' = ViewToDraw /\ DispatchEffect
           /\ UNCHANGED <<trackerVars, sessionVars, snap, stopRequested, down, events>>
           /\ shownFor' = ShownSince /\ shownFor' \in Shown \union {-1}
           /\ \/ MayClose /\ pc' = "closed" /\ exitCode' = (IF outcome = 0 THEN 0 ELSE 1)
              \/ pc' = "top" /\ exitCode' = exitCode
PROOF
<1>1. /\ view' = ViewToDraw /\ shownFor' = ShownSince
      /\ UNCHANGED <<selected, settings, rtSettings, trackerVars, sessionVars, snap,
                     stopRequested, down, events>>
  BY DEF Look, runtimeVars, inputVars
<1>2. shownFor' \in Shown \union {-1}
  BY <1>1 DEF MainInv, TypeOK, ShownSince
<1>3. view' \in {"MAIN", "SETTINGS", "HELP", "EXIT_CONFIRM"}
  BY <1>1 DEF MainInv, TypeOK, UiTypeOK, ViewToDraw
<1>4. /\ saveFailed' \in BOOLEAN /\ Legal(saved')
      /\ ~saveFailed' => saved' = settings'
  <2>1. CASE saved' = settings' /\ saveFailed' = FALSE
    BY <1>1, <2>1 DEF MainInv, TypeOK, UiTypeOK
  <2>2. CASE saveFailed' = TRUE /\ UNCHANGED saved
    BY <2>2 DEF MainInv, TypeOK
  <2>3. CASE UNCHANGED fileVars
    BY <1>1, <2>3 DEF MainInv, TypeOK, SettingsInStep, fileVars
  <2>. QED
    BY <2>1, <2>2, <2>3 DEF Look, Persist
<1>5. DispatchEffect
  BY <1>1, <1>3, <1>4 DEF MainInv, TypeOK, UiTypeOK, SettingsInStep, EndInv,
     DispatchEffect, sessionVars
<1>6. \/ MayClose /\ pc' = "closed" /\ exitCode' = (IF outcome = 0 THEN 0 ELSE 1)
      \/ pc' = "top" /\ exitCode' = exitCode
  BY DEF Look
<1>. QED
  BY <1>1, <1>2, <1>5, <1>6

(* The runtime's worker.                                                   *)
Work == ChangeOwnership \/ Resolve \/ BeginGesture \/ EndGesture \/ Complete

LEMMA WorkStep ==
    ASSUME MainInv, Work
    PROVE  /\ SessionOK' /\ state' # "IDLE"
           /\ state' = "EXITING" <=> state = "EXITING"
           /\ complete' => state' = "EXITING" /\ ~gesture' /\ (outcome' = 0 <=> ~owned')
           /\ complete => complete' /\ UNCHANGED <<gesture, owned, outcome>>
           /\ UnchangedByWorker
PROOF
<1> USE DEF MainInv, TypeOK, EndInv, SessionOK, States, Runtime!Transitional
<1>1. CASE ChangeOwnership
  BY <1>1 DEF ChangeOwnership, Runtime!ChangeOwnership
<1>2. CASE Resolve
  BY <1>2 DEF Resolve, Runtime!Resolve
<1>3. CASE BeginGesture
  BY <1>3 DEF BeginGesture, Runtime!BeginGesture
<1>4. CASE EndGesture
  BY <1>4 DEF EndGesture, Runtime!EndGesture
<1>5. CASE Complete
  BY <1>5 DEF Complete, Runtime!Complete
<1>. QED
  BY <1>1, <1>2, <1>3, <1>4, <1>5 DEF Work

(* The outside.                                                            *)
Outside ==
    \/ \E source \in Sources :
          PressDirection(source) \/ ReleaseDirection(source) \/ PressButton(source)
    \/ CloseWindow
    \/ Signal

LEMMA OutsideStep ==
    ASSUME MainInv, Outside
    PROVE  /\ UnchangedByOutside
           /\ events' \in Seq(Events) /\ Len(events') <= MaxBatch
           /\ down' \subseteq Tracked /\ stopRequested' \in BOOLEAN
PROOF
<1> USE DEF MainInv, TypeOK
<1>1. ASSUME NEW source \in Sources, PressDirection(source)
      PROVE  /\ UnchangedByOutside
             /\ events' \in Seq(Events) /\ Len(events') <= MaxBatch
             /\ down' \subseteq Tracked /\ stopRequested' = stopRequested
  <2>1. Queue(source, ActionOf[source]) /\ ActionOf[source] \in Actions \union {"NONE"}
    BY <1>1, MainLoopAssumption DEF PressDirection
  <2>. QED
    BY <1>1, <2>1, QueueOK DEF PressDirection
<1>2. ASSUME NEW source \in Sources, ReleaseDirection(source)
      PROVE  /\ UnchangedByOutside
             /\ events' \in Seq(Events) /\ Len(events') <= MaxBatch
             /\ down' \subseteq Tracked /\ stopRequested' = stopRequested
  <2>1. Queue(source, "NONE")
    BY <1>2 DEF ReleaseDirection
  <2>. QED
    BY <1>2, <2>1, QueueOK DEF ReleaseDirection
<1>3. ASSUME NEW source \in Sources, PressButton(source)
      PROVE  /\ UnchangedByOutside
             /\ events' \in Seq(Events) /\ Len(events') <= MaxBatch
             /\ down' \subseteq Tracked /\ stopRequested' = stopRequested
  <2>1. Queue(source, ActionOf[source]) /\ ActionOf[source] \in Actions \union {"NONE"}
    BY <1>3, MainLoopAssumption DEF PressButton
  <2>. QED
    BY <1>3, <2>1, QueueOK DEF PressButton
<1>4. CASE CloseWindow
  BY <1>4, QueueOK DEF CloseWindow
<1>5. CASE Signal
  BY <1>5 DEF Signal, inputVars
<1>. QED
  BY <1>1, <1>2, <1>3, <1>4, <1>5 DEF Outside

-----------------------------------------------------------------------------
LEMMA TypeStep ==
    ASSUME MainInv, [Next]_vars
    PROVE  TypeOK'
PROOF
<1> USE DEF MainInv, TypeOK, UiTypeOK, DispatchEffect
<1>1. CASE Top
  BY <1>1, TopStep
<1>2. CASE Poll
  BY <1>2, PollStep
<1>3. CASE Repeat
  BY <1>3, RepeatStep
<1>4. CASE Look
  BY <1>4, LookStep, TrackerTickOK
<1>5. CASE Work
  BY <1>5, WorkStep, TrackerTickOK
  DEF SessionOK, UnchangedByWorker, uiVars, fileVars, inputVars
<1>6. CASE Outside
  BY <1>6, OutsideStep, TrackerTickOK
  DEF UnchangedByOutside, uiVars, runtimeVars, sessionVars, fileVars
<1>7. CASE UNCHANGED vars
  BY <1>7, TrackerTickOK DEF vars, uiVars, runtimeVars, sessionVars, fileVars, inputVars
<1>. QED
  BY <1>1, <1>2, <1>3, <1>4, <1>5, <1>6, <1>7 DEF Next, Loop, Work, Outside

LEMMA SettingsStep ==
    ASSUME MainInv, [Next]_vars
    PROVE  SettingsInStep'
PROOF
<1>1. CASE Loop
  <2>1. DispatchEffect
    BY <1>1, TopStep, PollStep, RepeatStep, LookStep DEF Loop
  <2>. QED
    BY <2>1 DEF DispatchEffect, SettingsInStep
<1>2. CASE Work
  BY <1>2, WorkStep DEF MainInv, SettingsInStep, UnchangedByWorker, uiVars, fileVars
<1>3. CASE Outside
  BY <1>3, OutsideStep
  DEF MainInv, SettingsInStep, UnchangedByOutside, uiVars, runtimeVars, sessionVars, fileVars
<1>4. CASE UNCHANGED vars
  BY <1>4 DEF MainInv, SettingsInStep, vars, uiVars, runtimeVars, sessionVars, fileVars
<1>. QED
  BY <1>1, <1>2, <1>3, <1>4 DEF Next, Work, Outside

LEMMA EndStep ==
    ASSUME MainInv, [Next]_vars
    PROVE  EndInv'
PROOF
<1> USE DEF MainInv, EndInv, ClosesOnOutcome
<1>1. CASE Top \/ Poll \/ Repeat
  <2>1. DispatchEffect /\ pc' # "closed"
    BY <1>1, TopStep, PollStep, RepeatStep DEF Top, Poll, Repeat
  <2>. QED
    BY <2>1 DEF DispatchEffect
<1>2. CASE Look
  <2>1. DispatchEffect /\ UNCHANGED sessionVars
    BY <1>2, LookStep
  <2>2. pc' = "closed" =>
          /\ complete /\ ShownSince >= MinShown[outcome] /\ shownFor' = ShownSince
          /\ exitCode' = IF outcome = 0 THEN 0 ELSE 1
    BY <1>2, LookStep DEF MayClose
  <2>. QED
    BY <2>1, <2>2 DEF DispatchEffect, sessionVars
<1>3. CASE Work
  <2>1. UNCHANGED <<pc, exitCode, shownFor>>
    BY <1>3, WorkStep DEF UnchangedByWorker
  <2>2. complete => complete' /\ gesture' = gesture /\ owned' = owned /\ outcome' = outcome
    BY <1>3, WorkStep
  <2>3. ClosesOnOutcome'
    BY <2>1, <2>2
  <2>4. /\ state' # "IDLE"
        /\ complete' => state' = "EXITING" /\ ~gesture' /\ (outcome' = 0 <=> ~owned')
    BY <1>3, WorkStep
  <2>. QED
    BY <2>3, <2>4
<1>4. CASE Outside
  BY <1>4, OutsideStep DEF UnchangedByOutside, runtimeVars, sessionVars
<1>5. CASE UNCHANGED vars
  BY <1>5 DEF vars, runtimeVars, sessionVars
<1>. QED
  BY <1>1, <1>2, <1>3, <1>4, <1>5 DEF Next, Loop, Work, Outside

LEMMA InitInv == Init => MainInv
PROOF
<1> SUFFICES ASSUME Init PROVE MainInv
  OBVIOUS
<1>1. UiTypeOK /\ Legal(rtSettings) /\ Legal(saved)
  BY UiAssumption DEF Init, UiTypeOK, Legal, Adjustable
<1>2. TrackerTypeOK
  BY InputAssumption DEF Init, TrackerInit, TrackerTypeOK
<1>3. events \in Seq(Events) /\ Len(events) <= MaxBatch
  BY MainLoopAssumption DEF Init
<1>4. TypeOK
  BY <1>1, <1>2, <1>3 DEF Init, TypeOK, States
<1>. QED
  BY <1>4 DEF Init, MainInv, SettingsInStep, EndInv, ClosesOnOutcome

(* The inductive invariant.                                                *)
THEOREM MainInvariant == Spec => []MainInv
PROOF
<1>1. MainInv /\ [Next]_vars => MainInv'
  BY TypeStep, SettingsStep, EndStep DEF MainInv
<1>. QED
  BY InitInv, <1>1, PTL DEF Spec

(* The loop's state keeps its type; no adjustment leaves its limits.       *)
THEOREM LoopAlwaysTyped == Spec => []TypeOK
PROOF
<1>1. MainInv => TypeOK
  BY DEF MainInv
<1>. QED
  BY MainInvariant, <1>1, PTL

(* What is edited is what is played and stored.                            *)
THEOREM SettingsAlwaysInStep == Spec => []SettingsInStep
PROOF
<1>1. MainInv => SettingsInStep
  BY DEF MainInv
<1>. QED
  BY MainInvariant, <1>1, PTL

(* The exit code tells whether the runtime still owns anything.            *)
THEOREM AlwaysClosesOnOutcome == Spec => []ClosesOnOutcome
PROOF
<1>1. MainInv => ClosesOnOutcome
  BY DEF MainInv, EndInv
<1>. QED
  BY MainInvariant, <1>1, PTL

(* No screen is drawn with a hint that the view model would not honour,    *)
(* but for the save of settings that could not be written.                 *)
THEOREM ScreenAlwaysKeepsItsWord == Spec => ScreenKeepsItsWord
PROOF
<1> DEFINE Honoured ==
      state \in States \ {"IDLE"} /\ view \in {"MAIN", "SETTINGS", "HELP", "EXIT_CONFIRM"}
      /\ (state = "EXITING" => view = "MAIN") /\ SettingsInStep => HintsHold(state)
<1>1. Honoured
  BY HintsAreTrue
<1>2. Honoured'
  BY <1>1, PTL
<1>3. MainInv /\ MainInv' /\ [Next]_vars => [Look => HintsHold(state)']_vars
  <2> SUFFICES ASSUME MainInv, MainInv', Look PROVE HintsHold(state)'
    OBVIOUS
  <2>1. /\ state' \in States \ {"IDLE"}
        /\ view' \in {"MAIN", "SETTINGS", "HELP", "EXIT_CONFIRM"}
    BY DEF MainInv, TypeOK, UiTypeOK, EndInv
  <2>2. state' = "EXITING" => view' = "MAIN"
    BY LookStep DEF ViewToDraw, sessionVars
  <2>3. SettingsInStep'
    BY DEF MainInv
  <2>. QED
    BY <1>2, <2>1, <2>2, <2>3
<1>. QED
  BY MainInvariant, <1>3, PTL DEF Spec, ScreenKeepsItsWord

-----------------------------------------------------------------------------
(* Held directions.                                                        *)

(* A source is pressed, or its release is queued behind the first n events. *)
LetsGo(source, n) ==
    \/ source \in down
    \/ \E j \in DOMAIN events : j > n /\ events[j] = [source |-> source, value |-> "NONE"]

(* What is queued: a source asks for its action, and a press is followed   *)
(* by the release unless the source is still pressed.                      *)
QueueInv ==
    \A i \in DOMAIN events, source \in Sources :
        events[i].source = source /\ events[i].value # "NONE" =>
            /\ events[i].value = ActionOf[source]
            /\ source \in Tracked => LetsGo(source, i)

(* The sources of the held direction ask for it, and will let go of it.    *)
HoldersInv ==
    /\ held # "NONE" => heldBy # "none"
    /\ heldBy = second => second = "none"
    /\ \A source \in {heldBy, second} \ {"none"} :
          source \in Tracked /\ ActionOf[source] = held /\ LetsGo(source, 0)

(* From the iteration on that sees the end, no event is looked at.         *)
HoldInv ==
    /\ QueueInv
    /\ IF snap = "EXITING" THEN state = "EXITING" ELSE HoldersInv

LEMMA QueueDomain ==
    ASSUME MainInv
    PROVE  DOMAIN events = 1..Len(events) /\ Len(events) \in Nat
PROOF
BY LenProperties DEF MainInv, TypeOK

(* The events that are left once the first one is handled.                 *)
LEMMA QueueAfterPoll ==
    ASSUME MainInv, HoldInv, Poll
    PROVE  /\ QueueInv'
           /\ \A source \in Tracked :
                /\ LetsGo(source, 1) => LetsGo(source, 0)'
                /\ LetsGo(source, 0) => \/ LetsGo(source, 0)'
                                        \/ Head(events) = [source |-> source, value |-> "NONE"]
PROOF
<1>1. events \in Seq(Events) /\ events # << >> /\ events' = Tail(events) /\ down' = down
  BY DEF MainInv, TypeOK, Poll, UnchangedByEvents
<1>2. /\ Len(events) \in Nat \ {0} /\ DOMAIN events = 1..Len(events)
      /\ Len(events') = Len(events) - 1 /\ DOMAIN events' = 1..Len(events')
      /\ \A i \in DOMAIN events' : events'[i] = events[i + 1]
      /\ Head(events) = events[1]
  BY <1>1, HeadTailProperties, LenProperties, EmptySeq
<1>3. ASSUME NEW source, NEW n \in Nat, LetsGo(source, n + 1)
      PROVE  LetsGo(source, n)'
  <2>1. CASE source \in down
    BY <1>1, <2>1 DEF LetsGo
  <2>2. ASSUME NEW j \in DOMAIN events, j > n + 1,
               events[j] = [source |-> source, value |-> "NONE"]
        PROVE  LetsGo(source, n)'
    <3>1. j - 1 \in DOMAIN events' /\ j - 1 > n /\ (j - 1) + 1 = j
      BY <1>2, <2>2
    <3>2. events'[j - 1] = [source |-> source, value |-> "NONE"]
      BY <1>2, <2>2, <3>1
    <3>. QED
      BY <3>1, <3>2 DEF LetsGo
  <2>. QED
    BY <1>3, <2>1, <2>2 DEF LetsGo
<1>4. QueueInv'
  <2> SUFFICES ASSUME NEW i \in DOMAIN events', NEW source \in Sources,
                      events'[i].source = source, events'[i].value # "NONE"
               PROVE  /\ events'[i].value = ActionOf[source]
                      /\ source \in Tracked => LetsGo(source, i)'
    BY DEF QueueInv
  <2>1. i + 1 \in DOMAIN events /\ i \in Nat /\ events'[i] = events[i + 1]
    BY <1>2
  <2>2. /\ events[i + 1].value = ActionOf[source]
        /\ source \in Tracked => LetsGo(source, i + 1)
    BY <2>1 DEF HoldInv, QueueInv
  <2>. QED
    BY <1>3, <2>1, <2>2
<1>5. ASSUME NEW source \in Tracked
      PROVE  /\ LetsGo(source, 1) => LetsGo(source, 0)'
             /\ LetsGo(source, 0) => \/ LetsGo(source, 0)'
                                     \/ Head(events) = [source |-> source, value |-> "NONE"]
  <2>1. LetsGo(source, 1) => LetsGo(source, 0)'
    <3>1. LetsGo(source, 0 + 1) => LetsGo(source, 0)'
      BY <1>3
    <3>. QED
      BY <3>1
  <2>2. LetsGo(source, 0) =>
          LetsGo(source, 1) \/ events[1] = [source |-> source, value |-> "NONE"]
    BY <1>2 DEF LetsGo
  <2>. QED
    BY <1>2, <2>1, <2>2
<1>. QED
  BY <1>4, <1>5

(* An event that is handled leaves the holders in order.                   *)
LEMMA HoldersAfterPoll ==
    ASSUME MainInv, HoldInv, Poll, snap # "EXITING"
    PROVE  HoldersInv'
PROOF
<1>1. HoldersInv /\ Tracked \subseteq Sources /\ "none" \notin Sources /\ "window" \notin Sources
  BY InputAssumption, MainLoopAssumption DEF HoldInv
<1>2. \A source \in Tracked :
        /\ LetsGo(source, 1) => LetsGo(source, 0)'
        /\ LetsGo(source, 0) => \/ LetsGo(source, 0)'
                                \/ Head(events) = [source |-> source, value |-> "NONE"]
  BY QueueAfterPoll
<1>3. Head(events) = events[1] /\ Head(events) \in Events /\ 1 \in DOMAIN events
  BY EventsOK, QueueDomain, HeadTailProperties, EmptySeq DEF MainInv, TypeOK, Poll
<1>4. PICK source \in Sources \union {"window"}, value \in Actions \union {"NONE"} :
        /\ Head(events) = [source |-> source, value |-> value]
        /\ Head(events).source = source /\ Head(events).value = value
  BY <1>3 DEF Events
<1>5. CASE source = "window"
  <2>1. UNCHANGED <<held, heldBy, second>>
    BY <1>5, <1>4 DEF Poll, trackerVars
  <2>2. \A other \in Tracked : LetsGo(other, 0) => LetsGo(other, 0)'
    BY <1>1, <1>2, <1>5, <1>4
  <2>. QED
    BY <1>1, <2>1, <2>2 DEF HoldersInv
<1>6. CASE source # "window"
  <2>1. source \in Sources /\ TrackerEvent(source, value)
    BY <1>6, <1>4 DEF Poll, Ignores
  <2>2. CASE value = "NONE"
    <3>1. CASE source \in Tracked
      <4>1. Release(source)
        BY <2>1, <2>2, <3>1 DEF TrackerEvent
      <4>2. \A other \in Tracked \ {source} : LetsGo(other, 0) => LetsGo(other, 0)'
        BY <1>2, <1>4
      <4>3. source # "none"
        BY <1>1, <2>1
      <4>4. CASE source = heldBy
        <5>1. /\ heldBy' = second /\ second' = "none"
              /\ held' = IF second = "none" THEN "NONE" ELSE held
          BY <4>1, <4>4 DEF Release
        <5>2. second # source
          BY <1>1, <4>3, <4>4 DEF HoldersInv
        <5>. QED
          BY <1>1, <4>2, <5>1, <5>2 DEF HoldersInv
      <4>5. CASE source # heldBy
        <5>1. /\ heldBy' = heldBy /\ held' = held
              /\ second' = IF source = second THEN "none" ELSE second
          BY <4>1, <4>5 DEF Release
        <5>2. second' # source
          BY <4>3, <5>1
        <5>. QED
          BY <1>1, <4>2, <4>5, <5>1, <5>2 DEF HoldersInv
      <4>. QED
        BY <4>4, <4>5
    <3>2. CASE source \notin Tracked
      <4>1. UNCHANGED <<held, heldBy, second>>
        BY <2>1, <2>2, <3>2 DEF TrackerEvent, trackerVars
      <4>2. \A other \in Tracked : LetsGo(other, 0) => LetsGo(other, 0)'
        BY <1>2, <1>4, <3>2
      <4>. QED
        BY <1>1, <4>1, <4>2 DEF HoldersInv
    <3>. QED
      BY <3>1, <3>2
  <2>3. CASE value # "NONE"
    <3>1. /\ value = ActionOf[source]
          /\ source \in Tracked => LetsGo(source, 1)
      BY <1>3, <1>4, <2>1, <2>3 DEF HoldInv, QueueInv
    <3>2. Press(source, value)
      BY <2>1, <2>3 DEF TrackerEvent
    <3>3. \A other \in Tracked : LetsGo(other, 0) => LetsGo(other, 0)'
      BY <1>2, <1>4, <2>3
    <3>4. source \in Tracked => LetsGo(source, 0)'
      BY <1>2, <3>1
    <3>5. source # "none" /\ (value \in Directions => source \in Tracked)
      BY <1>1, <2>1, <3>1, ReleaseAssumption
    <3>6. CASE Duplicate(value)
      <4>1. /\ UNCHANGED <<held, heldBy>>
            /\ \/ second' = second
               \/ /\ second' = source /\ source # heldBy
                  /\ value \in Directions /\ held = value
        BY <3>2, <3>6 DEF Press
      <4>. QED
        BY <1>1, <3>1, <3>3, <3>4, <3>5, <4>1 DEF HoldersInv
    <3>7. CASE ~Duplicate(value) /\ value \in Directions
      <4>1. held' = value /\ heldBy' = source /\ second' = "none"
        BY <3>2, <3>7 DEF Press
      <4>. QED
        BY <3>1, <3>4, <3>5, <3>7, <4>1 DEF HoldersInv
    <3>8. CASE ~Duplicate(value) /\ value \notin Directions
      <4>1. UNCHANGED <<held, heldBy, second>>
        BY <3>2, <3>8 DEF Press
      <4>. QED
        BY <1>1, <3>3, <4>1 DEF HoldersInv
    <3>. QED
      BY <3>6, <3>7, <3>8
  <2>. QED
    BY <2>2, <2>3
<1>. QED
  BY <1>5, <1>6

(* Another event, behind those that are queued.                            *)
LEMMA QueueAfterEvent ==
    ASSUME MainInv, HoldInv, NEW source \in Sources \union {"window"},
           NEW value \in Actions \union {"NONE"}, Queue(source, value),
           \/ source \in Sources /\ value = ActionOf[source]
                /\ (source \in Tracked => source \in down')
           \/ value = "NONE",
           \/ down \subseteq down'
           \/ down \ {source} \subseteq down' /\ value = "NONE"
    PROVE  QueueInv' /\ \A other : LetsGo(other, 0) => LetsGo(other, 0)'
PROOF
<1> DEFINE event == [source |-> source, value |-> value]
<1>1. events \in Seq(Events) /\ event \in Events /\ events' = Append(events, event)
  BY DEF MainInv, TypeOK, Queue, Events
<1>2. /\ Len(events) \in Nat /\ DOMAIN events = 1..Len(events)
      /\ DOMAIN events' = 1..(Len(events) + 1)
      /\ \A i \in DOMAIN events : events'[i] = events[i]
      /\ events'[Len(events) + 1] = event
  BY <1>1, AppendProperties, LenProperties
<1>3. ASSUME NEW other, NEW n \in 0..Len(events), LetsGo(other, n)
      PROVE  LetsGo(other, n)'
  <2>1. CASE other \in down'
    BY <2>1 DEF LetsGo
  <2>2. CASE other \in down \ down'
    <3>1. other = source /\ value = "NONE"
      BY <2>2
    <3>. QED
      BY <1>2, <3>1 DEF LetsGo
  <2>3. ASSUME NEW j \in DOMAIN events, j > n,
               events[j] = [source |-> other, value |-> "NONE"]
        PROVE  LetsGo(other, n)'
    BY <1>2, <2>3 DEF LetsGo
  <2>. QED
    BY <1>3, <2>1, <2>2, <2>3 DEF LetsGo
<1>4. QueueInv'
  <2> SUFFICES ASSUME NEW i \in DOMAIN events', NEW other \in Sources,
                      events'[i].source = other, events'[i].value # "NONE"
               PROVE  /\ events'[i].value = ActionOf[other]
                      /\ other \in Tracked => LetsGo(other, i)'
    BY DEF QueueInv
  <2>1. CASE i \in DOMAIN events
    <3>1. events'[i] = events[i] /\ i \in 0..Len(events)
      BY <1>2, <2>1
    <3>2. /\ events[i].value = ActionOf[other]
          /\ other \in Tracked => LetsGo(other, i)
      BY <2>1, <3>1 DEF HoldInv, QueueInv
    <3>. QED
      BY <1>3, <3>1, <3>2
  <2>2. CASE i = Len(events) + 1
    <3>1. events'[i] = event
      BY <1>2, <2>2
    <3>. QED
      BY <3>1 DEF LetsGo
  <2>. QED
    BY <1>2, <2>1, <2>2
<1>. QED
  BY <1>2, <1>3, <1>4

LEMMA HoldStep ==
    ASSUME MainInv, HoldInv, [Next]_vars
    PROVE  HoldInv'
PROOF
<1>1. ASSUME UNCHANGED <<held, heldBy, second, events, down, snap>>,
             state = "EXITING" => state' = "EXITING"
      PROVE  HoldInv'
  BY <1>1 DEF HoldInv, QueueInv, HoldersInv, LetsGo
<1>2. CASE Top
  <2>1. UNCHANGED <<held, heldBy, second, events, down>> /\ snap' = state'
        /\ (state = "EXITING" => state' = "EXITING")
    BY <1>2, TopStep DEF Top, TrackerTick, DispatchEffect, inputVars
  <2>. QED
    BY <2>1 DEF HoldInv, QueueInv, HoldersInv, LetsGo
<1>3. CASE Poll
  <2>1. snap' = snap /\ (state = "EXITING" => state' = "EXITING")
    BY <1>3, PollStep DEF DispatchEffect
  <2>. QED
    BY <1>3, <2>1, QueueAfterPoll, HoldersAfterPoll DEF HoldInv
<1>4. CASE Repeat
  <2>1. UNCHANGED <<events, down, snap>> /\ (state = "EXITING" => state' = "EXITING")
    BY <1>4, RepeatStep DEF DispatchEffect
  <2>2. UNCHANGED <<held, heldBy, second>>
    BY <1>4 DEF Repeat, TrackerRepeat, trackerVars
  <2>. QED
    BY <1>1, <2>1, <2>2
<1>5. CASE Look
  BY <1>1, <1>5, LookStep DEF trackerVars, sessionVars
<1>6. CASE Work
  <2>1. UNCHANGED <<held, heldBy, second, events, down, snap>>
    BY <1>6, WorkStep DEF UnchangedByWorker, trackerVars, inputVars
  <2>2. state = "EXITING" => state' = "EXITING"
    BY <1>6, WorkStep
  <2>. QED
    BY <1>1, <2>1, <2>2
<1>7. CASE Outside
  <2>1. UNCHANGED <<held, heldBy, second, state, snap>>
    BY <1>7, OutsideStep DEF UnchangedByOutside, trackerVars, runtimeVars, sessionVars
  <2>2. ASSUME QueueInv', \A other : LetsGo(other, 0) => LetsGo(other, 0)'
        PROVE  HoldInv'
    BY <2>1, <2>2 DEF HoldInv, HoldersInv
  <2>3. ASSUME NEW source \in Sources, PressDirection(source)
        PROVE  HoldInv'
    <3>1. Queue(source, ActionOf[source]) /\ down' = down \union {source}
          /\ ActionOf[source] \in Actions
      BY <2>3, MainLoopAssumption DEF PressDirection
    <3>. QED
      BY <2>2, <3>1, QueueAfterEvent
  <2>4. ASSUME NEW source \in Sources, ReleaseDirection(source)
        PROVE  HoldInv'
    <3>1. Queue(source, "NONE") /\ down' = down \ {source}
      BY <2>4 DEF ReleaseDirection
    <3>. QED
      BY <2>2, <3>1, QueueAfterEvent
  <2>5. ASSUME NEW source \in Sources, PressButton(source)
        PROVE  HoldInv'
    <3>1. Queue(source, ActionOf[source]) /\ down' = down /\ source \notin Tracked
          /\ ActionOf[source] \in Actions
      BY <2>5, MainLoopAssumption DEF PressButton
    <3>. QED
      BY <2>2, <3>1, QueueAfterEvent
  <2>6. CASE CloseWindow
    <3>1. Queue("window", "NONE") /\ down' = down
      BY <2>6 DEF CloseWindow
    <3>. QED
      BY <2>2, <3>1, QueueAfterEvent
  <2>7. CASE Signal
    BY <1>1, <2>1, <2>7 DEF Signal, inputVars
  <2>. QED
    BY <1>7, <2>3, <2>4, <2>5, <2>6, <2>7 DEF Outside
<1>8. CASE UNCHANGED vars
  BY <1>1, <1>8 DEF vars, trackerVars, inputVars, runtimeVars, sessionVars
<1>. QED
  BY <1>2, <1>3, <1>4, <1>5, <1>6, <1>7, <1>8 DEF Next, Loop, Work, Outside

(* A repeat that changes a setting is of a direction somebody holds.       *)
THEOREM RepeatsAlwaysHeld == Spec => RepeatsAreHeld
PROOF
<1>1. Init => HoldInv
  BY DEF Init, TrackerInit, HoldInv, QueueInv, HoldersInv
<1>2. MainInv /\ HoldInv /\ [Next]_vars => HoldInv'
  BY HoldStep
<1>3. MainInv /\ HoldInv =>
        [Repeat /\ settings' # settings /\ snap # "EXITING" =>
           \E source \in down : ActionOf[source] = held]_vars
  <2> SUFFICES ASSUME MainInv, HoldInv, Repeat, settings' # settings, snap # "EXITING"
               PROVE  \E source \in down : ActionOf[source] = held
    OBVIOUS
  <2>1. events = << >> /\ held # "NONE"
    BY DEF Repeat, RepeatDue, NoDispatch, uiVars
  <2>2. heldBy # "none" /\ ActionOf[heldBy] = held /\ LetsGo(heldBy, 0)
    BY <2>1 DEF HoldInv, HoldersInv
  <2>3. heldBy \in down
    BY <2>1, <2>2 DEF LetsGo
  <2>. QED
    BY <2>2, <2>3
<1>. QED
  BY MainInvariant, <1>1, <1>2, <1>3, PTL DEF Spec, RepeatsAreHeld

-----------------------------------------------------------------------------
(* The end of the program.                                                 *)

(* The steps of the iterations behind the current one.                     *)
LaterSteps == (IterationsLeft - 1) * IterationSteps

(* What LoopStepsLeft is at each place of the loop.                        *)
Measured ==
    /\ IterationsLeft \in Nat \ {0} /\ LaterSteps \in Nat /\ Len(events) \in 0..MaxBatch
    /\ pc = "top" => LoopStepsLeft = LaterSteps + MaxBatch + 3
    /\ pc = "poll" => LoopStepsLeft = LaterSteps + 2 + Len(events)
    /\ pc = "look" => LoopStepsLeft = LaterSteps + 1
    /\ pc = "closed" => LoopStepsLeft = 0
    /\ pc \in {"top", "poll", "look", "closed"}

LEMMA ShownInNumbers ==
    /\ MinShown[0] \in Nat /\ MinShown[-1] \in Nat
    /\ Shown \subseteq Nat
    /\ \A result \in {0, -1} : MinShown[result] \in Shown
    /\ \A n \in Shown : n + 1 \notin Shown => \A result \in {0, -1} : MinShown[result] <= n
    /\ 0 \in Shown
PROOF
<1>1. MinShown[0] \in Nat /\ MinShown[-1] \in Nat
  BY MainLoopAssumption
<1>. QED
  BY <1>1 DEF Shown

LEMMA MeasureHolds ==
    ASSUME TypeOK
    PROVE  Measured
PROOF
<1>1. MaxBatch \in Nat \ {0} /\ IterationSteps = MaxBatch + 3
  BY MainLoopAssumption DEF IterationSteps
<1>2. Len(events) \in 0..MaxBatch
  BY <1>1, LenProperties DEF TypeOK
<1>3. IterationsLeft \in Nat \ {0}
  <2>1. shownFor \in Int /\ MinShown[outcome] \in Nat
    BY ShownInNumbers DEF TypeOK
  <2>. QED
    BY <2>1 DEF IterationsLeft
<1>4. /\ LaterSteps \in Nat
      /\ IterationsLeft * IterationSteps = LaterSteps + IterationSteps
  <2>1. \A n \in Nat \ {0}, c \in Nat : (n - 1) * c \in Nat /\ n * c = (n - 1) * c + c
    OBVIOUS
  <2>. QED
    BY <1>1, <1>3, <2>1 DEF LaterSteps
<1>5. /\ pc = "top" => LoopStepsLeft = IterationsLeft * IterationSteps
      /\ pc = "poll" => LoopStepsLeft = LaterSteps + 2 + Len(events)
      /\ pc = "look" => LoopStepsLeft = LaterSteps + 1
      /\ pc = "closed" => LoopStepsLeft = 0
  BY DEF LoopStepsLeft, LaterSteps
<1>6. pc = "top" => LoopStepsLeft = LaterSteps + MaxBatch + 3
  BY <1>1, <1>4, <1>5
<1>. QED
  BY <1>2, <1>3, <1>4, <1>5, <1>6 DEF Measured, TypeOK

(* The end of an iteration that does not end the program.                  *)
LEMMA ScreenGoesOn ==
    ASSUME MainInv, complete, ~MayClose, ShownSince = shownFor', outcome' = outcome
    PROVE  IterationsLeft' = IterationsLeft - 1
PROOF
<1>1. state = "EXITING" /\ outcome \in {0, -1} /\ shownFor \in Shown \union {-1}
  BY DEF MainInv, TypeOK, EndInv
<1>2. shownFor \in Int /\ shownFor >= -1
  BY <1>1, ShownInNumbers
<1>3. shownFor + 1 \in Shown
  <2>1. CASE shownFor = -1
    BY <2>1, ShownInNumbers
  <2>2. CASE shownFor \in Shown /\ shownFor + 1 \notin Shown
    <3>1. ShownSince = shownFor /\ MinShown[outcome] <= shownFor /\ shownFor # -1
          /\ MinShown[outcome] \in Int
      BY <1>1, <2>2, ShownInNumbers DEF ShownSince
    <3>. QED
      BY <1>2, <3>1 DEF MayClose
  <2>. QED
    BY <1>1, <2>1, <2>2
<1>4. shownFor' = shownFor + 1
  BY <1>1, <1>3 DEF ShownSince
<1>5. MinShown[outcome] \in Nat
  BY <1>1, ShownInNumbers
<1>6. shownFor + 1 < MinShown[outcome]
  BY <1>2, <1>4, <1>5 DEF MayClose
<1>. QED
  BY <1>2, <1>4, <1>5, <1>6 DEF IterationsLeft

(* Nothing but the end of an iteration changes what is left of them.       *)
LEMMA IterationsKept ==
    ASSUME UNCHANGED <<shownFor, outcome>>
    PROVE  IterationsLeft' = IterationsLeft /\ LaterSteps' = LaterSteps
PROOF
BY DEF IterationsLeft, LaterSteps, IterationSteps

(* A step of the loop.                                                     *)
LEMMA LoopDrawsNearer ==
    ASSUME MainInv, Measured, Measured', complete, Loop
    PROVE  LoopStepsLeft' < LoopStepsLeft
PROOF
<1>0. MaxBatch \in Nat \ {0}
  BY MainLoopAssumption
<1>1. CASE Top
  <2>1. pc = "top" /\ pc' = "poll" /\ UNCHANGED <<shownFor, outcome>>
    BY <1>1, TopStep DEF Top, DispatchEffect
  <2>2. LaterSteps' = LaterSteps
    BY <2>1, IterationsKept
  <2>3. /\ LoopStepsLeft = LaterSteps + MaxBatch + 3
        /\ LoopStepsLeft' = LaterSteps + 2 + Len(events')
        /\ LaterSteps \in Nat /\ Len(events') \in 0..MaxBatch
    BY <2>1, <2>2 DEF Measured
  <2>. QED
    BY <1>0, <2>3
<1>2. CASE Poll
  <2>1. pc = "poll" /\ pc' = "poll" /\ UNCHANGED <<shownFor, outcome>>
    BY <1>2, PollStep DEF Poll, DispatchEffect
  <2>2. LaterSteps' = LaterSteps
    BY <2>1, IterationsKept
  <2>3. Len(events') = Len(events) - 1
    BY <1>2, HeadTailProperties DEF Poll, MainInv, TypeOK
  <2>4. /\ LoopStepsLeft = LaterSteps + 2 + Len(events)
        /\ LoopStepsLeft' = LaterSteps + 2 + Len(events')
        /\ LaterSteps \in Nat /\ Len(events) \in 0..MaxBatch
    BY <2>1, <2>2 DEF Measured
  <2>. QED
    BY <1>0, <2>3, <2>4
<1>3. CASE Repeat
  <2>1. pc = "poll" /\ pc' = "look" /\ UNCHANGED <<shownFor, outcome>>
    BY <1>3, RepeatStep DEF Repeat, DispatchEffect
  <2>2. LaterSteps' = LaterSteps
    BY <2>1, IterationsKept
  <2>3. /\ LoopStepsLeft = LaterSteps + 2 + Len(events)
        /\ LoopStepsLeft' = LaterSteps + 1
        /\ LaterSteps \in Nat /\ Len(events) \in 0..MaxBatch
    BY <2>1, <2>2 DEF Measured
  <2>. QED
    BY <1>0, <2>3
<1>4. CASE Look
  <2>1. /\ pc = "look" /\ LoopStepsLeft = LaterSteps + 1 /\ LaterSteps \in Nat
    BY <1>4 DEF Look, Measured
  <2>2. CASE MayClose
    <3>1. LoopStepsLeft' = 0
      BY <1>4, <2>2 DEF Look, Measured
    <3>. QED
      BY <2>1, <3>1
  <2>3. CASE ~MayClose
    <3>1. pc' = "top" /\ shownFor' = ShownSince /\ outcome' = outcome
      BY <1>4, <2>3 DEF Look, runtimeVars, sessionVars
    <3>2. IterationsLeft' = IterationsLeft - 1
      BY <2>3, <3>1, ScreenGoesOn
    <3>3. LoopStepsLeft' = IterationsLeft' * IterationSteps'
      BY <3>1 DEF LoopStepsLeft
    <3>4. IterationSteps' = IterationSteps
      BY DEF IterationSteps
    <3>5. LoopStepsLeft' = LaterSteps
      BY <3>2, <3>3, <3>4 DEF LaterSteps
    <3>. QED
      BY <2>1, <3>5
  <2>. QED
    BY <2>2, <2>3
<1>. QED
  BY <1>1, <1>2, <1>3, <1>4 DEF Loop

(* A step of anybody else.                                                 *)
LEMMA OthersDoNotDelayTheEnd ==
    ASSUME MainInv, Measured, Measured', complete, Work \/ Outside \/ UNCHANGED vars
    PROVE  LoopStepsLeft' <= LoopStepsLeft
PROOF
<1>0. MaxBatch \in Nat \ {0}
  BY MainLoopAssumption
<1>1. UNCHANGED <<pc, shownFor, outcome>> /\ (events' = events \/ pc = "top")
  <2>1. CASE Work
    BY <2>1, WorkStep DEF UnchangedByWorker, inputVars
  <2>2. CASE Outside
    BY <2>2, OutsideStep
    DEF UnchangedByOutside, runtimeVars, sessionVars, Outside, PressDirection,
        ReleaseDirection, PressButton, CloseWindow, Signal, Queue, inputVars
  <2>3. CASE UNCHANGED vars
    BY <2>3 DEF vars, runtimeVars, sessionVars, inputVars
  <2>. QED
    BY <2>1, <2>2, <2>3
<1>2. LaterSteps' = LaterSteps
  BY <1>1, IterationsKept
<1>3. LoopStepsLeft' = LoopStepsLeft /\ LoopStepsLeft \in Int
  BY <1>0, <1>1, <1>2 DEF Measured
<1>. QED
  BY <1>3

(* The longest that the last screen is shown, in steps of the loop: the    *)
(* iterations until then, and the one in which it comes up.                *)
CloseBound == LET longest == CHOOSE n \in Shown : n + 1 \notin Shown IN
    (longest + 1) * IterationSteps

LEMMA LoopStepsBounded ==
    ASSUME TypeOK
    PROVE  LoopStepsLeft \in 0..CloseBound
PROOF
<1> DEFINE longest == CHOOSE n \in Shown : n + 1 \notin Shown
<1>1. longest \in Nat /\ \A result \in {0, -1} : MinShown[result] <= longest
  <2>1. \E n \in Shown : n + 1 \notin Shown
    BY ShownInNumbers DEF Shown
  <2>2. longest \in Shown /\ longest + 1 \notin Shown
    BY <2>1
  <2>. QED
    BY <2>2, ShownInNumbers
<1>2. Measured /\ MaxBatch \in Nat \ {0}
  BY MeasureHolds, MainLoopAssumption
<1>3. IterationsLeft \in 1..(longest + 1)
  <2>1. /\ shownFor \in Int /\ shownFor >= -1
        /\ MinShown[outcome] \in Nat /\ MinShown[outcome] <= longest
    BY <1>1, ShownInNumbers DEF TypeOK
  <2>. HIDE DEF longest
  <2>. QED
    BY <1>1, <2>1 DEF IterationsLeft
<1>. HIDE DEF longest
<1>4. LaterSteps \in 0..(longest * IterationSteps)
  <2>1. IterationSteps \in Nat
    BY <1>2 DEF IterationSteps
  <2>2. \A n, m, c \in Nat : n <= m => n * c <= m * c
    <3>1. \A n, d, c \in Nat : (n + d) * c = n * c + d * c /\ d * c \in Nat /\ n * c \in Nat
      OBVIOUS
    <3>2. SUFFICES ASSUME NEW n \in Nat, NEW m \in Nat, NEW c \in Nat, n <= m
                   PROVE  n * c <= m * c
      OBVIOUS
    <3>3. m = n + (m - n) /\ m - n \in Nat
      BY <3>2
    <3>4. m * c = n * c + (m - n) * c /\ (m - n) * c \in Nat /\ n * c \in Nat
      BY <3>1, <3>3
    <3>. QED
      BY <3>4
  <2>3. IterationsLeft - 1 \in Nat /\ IterationsLeft - 1 <= longest
    BY <1>1, <1>3
  <2>. QED
    BY <1>1, <1>2, <2>1, <2>2, <2>3 DEF LaterSteps, Measured
<1>5. CloseBound = longest * IterationSteps + MaxBatch + 3 /\ longest * IterationSteps \in Nat
  <2>1. \A n, c \in Nat : (n + 1) * c = n * c + c /\ n * c \in Nat
    OBVIOUS
  <2>2. CloseBound = (longest + 1) * IterationSteps
    BY DEF CloseBound, longest
  <2>3. IterationSteps = MaxBatch + 3 /\ IterationSteps \in Nat
    BY <1>2 DEF IterationSteps
  <2>4. /\ (longest + 1) * IterationSteps = longest * IterationSteps + IterationSteps
        /\ longest * IterationSteps \in Nat
    BY <1>1, <2>1, <2>3
  <2>. QED
    BY <1>2, <2>2, <2>3, <2>4
<1>6. LoopStepsLeft \in Nat /\ LoopStepsLeft <= LaterSteps + MaxBatch + 3
  BY <1>2 DEF Measured
<1>. QED
  BY <1>2, <1>4, <1>5, <1>6

(* Once the shutdown is complete, the loop has as many iterations left as  *)
(* the last screen has to be shown, whatever is pressed.                   *)
THEOREM CloseAlwaysDrawsNearer ==
    Spec => CloseDrawsNearer /\ [](LoopStepsLeft \in 0..CloseBound)
PROOF
<1>1. MainInv => Measured
  BY MeasureHolds DEF MainInv
<1>2. MainInv => LoopStepsLeft \in 0..CloseBound
  BY LoopStepsBounded DEF MainInv
<1>3. ASSUME MainInv, Measured, Measured', [Next]_vars
      PROVE  [complete => /\ LoopStepsLeft' <= LoopStepsLeft
                          /\ Loop => LoopStepsLeft' < LoopStepsLeft]_vars
  <2>. SUFFICES ASSUME complete
                PROVE  /\ LoopStepsLeft' <= LoopStepsLeft
                       /\ Loop => LoopStepsLeft' < LoopStepsLeft
    OBVIOUS
  <2>1. LoopStepsLeft \in Int /\ LoopStepsLeft' \in Int
    BY <1>3, MainLoopAssumption DEF Measured
  <2>2. CASE Loop
    <3>1. LoopStepsLeft' < LoopStepsLeft
      BY <1>3, <2>2, LoopDrawsNearer
    <3>. QED
      BY <2>1, <3>1
  <2>3. CASE ~Loop
    BY <1>3, <2>3, OthersDoNotDelayTheEnd DEF Next, Work, Outside
  <2>. QED
    BY <2>2, <2>3
<1>. QED
  BY MainInvariant, <1>1, <1>2, <1>3, PTL DEF Spec, CloseDrawsNearer
=============================================================================
