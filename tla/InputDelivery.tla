---------------------------- MODULE InputDelivery ---------------------------
(***************************************************************************)
(* The tracker on the handheld: somebody presses and releases controls,    *)
(* and each source reports what it sees of them, in order, but not in step *)
(* with the other sources.                                                 *)
(***************************************************************************)
EXTENDS UiInput

CONSTANTS
    Controls,   \* the physical controls
    ActionOf,   \* what a control asks for
    Feeds,      \* the controls a source sees, the one it prefers first
    Axes,       \* the sources that also report how far they are pushed
    MaxQueue,   \* bound of the model: an axis with as many reports stays still
    Skew        \* no report is later than this

ASSUME DeliveryAssumption ==
    /\ ActionOf \in [Controls -> Actions]
    /\ \A source \in Sources : Feeds[source] \in Seq(Controls)
    /\ Axes \subseteq Sources
    /\ MaxQueue \in Nat
    /\ Skew \in 0..Dedupe - 1
    /\ "none" \notin Sources

(* A source reports directions, and their release, or other actions only.  *)
ASSUME FeedsAssumption ==
    \A source \in Sources :
        LET actions == {ActionOf[Feeds[source][i]] : i \in DOMAIN Feeds[source]} IN
        \/ actions \subseteq Directions /\ source \in Tracked
        \/ actions \cap Directions = {}

VARIABLES
    down,       \* the controls that are pressed
    queue,      \* reports of each source that are under way
    seen,       \* what each source has reported so far
    waited,     \* time since the oldest report under way was made
    fired,      \* actions of a control since its latest press; 2 is "several"
    alone       \* no other control was down at that press or pressed since,
                \* and no axis has reported its push again

deliveryVars == <<down, queue, seen, waited, fired, alone>>
vars == <<trackerVars, deliveryVars>>

Init ==
    /\ TrackerInit
    /\ down = {}
    /\ queue = [source \in Sources |-> << >>]
    /\ seen = [source \in Sources |-> "NONE"]
    /\ waited = 0
    /\ fired = [control \in Controls |-> 0]
    /\ alone = [control \in Controls |-> TRUE]

TypeOK ==
    /\ TrackerTypeOK
    /\ down \subseteq Controls
    /\ queue \in [Sources -> Seq(Actions \union {"NONE"})]
    /\ seen \in [Sources -> Actions \union {"NONE"}]
    /\ waited \in 0..Skew
    /\ fired \in [Controls -> 0..2]
    /\ alone \in [Controls -> BOOLEAN]

Active(source, pressed) == {i \in DOMAIN Feeds[source] : Feeds[source][i] \in pressed}

(* A hat that points two ways is read in a fixed order.                    *)
Value(source, pressed) ==
    LET active == Active(source, pressed)
        first  == CHOOSE i \in active : \A j \in active : i <= j
    IN  IF active = {} THEN "NONE" ELSE ActionOf[Feeds[source][first]]

(* Each source reports when a control it sees changes: a hat that turns    *)
(* from up to up and right asks for UP again.                              *)
Reports(pressed) ==
    [source \in Sources |->
        IF Active(source, pressed) = Active(source, down)
          THEN queue[source]
          ELSE Append(queue[source], Value(source, pressed))]

Sees(source, control) == \E i \in DOMAIN Feeds[source] : Feeds[source][i] = control

(* Nobody presses a control again before its last press has arrived.       *)
PressControl(control) ==
    /\ control \notin down
    /\ \A source \in Sources : Sees(source, control) => queue[source] = << >>
    /\ down' = down \union {control}
    /\ queue' = Reports(down')
    /\ fired' = [fired EXCEPT ![control] = 0]
    /\ alone' = [other \in Controls |->
                    /\ other = control
                    /\ down = {}
                    /\ \A source \in Sources : queue[source] = << >>]
    /\ UNCHANGED <<trackerVars, seen, waited>>

ReleaseControl(control) ==
    /\ control \in down
    /\ down' = down \ {control}
    /\ queue' = Reports(down')
    /\ UNCHANGED <<trackerVars, seen, waited, fired, alone>>

(* An axis beyond its threshold is pushed a little further, or less far:   *)
(* it asks for the same action again, as often as it likes.                *)
AxisMoves(source) ==
    /\ source \in Axes
    /\ Value(source, down) # "NONE"
    /\ Len(queue[source]) < MaxQueue
    /\ queue' = [queue EXCEPT ![source] = Append(@, Value(source, down))]
    /\ alone' = [control \in Controls |-> FALSE]
    /\ UNCHANGED <<trackerVars, down, seen, waited, fired>>

(* The main loop polls an event and passes it to the tracker.              *)
Deliver(source) ==
    LET value  == Head(queue[source])
        action == EventAction(value)
    IN  /\ queue[source] # << >>
        /\ queue' = [queue EXCEPT ![source] = Tail(@)]
        /\ seen' = [seen EXCEPT ![source] = value]
        /\ TrackerEvent(source, value)
        /\ waited' = IF \A other \in Sources : queue'[other] = << >> THEN 0 ELSE waited
        /\ fired' = [control \in Controls |->
                IF ActionOf[control] = action /\ fired[control] < 2
                  THEN fired[control] + 1 ELSE fired[control]]
        /\ UNCHANGED <<down, alone>>

Repeat == TrackerRepeat /\ UNCHANGED deliveryVars

Tick ==
    /\ TrackerTick
    /\ IF \A source \in Sources : queue[source] = << >>
         THEN UNCHANGED waited
         ELSE waited < Skew /\ waited' = waited + 1
    /\ UNCHANGED <<down, queue, seen, fired, alone>>

Next ==
    \/ \E control \in Controls : PressControl(control) \/ ReleaseControl(control)
    \/ \E source \in Sources : AxisMoves(source) \/ Deliver(source)
    \/ Repeat
    \/ Tick

Spec == Init /\ [][Next]_vars

----------------------------------------------------------------------------
(* No direction repeats that nobody holds: the source it is attributed to  *)
(* is still reporting it, and so is the second one, which would inherit it. *)
HeldIsPressed ==
    /\ held # "NONE" => seen[heldBy] = held
    /\ second # "none" => seen[second] = held /\ second # heldBy

(* The reports of a control that is pressed on its own make one action, in *)
(* whatever order and however late within the skew they come.  Of an axis  *)
(* that goes on reporting its push this is not said: it makes another      *)
(* action when its direction is no longer held, and 80 ms have passed.     *)
SolePressFiresOnce ==
    \A control \in Controls : alone[control] => fired[control] <= 1
=============================================================================
