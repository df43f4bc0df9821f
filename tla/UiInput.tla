------------------------------ MODULE UiInput -------------------------------
(***************************************************************************)
(* The input tracker of src/ui_model.c.  A control of the handheld reaches *)
(* the program several times over: as a key that GPTOKEYB synthesises and  *)
(* as a button, hat or axis of the joystick.  The tracker makes one action *)
(* of it, and repeats a direction for as long as it is held.               *)
(*                                                                         *)
(* A source reports its value: the action it asks for, or "NONE" when it   *)
(* is released, centred or within the release range of an axis.  Events    *)
(* the tracker ignores altogether - key repeats of the system, an axis     *)
(* between the two thresholds - are left out.  Times are kept as ages.     *)
(***************************************************************************)
EXTENDS Integers, Sequences

CONSTANTS
    Sources,      \* keys, hats, axes and buttons
    Tracked,      \* the sources among them that report a release
    Dedupe,       \* INPUT_DEDUPE_MS, in ticks of the model
    RepeatDelay,  \* INPUT_REPEAT_DELAY_MS
    RepeatRate,   \* INPUT_REPEAT_RATE_MS
    HeldLimit     \* longer holding makes no difference to anybody

ASSUME InputAssumption ==
    /\ Tracked \subseteq Sources
    /\ Dedupe \in Nat \ {0}
    /\ RepeatDelay \in Nat \ {0}
    /\ RepeatRate \in 1..RepeatDelay
    /\ HeldLimit \in Nat

VARIABLES
    held,     \* held_action
    heldBy,   \* held_source, held_device and held_control
    second,   \* the same of secondary_*, or "none"
    heldFor,  \* time since held_since
    repeatIn, \* time until next_repeat, or 0
    last,     \* last_action
    lastAge   \* time since last_action_at

trackerVars == <<held, heldBy, second, heldFor, repeatIn, last, lastAge>>

Directions == {"UP", "DOWN", "LEFT", "RIGHT"}
Actions == Directions \union {"ACCEPT", "BACK", "HELP"}

TrackerTypeOK ==
    /\ held \in Directions \union {"NONE"}
    /\ heldBy \in Sources \union {"none"}
    /\ second \in Sources \union {"none"}
    /\ heldFor \in 0..HeldLimit
    /\ repeatIn \in 0..RepeatDelay
    /\ last \in Actions \union {"NONE"}
    /\ lastAge \in 0..Dedupe

TrackerInit ==
    /\ held = "NONE"
    /\ heldBy = "none"
    /\ second = "none"
    /\ heldFor = 0
    /\ repeatIn = 0
    /\ last = "NONE"
    /\ lastAge = Dedupe

(* A source lets go.  The direction stays held if another source holds it  *)
(* as well; an untracked or forgotten source changes nothing.              *)
Release(source) ==
    /\ IF source = heldBy
         THEN /\ heldBy' = second
              /\ second' = "none"
              /\ held' = IF second = "none" THEN "NONE" ELSE held
         ELSE /\ second' = IF source = second THEN "none" ELSE second
              /\ UNCHANGED <<held, heldBy>>
    /\ UNCHANGED <<heldFor, repeatIn, last, lastAge>>

(* Mutant: only held directions are recognised as duplicates.              *)
DuplicateOnlyHeld(action) == action \in Directions /\ held = action

(* The direction is held already, or the same action has just been taken.  *)
Duplicate(action) ==
    \/ action \in Directions /\ held = action
    \/ last = action /\ lastAge < Dedupe

(* Mutant: a new direction leaves the second source of the old one.        *)
PressKeepsSecond(source, action) ==
    IF Duplicate(action)
      THEN /\ second' = IF action \in Directions /\ held = action /\ source # heldBy
                          THEN source ELSE second
           /\ UNCHANGED <<held, heldBy, heldFor, repeatIn, last, lastAge>>
      ELSE /\ last' = action
           /\ lastAge' = 0
           /\ IF action \in Directions
                THEN /\ held' = action /\ heldBy' = source
                     /\ heldFor' = 0 /\ repeatIn' = RepeatDelay
                     /\ UNCHANGED second
                ELSE UNCHANGED <<held, heldBy, second, heldFor, repeatIn>>

(* A source asks for an action.  A duplicate of a held direction is        *)
(* remembered as its second source; the latest one wins.                   *)
Press(source, action) ==
    IF Duplicate(action)
      THEN /\ second' = IF action \in Directions /\ held = action /\ source # heldBy
                          THEN source ELSE second
           /\ UNCHANGED <<held, heldBy, heldFor, repeatIn, last, lastAge>>
      ELSE /\ last' = action
           /\ lastAge' = 0
           /\ IF action \in Directions
                THEN /\ held' = action /\ heldBy' = source /\ second' = "none"
                     /\ heldFor' = 0 /\ repeatIn' = RepeatDelay
                ELSE UNCHANGED <<held, heldBy, second, heldFor, repeatIn>>

(* ui_input_tracker_event.                                                 *)
TrackerEvent(source, value) ==
    IF value = "NONE"
      THEN IF source \in Tracked THEN Release(source) ELSE UNCHANGED trackerVars
      ELSE Press(source, value)

(* The action it returns.                                                  *)
EventAction(value) == IF value = "NONE" \/ Duplicate(value) THEN "NONE" ELSE value

(* ui_input_tracker_repeat, when it returns the held action.               *)
RepeatDue == held # "NONE" /\ repeatIn = 0

(* The next one is due after the rate, counted from now.                   *)
TrackerRepeat ==
    /\ RepeatDue
    /\ repeatIn' = RepeatRate
    /\ UNCHANGED <<held, heldBy, second, heldFor, last, lastAge>>

TrackerTick ==
    /\ heldFor' = IF held # "NONE" /\ heldFor < HeldLimit THEN heldFor + 1 ELSE heldFor
    /\ repeatIn' = IF repeatIn > 0 THEN repeatIn - 1 ELSE 0
    /\ lastAge' = IF lastAge < Dedupe THEN lastAge + 1 ELSE lastAge
    /\ UNCHANGED <<held, heldBy, second, last>>
=============================================================================
