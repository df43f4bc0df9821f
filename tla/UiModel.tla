------------------------------ MODULE UiModel -------------------------------
(***************************************************************************)
(* The view model of src/ui_model.c: which screen is up, which setting has *)
(* the focus, the settings being edited, and what an action does to them.  *)
(***************************************************************************)
EXTENDS Integers

CONSTANTS
    Lowest, Highest,  \* the limits of every setting
    Fast, Faster,     \* time held after which the steps grow
    FastStep, FasterStep  \* and how wide they are then

Adjustable == {"INTERVAL", "MOVEMENT", "PATTERN"}

ASSUME UiAssumption ==
    /\ Lowest \in [Adjustable -> Int]
    /\ Highest \in [Adjustable -> Int]
    /\ \A setting \in Adjustable : Lowest[setting] <= Highest[setting]
    /\ Lowest["PATTERN"] = 0
    /\ Fast \in Nat /\ Faster \in Nat /\ Fast <= Faster
    /\ FastStep \in [Adjustable -> Nat \ {0}]
    /\ FasterStep \in [Adjustable -> Nat \ {0}]

VARIABLES
    view,      \* the screen
    selected,  \* selected_setting
    settings   \* the settings as edited

uiVars == <<view, selected, settings>>

Legal(set) ==
    /\ set \in [Adjustable -> Int]
    /\ \A x \in Adjustable : set[x] \in Lowest[x]..Highest[x]

UiTypeOK ==
    /\ view \in {"MAIN", "SETTINGS", "HELP", "EXIT_CONFIRM"}
    /\ selected \in Adjustable
    /\ Legal(settings)

(* The rows from top to bottom; both ends are joined.                      *)
Below == [INTERVAL |-> "MOVEMENT", MOVEMENT |-> "PATTERN", PATTERN |-> "INTERVAL"]
Above == [INTERVAL |-> "PATTERN", MOVEMENT |-> "INTERVAL", PATTERN |-> "MOVEMENT"]

(* ui_adjustment_step; a pattern is changed one at a time.                 *)
Step(heldTime) ==
    CASE selected = "PATTERN" -> 1
      [] selected # "PATTERN" /\ heldTime >= Faster -> FasterStep[selected]
      [] selected # "PATTERN" /\ heldTime < Faster /\ heldTime >= Fast ->
           FastStep[selected]
      [] OTHER -> 1

Clamp(value, low, high) ==
    IF value < low THEN low ELSE IF value > high THEN high ELSE value

(* adjust_setting: numbers stop at their limits, patterns wrap.            *)
Adjusted(action, heldTime) ==
    LET direction == IF action = "RIGHT" THEN 1 ELSE -1
        moved     == settings[selected] + direction * Step(heldTime)
    IN  [settings EXCEPT ![selected] =
            IF selected = "PATTERN"
              THEN moved % (Highest[selected] + 1)
              ELSE Clamp(moved, Lowest[selected], Highest[selected])]

Adjusts(action) ==
    view \in {"MAIN", "SETTINGS"} /\ action \in {"LEFT", "RIGHT"}

ViewAfter(action) ==
    CASE view = "HELP" ->
           IF action \in {"BACK", "HELP", "ACCEPT"} THEN "MAIN" ELSE view
      [] view # "HELP" /\ action = "HELP" -> "HELP"
      [] view = "EXIT_CONFIRM" /\ action # "HELP" ->
           IF action = "BACK" THEN "MAIN" ELSE view
      [] view = "SETTINGS" /\ action # "HELP" ->
           IF action \in {"ACCEPT", "BACK"} THEN "MAIN" ELSE view
      [] view = "MAIN" /\ action # "HELP" ->
           IF action = "BACK" THEN "EXIT_CONFIRM"
           ELSE IF action = "ACCEPT" THEN view ELSE "SETTINGS"

SelectedAfter(action) ==
    CASE view = "SETTINGS" /\ action = "UP"   -> Above[selected]
      [] view = "SETTINGS" /\ action = "DOWN" -> Below[selected]
      [] OTHER -> selected

(* The effect ui_model_handle returns, for a runtime in the given state.   *)
Effect(action, runtimeState) ==
    CASE Adjusts(action) -> "SETTINGS_CHANGED"
      [] view = "EXIT_CONFIRM" /\ action = "ACCEPT" -> "EXIT"
      [] view = "MAIN" /\ action = "ACCEPT" ->
           IF runtimeState = "READY" THEN "START"
           ELSE IF runtimeState = "ACTIVE" THEN "STOP"
           ELSE IF runtimeState \in {"ERROR", "DISCONNECTED"} THEN "RETRY"
           ELSE "NONE"
      [] OTHER -> "NONE"

(* ui_model_handle without the view, which dispatch_action may override.   *)
Handle(action, heldTime) ==
    /\ selected' = SelectedAfter(action)
    /\ settings' = IF Adjusts(action) THEN Adjusted(action, heldTime) ELSE settings
=============================================================================
