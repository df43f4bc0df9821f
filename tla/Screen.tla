------------------------------- MODULE Screen --------------------------------
(***************************************************************************)
(* What render_application of src/usbjiggler.c draws, as far as it tells   *)
(* the user what the buttons do: the screen for a view and a runtime       *)
(* state, and its button hints.  The drawing code and ui_model_handle      *)
(* decide this separately, from the same view and state.                   *)
(***************************************************************************)
EXTENDS UiModel

(* The exit overlay covers the hints of the screen below it.               *)
DrawnScreen(runtimeState) ==
    CASE view \in {"SETTINGS", "HELP", "EXIT_CONFIRM"} -> view
      [] view = "MAIN" /\ runtimeState \in {"PREPARING", "RETRYING", "EXITING"} -> "PREPARING"
      [] view = "MAIN" /\ runtimeState \in {"ERROR", "DISCONNECTED"} -> "ERROR"
      [] OTHER -> "MAIN"

Leave == {<<"HELP", "HELP">>, <<"BACK", "EXIT">>}

(* The hints of each screen: an action, and what it is said to do.         *)
Primary(runtimeState) ==
    CASE runtimeState = "ACTIVE" -> "STOP"
      [] runtimeState \in {"ERROR", "DISCONNECTED"} -> "RETRY"
      [] OTHER -> "START"
FooterHints(runtimeState) ==
    {<<"ACCEPT", Primary(runtimeState)>>} \union Leave
    \union ({"UP", "DOWN", "LEFT", "RIGHT"} \X {"SETTINGS"})
PreparingHints(runtimeState) == IF runtimeState = "EXITING" THEN {} ELSE Leave
ErrorHints == {<<"ACCEPT", "RETRY">>} \union Leave
SettingsHints ==
    {<<"ACCEPT", "SAVE">>, <<"ACCEPT", "RETURN">>, <<"BACK", "RETURN">>}
HelpHints == {"HELP", "BACK"} \X {"RETURN"}
OverlayHints == {<<"ACCEPT", "EXIT">>, <<"BACK", "RETURN">>}

Hints(runtimeState) ==
    CASE DrawnScreen(runtimeState) = "MAIN"         -> FooterHints(runtimeState)
      [] DrawnScreen(runtimeState) = "ERROR"        -> ErrorHints
      [] DrawnScreen(runtimeState) = "PREPARING"    -> PreparingHints(runtimeState)
      [] DrawnScreen(runtimeState) = "SETTINGS"     -> SettingsHints
      [] DrawnScreen(runtimeState) = "HELP"         -> HelpHints
      [] DrawnScreen(runtimeState) = "EXIT_CONFIRM" -> OverlayHints

(* What the view model would do with the action.                           *)
Does(action, promise, runtimeState) ==
    CASE promise \in {"START", "STOP", "RETRY"} -> Effect(action, runtimeState) = promise
      [] promise = "EXIT" /\ view = "EXIT_CONFIRM" -> Effect(action, runtimeState) = "EXIT"
      [] promise = "EXIT" /\ view # "EXIT_CONFIRM" -> ViewAfter(action) = "EXIT_CONFIRM"
      [] promise \in {"SETTINGS", "HELP"} -> ViewAfter(action) = promise
      [] promise = "RETURN" -> ViewAfter(action) = "MAIN"
      [] promise = "SAVE" -> Effect(action, runtimeState) = "SETTINGS_CHANGED"
=============================================================================
