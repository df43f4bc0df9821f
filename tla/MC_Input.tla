------------------------------ MODULE MC_Input ------------------------------
(* A d-pad direction and A, each seen by GPTOKEYB's key and the joystick,  *)
(* and a second direction that shares the hat with the first and is an     *)
(* axis as well.                                                           *)
EXTENDS InputDelivery

MC_Controls == {"right", "up", "a"}
MC_ActionOf == [right |-> "RIGHT", up |-> "UP", a |-> "ACCEPT"]
MC_Sources  == {"key_right", "axis_1", "key_a", "hat", "button_0"}
MC_Tracked  == {"key_right", "axis_1", "key_a", "hat"}
MC_Axes     == {"axis_1"}
MC_Feeds    == [key_right |-> <<"right">>, axis_1 |-> <<"up">>,
                key_a |-> <<"a">>, button_0 |-> <<"a">>,
                hat |-> <<"up", "right">>]
=============================================================================
