----------------------------- MODULE MC_MainLoop -----------------------------
(* One direction and the three buttons; the interval has two values.       *)
EXTENDS MainLoop

MC_Sources  == {"hat", "button_0", "button_1", "button_6"}
MC_Tracked  == {"hat"}
MC_ActionOf == [hat |-> "RIGHT", button_0 |-> "ACCEPT",
                button_1 |-> "BACK", button_6 |-> "HELP"]
MC_Lowest   == [INTERVAL |-> 1, MOVEMENT |-> 1, PATTERN |-> 0]
MC_Highest  == [INTERVAL |-> 2, MOVEMENT |-> 1, PATTERN |-> 0]
MC_FastStep == [setting \in Adjustable |-> 2]
MC_MinShown == [result \in {0, -1} |-> -result]
=============================================================================
