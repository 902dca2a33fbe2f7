---------------------------- MODULE MCHpButtons ----------------------------
(* Small instances of HpButtons for TLC. *)
EXTENDS HpButtons

(* "a" has a rule for two presses and, by day, one for a long press; "b"   *)
(* moves shutters and has one for two presses; "c" has one for a long one. *)
ByMode == [m \in {"normal", "day"} |->
             [p \in {"a", "b", "c"} |->
                CASE p = "b" -> {"short", "long", "double", "shutter"}
                  [] p = "c" -> {"long"}
                  [] p = "a" -> IF m = "day" THEN {"short", "long", "double"}
                                ELSE {"short", "double"}]]
Rooms == [p \in {"a", "b", "c"} |-> IF p = "b" THEN 2 ELSE 1]
SomeDims == {<<"a", "short">>, <<"b", "multi">>, <<"c", "normal">>}
NoInputs == [x \in Inputs |-> 0]
ByDay == [m \in {"day"} |-> [p \in {"a"} |-> {"short"}]]
OneRoom == [p \in {"a"} |-> 1]
OneDim == {<<"a", "short">>}
BusyBudget == [NoInputs EXCEPT !["press"] = 2, !["busy"] = 1]
HoldBudget == [NoInputs EXCEPT !["press"] = 3, !["mode"] = 1, !["lost"] = 1]
=============================================================================
