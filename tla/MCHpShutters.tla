---------------------------- MODULE MCHpShutters ----------------------------
(* Small instances of HpShutters for TLC. *)
EXTENDS HpShutters

OneEach == [s \in 1..2 |-> s]
Times == [s \in 1..2 |-> 2]
OneHbx == [s \in 1..2 |-> 1]
Overlapping == [b \in {"a", "b"} |-> IF b = "a" THEN {1} ELSE {1, 2}]
First == [b \in {"b"} |-> {1}]
NoInputs == [x \in Inputs |-> 0]
SomeCommands == {[kind |-> "whole", side |-> "down"], [kind |-> "steps", side |-> "up"]}
MixedBudget == [NoInputs EXCEPT !["wind"] = 1, !["request"] = 2, !["busy"] = 1]
WindBudget == [NoInputs EXCEPT !["wind"] = 1, !["request"] = 1]
=============================================================================
