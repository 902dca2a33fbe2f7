---------------------------- MODULE MCHpWatering ----------------------------
(* Small instances of HpWatering for TLC: zone 1 has the valves 20 and 21, *)
(* zone 2 the valve 22.  21 can be a temperature as well.                  *)
EXTENDS HpWatering

ValvesOfZones == <<<<20, 21>>, <<22>>>>
FlagOfValves == [p \in Valves |-> CASE p = 20 -> 1 [] p = 22 -> 2 [] OTHER -> NoZone]
NoInputs == [x \in Inputs |-> 0]
ProgramBudget == [NoInputs EXCEPT !["program"] = 2, !["stop"] = 1, !["hold"] = 1, !["check"] = 1]
MixedBudget == [NoInputs EXCEPT !["program"] = 1, !["zone"] = 1, !["rain"] = 1, !["check"] = 1]
=============================================================================
