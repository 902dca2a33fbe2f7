---------------------------- MODULE MCHpSecurity ----------------------------
(* Small instances of HpSecurity for TLC: zone 1 has the sensor at the     *)
(* door, zone 2 that one and another; each has a siren of its own.         *)
EXTENDS HpSecurity

SensorsOfZones == <<{"door"}, {"door", "hall"}>>
HbxOfSensors == [s \in Sensors |-> IF s = "door" THEN 0 ELSE 1]
ActorsOfZones == <<{"horn"}, {"bell"}>>
EventBudget(requests, motionsSeen, restarts, failures) ==
  [x \in Events |-> CASE x = "request" -> requests [] x = "motion" -> motionsSeen
                      [] x = "restart" -> restarts [] x = "dbfail" -> failures]
CrashBudget == EventBudget(2, 3, 1, 1)
CalmBudget == EventBudget(3, 3, 0, 0)
=============================================================================
