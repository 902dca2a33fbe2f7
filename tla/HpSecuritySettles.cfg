CONSTANTS
  NumZones = 2
  Sensors = {"door", "hall"}
  SensorsOf <- SensorsOfZones
  HbxOf <- HbxOfSensors
  Actors = {"horn", "bell"}
  ActorsOf <- ActorsOfZones
  Timed = {"bell"}
  Light = "light"
  WaitTime = 2
  Repeating = {}
  MaxTriggers = 1
  Prompt = TRUE
  Budget <- CalmBudget

SPECIFICATION FairSpec
INVARIANTS CountdownRuns LightFollows SirenOnlyInAlarm
PROPERTY Settles
CHECK_DEADLOCK TRUE
