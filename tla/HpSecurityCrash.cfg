CONSTANTS
  NumZones = 2
  Sensors = {"door", "hall"}
  SensorsOf <- SensorsOfZones
  HbxOf <- HbxOfSensors
  Actors = {"horn", "bell"}
  ActorsOf <- ActorsOfZones
  Timed = {"bell"}
  Light = "light"
  WaitTime = 1
  Repeating = {1}
  MaxTriggers = 1
  Prompt = FALSE
  Budget <- CrashBudget

SPECIFICATION Spec
INVARIANTS TypeOK DisarmSticks StoredStatus
PROPERTIES AlarmNeedsTwoMotions KeepsPromise
CHECK_DEADLOCK TRUE
