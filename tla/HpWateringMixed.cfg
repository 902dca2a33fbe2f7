CONSTANTS
  NumZones = 2
  Valves = {20, 21, 22}
  ValvesOf <- ValvesOfZones
  FlagOf <- FlagOfValves
  MINUTE = 2
  GAP = 2
  Timers = {1}
  Temperatures = {21}
  Budget <- MixedBudget

SPECIFICATION FairSpec
INVARIANTS OpenIsTimed
PROPERTY WateringEnds
CHECK_DEADLOCK TRUE
