CONSTANTS
  NumZones = 2
  Valves = {20, 21, 22}
  ValvesOf <- ValvesOfZones
  FlagOf <- FlagOfValves
  MINUTE = 2
  GAP = 2
  Timers = {0, 1}
  Temperatures = {18}
  Budget <- ProgramBudget

SPECIFICATION Spec
INVARIANTS TypeOK TimersUnique StopSticks OpenIsTimed OneZoneAtATime
CHECK_DEADLOCK TRUE
