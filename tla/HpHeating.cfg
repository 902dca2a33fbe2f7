CONSTANTS
  NumSections = 2
  NumZones = 3
  SectionOf <- Rooms
  SensorOf <- Thermometers
  Sensors = {1, 2}
  RefOf <- OneEach
  HeaterList <- OwnHeater
  CoolerList <- FirstCools
  Vents <- FirstVent
  Pins = {1, 2, 3, 4, 5, 6, 7}
  MASTER = 5
  COOLER = 6
  Minutes <- FirstTempered
  DIFF = 2
  TEMPERING = 1
  DEGREE = 2
  MINUTE = 2
  OSC = 2
  Readings = {1, 6, 7}
  Wanted = {4, 7}
  DEFAULT = 4
  Budget <- SomeBudget

SPECIFICATION FairSpec
INVARIANTS TypeOK ActorHasReason NoOverheat BoilerHasOutlet
PROPERTY TemperingEnds
CHECK_DEADLOCK TRUE
