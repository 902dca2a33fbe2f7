CONSTANTS
  MAX_MESS_COUNTER = 6
  Pins = {"a", "b", "c"}
  Modes = {"normal", "day"}
  Flags <- ByMode
  Dims <- SomeDims
  Hbx <- Rooms
  SHORT_PIN_RULE = 1
  DOUBLE_PIN_THRESHOLD = 2
  LONG_PIN_RULE = 3
  PERIOD = 2
  MAX_LEVEL = 2
  FIRST_LEVEL = 1
  Budget <- HoldBudget

SPECIFICATION FairSpec
INVARIANTS TypeOK OnePressOneRule HandStopsMove DimmingHeld CountedLate
PROPERTIES OwnTime AllEnds
CHECK_DEADLOCK TRUE
