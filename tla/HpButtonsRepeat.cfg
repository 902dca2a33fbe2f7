CONSTANTS
  MAX_MESS_COUNTER = 6
  Pins = {"a"}
  Modes = {"day"}
  Flags <- ByDay
  Dims <- OneDim
  Hbx <- OneRoom
  SHORT_PIN_RULE = 1
  DOUBLE_PIN_THRESHOLD = 2
  LONG_PIN_RULE = 3
  PERIOD = 2
  MAX_LEVEL = 2
  FIRST_LEVEL = 1
  Budget <- BusyBudget

SPECIFICATION Spec
PROPERTIES RepeatWaits
CHECK_DEADLOCK TRUE
