CONSTANTS
  MAX_MESS_COUNTER = 6
  NumShutters = 2
  HbxOf <- OneEach
  Timer <- Times
  Buttons = {"a", "b"}
  Controls <- Overlapping
  Commands <- SomeCommands
  Budget <- WindBudget

SPECIFICATION Spec
INVARIANT WarningRaises
CHECK_DEADLOCK TRUE
