CONSTANTS
  MAX_MESS_COUNTER = 6
  NumShutters = 2
  HbxOf <- OneHbx
  Timer <- Times
  Buttons = {"a", "b"}
  Controls <- Overlapping
  Commands <- SomeCommands
  Budget <- MixedBudget

SPECIFICATION FairSpec
INVARIANTS TypeOK LastAllWins MoveHasEnd
PROPERTIES NoMoveInWind MovesEnd
CHECK_DEADLOCK TRUE
