CONSTANTS
  NumHbx = 2
  Active = {1, 2}
  External = {2}
  Pins = {"P1"}
  Values = {"255"}
  NumUc = 3
  MAX_XBEE_MESS_ID = 6
  HBX_BUFFER = 1
  MAX_MESS_COUNTER = 6
  MAX_POSTPONE_COUNT = 1
  MAX_RESEND_COUNT = 3
  MAX_DELAY_TIME = 2
  DELAY_20 = 1
  DELAY_40 = 1
  DELAY_100 = 1
  CommandDelays = {0}
  Prompt = TRUE
  Budget <- PromptBudget

SPECIFICATION Spec
INVARIANTS TypeOK NoIdLeaks AckFindsItsOwn ResetReleased
CHECK_DEADLOCK TRUE
