SPECIFICATION Spec
CONSTANTS
  RAW_CHANNEL_DEPTH = 3
  INPUT_CHANNEL_DEPTH = 2
  HOLD = 2
  Budgets <- TurnsAndHands
  MaxBlanks = 1
INVARIANT
  KnobStands
CHECK_DEADLOCK FALSE
