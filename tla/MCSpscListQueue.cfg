CONSTANTS
  MaxPush = 3
SPECIFICATION Safe
CHECK_DEADLOCK FALSE
INVARIANT HoldsTheRest
