CONSTANTS
  Producer = {p1, p2}
  Kinds = {"fixed_mpsc_queue"}
  Depths = {2}
  MaxPush = 3
SPECIFICATION Safe
CHECK_DEADLOCK FALSE
INVARIANT QuiescentExact
