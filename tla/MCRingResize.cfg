CONSTANTS
  Producer = {p1}
  Kinds = {"ext_ring_buffer"}
  Depths = {1}
  MaxPush = 3
SPECIFICATION ExtSpec
CHECK_DEADLOCK FALSE
INVARIANT ResizeKeepsAll
