SPECIFICATION Spec
CONSTANTS
  Object = {o1, o2}
  Value = {v1, v2}
  Kinds = {"list", "slist", "lifo_list_queue", "mpsc_lifo_list_queue", "spsc_fifo_list_queue", "vector", "string", "charwrap", "unordered_map", "dynamic_queue", "spsc_key_set", "mpmc_key_set",
           "ring_queue", "ring_ptr_queue", "ticket_queue", "split_ticket_queue",
           "pair", "tuple", "chararr", "archive"}
  Fronts = {"slist"}
  Middles = {}
  Overwrites = {}
  Shrinks = {}
  ReUse = {}
  MaxLen = 3
INVARIANTS ContentsKept MemoryOwned BothWays
CHECK_DEADLOCK FALSE
