CONSTANTS
  Thread = {t1, t2, t3}
  MaxTicket = 4
SPECIFICATION MutexSpec
CHECK_DEADLOCK FALSE
INVARIANTS
  MutexTypeOK
  MutualExclusion
  NoOrphanTicket
  GateHolds
PROPERTIES
  EveryTicketServed
  ImplementsFcfs
