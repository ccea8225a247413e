SPECIFICATION Spec
CONSTANTS
  Thread = {t1, t2, t3}
  Ticket = {k1, k2}
  NumSplits = 3
  Depth = 1
  RrWidth = 4
SYMMETRY Symmetry
INVARIANT TicketInOnePlace
PROPERTIES PopMissesNothing RefusedWhenFull
