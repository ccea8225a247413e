CONSTANTS
  Producer = {p1, p2}
  Kinds <- SoundKinds
  Depths = {1, 2}
  MaxPush = 2
SPECIFICATION Spec
CHECK_DEADLOCK FALSE
INVARIANTS
  TypeOK
  PoppedInOrder
  QuiescentExact
  PeekStable
PROPERTIES
  ImplementsReservation
  EmplaceReturns
  EventuallyPopped
