CONSTANTS
  t1 = t1
  t2 = t2
  t3 = t3
  Thread <- Threads
  Consumers <- Allocators
  Page = {a, b}
  Null = Null
  MPMC = TRUE
SPECIFICATION PagesSpec
INVARIANTS
  PagesTypeOK
  ListIsStack
  PageInOnePlace
  CountExact
PROPERTIES
  SomebodyGetsThrough
