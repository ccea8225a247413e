CONSTANTS
  Thread = {t1, t2, t3}
  MaxWrites = 2
  RegWidth = 4
SPECIFICATION Spec
INVARIANTS
  TypeOK
  WriterExclusion
  CountsExact
  WriterHasTurn
PROPERTIES
  WritersInOrder
  SomebodyGetsIn
