CONSTANTS
  Thread = {t1, t2}
  Kinds = {"thread_local", "scalable"}
  Requests <- MCRequests
  MinExp = 1
  MaxExp = 3
  Hdr = 1
  RegionSize = 16
  LocalSize = 6
  MaxTid = 2
  MaxDepth = 1
  MaxAlloc = 3
  RegionOff = 2
  Table = 3
  RegionStart = 18
SPECIFICATION Safe
CHECK_DEADLOCK FALSE
SYMMETRY Perms
INVARIANTS
  TypeOK
  PagesApart
  FitsRequest
  OneThreadPerTid
  PageSomewhere
  ScalableExact
