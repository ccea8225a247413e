CONSTANTS
  Process = {p1, p2}
  Url = {u}
  Backend = {1, 2}
  MaxMajor = 2
  MaxRegion = 2
  Kinds <- MCKinds
  Shift = 1
  Barrier = TRUE
  Sizes = {1, 2}
  Hdr = 1
  RegionSize = 6
  MaxPages = 1
SPECIFICATION Safe
SYMMETRY Perms
CHECK_DEADLOCK FALSE
INVARIANTS
  DefaultUsable
  ScannedIsRegistered
  PointersAgree
  AccountsExact
