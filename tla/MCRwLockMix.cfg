CONSTANTS
  Thread = {t1, t2}
  MaxWrites = 2
  RegWidth = 4
SPECIFICATION Safe
SYMMETRY Perms
INVARIANT ReadersExcludeWriters
