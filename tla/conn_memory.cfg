CONSTANTS
  Conns = {c1, c2}
  Nothing = Nothing
  Tids = {t1, t2}
  NoTid = NoTid
  Sharing = TRUE
  ClientConnect = TRUE
  EmptyReads = TRUE
  MaxWrites = 2
SPECIFICATION Spec
SYMMETRY Symmetry
INVARIANTS RefCountCovers NoUseAfterFree
CHECK_DEADLOCK FALSE
