CONSTANTS
  Conns = {c1, c2}
  Nothing = Nothing
  Tids = {t1, t2}
  NoTid = NoTid
  Sharing = FALSE
  ClientConnect = FALSE
  EmptyReads = TRUE
  MaxWrites = 2
SPECIFICATION FairSpec
INVARIANTS RefCountExact NoLostWakeup
PROPERTIES WakeMatchesWait EventuallyFreed WriteTimesOut
CHECK_DEADLOCK FALSE
