CONSTANTS
  Ctxs = {c1, c2, c3}
  Coros = {k1, k2, k3}
  Nil = Nil
  MaxRef = 3
  PoolSize = 2
  ReuseLimit = 1
  Nested = TRUE
  StaleWakes = TRUE
SPECIFICATION FairSpec
INVARIANTS Anchored PoolSound  EventsFindTheirThread
PROPERTIES EventResumes
CHECK_DEADLOCK FALSE
