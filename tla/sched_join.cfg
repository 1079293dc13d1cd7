CONSTANTS
  Ctxs = {c1, c2, c3}
  Coros = {k1, k2, k3}
  Nil = Nil
  MaxRef = 3
  PoolSize = 2
  ReuseLimit = 0
  Nested = FALSE
  StaleWakes = FALSE
SPECIFICATION Spec
PROPERTIES JoinWaits
CHECK_DEADLOCK FALSE
