CONSTANTS
  Timers = {x1, x2}
  Tids = {t1, t2}
  NoTid = NoTid
  Nothing = Nothing
SPECIFICATION FairSpec
INVARIANTS TimerMemorySafe WaiterWillBeResumed
PROPERTIES WaitEnds TimerFreed
CHECK_DEADLOCK FALSE
