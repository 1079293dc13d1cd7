CONSTANTS
  Objs = {o1, o2, o3, o4}
  Nil = Nil
  MaxRef = 4
  Size = 3
  Threads = {t1, t2}
SPECIFICATION BothSpec
INVARIANTS HeldRefsFindTheirObject
PROPERTIES RefinesAllocator RefinesQueue
CHECK_DEADLOCK FALSE
