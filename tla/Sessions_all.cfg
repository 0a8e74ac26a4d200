SPECIFICATION Spec
CONSTANTS
  Threads = {t1,t2}
  MaxWorks = 2
  MaxOps = 3
INVARIANTS Isolated TaskAtomic
CHECK_DEADLOCK FALSE
