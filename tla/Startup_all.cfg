SPECIFICATION Spec
CONSTANTS
  Threads = {t1, t2}
  Modules = {m1,m2}
  MaxProviders = 3
  MaxLazy = 1
  MaxFaults = 2
INVARIANTS ReadyUnlessOverlapped ResolvesBound
CHECK_DEADLOCK FALSE
