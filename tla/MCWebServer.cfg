CONSTANTS
  Fds = {f1, f2}
  ListenFd = lfd
  PipeFd = pfd
  Workers = {w1, w2}
  Timers = {t1, t2}
  NoFd = nofd
  Limits = {1, 2}
  MAX_EVENT_NUMBER = 2
  MaxRequests = 1
  Expiry = 2
  ListenET = TRUE
  ConnET = TRUE
  MaxConnects = 2
  MayTerminate = TRUE
  Unused <- AnyUnused
SPECIFICATION Spec
SYMMETRY Symmetry
INVARIANTS TypeOK TimerOwned EventHasTimer TurnExclusive TickComing NoClientStranded
