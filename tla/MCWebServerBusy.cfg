CONSTANTS
  Fds = {f1}
  ListenFd = lfd
  PipeFd = pfd
  Workers = {w1}
  Timers = {t1, t2}
  NoFd = nofd
  Limits = {1}
  MAX_EVENT_NUMBER = 3
  MaxRequests = 1
  Expiry = 1
  ListenET = TRUE
  ConnET = TRUE
  MaxConnects = 2
  MayTerminate = TRUE
  Unused <- AnyUnused
SPECIFICATION Spec
INVARIANT BusyOnlyWhenFull
