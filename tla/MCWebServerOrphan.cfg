CONSTANTS
  Fds = {f1}
  ListenFd = lfd
  PipeFd = pfd
  Workers = {w1}
  Timers = {t1, t2}
  NoFd = nofd
  Limits = {2}
  MAX_EVENT_NUMBER = 2
  MaxRequests = 1
  Expiry = 1
  ListenET = TRUE
  ConnET = TRUE
  MaxConnects = 2
  MayTerminate = TRUE
  Unused <- AnyUnused
SPECIFICATION Spec
PROPERTY OnlyInactiveClosed
