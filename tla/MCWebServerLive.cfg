CONSTANTS
  Fds = {f1}
  ListenFd = lfd
  PipeFd = pfd
  Workers = {w1}
  Timers = {t1, t2, t3}
  Unused <- OneUnused
  NoFd = nofd
  Limits = {3}
  MAX_EVENT_NUMBER = 3
  MaxRequests = 1
  Expiry = 1
  ListenET = FALSE
  ConnET = FALSE
  MaxConnects = 3
  MayTerminate = FALSE
SPECIFICATION FairSpec
PROPERTIES IdleReaped RequestSettles
