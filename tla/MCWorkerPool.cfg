CONSTANTS
  Workers = {w1, w2}
  Clients = {w1, w2}
  Producers = {main}
  Requests = {r1, r2}
  Handed = {r1, r2}
  NoRequest = noreq
  MaxRequests = 1
  MaxConn = 2
SPECIFICATION FairSpec
INVARIANTS TPTypeOK SPTypeOK SemaphoreCounts ConnectionGiven ConnsExclusive ReserveCounts NeverRefused
PROPERTIES RequestServed MainGoesOn
CHECK_DEADLOCK FALSE
