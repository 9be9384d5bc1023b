CONSTANTS
  Consumers = {t1, t2}
  Items = {a, b}
  NoItem = noitem
  MaxSize = 3
SPECIFICATION BQFairSpec
INVARIANTS BQTypeOK
PROPERTIES ImplementsFifo PopReturns
