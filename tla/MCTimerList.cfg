CONSTANTS
  Timers = {t1, t2, t3, t4}
  Nil = nil
  Freed = freed
  MaxTime = 3
  Span = 3
SPECIFICATION Spec
INVARIANTS TLTypeOK WellLinked
PROPERTY ImplementsSorted
