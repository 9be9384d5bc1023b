CONSTANTS
  Writers = {w1, w2}
  Flusher = flusher
  NoItem = noitem
  MaxSize = 2
  m_split_lines = 2
  Days = 1
  MaxLines = 2
SPECIFICATION ALSpec
INVARIANTS EachLineOnce AloneHasRoom OvertakesOnlyDirect FileFitsCount
PROPERTIES LinesSettle
CHECK_DEADLOCK FALSE
