\* Three changes of two rows, and a connection that may fail.
SPECIFICATION FairSpec
CONSTANTS
  Row = {r1, r2}
  MaxConn = 3
  MaxChange = 3
  MaxRead = 1
  InOrder = FALSE
INVARIANTS ExecutedOnce InOrderConverges
PROPERTIES Drains
CHECK_DEADLOCK FALSE
