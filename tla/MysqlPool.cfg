SPECIFICATION Spec
CONSTANTS
  Tasks = {t1, t2, t3}
  Acquirers = {t1}
  MaxConns = 2
  MinConns = 1
  Structs = 7
  Calls = 1
  Events = 2
INVARIANTS BooksExact NoLostWakeup RunsOnce
PROPERTIES Reclaimed
CHECK_DEADLOCK FALSE
