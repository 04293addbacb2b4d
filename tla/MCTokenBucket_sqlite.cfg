\* SQLite, the default TASKQ_DB_URL: two workers on one key.
SPECIFICATION Spec
CONSTANTS
  Keys = {k1}
  Workers = {w1, w2}
  RowLock = FALSE
  Burst = 6
  Cost = 3
  Rate = 1
  TicksPerSec = 2
  WinStart = 0
  WinEnd = 1
  MaxClock = 1
SYMMETRY Symmetric
INVARIANT WindowBound
