\* PostgreSQL: two workers on one key, two tokens of burst, a window inside the
\* run, waiters of a lock served in turn.
SPECIFICATION FairSpec
CONSTANTS
  Keys = {k1}
  Workers = {w1, w2}
  RowLock = TRUE
  Burst = 6
  Cost = 3
  Rate = 1
  TicksPerSec = 2
  WinStart = 1
  WinEnd = 2
  MaxClock = 3
INVARIANTS
  TypeOK
  ReadStaysCurrent
  WindowBound
PROPERTIES
  RefinesAtomic
  EveryRequestAnswered
