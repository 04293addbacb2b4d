\* Two clients of one key (keys are independent) and all operations, some of which
\* every scope may do; a bucket of one request and a third.
SPECIFICATION ServiceSpec
CONSTANTS
  Keys = {k1}
  NoKey = NoKey
  Clients = {c1, c2}
  Scopes = {"write", "admin"}
  Ops = {"create", "get", "list", "history", "run", "delete", "metrics"}
  Burst = 4
  Cost = 3
  Rate = 2
  TicksPerSec = 1
  WinStart = 3
  WinEnd = 3
  MaxClock = 3
SYMMETRY Symmetric
INVARIANTS
  ServiceTypeOK
  RevokedShutOut
  NothingDisclosed
  OnlyIssuedKeysCharged
  ServedBound
  NeverInDebt
  RetryHonoured
  RetryTight
