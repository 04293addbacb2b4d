\* One loop: two runs, one permit.
SPECIFICATION Spec
CONSTANTS
  Runs = {r1, r2}
  Cap = 1
  Loops <- OneLoopSet
  LoopOf <- OneLoop
  ShutdownLoop = "main"
  NoLoop = NoLoop
  Owned = {}
INVARIANT NoOrphan
