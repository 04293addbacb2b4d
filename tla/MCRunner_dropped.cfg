\* start_task: private loops, three runs, one permit.
SPECIFICATION Spec
CONSTANTS
  Runs = {r1, r2, r3}
  Cap = 1
  Loops <- PrivateLoopsSet
  LoopOf <- PrivateLoops
  ShutdownLoop = "main"
  NoLoop = NoLoop
  Owned = {}
INVARIANT NoneDropped
