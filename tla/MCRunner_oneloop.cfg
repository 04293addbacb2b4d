\* One loop: four runs, two permits, shutdown at any point.
SPECIFICATION Spec
CONSTANTS
  Runs = {r1, r2, r3, r4}
  Cap = 2
  Loops <- OneLoopSet
  LoopOf <- OneLoop
  ShutdownLoop = "main"
  NoLoop = NoLoop
  Owned = {}
SYMMETRY Symmetric
INVARIANTS
  TypeOK
  CapRespected
  PermitsConserved
  NoIdleSlot
  NoProcessLeft
PROPERTY RefinesPool
