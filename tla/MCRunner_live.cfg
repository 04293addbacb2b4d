\* One loop: three runs, one of them awaited by a caller, one permit; the loop
\* keeps turning.
SPECIFICATION FairSpec
CONSTANTS
  Runs = {r1, r2, r3}
  Cap = 1
  Loops <- OneLoopSet
  LoopOf <- OneLoop
  ShutdownLoop = "main"
  NoLoop = NoLoop
  Owned = {r1}
INVARIANT DrainComplete
PROPERTIES
  RunsEnd
  ShutdownEnds
