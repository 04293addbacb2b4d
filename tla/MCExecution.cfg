\* start_task: three runs of one task on private loops, one permit, one client
\* that deletes.
SPECIFICATION FairExecutionSpec
CONSTANTS
  Runs = {r1, r2, r3}
  Cap = 1
  Loops <- PrivateLoopsSet
  LoopOf <- PrivateLoops
  ShutdownLoop = "main"
  NoLoop = NoLoop
  Owned = {}
  Ids <- OneId
  Names = {n1}
  Admins = {a1}
  Readers = {}
  Limit = 1
  Seconds = {1}
  Fractions = {1}
INVARIANTS
  NoPermitMadeUp
  HistoryTruthful
  OrphansOnlyByStop
PROPERTIES
  AcceptedSettles
CHECK_DEADLOCK FALSE
