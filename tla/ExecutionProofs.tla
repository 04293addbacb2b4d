----------------------------- MODULE ExecutionProofs ---------------------------
(***************************************************************************)
(* Runs, store and restarts together, for any number of runs and tasks: the *)
(* gate hands out no more than its permits, the store keeps its own         *)
(* invariants, the history says what became of each command, and only a     *)
(* stop of the server leaves one behind.                                    *)
(***************************************************************************)
EXTENDS Execution, RunnerProofs

\* Run r has its row from the moment it leaves _persist_result with "done".
RowDue(r) == pc[r] = "done" \/ (pc[r] \in Passing /\ goal[r] = "done")

\* A run and its row move together: the row is there when it is due, and then for
\* good, even if the thread fails or dies on its way out; it says what the
\* process did.  Nobody cancels a run here.
Joined(r) ==
    /\ phase[r] = "new" <=> pc[r] = "new"
    /\ RowDue(r) => phase[r] = "recorded"
    /\ phase[r] = "recorded" =>
         /\ RowDue(r) \/ pc[r] \in {"lost", "crashed"}
         /\ \/ result[r] = "exit" /\ child[r] = "exited"
            \/ result[r] = "failure" /\ child[r] \in Ended
    /\ pc[r] # "cancelled"
    /\ pc[r] = "dropped" => child[r] = "none"

StoreTypes == phase \in [Runs -> Store!Phases]

ExecutionInv ==
    /\ ProcessInv /\ StoreTypes /\ NoPermitMadeUp /\ cancelReq = {}
    /\ \A r \in Runs : Joined(r)

--------------------------------------------------------------------------------

LEMMA StartStep ==
    ASSUME ExecutionInv, NEW r \in Runs, NEW id \in Ids, Accept(r, id)
    PROVE  (\A q \in Runs : Joined(q)') /\ StoreTypes' /\ cancelReq' = {}
  <1>1. /\ pc' = [pc EXCEPT ![r] = "thread"] /\ pc[r] = "new"
        /\ UNCHANGED <<child, result, cancelReq, goal>>
    BY DEF Accept, Start, Goto, semaphore, passing
  <1>2. phase' = [phase EXCEPT ![r] = "running"]
    BY DEF Accept, Store!RunTask
  <1>3. pc \in [Runs -> PCs] /\ phase \in [Runs -> Store!Phases]
    BY DEF ExecutionInv, ProcessInv, Typed, TypeOK, StoreTypes
  <1>4. StoreTypes' /\ cancelReq' = {}
    BY <1>1, <1>2, <1>3 DEF ExecutionInv, StoreTypes, Store!Phases
  <1>5. ASSUME NEW q \in Runs PROVE Joined(q)'
    <2>1. Joined(q)
      BY DEF ExecutionInv
    <2>2. CASE q = r
      BY <1>1, <1>2, <1>3, <2>2 DEF Joined, RowDue, Passing
    <2>3. CASE q # r
      BY <1>1, <1>2, <1>3, <2>1, <2>3 DEF Joined, RowDue
    <2> QED
      BY <2>2, <2>3
  <1> QED
    BY <1>4, <1>5

\* What Records does to the phases.
LEMMA RecordsPhase ==
    ASSUME StoreTypes, NEW r \in Runs, Records(r)
    PROVE  /\ StoreTypes'
           /\ \A q \in Runs \ {r} : phase'[q] = phase[q]
           /\ \/ Persists(r) /\ goal'[r] = "done" /\ phase'[r] = "recorded"
              \/ Persists(r) /\ goal'[r] = "lost" /\ phase'[r] \in {"lost", "failed"}
              \/ Refused(r) /\ phase'[r] = "failed"
              \/ ~Persists(r) /\ ~Refused(r) /\ phase'[r] = phase[r]
  BY DEF StoreTypes, Records, Store!Phases, storeVars, Store!SaveResult,
         Store!LoseResult, Store!SaveFails

LEMMA RunStep ==
    ASSUME ExecutionInv, NEW r \in Runs, Step(r)
    PROVE  (\A q \in Runs : Joined(q)') /\ StoreTypes' /\ cancelReq' = {}
  <1>1. /\ Typed /\ StoreTypes /\ Follows(r) /\ Joined(r) /\ cancelReq = {}
        /\ pc[r] \in PCs /\ goal[r] \in Goals /\ Bound(r) /\ Coroutine(r)
    BY DEF ExecutionInv, ProcessInv, Typed, TypeOK, Step
  <1>2. Follows(r)' /\ cancelReq' = {} /\ Typed'
    <2>1. Next
      BY <1>1 DEF Next
    <2> QED
      BY <1>1, <2>1, ProcessStep, CoroutineMoves DEF ExecutionInv, ProcessInv
  <1>3. StoreTypes'
    BY <1>1, RecordsPhase DEF Step
  <1>4. ASSUME NEW q \in Runs \ {r} PROVE Joined(q)'
    <2>1. /\ pc'[q] = pc[q] \/ (pc[q] = "waiting" /\ pc'[q] = "woken")
          /\ child'[q] = child[q] /\ goal'[q] = goal[q] /\ result'[q] = result[q]
      BY <1>1, CoroutineMoves
    <2>2. phase'[q] = phase[q] /\ Joined(q)
      BY <1>1, RecordsPhase DEF Step, ExecutionInv
    <2> QED
      BY <2>1, <2>2 DEF Joined, RowDue, Passing
  <1>5. Joined(r)'
    <2>1. \/ Persists(r) /\ goal'[r] = "done" /\ phase'[r] = "recorded"
          \/ Persists(r) /\ goal'[r] = "lost" /\ phase'[r] \in {"lost", "failed"}
          \/ Refused(r) /\ phase'[r] = "failed"
          \/ ~Persists(r) /\ ~Refused(r) /\ phase'[r] = phase[r]
      BY <1>1, RecordsPhase DEF Step
    <2>2. CASE /\ pc[r] \in {"thread", "entering", "queueing", "woken"}
               /\ pc'[r] \in {"queueing", "waiting", "dropped", "entering", "spawning"}
               /\ UNCHANGED <<child, result>>
      BY <1>1, <2>1, <2>2
         DEF Joined, Follows, RowDue, Passing, Holding, Persists, Refused
    <2>3. CASE /\ pc[r] = "woken" /\ pc'[r] = "scanning" /\ goal'[r] = "spawning"
               /\ UNCHANGED <<child, result>>
      BY <1>1, <2>1, <2>3 DEF Joined, RowDue, Passing, Holding, Persists, Refused
    <2>4. CASE \/ pc[r] = "spawning" /\ pc'[r] = "running" /\ UNCHANGED result
               \/ pc[r] = "running" /\ pc'[r] = "reaping" /\ UNCHANGED result
      BY <1>1, <2>1, <2>4 DEF Joined, RowDue, Passing, Holding, Persists, Refused
    <2>5. CASE /\ pc[r] \in Holding /\ pc'[r] = "scanning"
               /\ \/ pc[r] = "spawning" /\ child'[r] = child[r]
                  \/ /\ pc[r] = "running" /\ child[r] = "exited"
                     /\ child'[r] = child[r]
                  \/ pc[r] = "reaping" /\ child'[r] = "reaped"
               /\ \/ /\ goal'[r] = "done"
                     /\ \/ result'[r] = "exit" /\ pc[r] = "running"
                        \/ result'[r] = "failure"
                  \/ goal'[r] = "lost" /\ UNCHANGED result
      <3>1. phase[r] # "new" /\ child'[r] \in Ended
        BY <1>1, <2>5 DEF Joined, Holding, Follows, Ended
      <3>2. \/ goal'[r] = "done" /\ phase'[r] = "recorded"
            \/ goal'[r] = "lost" /\ phase'[r] \in {"lost", "failed"}
        BY <2>1, <2>5 DEF Persists, Refused
      <3>3. result'[r] = "exit" /\ pc[r] = "running" => child'[r] = "exited"
        BY <2>5
      <3> QED
        BY <2>5, <3>1, <3>2, <3>3 DEF Joined, RowDue, Passing
    <2>6. CASE /\ pc[r] = "scanning" /\ pc'[r] = "handing" /\ goal'[r] = goal[r]
               /\ UNCHANGED <<child, result>>
      BY <1>1, <2>1, <2>6 DEF Joined, RowDue, Passing, Holding, Persists, Refused
    <2>7. CASE /\ pc[r] \in Passing /\ pc'[r] \in {goal[r], "lost"}
               /\ UNCHANGED <<child, result>>
      <3>1. \/ goal[r] = "spawning" /\ child[r] = "none"
            \/ goal[r] \in {"done", "lost"} /\ child[r] \in Ended
        BY <1>1, <2>7 DEF Follows
      <3>2. ~Persists(r)
        BY <2>7 DEF Persists, Passing, Holding
      <3>3. \/ phase'[r] = phase[r]
            \/ phase'[r] = "failed" /\ pc'[r] = "lost" /\ goal[r] = "spawning"
        BY <2>1, <2>7, <3>1, <3>2 DEF Refused
      <3> QED
        BY <1>1, <2>7, <3>1, <3>3 DEF Joined, RowDue, Passing
    <2> QED
      BY <1>1, <2>2, <2>3, <2>4, <2>5, <2>6, <2>7, CoroutineMoves
  <1> QED
    BY <1>2, <1>3, <1>4, <1>5

\* Requests for tasks, and commands that end, are not about runs.
LEMMA OtherStep ==
    ASSUME ExecutionInv,
           \/ \E r \in Runs : ChildExits(r) /\ UNCHANGED storeVars
           \/ Request /\ UNCHANGED vars
           \/ UNCHANGED executionVars
    PROVE  /\ [Next]_vars /\ (\A q \in Runs : Joined(q)') /\ StoreTypes'
           /\ cancelReq' = {}
  <1>1. phase' = phase
    BY DEF Request, Store!Create, Store!InsertTask, Store!CommitTask, Store!InsertFails,
           Store!Delete, Store!DeleteSelect, Store!DeleteCommit, Store!DeleteRefused,
           Store!DeleteFails, storeVars, executionVars
  <1>2. StoreTypes'
    BY <1>1 DEF ExecutionInv, StoreTypes
  <1>3. CASE UNCHANGED vars
    <2>1. UNCHANGED <<pc, goal, child, result, cancelReq>>
      BY <1>3 DEF vars, semaphore, passing
    <2> QED
      BY <1>1, <1>2, <1>3, <2>1 DEF ExecutionInv, Joined, RowDue
  <1>4. ASSUME NEW r \in Runs, ChildExits(r)
        PROVE  Next /\ cancelReq' = {} /\ \A q \in Runs : Joined(q)'
    <2>1. /\ UNCHANGED <<pc, goal, result, cancelReq>> /\ child[r] = "alive"
          /\ child' = [child EXCEPT ![r] = "exited"]
      BY <1>4 DEF ChildExits, semaphore, passing
    <2>2. child \in [Runs -> Children] /\ Next
      BY <1>4 DEF ExecutionInv, ProcessInv, Typed, TypeOK, Next
    <2>3. ASSUME NEW q \in Runs PROVE Joined(q)'
      <3>1. Joined(q)
        BY DEF ExecutionInv
      <3> QED
        BY <1>1, <2>1, <2>2, <3>1 DEF Joined, RowDue, Ended
    <2> QED
      BY <2>1, <2>2, <2>3 DEF ExecutionInv
  <1> QED
    BY <1>2, <1>3, <1>4 DEF executionVars

\* A new process: its gate is whole, and the runs of the old one are over.
LEMMA StopStep ==
    ASSUME IsFiniteSet(Runs), ExecutionInv, Stop
    PROVE  ExecutionInv'
  <1>1. /\ pc \in [Runs -> PCs] /\ TypeOK /\ cancelReq = {}
        /\ \A r \in Runs : Follows(r) /\ Joined(r)
        /\ phase \in [Runs -> Store!Phases]
    BY DEF ExecutionInv, ProcessInv, Typed, TypeOK, StoreTypes
  <1>2. /\ value' = Cap /\ waiters' = <<>> /\ bound' = NoLoop /\ deaf' = {}
        /\ goal' = [r \in Runs |-> "none"] /\ pick' = [r \in Runs |-> {}] /\ torn' = {}
        /\ UNCHANGED <<child, result, cancelReq, drain, shut>>
        /\ pc' \in [Runs -> PCs]
        /\ \A r \in Runs : pc'[r] = IF pc[r] \in {"new"} \cup Terminal THEN pc[r]
                                    ELSE "crashed"
    BY <1>1 DEF Stop, FreshGate, draining, PCs, Terminal
  <1>3. TypeOK'
    <2>1. /\ value' \in Int /\ waiters' \in Seq(Runs) /\ bound' \in Loops \cup {NoLoop}
          /\ deaf' \subseteq Runs /\ torn' \subseteq Runs
      BY <1>2, RunnerAssumption, EmptySeq
    <2>2. goal' \in [Runs -> Goals] /\ pick' \in [Runs -> SUBSET Runs]
      BY <1>2 DEF Goals
    <2> QED
      BY <1>1, <1>2, <2>1, <2>2 DEF TypeOK
  <1>4. \A r \in Runs : pc'[r] \in {"new"} \cup Terminal
    BY <1>2 DEF Terminal
  <1>5. \A r \in Runs : Bound(r)'
    BY <1>4 DEF Bound, Passing, Terminal, Outcomes
  <1>6. NoPermitMadeUp'
    <2>1. Granted' = {}
      BY <1>4 DEF Granted, HasPermit, Passing, Holding, Terminal, Outcomes
    <2>2. Cardinality(Granted') = 0
      BY <2>1, FS_EmptySet
    <2> QED
      BY <1>2, <2>2, RunnerAssumption DEF NoPermitMadeUp
  <1>7. \A r \in Runs : phase'[r] = IF phase[r] = "running" THEN "failed" ELSE phase[r]
    BY DEF Stop, Store!Restart
  <1>8. StoreTypes'
    BY <1>1 DEF StoreTypes, Stop, Store!Restart, Store!Phases
  <1>9. ASSUME NEW r \in Runs PROVE Joined(r)' /\ Follows(r)'
    <2>1. Joined(r) /\ Follows(r)
      BY <1>1
    <2>2. pc'[r] = IF pc[r] \in {"new"} \cup Terminal THEN pc[r] ELSE "crashed"
      BY <1>2
    <2>3. child'[r] = child[r] /\ result'[r] = result[r] /\ cancelReq' = {}
      BY <1>1, <1>2
    <2>4. Joined(r)'
      BY <1>7, <2>1, <2>2, <2>3 DEF Joined, RowDue, Passing, Terminal, Outcomes
    <2>5. Follows(r)'
      BY <1>1, <2>1, <2>2, <2>3 DEF Follows, Passing, Terminal, Outcomes
    <2> QED
      BY <2>4, <2>5
  <1> QED
    BY <1>1, <1>2, <1>3, <1>5, <1>6, <1>8, <1>9 DEF ExecutionInv, ProcessInv, Typed

LEMMA ExecutionStep ==
    ASSUME IsFiniteSet(Runs), ExecutionInv, [ExecutionNext]_executionVars
    PROVE  ExecutionInv'
  <1>1. ASSUME [Next]_vars, \A q \in Runs : Joined(q)', StoreTypes', cancelReq' = {}
        PROVE  ExecutionInv'
    <2>1. ProcessInv'
      BY <1>1, ProcessStep DEF ExecutionInv
    <2>2. NoPermitMadeUp'
      BY <1>1, <2>1, StepKeeps, PermitsAdd DEF ExecutionInv, ProcessInv
    <2> QED
      BY <1>1, <2>1, <2>2 DEF ExecutionInv
  <1>2. ASSUME NEW r \in Runs, NEW id \in Ids, Accept(r, id)
        PROVE  ExecutionInv'
    <2>1. Next
      BY <1>2 DEF Accept, Next
    <2> QED
      BY <1>1, <1>2, <2>1, StartStep
  <1>3. ASSUME NEW r \in Runs, Step(r) PROVE ExecutionInv'
    <2>1. Next
      BY <1>3 DEF Step, Next
    <2> QED
      BY <1>1, <1>3, <2>1, RunStep
  <1>4. CASE \/ \E r \in Runs : ChildExits(r) /\ UNCHANGED storeVars
             \/ Request /\ UNCHANGED vars
             \/ UNCHANGED executionVars
    BY <1>1, <1>4, OtherStep
  <1> QED
    BY <1>2, <1>3, <1>4, StopStep DEF ExecutionNext

LEMMA ExecutionStarts == IsFiniteSet(Runs) /\ ExecutionInit => ExecutionInv
  <1> SUFFICES ASSUME IsFiniteSet(Runs), ExecutionInit PROVE ExecutionInv
    OBVIOUS
  <1>1. ProcessInv /\ NoPermitMadeUp
    BY InitProcess, InitPermits DEF ExecutionInit
  <1>2. /\ cancelReq = {} /\ phase = [r \in Runs |-> "new"]
        /\ \A r \in Runs : pc[r] = "new" /\ child[r] = "none" /\ phase[r] = "new"
    BY DEF ExecutionInit, Init, Store!Init
  <1>3. StoreTypes /\ \A r \in Runs : Joined(r)
    BY <1>2 DEF Joined, RowDue, Passing, StoreTypes, Store!Phases
  <1> QED
    BY <1>1, <1>2, <1>3 DEF ExecutionInv

\* With a thread and a loop for every run, and restarts as well, the gate never
\* hands out a permit that it does not have.
THEOREM NoneMadeUpOverRestarts ==
    ASSUME IsFiniteSet(Runs) PROVE ExecutionSpec => []NoPermitMadeUp
  <1>1. ExecutionInv => NoPermitMadeUp
    BY DEF ExecutionInv
  <1> QED
    BY <1>1, ExecutionStarts, ExecutionStep, PTL DEF ExecutionSpec

\* The history of a task never claims an exit that the command did not make, has
\* no row while the command may still run, and misses no run that ended well,
\* whatever interleaves, whatever holds the command's pipes, and over restarts
\* (AC-8.3).
THEOREM HistoryIsTrue ==
    ASSUME IsFiniteSet(Runs) PROVE ExecutionSpec => []HistoryTruthful
  <1>1. ExecutionInv => HistoryTruthful
    BY DEF ExecutionInv, Joined, RowDue, Ended, HistoryTruthful
  <1> QED
    BY <1>1, ExecutionStarts, ExecutionStep, PTL DEF ExecutionSpec

\* Of the runs the routes start, only those caught by a stop of the server leave a
\* command behind, and none of these is in the history.
THEOREM OrphansExplained ==
    ASSUME IsFiniteSet(Runs) PROVE ExecutionSpec => []OrphansOnlyByStop
  <1>1. ExecutionInv => OrphansOnlyByStop
    <2> SUFFICES ASSUME ExecutionInv, NEW r \in Runs, child[r] \in {"alive", "killed"}
                 PROVE  pc[r] \in Holding \/ (pc[r] = "crashed" /\ phase[r] # "recorded")
      BY DEF OrphansOnlyByStop
    <2>1. pc[r] \in PCs /\ Follows(r) /\ Joined(r) /\ cancelReq = {}
      BY DEF ExecutionInv, ProcessInv, Typed, TypeOK
    <2>2. phase[r] # "recorded"
      BY <2>1 DEF Joined, Ended
    <2> QED
      BY <2>1, <2>2 DEF Follows, Joined, Ended, PCs, Deciding, Passing, Holding,
                        Terminal, Outcomes
  <1> QED
    BY <1>1, ExecutionStarts, ExecutionStep, PTL DEF ExecutionSpec

\* What the store is proved to do by itself it does under the runs and restarts
\* too: every step is a step of the store or none of its business.
THEOREM StoreRefined == ExecutionSpec => Store!Spec
  <1>1. ExecutionInit => Store!Init
    BY DEF ExecutionInit
  <1>2. [ExecutionNext]_executionVars => [Store!Next]_(Store!vars)
    <2> SUFFICES ASSUME [ExecutionNext]_executionVars
                 PROVE  Store!Next \/ UNCHANGED Store!vars
      OBVIOUS
    <2>1. ASSUME UNCHANGED storeVars PROVE UNCHANGED Store!vars
      BY <2>1 DEF storeVars, Store!vars
    <2>2. ASSUME NEW r \in Runs, NEW id \in Ids, Accept(r, id) PROVE Store!Next
      BY <2>2 DEF Accept, Store!Next, Store!Run
    <2>3. ASSUME NEW r \in Runs, Step(r) PROVE Store!Next \/ UNCHANGED Store!vars
      BY <2>1, <2>3 DEF Step, Records, Store!Next, Store!Run
    <2>4. CASE Request
      BY <2>4 DEF Request, Store!Next
    <2>5. CASE Stop
      BY <2>5 DEF Stop, Store!Next
    <2>6. CASE \/ \E r \in Runs : ChildExits(r) /\ UNCHANGED storeVars
               \/ UNCHANGED executionVars
      BY <2>1, <2>6 DEF executionVars
    <2> QED
      BY <2>2, <2>3, <2>4, <2>5, <2>6 DEF ExecutionNext
  <1> QED
    BY <1>1, <1>2, PTL DEF ExecutionSpec, Store!Spec
================================================================================
