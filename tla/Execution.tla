------------------------------- MODULE Execution -------------------------------
(***************************************************************************)
(* Tasks and their runs in one server, as the HTTP routes put them          *)
(* together: a run is accepted for a task of the store (api/tasks.py        *)
(* run_task), goes through the gate on a loop and a thread of its own       *)
(* (Runner, with start_task's private loops) and leaves a row in the store  *)
(* (TaskStore), which meanwhile may lose the task.  The server may stop at  *)
(* any moment and start again on the same database.                        *)
(*                                                                         *)
(* No route and no event handler calls shutdown(), and nobody awaits the    *)
(* runs, so the actions that cancel one do not occur here.                  *)
(***************************************************************************)
EXTENDS Runner

CONSTANTS Ids, Names, Admins, Readers, Limit, Seconds, Fractions

VARIABLES tasks, inserted, minted, phase, of, finished, request, scan, gone, refused

Store == INSTANCE TaskStore

storeVars == <<tasks, inserted, minted, phase, of, finished, request, scan, gone, refused>>
executionVars == <<vars, storeVars>>

ExecutionInit == Init /\ Store!Init

--------------------------------------------------------------------------------

\* 202: the task was found, and a thread is started for it.
Accept(r, id) == Start(r) /\ Store!RunTask(r, id)

\* The run leaves _persist_result on its way out of the gate.
Persists(r) == pc[r] \in Holding /\ pc'[r] = "scanning"

\* An exception leaves acquire().
Refused(r) == pc'[r] = "dropped" \/ (pc'[r] = "lost" /\ goal[r] = "spawning")

\* Fault: the run's row is inserted when the command starts.
Records_Early(r) ==
    \/ pc'[r] = "running" /\ Store!SaveResult(r)
    \/ pc'[r] # "running" /\ UNCHANGED storeVars

\* What a step of a run does to the store: its row is inserted with its outcome,
\* or not, before the permit goes back; or acquire() raises and there is none.
Records(r) ==
    \/ Persists(r) /\ goal'[r] = "done" /\ Store!SaveResult(r)
    \/ Persists(r) /\ goal'[r] = "lost" /\ (Store!LoseResult(r) \/ Store!SaveFails(r))
    \/ Refused(r) /\ Store!SaveFails(r)
    \/ ~Persists(r) /\ ~Refused(r) /\ UNCHANGED storeVars

Step(r) == Coroutine(r) /\ Records(r)

\* _GATE of a new process.
FreshGate ==
    /\ value' = Cap /\ waiters' = <<>> /\ bound' = NoLoop /\ deaf' = {}
    /\ goal' = [r \in Runs |-> "none"] /\ pick' = [r \in Runs |-> {}] /\ torn' = {}

\* The process stops, by a signal or a crash, and another starts.  The threads
\* of the runs are daemons and go with it; their commands are processes of their
\* own and stay.
Stop ==
    /\ pc' = [r \in Runs |->
                IF pc[r] \in {"new"} \cup Terminal THEN pc[r] ELSE "crashed"]
    /\ FreshGate
    /\ UNCHANGED <<child, result, cancelReq, draining>>
    /\ Store!Restart

Request ==
    \/ \E id \in Ids : Store!Create(id)
    \/ \E a \in Admins : Store!Delete(a)

ExecutionNext ==
    \/ \E r \in Runs :
         \/ \E id \in Ids : Accept(r, id)
         \/ Step(r)
         \/ ChildExits(r) /\ UNCHANGED storeVars
    \/ Request /\ UNCHANGED vars
    \/ Stop

ExecutionSpec == ExecutionInit /\ [][ExecutionNext]_executionVars

\* Every thread's loop keeps turning and firing its timers.  Nobody need send a
\* request, no command need end by itself, and the server need not stop.
FairExecutionSpec ==
    ExecutionSpec /\ \A r \in Runs : WF_executionVars(Step(r))

--------------------------------------------------------------------------------
(* Properties.                                                              *)

\* The history and the processes agree: a run has a row with its result if it
\* ended well, and none is written while its command may still run; a command
\* that was killed is never said to have exited (_run_command, _reap_process,
\* _persist_result, AC-8.3).
HistoryTruthful ==
    \A r \in Runs :
        /\ pc[r] = "done" => phase[r] = "recorded"
        /\ phase[r] = "recorded" =>
             \/ result[r] = "exit" /\ child[r] = "exited"
             \/ result[r] = "failure" /\ child[r] \in {"none", "exited", "reaped"}

\* A command outlives its run only through a stop of the server, and then
\* without a row to show for it (start_task's daemon threads).
OrphansOnlyByStop ==
    \A r \in Runs :
        child[r] \in {"alive", "killed"} =>
            \/ pc[r] \in Holding
            \/ pc[r] = "crashed" /\ phase[r] # "recorded"

\* Run r waits for ever: its wake-up lies in a loop that sleeps, or it queued up
\* when the permits it had seen taken were back, and nobody is left who would
\* wake it.
Stranded(r) ==
    \/ r \in deaf
    \/ /\ Sleeping(r) /\ value > 0
       /\ \A q \in Runs : pc[q] \notin {"entering", "woken"} \cup Passing \cup Holding

\* Every accepted run ends, whatever its command does and whatever becomes of its
\* task and of the other runs, unless the gate has stranded this very run
\* (start_task, asyncio.Semaphore on private loops).
AcceptedSettles ==
    \A r \in Runs : pc[r] = "thread" ~> pc[r] \in Terminal \/ Stranded(r)
================================================================================
