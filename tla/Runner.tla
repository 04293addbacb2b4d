--------------------------------- MODULE Runner --------------------------------
(***************************************************************************)
(* service/runner.py: execution of task commands.                          *)
(*                                                                         *)
(* Every run is an asyncio task that registers itself with the gate, takes  *)
(* a permit of the module-level semaphore, spawns a child process, waits    *)
(* for it up to TASKQ_TASK_TIMEOUT, persists the outcome and gives the      *)
(* permit back.  shutdown() awaits the registered runs up to                *)
(* TASKQ_DRAIN_TIMEOUT and cancels those that overrun.                     *)
(*                                                                         *)
(* LoopOf says on which event loop (hence thread) each run lives.  Callers  *)
(* of execute_task/run_task share their own loop; start_task, which the     *)
(* HTTP route uses, gives every run a private loop in a thread of its own.  *)
(* Code on one loop runs until it awaits; code on different loops           *)
(* interleaves wherever the interpreter may switch threads.  The semaphore  *)
(* is asyncio's (Python 3.11), which is not thread-safe and binds itself to *)
(* the first loop that has to wait.                                        *)
(***************************************************************************)
EXTENDS Integers, Sequences, FiniteSets, SequencesExt

CONSTANTS Runs,           \* runs that may be submitted
          Cap,            \* TASKQ_MAX_CONCURRENT
          Loops, LoopOf,  \* event loops, and the loop of each run
          ShutdownLoop,   \* the loop shutdown() is awaited on
          NoLoop,
          Owned           \* runs awaited by a caller that may be cancelled

ASSUME RunnerAssumption ==
    /\ Cap \in Nat \ {0}
    /\ LoopOf \in [Runs -> Loops]
    /\ Owned \subseteq Runs
    /\ ShutdownLoop \in Loops
    /\ NoLoop \notin Loops

VARIABLES pc,         \* where each run's coroutine is
          value,      \* Semaphore._value
          waiters,    \* Semaphore._waiters, as the runs that own the futures
          bound,      \* Semaphore._loop
          deaf,       \* runs whose wake-up was queued on a loop that sleeps
          goal,       \* where a run in _wake_up_next() goes when it returns
          pick,       \* the waiter it found pending, and is about to wake
          torn,       \* runs under whose iteration the queue has changed
          child,      \* the child process of each run
          result,     \* the task_results row of each run
          cancelReq,  \* runs on which task.cancel() took hold
          drain,      \* _drain_one of each run in shutdown's snapshot
          shut        \* shutdown() itself

passing   == <<goal, pick, torn>>
semaphore == <<value, waiters, bound, deaf, passing>>
draining  == <<drain, shut>>
vars == <<pc, semaphore, child, result, cancelReq, draining>>

Holding  == {"spawning", "running", "reaping"}    \* inside `async with`
\* How a run leaves `async with`: "lost" is an exception that nobody sees.
Outcomes == {"done", "lost", "cancelled"}
\* A run is "crashed" when its process ends: Execution has that action.
Terminal == Outcomes \cup {"dropped", "crashed"}
Passing  == {"scanning", "handing"}               \* inside _wake_up_next()
\* Inside acquire() or release(), not awaiting.
Deciding == {"entering", "queueing"} \cup Passing
PCs == {"new", "thread", "waiting", "woken"} \cup Deciding \cup Holding \cup Terminal

\* child: "alive" runs; "exited" has ended and been collected by the child
\* watcher; "killed" has been sent SIGKILL; "reaped" was waited for after that.
Children == {"none", "alive", "exited", "killed", "reaped"}
Goals    == {"none", "spawning"} \cup Outcomes
\* result: an exit code, or none of it after a timeout or a failure.
Results  == {"none", "exit", "failure"}
Drains   == {"none", "awaiting", "cancelling", "clean", "interrupted", "raised"}

Init ==
    /\ pc = [r \in Runs |-> "new"]
    /\ value = Cap
    /\ waiters = <<>>
    /\ bound = NoLoop
    /\ deaf = {}
    /\ goal = [r \in Runs |-> "none"]
    /\ pick = [r \in Runs |-> {}]
    /\ torn = {}
    /\ child = [r \in Runs |-> "none"]
    /\ result = [r \in Runs |-> "none"]
    /\ cancelReq = {}
    /\ drain = [r \in Runs |-> "none"]
    /\ shut = "off"

\* _GATE._inflight: registered at the coroutine's first step, dropped by the
\* done callback.
InFlight(r) == pc[r] \notin {"new", "thread"} \cup Terminal

Goto(r, place) == pc' = [pc EXCEPT ![r] = place]

\* Between the semaphore's locked() test and what follows from it, and while it
\* wakes the next waiter, a coroutine does not await: nothing else runs on its
\* loop, but the other threads do.
LoopFree(l) == \A r \in Runs : LoopOf[r] = l => pc[r] \notin Deciding

--------------------------------------------------------------------------------
(* asyncio.Semaphore.                                                       *)

\* A waiter whose future is still pending (a cancelled future is done).
Sleeping(r) == pc[r] = "waiting" /\ r \notin cancelReq

\* Fault: locked() looks at the queue only.
Locked_QueueOnly == \E i \in 1 .. Len(waiters) : Sleeping(waiters[i])

\* locked(): no permit, or somebody's future in the queue is not cancelled.
Locked ==
    \/ value = 0
    \/ \E i \in 1 .. Len(waiters) :
           Sleeping(waiters[i]) \/ pc[waiters[i]] = "woken"

\* Fault: the queue is served from its end.
IsNext_Last(q) ==
    \E i \in 1 .. Len(waiters) :
        /\ waiters[i] = q /\ Sleeping(q)
        /\ \A j \in i + 1 .. Len(waiters) : ~Sleeping(waiters[j])

\* The first waiter in the queue whose future is pending.
IsNext(q) ==
    \E i \in 1 .. Len(waiters) :
        /\ waiters[i] = q /\ Sleeping(q)
        /\ \A j \in 1 .. i - 1 : ~Sleeping(waiters[j])

\* The queue is about to change: an iteration over it that has got past its head
\* will raise RuntimeError.
Tear ==
    torn' = torn \cup {p \in Runs : /\ pc[p] = "scanning" /\ waiters # <<>>
                                    /\ ~Sleeping(waiters[1])}

\* The run's future is taken out of the queue.
LeaveQueue(r) ==
    /\ Tear
    /\ \E i \in 1 .. Len(waiters) :
           waiters[i] = r /\ waiters' = RemoveAt(waiters, i)

\* The run calls _wake_up_next() on its way to place.
PassOn(r, place) ==
    /\ Goto(r, "scanning")
    /\ goal' = [goal EXCEPT ![r] = place]
    /\ UNCHANGED <<deaf, pick>>

\* Fault: the permit is given back, and nobody is woken.
Release_NoWake(r, place) ==
    /\ value' = value + 1
    /\ Goto(r, place)
    /\ UNCHANGED <<deaf, goal, pick>>

\* release(): _value += 1, then _wake_up_next().
Release(r, place) ==
    /\ value' = value + 1
    /\ PassOn(r, place)

\* _wake_up_next() has returned, or an exception has left it.
Passed(r) ==
    /\ goal' = [goal EXCEPT ![r] = "none"]
    /\ pick' = [pick EXCEPT ![r] = {}]
    /\ torn' = torn \ {r}

\* _wake_up_next() goes through the queue and stops at the first future that is
\* not done().  Another thread may change the queue meanwhile.
Scan(r) ==
    /\ pc[r] = "scanning"
    /\ \/ \E q \in Runs :
              /\ IsNext(q)
              /\ Goto(r, "handing")
              /\ pick' = [pick EXCEPT ![r] = {q}]
              /\ torn' = torn \ {r}
              /\ UNCHANGED goal
       \/ ~(\E q \in Runs : IsNext(q)) /\ Goto(r, goal[r]) /\ Passed(r)
       \/ r \in torn /\ Goto(r, "lost") /\ Passed(r)
    /\ UNCHANGED <<value, waiters, bound, deaf, child, result, cancelReq, draining>>

\* The waiter's future is set.  That only queues a callback: if the waiter's loop
\* is another one and sits in its selector, nothing makes it look.
Wake(r, q) ==
    /\ pc' = [p \in Runs |-> IF p = q THEN "woken" ELSE IF p = r THEN goal[r] ELSE pc[p]]
    /\ deaf' \in IF LoopOf[q] = LoopOf[r] THEN {deaf} ELSE {deaf, deaf \cup {q}}

\* Fault: the permit handed over stays on the counter.
Hand_NoDecrement(r) ==
    /\ pc[r] = "handing"
    /\ \E q \in pick[r] : Sleeping(q) /\ Wake(r, q)
    /\ Passed(r)
    /\ UNCHANGED <<value, waiters, bound, child, result, cancelReq, draining>>

\* Fault: the permit is taken for the waiter, and its future not set.
Hand_NoWake(r) ==
    /\ pc[r] = "handing"
    /\ value' = value - 1
    /\ Goto(r, goal[r])
    /\ Passed(r)
    /\ UNCHANGED <<waiters, bound, deaf, child, result, cancelReq, draining>>

\* _value -= 1 and set_result(), which raises InvalidStateError if another thread
\* was faster: the waiter has its permit, and this one is gone.
Hand(r) ==
    /\ pc[r] = "handing"
    /\ value' = value - 1
    /\ \E q \in pick[r] :
           \/ Sleeping(q) /\ Wake(r, q)
           \/ ~Sleeping(q) /\ Goto(r, "lost") /\ UNCHANGED deaf
    /\ Passed(r)
    /\ UNCHANGED <<waiters, bound, child, result, cancelReq, draining>>

--------------------------------------------------------------------------------
(* A run, from submission to permit.                                        *)

\* POST /v1/tasks/{id}/run -> start_task: a daemon thread that will drive the
\* coroutine.
Start(r) ==
    /\ pc[r] = "new"
    /\ Goto(r, "thread")
    /\ UNCHANGED <<semaphore, child, result, cancelReq, draining>>

\* execute_task's first step: register, then acquire(), which looks whether the
\* semaphore is locked.
Enter(r) ==
    /\ pc[r] = "thread"
    /\ LoopFree(LoopOf[r])
    /\ Goto(r, IF Locked THEN "queueing" ELSE "entering")
    /\ UNCHANGED <<semaphore, child, result, cancelReq, draining>>

\* It was locked: the run queues up, whatever happened since -- unless the
\* semaphore is bound to another loop, which raises RuntimeError out of the
\* coroutine, and _run_in_thread swallows it.
Queue(r) ==
    /\ pc[r] = "queueing"
    /\ \/ /\ bound \in {NoLoop, LoopOf[r]}
          /\ bound' = LoopOf[r]
          /\ waiters' = Append(waiters, r)
          /\ Tear
          /\ Goto(r, "waiting")
          /\ UNCHANGED <<value, deaf, goal, pick>>
       \/ /\ bound \notin {NoLoop, LoopOf[r]}
          /\ Goto(r, "dropped")
          /\ UNCHANGED semaphore
    /\ UNCHANGED <<child, result, cancelReq, draining>>

\* It was open.
TakePermit(r) ==
    /\ pc[r] = "entering"
    /\ value' = value - 1
    /\ Goto(r, "spawning")
    /\ UNCHANGED <<waiters, bound, deaf, passing, child, result, cancelReq, draining>>

\* Fault: a woken waiter keeps to itself that there is another permit.
ResumeAcquire_NoPassOn(r) ==
    /\ pc[r] = "woken" /\ r \notin deaf \cup cancelReq
    /\ LoopFree(LoopOf[r])
    /\ LeaveQueue(r)
    /\ Goto(r, "spawning")
    /\ UNCHANGED <<value, deaf, bound, goal, pick, child, result, cancelReq, draining>>

\* The waiter's coroutine resumes with its permit, leaves the queue, and wakes
\* the next one if a permit is still free.
ResumeAcquire(r) ==
    /\ pc[r] = "woken" /\ r \notin deaf \cup cancelReq
    /\ LoopFree(LoopOf[r])
    /\ LeaveQueue(r)
    /\ \/ value <= 0 /\ Goto(r, "spawning") /\ UNCHANGED <<deaf, goal, pick>>
       \/ value > 0 /\ PassOn(r, "spawning")
    /\ UNCHANGED <<value, bound, child, result, cancelReq, draining>>

--------------------------------------------------------------------------------
(* A run, from permit to outcome.                                           *)

\* _run_command returned: _persist_result in its own transaction, then the
\* permit goes back.  The transaction can fail (the task's row was deleted
\* meanwhile, the database is gone); the exception ends the coroutine.
Finish(r, outcome) ==
    /\ \/ Release(r, "done") /\ result' = [result EXCEPT ![r] = outcome]
       \/ Release(r, "lost") /\ UNCHANGED result
    /\ UNCHANGED <<waiters, bound, torn, cancelReq, draining>>

SpawnOk(r) ==
    /\ pc[r] = "spawning" /\ r \notin cancelReq
    /\ LoopFree(LoopOf[r])
    /\ Goto(r, "running")
    /\ child' = [child EXCEPT ![r] = "alive"]
    /\ UNCHANGED <<semaphore, result, cancelReq, draining>>

\* Unparsable command line, no such program, no more processes.
SpawnFail(r) ==
    /\ pc[r] = "spawning" /\ r \notin cancelReq
    /\ LoopFree(LoopOf[r])
    /\ Finish(r, "failure")
    /\ UNCHANGED child

\* The command ends by itself.
ChildExits(r) ==
    /\ child[r] = "alive"
    /\ child' = [child EXCEPT ![r] = "exited"]
    /\ UNCHANGED <<pc, semaphore, result, cancelReq, draining>>

\* communicate() is done: the command has ended and both pipes are closed.
\* wait_for hands its value on, even if the timer fired or task.cancel() arrived
\* in the same turn of the loop.
Collect(r) ==
    /\ pc[r] = "running" /\ child[r] = "exited"
    /\ LoopFree(LoopOf[r])
    /\ Finish(r, "exit")
    /\ UNCHANGED child

\* wait_for expires or communicate() fails while the command runs: kill, then
\* await process.wait().
Kill(r) ==
    /\ pc[r] = "running" /\ child[r] = "alive" /\ r \notin cancelReq
    /\ LoopFree(LoopOf[r])
    /\ child' = [child EXCEPT ![r] = "killed"]
    /\ Goto(r, "reaping")
    /\ UNCHANGED <<semaphore, result, cancelReq, draining>>

\* ... or after it has ended -- a process it left behind may hold its pipes open:
\* there is nothing to kill, and process.wait() returns at once.
Overdue(r) ==
    /\ pc[r] = "running" /\ child[r] = "exited" /\ r \notin cancelReq
    /\ LoopFree(LoopOf[r])
    /\ Finish(r, "failure")
    /\ UNCHANGED child

\* Fault: the outcome of a timeout is recorded without process.wait().
Reap_NoWait(r) ==
    /\ pc[r] = "reaping" /\ r \notin cancelReq
    /\ LoopFree(LoopOf[r])
    /\ UNCHANGED child
    /\ Finish(r, "failure")

\* process.wait() returns after the kill.
Reap(r) ==
    /\ pc[r] = "reaping" /\ child[r] = "killed" /\ r \notin cancelReq
    /\ LoopFree(LoopOf[r])
    /\ child' = [child EXCEPT ![r] = "reaped"]
    /\ Finish(r, "failure")

--------------------------------------------------------------------------------
(* Cancellation reaches the coroutine at its await.                         *)

\* Executor.submit is a bare await: a caller that is cancelled cancels its run.
CallerCancels(r) ==
    /\ r \in Owned \ cancelReq /\ InFlight(r)
    /\ LoopFree(LoopOf[r])
    /\ cancelReq' = cancelReq \cup {r}
    /\ UNCHANGED <<pc, semaphore, child, result, draining>>

\* Waiting: acquire() removes its cancelled future and takes nothing with it.
CancelWaiting(r) ==
    /\ pc[r] = "waiting" /\ r \in cancelReq
    /\ LoopFree(LoopOf[r])
    /\ LeaveQueue(r)
    /\ Goto(r, "cancelled")
    /\ UNCHANGED <<value, bound, deaf, goal, pick, child, result, cancelReq, draining>>

\* Fault: the permit handed to a waiter that was cancelled is not passed on.
CancelWoken_Leak(r) ==
    /\ pc[r] = "woken" /\ r \in cancelReq \ deaf
    /\ LoopFree(LoopOf[r])
    /\ LeaveQueue(r)
    /\ Goto(r, "cancelled")
    /\ UNCHANGED <<value, bound, deaf, goal, pick, child, result, cancelReq, draining>>

\* Already handed a permit: acquire() gives it back and wakes the next one.
CancelWoken(r) ==
    /\ pc[r] = "woken" /\ r \in cancelReq \ deaf
    /\ LoopFree(LoopOf[r])
    /\ LeaveQueue(r)
    /\ Release(r, "cancelled")
    /\ UNCHANGED <<bound, child, result, cancelReq, draining>>

\* Inside `async with`: CancelledError is no Exception, so _run_command handles
\* none of it.  While spawning, asyncio itself closes the transport; while
\* communicate() is pending, the command running or not, it is left as it is.
CancelHolding(r) ==
    /\ r \in cancelReq
    /\ pc[r] \in Holding
    /\ LoopFree(LoopOf[r])
    /\ Release(r, "cancelled")
    /\ UNCHANGED <<waiters, bound, torn, child, result, cancelReq, draining>>

--------------------------------------------------------------------------------
(* shutdown().                                                              *)

\* Snapshot of the in-flight runs and one _drain_one each.  For a run of
\* another loop, wait_for raises ValueError at once and _drain_one returns None.
Shutdown ==
    /\ shut = "off"
    /\ LoopFree(ShutdownLoop)
    /\ shut' = "draining"
    /\ drain' = [r \in Runs |->
                    IF ~InFlight(r) THEN "none"
                    ELSE IF LoopOf[r] = ShutdownLoop THEN "awaiting"
                    ELSE "clean"]
    /\ UNCHANGED <<pc, semaphore, child, result, cancelReq>>

Drained(r, how) ==
    /\ drain' = [drain EXCEPT ![r] = how]
    /\ UNCHANGED <<pc, semaphore, child, result, shut>>

\* Fault: _drain_one returns the run's state where None belongs.
DrainClean_State(r) ==
    /\ drain[r] = "awaiting" /\ pc[r] \in Terminal
    /\ LoopFree(ShutdownLoop)
    /\ Drained(r, pc[r])
    /\ UNCHANGED cancelReq

\* The run ended within the budget, well or with an exception: None.  If its own
\* caller cancelled it, CancelledError passes both except clauses.
DrainClean(r) ==
    /\ drain[r] = "awaiting" /\ pc[r] \in Terminal
    /\ LoopFree(ShutdownLoop)
    /\ Drained(r, IF pc[r] = "cancelled" THEN "raised" ELSE "clean")
    /\ UNCHANGED cancelReq

\* The budget expires first: task.cancel() and `await task`.
BudgetExpires(r) ==
    /\ drain[r] = "awaiting" /\ pc[r] \notin Terminal
    /\ LoopFree(ShutdownLoop)
    /\ cancelReq' = cancelReq \cup {r}
    /\ Drained(r, "cancelling")

\* The budget expires in the turn of the loop in which the run ended: cancel()
\* does nothing, and `await task` returns or raises what the run did.
BudgetExpiresLate(r) ==
    /\ drain[r] = "awaiting" /\ pc[r] \in Terminal
    /\ LoopFree(ShutdownLoop)
    /\ Drained(r, IF pc[r] = "lost" THEN "raised" ELSE "interrupted")
    /\ UNCHANGED cancelReq

\* Fault: only CancelledError ends the wait for a cancelled run.
DrainCancelled_Strict(r) ==
    /\ drain[r] = "cancelling" /\ pc[r] = "cancelled"
    /\ LoopFree(ShutdownLoop)
    /\ Drained(r, "interrupted")
    /\ UNCHANGED cancelReq

\* `await task` of a run that was told to cancel: CancelledError is swallowed
\* and a normal return ignored; an Exception leaves _drain_one.
DrainCancelled(r) ==
    /\ drain[r] = "cancelling" /\ pc[r] \in Terminal
    /\ LoopFree(ShutdownLoop)
    /\ Drained(r, IF pc[r] = "lost" THEN "raised" ELSE "interrupted")
    /\ UNCHANGED cancelReq

\* Fault: gather does not wait for the runs it cancelled.
ShutdownReturns_Early ==
    /\ shut = "draining"
    /\ \A r \in Runs : drain[r] # "awaiting"
    /\ shut' = "returned"
    /\ UNCHANGED <<pc, semaphore, child, result, cancelReq, drain>>

\* gather returns when all _drain_one did.
ShutdownReturns ==
    /\ shut = "draining"
    /\ \A r \in Runs : drain[r] \in {"none", "clean", "interrupted"}
    /\ shut' = "returned"
    /\ UNCHANGED <<pc, semaphore, child, result, cancelReq, drain>>

\* gather raises as soon as one of them did.
ShutdownRaises ==
    /\ shut = "draining"
    /\ \E r \in Runs : drain[r] = "raised"
    /\ shut' = "raised"
    /\ UNCHANGED <<pc, semaphore, child, result, cancelReq, drain>>

--------------------------------------------------------------------------------

Coroutine(r) ==
    \/ Enter(r) \/ Queue(r) \/ TakePermit(r) \/ ResumeAcquire(r)
    \/ Scan(r) \/ Hand(r)
    \/ SpawnOk(r) \/ SpawnFail(r)
    \/ Collect(r) \/ Kill(r) \/ Overdue(r) \/ Reap(r)
    \/ CancelWaiting(r) \/ CancelWoken(r) \/ CancelHolding(r)

Draining(r) ==
    \/ DrainClean(r) \/ BudgetExpires(r) \/ BudgetExpiresLate(r)
    \/ DrainCancelled(r)

Ending == ShutdownReturns \/ ShutdownRaises

\* Everything submitted has ended and shutdown has returned.
Quiescent ==
    /\ \A r \in Runs : pc[r] \in Terminal /\ child[r] # "alive"
    /\ shut \in {"returned", "raised"}

Next ==
    \/ \E r \in Runs :
         Start(r) \/ Coroutine(r) \/ ChildExits(r) \/ CallerCancels(r) \/ Draining(r)
    \/ Shutdown \/ Ending
    \/ Quiescent /\ UNCHANGED vars

Spec == Init /\ [][Next]_vars

\* A loop keeps turning its ready coroutines and firing its timers (the task
\* timeout and the drain budget among them), and process.wait() returns after
\* SIGKILL: no process that the command left behind holds its pipes for ever.
\* Commands need not end by themselves, nobody need submit a run or call
\* shutdown().
Fairness ==
    /\ \A r \in Runs : WF_vars(Coroutine(r))
    /\ WF_vars(Ending \/ \E r \in Runs : Draining(r))

FairSpec == Spec /\ Fairness

--------------------------------------------------------------------------------
(* What must hold.                                                          *)

TypeOK ==
    /\ pc \in [Runs -> PCs]
    /\ value \in Int
    /\ waiters \in Seq(Runs)
    /\ bound \in Loops \cup {NoLoop}
    /\ deaf \subseteq Runs
    /\ goal \in [Runs -> Goals]
    /\ pick \in [Runs -> SUBSET Runs]
    /\ torn \subseteq Runs
    /\ child \in [Runs -> Children]
    /\ result \in [Runs -> Results]
    /\ cancelReq \subseteq Runs
    /\ drain \in [Runs -> Drains]
    /\ shut \in {"off", "draining", "returned", "raised"}

\* AC-8.1: at most TASKQ_MAX_CONCURRENT runs are inside the gate.
Holders == {r \in Runs : pc[r] \in Holding}
CapRespected == Cardinality(Holders) <= Cap

\* The runs for which a permit is set aside.
HasPermit(r) ==
    \/ pc[r] \in Holding \cup {"woken"}
    \/ pc[r] \in Passing /\ goal[r] = "spawning"
Granted == {r \in Runs : HasPermit(r)}

\* On one loop no permit is lost or made up, on any path out of the gate --
\* success, failed persist, cancellation while waiting, just woken or holding.
PermitsConserved == value + Cardinality(Granted) = Cap

\* Between threads permits can be lost (two that release see the same waiter
\* pending, and the second fails to wake it), but none is ever made up.
NoPermitMadeUp == value + Cardinality(Granted) <= Cap

\* No slot stays free beside somebody who waits, unless a run is about to pass it
\* on: one that wakes the next waiter, or that will when it resumes.  A newcomer
\* may queue up beside a free slot, but only while such a run is under way.
NoIdleSlot ==
    value > 0 /\ (\E r \in Runs : Sleeping(r)) =>
        \E r \in Runs : pc[r] \in {"woken"} \cup Passing

\* On one loop the gate is a bounded FIFO pool.  A run counts as executing once
\* its permit is set aside for it, and as withdrawn once its pending future is
\* cancelled.
Phase(r) ==
    IF pc[r] \in {"new", "thread", "queueing"} THEN "idle"
    ELSE IF Sleeping(r) THEN "queued"
    ELSE IF pc[r] = "entering" \/ HasPermit(r) THEN "executing"
    ELSE "ended"

\* Run q is in the queue somewhere before run r.
Precedes(q, r) ==
    \E j \in 1 .. Len(waiters) :
        waiters[j] = r /\ \E i \in 1 .. j - 1 : waiters[i] = q

Ahead(r) == {q \in Runs : Sleeping(q) /\ Sleeping(r) /\ Precedes(q, r)}

Pool == INSTANCE BoundedPool
            WITH phase <- [r \in Runs |-> Phase(r)],
                 ahead <- [r \in Runs |-> Ahead(r)]
RefinesPool == Pool!Spec

\* AC-8.3, of timeouts and failures: a run that ended by itself has no process
\* left, running or unreaped, and neither has one with a row.
NoProcessLeft ==
    \A r \in Runs :
        result[r] # "none" \/ (pc[r] \in {"done", "lost"} /\ r \notin cancelReq) =>
            child[r] \in {"none", "exited", "reaped"}

\* AC-8.3, of every run that ended, the cancelled ones included.
NoOrphan == \A r \in Runs : pc[r] \in Terminal => child[r] # "alive"

\* When shutdown() returns, the runs it waited for have ended, and every one of
\* them that was cut short is in the list it returns, whatever raced with the
\* budget (_drain_one, AC-8.2).
DrainComplete ==
    shut = "returned" =>
        \A r \in Runs : drain[r] # "none" =>
            /\ pc[r] \in Terminal
            /\ pc[r] = "cancelled" => drain[r] = "interrupted"

\* Over-cap submissions wait for their turn: none is turned away.
NoneDropped == \A r \in Runs : pc[r] # "dropped"

\* Every submitted run ends, whatever its command does: there comes a time after
\* which none is under way.
RunsEnd == <>[](\A r \in Runs : pc[r] \in {"new"} \cup Terminal)

\* shutdown() comes back, whatever the commands in flight do.
ShutdownEnds == shut = "draining" ~> shut \in {"returned", "raised"}
================================================================================
