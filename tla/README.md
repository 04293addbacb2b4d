# A verification project for taskq-api

taskq-api is an HTTP service that stores shell commands as tasks, runs them as
child processes under a concurrency cap, rate-limits its callers with a token
bucket kept in the database, and moves its schema with three Alembic revisions.
This directory holds TLA+ models of it, TLC configurations that check them on
small instances, and TLAPS proofs of the results that matter most for every
value of the constants.

Paths below are relative to `src/03-development/src/` of the repository unless
they start with `src/`.

    tlc -workers 2 -config MCRunner_oneloop.cfg MCRunner     # one of the runs
    tlapm ServiceProofs.tla                                  # one of the proofs

- [The system](#the-system)
- [Modules](#modules)
- [Runs](#runs)
- [Fairness](#fairness)
- [Proofs](#proofs)
- [Where code and documents disagree](#where-code-and-documents-disagree)
- [What is not modelled](#what-is-not-modelled)
- [Plan](#plan)

## The system

| component | code | state it keeps | operations |
|---|---|---|---|
| rate limiter | `service/ratelimit.py`, `repository/rate_repo.py` | table `rate_buckets`: per key a level and the time it was computed for | `consume`: refill, test, debit, answer |
| runner | `service/runner.py` | one process-wide `asyncio.Semaphore`, the set of in-flight asyncio tasks, child processes | `start_task`, `execute_task`, `shutdown` |
| task store | `repository/task_repo.py`, `service/tasks.py`, `models/orm.py` | tables `tasks`, `task_results` | create, get, list a page, delete, record a result |
| authentication and scopes | `api/deps.py`, `service/auth.py`, `repository/key_repo.py` | table `api_keys` | look a key up, charge it, check its scope |
| routes | `api/tasks.py`, `models/schemas.py` | none | six routes over the three above |
| schema and readiness | `migrations/`, `api/health.py`, `repository/session.py` | the tables themselves, `alembic_version` | upgrade, downgrade, `/readyz` |
| operator CLI | `__main__.py` | none | `key create`: `create_all`, then one INSERT |
| sessions | `repository/session.py` | a lazily built engine and session factory | `session_scope`: commit, or roll back and re-raise |
| configuration | `config.py` | none, it reads the environment | limits and rates with their defaults |
| executor | `service/runner.py` | none | `submit`: await a run, and pass a cancellation on |
| application and errors | `app.py`, `errors.py` | none | exceptions to `application/problem+json`, correlation ids |
| metrics | `api/metrics.py` | none | one `GROUP BY status` |

**How they interact.** A request to `/v1/*` goes through `auth_dep`: a lookup of
its key in one transaction, a debit of the key's bucket in a second; then the
route checks the scope and calls the service, which opens a third. `POST
/v1/tasks/{id}/run` reads the task and starts a daemon thread with an event loop
of its own; that thread takes a permit of the shared semaphore, spawns the
command, waits for it, and writes the result in a transaction nobody waits for.
`shutdown()` awaits the registered runs and cancels those that overrun. Several
worker processes share one database, nothing else.

**What is hard.** None of it is visible in a sequential test:

- workers on one bucket row, with stamps taken before the row lock is awaited,
  and first requests that find no row to lock;
- one semaphore, written for one event loop, used from many loops and threads,
  which meet inside its `acquire()` and `release()`;
- a server that stops while runs wait, run or write their row, with no record of
  what was accepted;
- cancellation that arrives while a run waits, has just been woken, spawns,
  communicates or reaps, and races the run's own end;
- what a route read before another request, or a background run, changed it:
  the deleted task, the revoked key, the cursor's row; and what it could not yet
  see, the uncommitted task of the same name;
- a command that has ended while a process it left behind still holds its pipes;
- pages of a listing read one by one while rows come and go;
- a migration that fails half way, on a database that cannot undo DDL;
- failures of any single step, each of which is its own transaction.

**What makes each component correct.** The limiter: however many workers, no
window of time admits more than the burst plus its refill; a 429's Retry-After
is enough and not a second too long; every request is answered. The gate: at
most `TASKQ_MAX_CONCURRENT` runs, in FIFO order, no permit lost, no process left
behind, `shutdown` returns after what it reports on. The store: names unique, a
204 final, results lost only with their task, listings exact for what stayed,
histories newest first. An accepted run: it ends, and its row says what became
of its process. The request path: revoked means out, what is not permitted is
not disclosed, what was not charged does not pass. The schema: a
migration is whole or nothing, keeps the data, never gets stuck, and `/readyz`
vouches only for what is there.

## Modules

| module | models | uses |
|---|---|---|
| `BucketArith` | the arithmetic of one bucket | |
| `AtomicBucket` | abstract: each request one atomic refill-and-debit | `BucketArith` |
| `TokenBucket` | the limiter's transactions, worker by worker | `BucketArith`; implements `AtomicBucket` |
| `BoundedPool` | abstract: a FIFO pool with a bounded number of members | |
| `Runner` | gate, subprocess, drain | on one loop implements `BoundedPool` |
| `TaskStore` | tables `tasks` and `task_results` under requests and runs | |
| `Execution` | an accepted run from its route to its row, and stops of the server | composes `Runner` and `TaskStore` |
| `Service` | a request from arrival to answer | extends `AtomicBucket` |
| `Schema` | revisions, `create_all`, readiness | |
| `*Proofs` | theorems about the module of that name | |
| `MC*` | instances for TLC | |

Definitions whose name has a suffix after an underscore and whose comment says
"Fault" are plausible bugs in the definition below them. Nothing in the models
uses them; each exists to show that some property would notice.

### BucketArith, AtomicBucket, TokenBucket

The code keeps a float level in which a request costs 1.0. The models count in
units: a request costs `Cost`, a tick refills `Rate`, so rates below and above
one request per tick are integers. The rounding error of the floats is abstracted
away; the rounding of `_retry_after_seconds` is not (`RetryAfter`). A level may
be negative: a stamp older than the row's `updated_at` refills by a negative
amount, which `_refilled_tokens` does not prevent.

`AtomicBucket` says what FR-05 promises, with three history variables:
`admitted` counts admissions stamped in an arbitrary fixed window, `promised`
and `retryAt` remember the last 429 of each key.

`TokenBucket` has one worker per concurrent request. `Stamp` is the clock read
at `rate_repo.py:125`; `SelectRow` the SELECT ... FOR UPDATE; `InsertRow` and
`InsertConflict` the flush of a new row; `Commit` the end of `session_scope`
with the answer; `Abort` any database failure. `RowLock` tells the databases
apart: on SQLite `FOR UPDATE` renders nothing and a SELECT opens no transaction,
so only the writes are serialised.

### BoundedPool, Runner

`Runner.pc` is where each run's coroutine stands; `value`, `waiters` and `bound`
are the fields of `asyncio.Semaphore` (Python 3.11) and the operators that touch
them are written from its source, marked external. Code on one event loop
interleaves only at awaits (`LoopFree`); code on different loops interleaves
wherever the interpreter may switch threads. In CPython 3.11 that is at calls and
at the end of a loop's body, not inside `_value += 1`, and so the semaphore's
methods fall into these steps:

- `acquire()` looks whether it is locked (`Enter`), then takes a permit
  (`TakePermit`) or queues up (`Queue`). A woken run takes its future out of the
  queue and looks at the counter in one step (`ResumeAcquire`), since no switch
  lies between the two.
- `release()` adds to the counter and calls `_wake_up_next()` (`Release`, `PassOn`);
  that goes through the queue to the first pending future (`Scan`), and then
  decrements the counter and sets the future (`Hand`), which raises if another
  thread was faster: the waiter then has one permit, and the other is gone. A
  queue that changes under `Scan` can end it with RuntimeError (`torn`). `goal`
  is where the run goes when all this is over. On one loop nothing comes between
  these steps, and neither error occurs.

`LoopOf` is the constant that separates the two uses of the code: all runs on one
loop (callers of `execute_task` and `shutdown`), and `start_task`'s private loop
per run. `deaf` holds woken waiters whose `call_soon` went to a loop that sleeps
in its selector, which is a lost wake-up.

The task timeout and the drain budget can expire at any moment, also in the very
turn of the loop in which the run ends (`BudgetExpiresLate`, and `Collect` before
a pending cancel). A timeout or an error of `communicate()` finds the command
running (`Kill`, then `Reap`) or ended, its pipes still held by a process it left
behind (`Overdue`, the branch of `_reap_process` that does not kill). A child is
`exited` once the loop knows of it. The outcome of both, and of a failed spawn, is
a `failure`: a row without an exit code. A caller that awaits one of the runs in
`Owned`, through `Executor.submit` or directly, may be cancelled, and its run with
it (`CallerCancels`).

`BoundedPool` is FR-08's promise. Its queue is an order, `ahead[r]` being the runs
that waited when `r` came and still do; only a run with nobody ahead of it is
granted a slot. `Runner` implements it with `Phase`, in which a run executes from
the moment its permit is set aside, and with `Ahead`, the sleeping runs in front
of it in `waiters`.

### TaskStore

Statement-level transactions of PostgreSQL at READ COMMITTED. A POST is an INSERT
(`InsertTask`) and, after the row was read back, a commit or a rollback
(`CommitTask`, `InsertFails`); in between its row is in `inserted`, where the
unique index sees it and nobody else does. An INSERT of a name that another
transaction has inserted waits, and is then refused (409) or goes ahead. `DELETE`
is two steps, SELECT and flush with commit, because other requests can change what it
read; a run reads its task in the route (`RunTask`) and writes its result later
(`SaveResult`, `LoseResult` when the foreign key refuses it, `SaveFails`). A
listing is one query per page. The tables are those of `Base.metadata`, the ones
the tests and the CLI create; the revisions make another `task_results` (see
`Schema`). Cursors are the id they encode. Requests that change nothing (404,
409, 422) are stuttering steps. `finished_at` is a text: `Text` is the seconds, a
fraction unless it is zero, and a `Z`, and `ListedBefore` compares the texts as
the ORDER BY of `get_results` does. `Restart` is the server stopping and starting
again: it rolls back what was open and forgets the runs without a row.

### Execution

An accepted run is the route's step in both modules (`Accept`: `Runner!Start`
and `TaskStore!RunTask`), and each later step of its coroutine is joined with
what it does to the store (`Records`): nothing until it leaves `_persist_result`
(`Persists`), then its row, or a refused INSERT if the task is gone, or a failed
transaction, all before its permit goes back. An exception out of `acquire()`
leaves no row (`Refused`). Runs have private
loops as `start_task` gives them. `Stop` ends the process at any point: the
threads are daemons and end with it, the commands are processes of their own and
stay, the next process has a fresh gate and the old database. Nothing calls
`shutdown()` here, because nothing in the service does.

### Service

One record per client follows its request through `arrived`, `known` (key looked
up), `charged` and `answered`. Any other client, the operator (`CreateKey`,
`RevokeKey`) and the clock step in between. Each of the three transactions may
fail: the lookup's failure is a 401 (`deps.py:136`), the charge's and the
handler's a 500. A body that is no JSON (422), or whose bytes cannot be decoded
(400, FastAPI's own), is refused before the key is looked up (`Unparsable`), fields that will not do after the charge (`Invalid`). The seven
operations are the six routes of `api/tasks.py` and `/v1/metrics`.

The buckets move by `AtomicBucket`'s actions only, so by the refinement below the
module composes with `TokenBucket`; the request's stamp is any instant between
lookup and charge. The task table is reduced to whether the task a request names
exists. Hashing is taken as a key's identity.

### Schema

`db` is the committed database, `work` what the running migration sees. A command
goes to the revision `target` and `at` is the next statement of the script it is
in; a script ends with the stamp Alembic writes, and the next one follows. On
PostgreSQL a command is one transaction (`env.py:80`). On SQLite Alembic gives
each revision its own, and Python's driver opens one only at the first INSERT or
UPDATE (`Open`), so DDL before it takes effect at once (`Commits`). `Fail` is a
failing statement or a dying process at any point. `EnsureSchema` is `create_all`,
`early` remembers that it made tables ahead of the revisions. The service is
stopped while a migration runs. `told` remembers what was last written of each
task. `Ready` is the second half of `/readyz`, after `SELECT 1` was answered.

## Runs

| run | module, configuration | distinct states | what it shows |
|---|---|---|---|
| `bucket_workers` | MCTokenBucket | 35 thousand | PostgreSQL: a read stays current until its write (`ReadStaysCurrent`), every step is an atomic refill-and-debit or invisible (`RefinesAtomic`), the admission bound, every request answered |
| `service` | MCService | 2.3 million | `AtomicBucket`'s promises (no debt, Retry-After enough and tight) under the request path, and the request path's own: `RevokedShutOut`, `NothingDisclosed`, `OnlyIssuedKeysCharged`, `ServedBound` |
| `gate_one_loop` | MCRunner_oneloop | 1.8 million | the cap, conservation of permits, no idle slot beside a waiter, no process left by a run that ended by itself, and that the gate is a bounded FIFO pool |
| `gate_liveness` | MCRunner_live | 728 thousand | on one loop, with a caller that may cancel: every run ends, `shutdown` comes back, and only after what it reports on |
| `execution` | MCExecution | 495 thousand | runs on private loops and threads, their task and their rows, with stops of the server: no permit is made up, the history agrees with the processes, only a stop leaves a command behind, an accepted run ends unless the gate stranded this very run |
| `store` | MCTaskStore | 536 thousand | listings, histories, deletions, names under interleaved INSERTs, lost results, restarts |
| `schema` | MCSchema | 15 thousand | whole or nothing on PostgreSQL, no data lost on either database, never stuck, readiness backed by the schema |
| `bucket_sqlite` | MCTokenBucket_sqlite | violated | on SQLite two workers admit more than the bucket holds |
| `gate_dropped` | MCRunner_dropped | violated | over-cap runs are dropped once a run has waited |
| `gate_orphan` | MCRunner_orphan | violated | a run cancelled at the drain budget leaves its child running |
| `store_history_kept` | MCTaskStore_history | violated | a DELETE that reads a recorded result with its task is refused |
| `schema_ready` | MCSchema_ready | violated | a database at head is ready without the columns a run is recorded in |

**Bounds.**

- *Buckets.* One key, since a row never depends on another one and the code
  locks rows, not the table; the proofs cover any number. Two workers, since a
  row has one holder and one waiter in any conflict. A burst of two requests, a
  rate of one request in three ticks, two ticks to the second, and a window
  strictly inside `MaxClock`: partial refills, clamping, late stamps and fractional
  Retry-After values all occur.
- *Gate.* `gate_one_loop` has four runs on two permits, the smallest instance in
  which two waiters are behind two holders: FIFO order, a permit passed on by a
  run that resumes and one given back by a cancelled waiter can be told apart.
  The others have three runs on one permit: the waiter, the one behind it, and
  the holder; in `gate_liveness` one of them has a caller. Shutdown happens at
  any point. The only state in which nothing is left to do is `Quiescent`, which
  has an explicit stuttering disjunct.
- *Execution.* Three runs of one task on one permit, since runs of different
  tasks meet in the gate only; one client that deletes. The server may stop any
  number of times. It does not check for deadlock: a waiter whose wake-up was
  lost really hangs there. That is what `Stranded` says of a run: its wake-up lies
  in a loop that sleeps, or it queued up when all permits it had seen taken were
  back, and nobody is left to wake it. It excuses that run and no other.
- *Store.* Three ids in pages of two: a full page, a last one that is short or
  empty, and rows created before and after the cursor's. Two admins race on one
  task with two runs, which end in one of two seconds, on the second or after it:
  all that the order of two texts depends on.
- *Service.* Two clients of one key, which may be created and revoked at any
  moment, with one scope that permits some operations and one that permits all. A
  burst of a request and a third: the second request is refused, and one second
  is not always enough. The window is one instant, where the bound is the burst;
  `bucket_workers` has a longer one, and the proof any.
- *Schema.* Two tasks, names and results: a duplicate name below revision 2, a
  task with a result next to one without. There is no bound on the number of
  commands.

Symmetry is used for sets of model values in runs without liveness properties
(`RefinesPool` states no fairness; the runs that check liveness have none).

Every property of a passing run is broken by at least one of the faults.

## Fairness

- `TokenBucket!FairSpec`: strong fairness of the steps that wait for a lock,
  because PostgreSQL queues the waiters of a row and hands it over in turn, so a
  step that is enabled again and again is not passed over for ever; weak fairness
  of the rest of a transaction. None for new requests, time or failures.
- `Runner!FairSpec`: weak fairness of each coroutine, each drain and the end of
  `shutdown`, because an event loop runs what is ready and fires its timers. The
  task timeout is a timer, so `Kill` is among them and `RunsEnd` does not need
  commands to end. `Reap` is among them too: `process.wait()` returns after
  SIGKILL, so no process that the command left behind may hold its pipes for ever
  in a way that CPython waits for. `RunsEnd` says that there comes a time after
  which no run is under way. Nobody need submit a run or call `shutdown`. It says nothing of
  `deaf` runs: their loop has nothing ready.
- `Execution!FairExecutionSpec`: weak fairness of each run's coroutine, since
  every thread's loop keeps turning and firing its timers. Nobody need send a
  request, no command need end by itself, the server need not stop.

## Proofs

All are checked by `tlapm` with no step left open. The constants' named
assumptions (`BucketAssumption`, `WindowAssumption`, `RunnerAssumption`,
`StoreAssumption`, `ServiceAssumption`, `SchemaAssumption`) are what the code's
own validation justifies: `config.py` lets through no burst below one and no rate
of zero. TLC evaluates them in the runs.

**AtomicBucketProofs** — for any burst, rate, window and order of stamps.
`WindowBound` is not inductive: it says nothing of the tokens left over. The
invariant adds a potential: what a key was admitted in the window, plus what its
bucket could still pay out before the window closes, is at most the burst plus
the window's refill. A debit moves cost from the second part to the first, a
refill is bounded by the clamp, and a late stamp moves the level along its own line. From it follow
`WindowBounded`, `Solvent` (debt by late stamps only), `RetryAfterKept` and
`RetryAfterTight`, the last two by arithmetic on the rounded-up quotient.

**TokenBucketProofs** — for any workers and keys, under `RowLock`
(PostgreSQL). The invariant says that of the transactions on one row at most one
is past its SELECT or INSERT, that what it has seen is what is committed, and
that no stamp is ahead of the clock. Hence
`ReadsStayCurrent`; hence a `Commit` is `AtomicBucket`'s `Consume` with the
worker's stamp and every other step is a stutter (`Refinement`, the safety part;
`Tick` maps to `Tick`); hence the bound of the abstract module carries over
(`WindowBounded`). Without `RowLock` it is false: `bucket_sqlite`.

**RunnerProofs** — for any finite set of runs and any cap. Invariants, each with
its own reason, and the refinement:

- `TypeCorrect`, on any loops.
- `NoneMadeUp` (`NoPermitMadeUp`), on any loops and with every interleaving of
  threads inside the semaphore: counter and permits set aside never add up to more
  than the cap. Each step keeps their sum (`SamePermits`), but for two that lower
  it (`StepKeeps`): a `Hand` that comes too late and a `Scan` of a torn queue
  (`Lossy`).
- The rest needs the single loop, stated as `OneLoopOnly` in each theorem. Its
  invariant `LoopInv` says that at most one run is between two steps of the
  semaphore's methods (`Alone`), that what it has seen is still so (`Steady`: the
  counter it tested, the waiter it found pending, an untouched queue), that the
  queue is exactly the runs that wait or were woken, each once (`Covered`), and
  that nobody is cancelled before it waits (`Undisturbed`).
- `Conservation` (`PermitsConserved`): under `LoopInv` no run is `Lossy`. `Capped`
  (`CapRespected`): a run between test and decrement has its permit on the
  counter.
- `SlotsUsed` (`NoIdleSlot`): a permit that is free beside a sleeping waiter has a
  run on its way to pass it on, and a run that is about to queue up saw no free
  permit or sees such a run.
- `ProcessesReaped` (`NoProcessLeft`) on any loops, from the relation of each
  run's place to its child and its row (`Follows`); `ShutdownTruthful` (`DrainComplete`) from the relation
  of each drain to its run, when `shutdown` is on the loop of the runs.
- `GateIsPool` (`RefinesPool`) on one loop: every step of the runner is a step of
  `BoundedPool` or changes nothing that it sees. It needs the invariants of
  `Conservation` and `SlotsUsed` (a free permit means a free slot, an open
  semaphore means nobody sleeps) and that the queue holds nobody twice
  (`InOrder`). Taking an entry out of `waiters` leaves the others in their order
  (`LeaveQueueOrder`), so the waiter that `Hand` wakes has nobody ahead of it
  (`NextIsFirst`).

**TaskStoreProofs** — for any ids, names, runs, admins, readers, page size and
times. The paging half of the invariant says that an unfinished listing has
returned everything of its starting set that is still there up to its cursor and
nothing beyond, each once; it needs that an id that was live never comes back. The
deletion half says that a minted id is live, in an open POST or gone with a 204,
one at most, that runs and DELETEs are for ids that were live, and that a recorded
result keeps its task live. The names are apart over the committed and the
uncommitted rows together (`NamesApart`); over the committed ones alone that is
not inductive. From these: `PagingComplete`, `PagingOnce`, `DeletionFinal`, `LossExplained`,
`NamesUnique`. `HistoryNearlySorted` is arithmetic on the texts: two of them
differ first in the seconds, or in what follows them.

**ExecutionProofs** — the composition, for any runs, loops and tasks.
`NoneMadeUpOverRestarts` extends `NoneMadeUp` by the stop of the server, which
makes a new gate and takes all its holders. `HistoryIsTrue` and `OrphansExplained`
rest on an invariant that ties each run's place to its child, its outcome and its
row (`Joined`): the row is there from the moment the run leaves `_persist_result`,
also if the thread then fails at the semaphore or dies. `StoreRefined`: every step is a step of `TaskStore` or leaves it alone, so
the theorems above hold of the store here too.

**ServiceProofs** — for any finite set of clients, any keys and scopes. First
`ServiceIsBucket`: every step of the service is a step of `AtomicBucket` or
leaves its variables alone, so all of `AtomicBucketProofs` is inherited. Then
`ServedBounded`: the invariant `Accounted` says that per key the requests already
past the limiter plus those charged and still on their way are at most the
admissions of the window, so that failures after the charge lose tokens but never
make up any. `RevocationBites`, `ScopeHides` and `IssuedKeysOnly` follow from an
invariant that ties a request past its lookup to an issued key that was active at
the time; `ServiceTypes` says that every answer is one its operation may give.

**SchemaProofs** — for any tasks, names and results, and any sequence of commands,
failures, `create_all` and writes. The properties speak of the time between
commands; the invariant follows a command statement by statement.

- `Shaped`: the objects are those the statements so far account for (`Expected`).
  What a whole script makes of a revision's objects is the next revision's
  (`ScriptReaches`), and on PostgreSQL nothing is committed before the last stamp,
  hence `MigrationsAtomic` (`RevisionShape`) and `ReadinessBacked`
  (`ReadyComplete`). Each statement finds in `Expected` what it needs
  (`ExpectedPossible`), and a migration makes no name a duplicate (`Named`), hence
  `NothingSticks` (`NeverStuck`).
- `DataSurvives` (`DataKept`), on both databases: `Located` says in which of the
  two places, the column or `task_results`, the results are at each statement, and
  `Elsewhere` that the other place holds none. On SQLite, where statements commit
  one by one, it rests on `CommitsInPlace`: no commit falls between the copy and
  the drop that ends it, because the copy itself has opened the transaction.

Model-checked only: the liveness properties (`EveryRequestAnswered`, `RunsEnd`,
`ShutdownEnds`, `AcceptedSettles`), since fairness and ENABLED are out of the
prover's reach. Every safety property of a passing run is also proved.

## Where code and documents disagree

Shown by a run:

1. *SQLite does not serialise consumers* (`bucket_sqlite`). `rate_repo.py:21-22`
   says SQLite's writer lock takes the place of the row lock. It serialises the
   writes; each write was computed from a read made before it.
2. *Over-cap runs are dropped* (`gate_dropped`). The semaphore binds itself to
   the loop of the first run that waits. `start_task` gives each run another loop,
   so the next one to wait gets RuntimeError, which `_run_in_thread` swallows: a
   run answered 202 never executes. `runner.py:252` promises FIFO waiting.
3. *A cancelled run's child survives* (`gate_orphan`). CancelledError passes both
   except clauses of `_run_command`; `runner.py:277-279` says cancellation kills
   the child.
4. *A task with history cannot be deleted* (`store_history_kept`). A run is
   recorded, a DELETE reads the task with its result, the ORM sets the result's
   foreign key to NULL, the column refuses it: 500. `src/SPEC.md:86` and
   `task_repo.py:122` say the results go with the task. (A result recorded after
   the SELECT makes the DELETE fail too, at the foreign key; `refused` does not
   count that one.)
5. *Ready without the columns of a run* (`schema_ready`). Revision v3 makes
   `task_results(task_id, result_json)`; the ORM and `src/SPEC.md:98` have the
   columns of a run. `/readyz` compares revision names.

Seen while modelling, without a run of their own:

- Two concurrent first requests of a key: the second one's INSERT hits the
  primary key and is answered 500 (`TokenBucket!InsertConflict`), though "a new
  key is entitled to its whole burst" (`rate_repo.py:121-122`).
- `shutdown()` is called by no code of the service, so a stop drains nothing,
  against FR-08's graceful drain (`src/SPEC.md`); `Execution` has the stop as it
  is.
- With private loops the semaphore is shared by threads without being thread-safe.
  Two runs may find the last permit free before either takes it, so the cap that
  `runner.py:251-252` promises is exceeded; two threads in `release()` may pick the
  same waiter and lose a permit (`Hand`). `CapRespected` and `PermitsConserved` are
  claimed of one loop only; a woken waiter may
  never look (`deaf`), so a run can hang with its permit; and `shutdown` does not
  wait for such runs, since awaiting a task of another loop fails at once, nor for
  runs that register after its snapshot.
- A command that has exited while a process it left behind holds its pipes is
  recorded as a timeout, without an exit code (`Overdue`).
- A run that ends while it is being cancelled is reported interrupted although
  its result is recorded (`BudgetExpiresLate`). No production code reads the list.
- `tasks.status` keeps its first value: no code writes a second one, against the
  state machine of `src/SPEC.md:97`.
- History is ordered by the text of `finished_at`. A run that ended exactly on a
  second has no fraction, and `Z` comes after `.`: it is listed as the newest of
  its second (`HistoryOrdered` says that this is all). The history of an unknown
  task is an empty list with 200, not 404.
- A body that is no JSON gets 422 before the key is looked at, one that cannot be
  decoded 400; fields unknown to
  `TaskCreate` are dropped by the route before its `extra="forbid"` can see them.
- A 500 is made outside the http middleware of `create_app`: it has neither
  `X-Correlation-Id` header nor access log line, which FR-10 wants of every
  response. The 404 and 405 of unknown routes are not problem+json.
- `TASKQ_MAX_CONCURRENT` is not checked (`runner.py:68`), unlike the settings of
  `config.py`: with 0 every run waits for ever. `RunnerAssumption` takes it
  positive.
- `key create` on an empty database makes all tables; the next `alembic upgrade`
  then fails on the first one for good. `__main__.py:43-44` calls it safe.
- On SQLite a failed migration leaves the tables it had made, against the
  rollback that NFR-03 asks for; `RevisionShape` is therefore stated for
  PostgreSQL only.

## What is not modelled

- Which texts `TaskCreate` and the cursor decoder refuse, response bodies, the
  fields of problem+json, correlation ids, the counts of `/v1/metrics`: data and
  wording, nothing interleaves.
- Output capture and the tail truncation of `runner.py`: data.
- The status filter of listings: there is only one status.
- The engine cache of `session.py`: `app.py` builds the engine at import, before
  there is a thread; `reset_engine` is for tests. The pool's size is no property
  of the code's own logic: a request that gets no connection fails like one whose
  transaction fails.
- Offline SQL rendering of migrations.
- Threads as a resource: `start_task` makes one per accepted run, before the gate.
- SQLite for `TaskStore` and `Execution`: their transactions are PostgreSQL's.
- Signals, tracing and other places where a debugger or a different interpreter
  may switch threads; the steps are those of CPython 3.11.
- That requests of `Service` are answered: no step of it waits but the limiter's,
  whose `EveryRequestAnswered` is checked in `bucket_workers`.

## Plan

Done: the limiter with its refinement, the gate with its own, the store, their
composition with stops of the server, the request path and the schema, with proofs
of every safety property the runs check.

What could come next:

1. `TaskStore` under SQLite's locking, where a transaction that has read cannot
   always write.
2. The pure parts: cursor encoding, scope ranks and configuration defaults as
   functions against reference definitions.
