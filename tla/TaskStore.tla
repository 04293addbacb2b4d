------------------------------ MODULE TaskStore ------------------------------
(***************************************************************************)
(* The tables tasks and task_results (repository/task_repo.py) under the   *)
(* requests and the background runs that use them at the same time:        *)
(* creating, deleting and running a task, recording a run's result and     *)
(* reading it back, reading the task list page by page with a cursor, and  *)
(* restarts of the server.                                                 *)
(*                                                                         *)
(* Transactions are those of PostgreSQL at READ COMMITTED: a statement     *)
(* that conflicts with an uncommitted one waits for its outcome.  The      *)
(* INSERT of a task and its commit are two steps, since the service reads  *)
(* the row back in between.  What DELETE SELECTs before it writes, other   *)
(* requests may change in between, so it is two steps as well; its flush   *)
(* and commit are one, and so are those of a run's result.  A request that *)
(* changes nothing (404, 409 on a duplicate name, 422) is a stuttering     *)
(* step and has no action.                                                 *)
(***************************************************************************)
EXTENDS Naturals, Sequences, FiniteSets

CONSTANTS
    Ids,          \* task ids, in the order `ORDER BY tasks.id` puts them
    Names,        \* task names
    Runs,         \* background runs, each with its own run_id
    Admins,       \* clients that delete tasks
    Readers,      \* clients that page through the task list
    Limit,        \* rows per page
    Seconds,      \* the times a run may end: seconds, and
    Fractions     \* fractions of a second, zero among them

ASSUME StoreAssumption ==
    /\ Ids \subseteq Nat \ {0}
    /\ Limit \in Nat \ {0}
    /\ Seconds \subseteq Nat /\ Fractions \subseteq Nat

VARIABLES
    tasks,    \* the table tasks: id -> row, for the ids it holds
    inserted, \* INSERTs not yet committed: id -> name, for the ids of open POSTs
    minted,   \* ids uuid4 has handed out: never handed out again
    phase,    \* how far each run is; its row is in task_results when "recorded"
    of,       \* the task_id each run was started for
    finished, \* the finished_at of each recorded run
    request,  \* the DELETE each admin has in progress
    scan,     \* the listing each reader has in progress
    gone,     \* ids a DELETE has answered 204 for
    refused   \* ids whose DELETE was refused for a result it had read

vars == <<tasks, inserted, minted, phase, of, finished, request, scan, gone, refused>>

NoId == 0
Phases == {"new", "running", "recorded", "lost", "failed"}
Statuses == {"pending", "running", "done", "failed", "timeout"}
Row == [name : Names, status : Statuses]
Stamps == [sec : Seconds, frac : Fractions]
NoStamp == [sec |-> 0, frac |-> 0]

Live == DOMAIN tasks
Pending == DOMAIN inserted

Results(id) == {r \in Runs : phase[r] = "recorded" /\ of[r] = id}

Init ==
    /\ tasks \in [{} -> Row]
    /\ inserted \in [{} -> Names]
    /\ minted = {}
    /\ phase = [r \in Runs |-> "new"]
    /\ of = [r \in Runs |-> NoId]
    /\ finished = [r \in Runs |-> NoStamp]
    /\ request = [a \in Admins |-> [id |-> NoId, seen |-> {}]]
    /\ scan = [s \in Readers |->
                 [start |-> {}, got |-> {}, count |-> 0, cursor |-> NoId]]
    /\ gone = {}
    /\ refused = {}

-----------------------------------------------------------------------------
(* Creating a task: INSERT, decided by the unique index on the name, then   *)
(* the row is read back and committed.                                      *)

\* A fault: the name is looked up first, and the lookup sees committed rows only.
NameFree_CommittedOnly(n) == \A i \in Live : tasks[i].name # n

\* The unique index knows the uncommitted rows as well: an INSERT of the name of
\* one waits until that row is committed (then 409) or rolled back.
NameFree(n) ==
    /\ \A i \in Live : tasks[i].name # n
    /\ \A i \in Pending : inserted[i] # n

InsertTask(id, n) ==
    /\ id \notin minted
    /\ NameFree(n)
    /\ minted' = minted \cup {id}
    /\ inserted' = [i \in Pending \cup {id} |-> IF i = id THEN n ELSE inserted[i]]
    /\ UNCHANGED <<tasks, phase, of, finished, request, scan, gone, refused>>

\* A fault: the column default of status is missing.
NewRow_NoDefault(n) == [name |-> n, status |-> ""]

NewRow(n) == [name |-> n, status |-> "pending"]

EndInsert(id) == inserted' = [i \in Pending \ {id} |-> inserted[i]]

\* 201.
CommitTask(id) ==
    /\ id \in Pending
    /\ tasks' = [i \in Live \cup {id} |->
                   IF i = id THEN NewRow(inserted[id]) ELSE tasks[i]]
    /\ EndInsert(id)
    /\ UNCHANGED <<minted, phase, of, finished, request, scan, gone, refused>>

\* 500: the read back or the commit fails, rolled back.
InsertFails(id) ==
    /\ id \in Pending
    /\ EndInsert(id)
    /\ UNCHANGED <<tasks, minted, phase, of, finished, request, scan, gone, refused>>

-----------------------------------------------------------------------------
(* Running a task.  The route reads the task in a session of its own, then *)
(* starts a thread; the run touches the database again only at its end.    *)

\* A fault: the route starts the run without looking the task up.
Known_NoLookup(id) == id \in Ids

Known(id) == id \in Live

RunTask(r, id) ==
    /\ phase[r] = "new"
    /\ Known(id)
    /\ phase' = [phase EXCEPT ![r] = "running"]
    /\ of' = [of EXCEPT ![r] = id]
    /\ UNCHANGED <<tasks, inserted, minted, finished, request, scan, gone, refused>>

\* A fault: foreign keys are not enforced (SQLite without its PRAGMA).
ParentExists_NoPragma(r) == of[r] \in minted

\* The foreign key task_results.task_id -> tasks.id.
ParentExists(r) == of[r] \in Live

\* finished_at is read before the INSERT, so runs need not commit in its order.
SaveResult(r) ==
    /\ phase[r] = "running"
    /\ ParentExists(r)
    /\ phase' = [phase EXCEPT ![r] = "recorded"]
    /\ \E t \in Stamps : finished' = [finished EXCEPT ![r] = t]
    /\ UNCHANGED <<tasks, inserted, minted, of, request, scan, gone, refused>>

\* The INSERT breaks the foreign key: the IntegrityError leaves _persist_result
\* and the run's thread, and the result is nowhere.
LoseResult(r) ==
    /\ phase[r] = "running"
    /\ ~ParentExists(r)
    /\ phase' = [phase EXCEPT ![r] = "lost"]
    /\ UNCHANGED <<tasks, inserted, minted, of, finished, request, scan, gone, refused>>

\* The database fails the transaction: rolled back, never tried again.
SaveFails(r) ==
    /\ phase[r] = "running"
    /\ phase' = [phase EXCEPT ![r] = "failed"]
    /\ UNCHANGED <<tasks, inserted, minted, of, finished, request, scan, gone, refused>>

-----------------------------------------------------------------------------
(* The history of a task: `ORDER BY finished_at DESC`, and finished_at is   *)
(* text: the seconds, the fraction if it is not zero, and a Z.              *)

\* The codes of '.' and 'Z'; each field of fixed width stands for its digits.
Dot == 46
Zulu == 90

\* _format_finished_at: isoformat() leaves out a fraction that is zero.
Text(t) == IF t.frac = 0 THEN <<t.sec, Zulu>> ELSE <<t.sec, Dot, t.frac, Zulu>>

TextBefore(a, b) ==
    \E i \in (1 .. Len(a)) \cap (1 .. Len(b)) :
        a[i] < b[i] /\ \A j \in 1 .. i - 1 : a[j] = b[j]

\* A fault: ORDER BY without DESC.
ListedBefore_Ascending(r, q) == TextBefore(Text(finished[r]), Text(finished[q]))

\* get_results lists run r before run q.
ListedBefore(r, q) == TextBefore(Text(finished[q]), Text(finished[r]))

-----------------------------------------------------------------------------
(* Deleting a task: SELECT it (with its results, loaded eagerly), then     *)
(* flush and commit the delete.                                            *)

DeleteSelect(a, id) ==
    /\ request[a].id = NoId
    /\ id \in Live
    /\ request' = [request EXCEPT ![a] = [id |-> id, seen |-> Results(id)]]
    /\ UNCHANGED <<tasks, inserted, minted, phase, of, finished, scan, gone, refused>>

\* The flush first sets task_id to NULL in the results it loaded, which the
\* column forbids; then it deletes the task, which the foreign key forbids if
\* a result was recorded since the SELECT.
Deletable(a) ==
    /\ request[a].seen = {}
    /\ Results(request[a].id) = {}

EndRequest(a) == request' = [request EXCEPT ![a] = [id |-> NoId, seen |-> {}]]

\* 204: also when another admin deleted the row meanwhile, since a DELETE of no
\* row is only a warning.
DeleteCommit(a) ==
    /\ request[a].id # NoId
    /\ Deletable(a)
    /\ tasks' = [i \in Live \ {request[a].id} |-> tasks[i]]
    /\ gone' = gone \cup {request[a].id}
    /\ EndRequest(a)
    /\ UNCHANGED <<inserted, minted, phase, of, finished, scan, refused>>

\* 500: IntegrityError, rolled back.  `refused` notes the first of the two.
DeleteRefused(a) ==
    /\ request[a].id # NoId
    /\ ~Deletable(a)
    /\ refused' = IF request[a].seen = {} THEN refused
                  ELSE refused \cup {request[a].id}
    /\ EndRequest(a)
    /\ UNCHANGED <<tasks, inserted, minted, phase, of, finished, scan, gone>>

\* 500: the database fails the transaction, rolled back.
DeleteFails(a) ==
    /\ request[a].id # NoId
    /\ EndRequest(a)
    /\ UNCHANGED <<tasks, inserted, minted, phase, of, finished, scan, gone, refused>>

-----------------------------------------------------------------------------
(* Listing tasks: each page is a query of its own, `id > cursor` in id     *)
(* order, and the cursor of the next page is the last id of a full page.   *)

\* A fault: the keyset filter lets the cursor's own row in again.
Beyond_Inclusive(cursor) == {i \in Live : i >= cursor}

Beyond(cursor) == {i \in Live : i > cursor}

\* A fault: the ORDER BY is missing, so any rows fill the page.
IsPage_Unordered(P, cursor) ==
    /\ P \subseteq Beyond(cursor)
    /\ Cardinality(P) <= Limit
    /\ P = Beyond(cursor) \/ Cardinality(P) = Limit

\* P is what the query returns: the first rows beyond the cursor, up to Limit.
IsPage(P, cursor) ==
    /\ P \subseteq Beyond(cursor)
    /\ \A i \in P, j \in Beyond(cursor) \ P : i < j
    /\ Cardinality(P) <= Limit
    /\ P = Beyond(cursor) \/ Cardinality(P) = Limit

\* c is next_cursor: the last row of a full page, none after a short one.
IsNextCursor(c, P) ==
    IF Cardinality(P) = Limit
    THEN c \in P /\ \A j \in P : j <= c
    ELSE c = NoId

\* The first page of a listing: no cursor.  `start` remembers what the table
\* held then.
FirstPage(s) ==
    /\ scan[s].cursor = NoId
    /\ \E P \in SUBSET Live, c \in Live \cup {NoId} :
         /\ IsPage(P, NoId)
         /\ IsNextCursor(c, P)
         /\ scan' = [scan EXCEPT ![s] =
                       [start |-> Live, got |-> P, count |-> Cardinality(P),
                        cursor |-> c]]
    /\ UNCHANGED <<tasks, inserted, minted, phase, of, finished, request, gone, refused>>

NextPage(s) ==
    /\ scan[s].cursor # NoId
    /\ \E P \in SUBSET Live, c \in Live \cup {NoId} :
         /\ IsPage(P, scan[s].cursor)
         /\ IsNextCursor(c, P)
         /\ scan' = [scan EXCEPT ![s] =
                       [start |-> scan[s].start, got |-> scan[s].got \cup P,
                        count |-> scan[s].count + Cardinality(P),
                        cursor |-> c]]
    /\ UNCHANGED <<tasks, inserted, minted, phase, of, finished, request, gone, refused>>

-----------------------------------------------------------------------------
(* The server stops and starts again.  Runs are daemon threads and nothing  *)
(* on disk says that they were accepted: those not recorded are forgotten.  *)
(* Open transactions are rolled back.  Cursors are with the clients, and    *)
(* serve the next server as well.                                           *)

Restart ==
    /\ phase' = [r \in Runs |-> IF phase[r] = "running" THEN "failed" ELSE phase[r]]
    /\ request' = [a \in Admins |-> [id |-> NoId, seen |-> {}]]
    /\ inserted' \in [{} -> Names]
    /\ UNCHANGED <<tasks, minted, of, finished, scan, gone, refused>>

-----------------------------------------------------------------------------
Run(r) ==
    \/ \E id \in Ids : RunTask(r, id)
    \/ SaveResult(r)
    \/ LoseResult(r)
    \/ SaveFails(r)

Delete(a) ==
    \/ \E id \in Ids : DeleteSelect(a, id)
    \/ DeleteCommit(a)
    \/ DeleteRefused(a)
    \/ DeleteFails(a)

Create(id) ==
    \/ \E n \in Names : InsertTask(id, n)
    \/ CommitTask(id)
    \/ InsertFails(id)

List(s) == FirstPage(s) \/ NextPage(s)

Next ==
    \/ \E id \in Ids : Create(id)
    \/ \E r \in Runs : Run(r)
    \/ \E a \in Admins : Delete(a)
    \/ \E s \in Readers : List(s)
    \/ Restart

Spec == Init /\ [][Next]_vars

-----------------------------------------------------------------------------
(* Properties.                                                             *)

\* Every variable keeps its shape, and every id in use was minted.
TypeOK ==
    /\ minted \subseteq Ids
    /\ Live \cup Pending \subseteq minted
    /\ tasks \in [Live -> Row]
    /\ inserted \in [Pending -> Names]
    /\ phase \in [Runs -> Phases]
    /\ of \in [Runs -> Ids \cup {NoId}]
    /\ finished \in [Runs -> Stamps \cup {NoStamp}]
    /\ request \in [Admins -> [id : Ids \cup {NoId}, seen : SUBSET Runs]]
    /\ scan \in [Readers -> [start : SUBSET Ids, got : SUBSET Ids,
                             count : Nat, cursor : Ids \cup {NoId}]]
    /\ gone \subseteq Ids
    /\ refused \subseteq Ids

\* A listing that has reached its end has returned every task that was there
\* when it began and is there still, whatever was created and deleted between
\* its pages (list_tasks, the keyset cursor).
ScanComplete ==
    \A s \in Readers :
        scan[s].cursor = NoId => scan[s].start \cap Live \subseteq scan[s].got

\* No listing returns a task twice (list_tasks, the keyset cursor).
ScanNoRepeat == \A s \in Readers : scan[s].count = Cardinality(scan[s].got)

\* Two tasks never carry the same name, however the INSERTs and commits of their
\* POSTs, DELETEs and rollbacks interleave (uq_tasks_name, create_task).
UniqueNames == \A i, j \in Live : tasks[i].name = tasks[j].name => i = j

\* After a 204 the task is never seen again and has no history, whatever
\* DELETE and run requests were in flight (delete_task, save_result).
DeletedStaysGone ==
    \A id \in gone : id \notin Live /\ Results(id) = {}

\* An accepted run loses its result to the foreign key only when its task was
\* deleted and the DELETE acknowledged (run_task, _persist_result).
LostOnlyByDelete == \A r \in Runs : phase[r] = "lost" => of[r] \in gone

\* The history of a task is newest first, but for one place: a run that ended
\* exactly on a second is listed before the later ones of that second, never
\* before those of another (get_results, _format_finished_at).
EndedBefore(r, q) ==
    \/ finished[r].sec < finished[q].sec
    \/ /\ finished[r].sec = finished[q].sec
       /\ finished[r].frac < finished[q].frac
HistoryOrdered ==
    \A r, q \in Runs :
        /\ phase[r] = "recorded" /\ phase[q] = "recorded" /\ of[r] = of[q]
        /\ EndedBefore(r, q) /\ ListedBefore(r, q)
        => finished[r] = [sec |-> finished[q].sec, frac |-> 0]

-----------------------------------------------------------------------------
(* A claim of the documents that the code does not meet.                  *)

\* Deleting a task removes its results in the same transaction: no DELETE is
\* refused for the results it found with the task (delete_task, AC-1.7).
DeleteRemovesHistory == refused = {}
=============================================================================
