-------------------------------- MODULE Schema ---------------------------------
(***************************************************************************)
(* The database schema as Alembic's three revisions move it (migrations/),  *)
(* as the operator's CLI adds to it (create_all), and what /readyz vouches  *)
(* for.                                                                    *)
(*                                                                         *)
(* A migration command runs the scripts of the revisions on its way, one     *)
(* statement after the other, on one connection; the process or a statement *)
(* may fail before any of them, which rolls back to the last commit.  On    *)
(* PostgreSQL the whole command is one transaction.  On SQLite each         *)
(* revision has its own, and the driver begins it at the first INSERT or    *)
(* UPDATE: the DDL before that takes effect at once.                        *)
(* The service is stopped while a migration runs.                          *)
(***************************************************************************)
EXTENDS Integers, Sequences

CONSTANTS
    Ids, Names,         \* ids and names of tasks
    Values,             \* contents of result_json
    NoName, Null,       \* no such task; SQL NULL
    Dialects            \* databases to consider

ASSUME SchemaAssumption ==
    /\ Dialects \subseteq {"postgresql", "sqlite"}
    /\ NoName \notin Names
    /\ Null \notin Values

VARIABLES
    dialect,  \* the database in use
    db,       \* its committed contents
    work,     \* its contents as the running migration sees them
    target,   \* the revision the migration command goes to
    at,       \* the statement of the current script that comes next
    early,    \* the CLI has created tables ahead of the migrations
    told      \* the tasks and results last written

vars == <<dialect, db, work, target, at, early, told>>

HeadRevision == 3
Revisions == 0 .. HeadRevision   \* 0: base

FirstTables == {"tasks", "result_json", "api_keys", "rate_buckets"}
TagTables == {"tags", "task_tags", "uq_tasks_name"}

\* A database at a revision: its tables, the column tasks.result_json, and the
\* unique index on tasks.name.
ShapeOf(revision) ==
    (IF revision \in {1, 2} THEN {"result_json"} ELSE {})
        \cup (IF revision >= 1 THEN FirstTables \ {"result_json"} ELSE {})
        \cup (IF revision >= 2 THEN TagTables ELSE {})
        \cup (IF revision = 3 THEN {"task_results"} ELSE {})

\* The tables of Base.metadata.  Its task_results has an id and the columns of
\* a run; the one of revision 3 has not.
OrmTables ==
    {"tasks", "api_keys", "rate_buckets", "tags", "task_tags", "task_results"}

Objects == FirstTables \cup TagTables \cup OrmTables \cup {"run_columns"}

Database == [revision : Revisions, objects : SUBSET Objects,
             name : [Ids -> Names \cup {NoName}],
             column : [Ids -> Values \cup {Null}],    \* tasks.result_json
             results : [Ids -> Values \cup {Null}]]   \* task_results

NoNames == [i \in Ids |-> NoName]
Nulls == [i \in Ids |-> Null]
Nothing == [name |-> NoNames, value |-> Nulls]

Init ==
    /\ dialect \in Dialects
    /\ db = [revision |-> 0, objects |-> {}, name |-> NoNames,
             column |-> Nulls, results |-> Nulls]
    /\ work = db
    /\ target = 0
    /\ at = 1
    /\ early = FALSE
    /\ told = Nothing

Idle == target = work.revision

--------------------------------------------------------------------------------
(* Statements.                                                              *)

Statement(kind, what) == [kind |-> kind, what |-> what]
Create(what) == Statement("create", what)
Drop(what)   == Statement("drop", what)
CopyOut      == Statement("copy_out", "task_results")
CopyBack     == Statement("copy_back", "result_json")
Stamp        == Statement("stamp", "alembic_version")

Ddl == {"create", "drop"}

\* tasks is created with its column, and dropped with its column and its index.
Gained(s) ==
    IF s.kind # "create" THEN {}
    ELSE IF s.what = "tasks" THEN {"tasks", "result_json"} ELSE {s.what}
Lost(s) ==
    IF s.kind # "drop" THEN {}
    ELSE IF s.what = "tasks" THEN {"tasks", "result_json", "uq_tasks_name"}
    ELSE {s.what}

DistinctNames(d) ==
    \A i, j \in Ids : d.name[i] = d.name[j] /\ d.name[i] # NoName => i = j

\* Statement s does not fail on database d.  PostgreSQL drops no table that
\* another one refers to.
Possible(s, d) ==
    /\ s.kind = "create" => s.what \notin d.objects
    /\ s.kind = "drop"   => s.what \in d.objects
    /\ s \in {Create("uq_tasks_name"), Create("result_json")} =>
           "tasks" \in d.objects
    /\ s = Create("uq_tasks_name") => DistinctNames(d)
    /\ s = Drop("tasks") /\ dialect = "postgresql" =>
           {"task_tags", "run_columns"} \cap d.objects = {}
    /\ s \in {CopyOut, CopyBack} =>
           {"tasks", "result_json", "task_results"} \subseteq d.objects

\* d with the given objects: what is not there holds nothing.
Having(d, objects) ==
    [revision |-> d.revision,
     objects  |-> objects,
     name     |-> IF "tasks" \in objects THEN d.name ELSE NoNames,
     column   |-> IF "result_json" \in objects THEN d.column ELSE Nulls,
     results  |-> IF "task_results" \in objects THEN d.results ELSE Nulls]

--------------------------------------------------------------------------------
(* The revisions' scripts, each with the stamp Alembic ends it with.        *)

V1Up == <<Create("tasks"), Create("api_keys"), Create("rate_buckets"), Stamp>>
V2Up == <<Create("tags"), Create("task_tags"), Create("uq_tasks_name"), Stamp>>

\* Fault: the column is dropped before it is copied.
V3Up_DropFirst == <<Drop("result_json"), Create("task_results"), Stamp>>

V3Up == <<Create("task_results"), CopyOut, Drop("result_json"), Stamp>>

V1Down == <<Drop("rate_buckets"), Drop("api_keys"), Drop("tasks"), Stamp>>

\* Fault: the unique index stays.
V2Down_KeepsIndex == <<Drop("task_tags"), Drop("tags"), Stamp>>

V2Down == <<Drop("uq_tasks_name"), Drop("task_tags"), Drop("tags"), Stamp>>
V3Down == <<Create("result_json"), CopyBack, Drop("task_results"), Stamp>>

\* The script that takes a database at the given revision one further.
Up(revision) ==
    IF revision = 0 THEN V1Up ELSE IF revision = 1 THEN V2Up ELSE V3Up
Down(revision) ==
    IF revision = 1 THEN V1Down ELSE IF revision = 2 THEN V2Down ELSE V3Down

Upwards == target > work.revision
Script == IF Upwards THEN Up(work.revision) ELSE Down(work.revision)
Current == Script[at]
AtEnd == at = Len(Script)

\* Fault: a downgrade is stamped like an upgrade.
Reached_Up == work.revision + 1

\* The revision that the script's stamp records.
Reached == IF Upwards THEN work.revision + 1 ELSE work.revision - 1

\* What the statement makes of the database.
After(s, d) ==
    IF s.kind \in Ddl THEN Having(d, (d.objects \cup Gained(s)) \ Lost(s))
    ELSE IF s = CopyOut THEN [d EXCEPT !.results = d.column]
    ELSE IF s = CopyBack THEN
        [d EXCEPT !.column =
            [i \in Ids |-> IF d.name[i] = NoName THEN Null ELSE d.results[i]]]
    ELSE [d EXCEPT !.revision = Reached]

\* An INSERT or UPDATE of this script has opened a transaction.
Open == \E j \in 1 .. at - 1 : Script[j].kind \notin Ddl

\* Fault: the context runs its migrations outside begin_transaction().
Commits_NoTransaction == AtEnd \/ (Current.kind \in Ddl /\ ~Open)

\* The statement is the last one of its transaction.
Commits ==
    IF dialect = "postgresql"
    THEN AtEnd /\ Reached = target
    ELSE AtEnd \/ (Current.kind \in Ddl /\ ~Open)

--------------------------------------------------------------------------------
(* Actions.                                                                 *)

\* `alembic upgrade` or `alembic downgrade` to any other revision.
Begin(revision) ==
    /\ Idle /\ revision # db.revision
    /\ target' = revision
    /\ UNCHANGED <<dialect, db, work, at, early, told>>

\* The next statement; the next script, if there is one, follows its stamp.  A
\* dropped table takes along what the service wrote to it.
Execute ==
    /\ ~Idle /\ Possible(Current, work)
    /\ work' = After(Current, work)
    /\ at' = IF AtEnd THEN 1 ELSE at + 1
    /\ IF Commits
         THEN /\ db' = work'
              /\ told' = IF "tasks" \in work'.objects THEN told ELSE Nothing
         ELSE UNCHANGED <<db, told>>
    /\ UNCHANGED <<dialect, target, early>>

\* A statement fails, or the process dies.
Fail ==
    /\ ~Idle
    /\ work' = db
    /\ target' = db.revision
    /\ at' = 1
    /\ UNCHANGED <<dialect, db, early, told>>

Store(d) == db' = d /\ work' = d

\* `python -m taskq_api key create`: create_all makes the tables that are
\* missing.  Its tasks has a unique name and no result_json.
EnsureSchema ==
    /\ Idle
    /\ LET missing == OrmTables \ db.objects
           extra == (IF "tasks" \in missing THEN {"uq_tasks_name"} ELSE {})
                    \cup (IF "task_results" \in missing THEN {"run_columns"}
                                                        ELSE {})
       IN  /\ Store([db EXCEPT !.objects = @ \cup missing \cup extra])
           /\ early' = (early \/ missing # {})
    /\ UNCHANGED <<dialect, target, at, told>>

\* Task i is written with result v, as the tables of the current revision take
\* them.
Write(i, n, v) ==
    /\ Idle /\ "tasks" \in db.objects
    /\ "uq_tasks_name" \in db.objects =>
           \A j \in Ids \ {i} : db.name[j] # n
    /\ LET named == [db EXCEPT !.name = [@ EXCEPT ![i] = n]]
       IN  IF db.revision < 3
             THEN /\ "result_json" \in db.objects
                  /\ Store([named EXCEPT !.column = [@ EXCEPT ![i] = v]])
             ELSE /\ "task_results" \in db.objects
                  /\ Store([named EXCEPT !.results = [@ EXCEPT ![i] = v]])
    /\ told' = [name  |-> [told.name EXCEPT ![i] = n],
                value |-> [told.value EXCEPT ![i] = v]]
    /\ UNCHANGED <<dialect, target, at, early>>

Next ==
    \/ \E revision \in Revisions : Begin(revision)
    \/ Execute
    \/ Fail
    \/ EnsureSchema
    \/ \E i \in Ids, n \in Names, v \in Values \cup {Null} : Write(i, n, v)

Spec == Init /\ [][Next]_vars

\* Fault: the head revision was not moved when v3 was added.
AtHead_Stale == db.revision >= 2

\* The constant in session.py is compared with the recorded revision.
AtHead == db.revision = HeadRevision

\* /readyz answers 200.  Before it asks for the revision it asks whether the
\* database answers at all; where it does not, the probe is 503.
Ready == AtHead

--------------------------------------------------------------------------------
(* Properties.                                                              *)

\* Every variable keeps its shape, and no row is in a table that is not there.
TypeOK ==
    /\ dialect \in Dialects
    /\ {db, work} \subseteq Database
    /\ \A d \in {db, work} : Having(d, d.objects) = d
    /\ target \in Revisions
    /\ at \in 1 .. 4
    /\ early \in BOOLEAN
    /\ told \in [name : [Ids -> Names \cup {NoName}],
                 value : [Ids -> Values \cup {Null}]]

\* On PostgreSQL a migration happens as a whole or not at all: whatever fails
\* and wherever, between commands the schema is exactly the recorded revision's
\* (env.py, every upgrade() and downgrade()).
RevisionShape ==
    dialect = "postgresql" /\ Idle /\ ~early => db.objects = ShapeOf(db.revision)

\* No migration, failed or not, up or down any number of times, loses or changes
\* a task or its result as long as there is a tasks table (v3_split_results).
ResultOf(d, i) == IF d.revision < 3 THEN d.column[i] ELSE d.results[i]
DataKept ==
    "tasks" \in db.objects =>
        /\ db.name = told.name
        /\ \A i \in Ids : ResultOf(db, i) = told.value[i]

\* On PostgreSQL a migration command never gets stuck, whatever came before it:
\* only tables the CLI made, or duplicate names below revision 2, stop it.
NeverStuck ==
    dialect = "postgresql" /\ ~Idle /\ ~early /\ DistinctNames(db)
        => Possible(Current, work)

\* On PostgreSQL, when /readyz answers 200, everything head consists of is there,
\* whatever the CLI created on the way (readyz, migration_at_head).
ReadyComplete ==
    dialect = "postgresql" /\ Ready => ShapeOf(HeadRevision) \subseteq db.objects

--------------------------------------------------------------------------------
(* A claim of the documents that the code does not meet.                   *)

\* When /readyz answers 200, task_results has the columns of a run.
ReadyForRuns == Ready => "run_columns" \in db.objects
================================================================================
