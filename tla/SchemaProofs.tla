------------------------------- MODULE SchemaProofs ------------------------------
(***************************************************************************)
(* Proofs about Schema, for any tasks, names and results.  The invariant    *)
(* follows a migration statement by statement: which objects are there      *)
(* (Shaped), and where the tasks' results are (Located).                    *)
(***************************************************************************)
EXTENDS Schema, TLAPS

Scripts == {V1Up, V2Up, V3Up, V1Down, V2Down, V3Down}

\* Objects o after statement s, and those before the j-th statement of a script
\* that began with o.
Then(s, o) == (o \cup Gained(s)) \ Lost(s)
Before(j, script, o) ==
    IF j = 1 THEN o
    ELSE IF j = 2 THEN Then(script[1], o)
    ELSE IF j = 3 THEN Then(script[2], Then(script[1], o))
    ELSE Then(script[3], Then(script[2], Then(script[1], o)))

Expected == Before(at, Script, ShapeOf(work.revision))

\* A command that is over has left nothing open.
Settled == Idle => work = db /\ at = 1

\* On PostgreSQL the objects are those the statements so far account for, and
\* what the CLI made.
Shaped ==
    dialect = "postgresql" =>
        /\ ShapeOf(db.revision) \subseteq db.objects
        /\ Expected \subseteq work.objects
        /\ ~early => db.objects = ShapeOf(db.revision) /\ work.objects = Expected

\* Where the results are, as far as the script has come.
InColumn ==
    \/ work.revision < 3 /\ ~(work.revision = 2 /\ Upwards /\ at = 4)
    \/ work.revision = 3 /\ at \in 3 .. 4
InResults ==
    \/ work.revision = 3 /\ at # 4
    \/ work.revision = 2 /\ Upwards /\ at \in 3 .. 4

Located ==
    "tasks" \in work.objects =>
        /\ work.name = told.name
        /\ InColumn => work.column = told.value
        /\ InResults => work.results = told.value

\* What is told of tasks that are not there, and that results are nowhere else.
Forgotten ==
    /\ "tasks" \notin db.objects => told = Nothing
    /\ Upwards /\ "tasks" \notin work.objects => told = Nothing
    /\ \A i \in Ids : told.name[i] = NoName => told.value[i] = Null

Elsewhere ==
    /\ "tasks" \notin db.objects => db.column = Nulls /\ db.results = Nulls
    /\ "tasks" \notin work.objects => work.column = Nulls /\ work.results = Nulls
    /\ db.revision < 3 => db.results = Nulls
    /\ ~InResults => work.results = Nulls

\* A migration changes no name, it only drops them all.
Named == work.name \in {db.name, NoNames}

DataInv == DataKept /\ Located /\ Forgotten /\ Elsewhere

--------------------------------------------------------------------------------
(* The scripts.                                                             *)

\* Every script is three statements and a stamp; only the second may copy.
LEMMA ScriptForm ==
    ASSUME NEW script \in Scripts
    PROVE  /\ Len(script) = 4
           /\ script[1].kind \in Ddl
           /\ script[2].kind \in Ddl \/ script[2] = CopyOut \/ script[2] = CopyBack
           /\ script[3].kind \in Ddl
           /\ script[4] = Stamp
  <1> USE DEF Create, Drop, CopyOut, CopyBack, Stamp, Statement, Ddl
  <1>1. CASE script = V1Up
    BY <1>1 DEF V1Up
  <1>2. CASE script = V2Up
    BY <1>2 DEF V2Up
  <1>3. CASE script = V3Up
    BY <1>3 DEF V3Up
  <1>4. CASE script = V1Down
    BY <1>4 DEF V1Down
  <1>5. CASE script = V2Down
    BY <1>5 DEF V2Down
  <1>6. CASE script = V3Down
    BY <1>6 DEF V3Down
  <1> QED  BY <1>1, <1>2, <1>3, <1>4, <1>5, <1>6 DEF Scripts

\* No script makes anything that is not an object.
LEMMA ScriptGains ==
    ASSUME NEW script \in Scripts
    PROVE  /\ Gained(script[1]) \subseteq Objects
           /\ Gained(script[2]) \subseteq Objects
           /\ Gained(script[3]) \subseteq Objects
  <1> USE DEF Create, Drop, CopyOut, CopyBack, Stamp, Statement, Gained,
              Objects, FirstTables, TagTables, OrmTables
  <1>1. CASE script = V1Up
    BY <1>1 DEF V1Up
  <1>2. CASE script = V2Up
    BY <1>2 DEF V2Up
  <1>3. CASE script = V3Up
    BY <1>3 DEF V3Up
  <1>4. CASE script = V1Down
    BY <1>4 DEF V1Down
  <1>5. CASE script = V2Down
    BY <1>5 DEF V2Down
  <1>6. CASE script = V3Down
    BY <1>6 DEF V3Down
  <1> QED  BY <1>1, <1>2, <1>3, <1>4, <1>5, <1>6 DEF Scripts

\* The script under way, by revision and direction.
LEMMA ScriptCases ==
    ASSUME TypeOK, ~Idle
    PROVE  \/ Upwards  /\ work.revision = 0 /\ Script = V1Up   /\ Reached = 1
           \/ Upwards  /\ work.revision = 1 /\ Script = V2Up   /\ Reached = 2
           \/ Upwards  /\ work.revision = 2 /\ Script = V3Up   /\ Reached = 3
           \/ ~Upwards /\ work.revision = 1 /\ Script = V1Down /\ Reached = 0
           \/ ~Upwards /\ work.revision = 2 /\ Script = V2Down /\ Reached = 1
           \/ ~Upwards /\ work.revision = 3 /\ Script = V3Down /\ Reached = 2
  <1>1. work.revision \in 0 .. 3 /\ target \in 0 .. 3 /\ target # work.revision
    BY DEF TypeOK, Database, Idle, Revisions, HeadRevision
  <1> QED  BY <1>1 DEF Upwards, Script, Reached, Up, Down

\* What each script makes of the objects of the revision it starts from: those
\* of the revision it is stamped with.
LEMMA ScriptReaches ==
    ASSUME TypeOK, ~Idle
    PROVE  Before(4, Script, ShapeOf(work.revision)) = ShapeOf(Reached)
  <1> USE DEF Before, Then, Gained, Lost, ShapeOf, FirstTables, TagTables,
              Statement, Create, Drop, CopyOut, CopyBack
  <1>1. CASE Upwards /\ work.revision = 0 /\ Script = V1Up /\ Reached = 1
    BY <1>1 DEF V1Up
  <1>2. CASE Upwards /\ work.revision = 1 /\ Script = V2Up /\ Reached = 2
    BY <1>2 DEF V2Up
  <1>3. CASE Upwards /\ work.revision = 2 /\ Script = V3Up /\ Reached = 3
    BY <1>3 DEF V3Up
  <1>4. CASE ~Upwards /\ work.revision = 1 /\ Script = V1Down /\ Reached = 0
    BY <1>4 DEF V1Down
  <1>5. CASE ~Upwards /\ work.revision = 2 /\ Script = V2Down /\ Reached = 1
    BY <1>5 DEF V2Down
  <1>6. CASE ~Upwards /\ work.revision = 3 /\ Script = V3Down /\ Reached = 2
    BY <1>6 DEF V3Down
  <1> QED  BY <1>1, <1>2, <1>3, <1>4, <1>5, <1>6, ScriptCases

--------------------------------------------------------------------------------
(* Types.                                                                   *)

\* Where the command stands in its script, and what comes next.
LEMMA CurrentForm ==
    ASSUME TypeOK, ~Idle
    PROVE  /\ AtEnd <=> at = 4
           /\ at = 4 => Current = Stamp
           /\ at # 4 => /\ Gained(Current) \subseteq Objects
                        /\ \/ Current.kind \in Ddl
                           \/ at = 2 /\ Current \in {CopyOut, CopyBack}
           /\ Open => at \in {3, 4} /\ Script[2] \in {CopyOut, CopyBack}
           /\ at \in {3, 4} /\ Script[2] \in {CopyOut, CopyBack} => Open
  <1>1. Script \in Scripts
    BY ScriptCases DEF Scripts
  <1>2. at \in 1 .. 4
    BY DEF TypeOK
  <1>3. /\ Len(Script) = 4
        /\ Script[1].kind \in Ddl
        /\ Script[2].kind \in Ddl \/ Script[2] \in {CopyOut, CopyBack}
        /\ Script[3].kind \in Ddl
        /\ Script[4] = Stamp
        /\ Gained(Script[1]) \subseteq Objects
        /\ Gained(Script[2]) \subseteq Objects
        /\ Gained(Script[3]) \subseteq Objects
    BY <1>1, ScriptForm, ScriptGains
  <1>4. CopyOut.kind \notin Ddl /\ CopyBack.kind \notin Ddl
    BY DEF CopyOut, CopyBack, Statement, Ddl
  <1>5. (AtEnd <=> at = 4) /\ (at = 4 => Current = Stamp)
    BY <1>2, <1>3 DEF AtEnd, Current
  <1>6. at # 4 => /\ Gained(Current) \subseteq Objects
                  /\ \/ Current.kind \in Ddl
                     \/ at = 2 /\ Current \in {CopyOut, CopyBack}
    BY <1>2, <1>3 DEF Current
  <1>7. Open => at \in {3, 4} /\ Script[2] \in {CopyOut, CopyBack}
    <2> SUFFICES ASSUME NEW j \in 1 .. at - 1, Script[j].kind \notin Ddl
                 PROVE  at \in {3, 4} /\ Script[2] \in {CopyOut, CopyBack}
      BY DEF Open
    <2>1. j \in {1, 2, 3} /\ j < at
      BY <1>2
    <2>2. j = 2
      BY <2>1, <1>3
    <2> QED  BY <2>1, <2>2, <1>2, <1>3
  <1>8. at \in {3, 4} /\ Script[2] \in {CopyOut, CopyBack} => Open
    BY <1>4 DEF Open
  <1> QED  BY <1>5, <1>6, <1>7, <1>8

\* A database loses rows with their tables, and is of its type.
LEMMA HavingTyped ==
    ASSUME NEW d \in Database, NEW objects \in SUBSET Objects
    PROVE  /\ Having(d, objects) \in Database
           /\ Having(d, objects).objects = objects
           /\ Having(Having(d, objects), objects) = Having(d, objects)
  BY DEF Having, Database, NoNames, Nulls

\* A statement keeps the type, and leaves no rows without their table.
LEMMA AfterTyped ==
    ASSUME TypeOK, ~Idle, Possible(Current, work)
    PROVE  LET d == After(Current, work)
           IN  d \in Database /\ Having(d, d.objects) = d
  <1> DEFINE d == After(Current, work)
  <1>1. work \in Database /\ Having(work, work.objects) = work
    BY DEF TypeOK
  <1>2. Stamp.kind \notin Ddl /\ CopyOut.kind \notin Ddl /\ CopyBack.kind \notin Ddl
    BY DEF Stamp, CopyOut, CopyBack, Statement, Ddl
  <1>3. CopyOut # CopyBack /\ CopyOut # Stamp /\ CopyBack # Stamp
    BY DEF Stamp, CopyOut, CopyBack, Statement
  <1>4. CASE at # 4 /\ Current.kind \in Ddl
    <2> DEFINE o == (work.objects \cup Gained(Current)) \ Lost(Current)
    <2>1. o \in SUBSET Objects
      BY <1>1, <1>4, CurrentForm DEF Database
    <2>2. d = Having(work, o)
      BY <1>4 DEF After
    <2> QED  BY <1>1, <2>1, <2>2, HavingTyped
  <1>5. CASE Current = CopyOut
    <2>1. d = [work EXCEPT !.results = work.column] /\ "task_results" \in work.objects
      BY <1>2, <1>5 DEF After, Possible
    <2> QED  BY <1>1, <2>1 DEF Database, Having
  <1>6. CASE Current = CopyBack
    <2> DEFINE c == [i \in Ids |->
                        IF work.name[i] = NoName THEN Null ELSE work.results[i]]
    <2>1. d = [work EXCEPT !.column = c] /\ "result_json" \in work.objects
      BY <1>2, <1>3, <1>6 DEF After, Possible
    <2>2. c \in [Ids -> Values \cup {Null}]
      BY <1>1 DEF Database
    <2> HIDE DEF c
    <2> QED  BY <1>1, <2>1, <2>2 DEF Database, Having
  <1>7. CASE at = 4
    <2>1. d = [work EXCEPT !.revision = Reached]
      BY <1>2, <1>3, <1>7, CurrentForm DEF After
    <2>2. Reached \in Revisions
      BY ScriptCases DEF Revisions, HeadRevision
    <2> QED  BY <1>1, <2>1, <2>2 DEF Database, Having
  <1> QED  BY <1>4, <1>5, <1>6, <1>7, CurrentForm

\* What it means that there are no rows without their table.
LEMMA NoStrayRows ==
    ASSUME NEW d \in Database
    PROVE  Having(d, d.objects) = d <=>
               /\ "tasks" \notin d.objects => d.name = NoNames
               /\ "result_json" \notin d.objects => d.column = Nulls
               /\ "task_results" \notin d.objects => d.results = Nulls
  <1> DEFINE h == Having(d, d.objects)
  <1>1. /\ h.revision = d.revision /\ h.objects = d.objects
        /\ h.name = IF "tasks" \in d.objects THEN d.name ELSE NoNames
        /\ h.column = IF "result_json" \in d.objects THEN d.column ELSE Nulls
        /\ h.results = IF "task_results" \in d.objects THEN d.results ELSE Nulls
    BY DEF Having
  <1>2. h \in Database
    BY HavingTyped DEF Database
  <1>3. h = d <=> /\ h.revision = d.revision /\ h.objects = d.objects
                  /\ h.name = d.name /\ h.column = d.column
                  /\ h.results = d.results
    <2> HIDE DEF h
    <2> QED  BY <1>2 DEF Database
  <1> QED  BY <1>1, <1>3

\* The CLI adds tables to the database, unless all are there.
LEMMA CliAdds ==
    ASSUME EnsureSchema
    PROVE  \E made \in SUBSET Objects :
               /\ db' = [db EXCEPT !.objects = @ \cup made] /\ work' = db'
               /\ "tasks" \in db.objects \cup made
               /\ ~early' => ~early /\ made = {}
  <1> DEFINE missing == OrmTables \ db.objects
             extra == (IF "tasks" \in missing THEN {"uq_tasks_name"} ELSE {})
                      \cup (IF "task_results" \in missing THEN {"run_columns"}
                                                          ELSE {})
             made == missing \cup extra
  <1>1. made \in SUBSET Objects /\ "tasks" \in db.objects \cup made
    BY DEF Objects, TagTables, OrmTables
  <1>2. /\ db' = [db EXCEPT !.objects = (@ \cup missing) \cup extra]
        /\ work' = db'
        /\ early' = (early \/ missing # {})
    BY DEF EnsureSchema, Store
  <1>3. (db.objects \cup missing) \cup extra = db.objects \cup made
    OBVIOUS
  <1>4. missing = {} => made = {}
    OBVIOUS
  <1> HIDE DEF missing, extra
  <1>5. db' = [db EXCEPT !.objects = @ \cup made]
    BY <1>2, <1>3
  <1> QED  BY <1>1, <1>2, <1>4, <1>5

LEMMA TypeInit == Init => TypeOK
  <1> SUFFICES ASSUME Init PROVE TypeOK
    OBVIOUS
  <1>1. db \in Database
    BY DEF Init, Database, Revisions, HeadRevision, NoNames, Nulls
  <1>2. Having(db, db.objects) = db
    BY DEF Init, Having, NoNames, Nulls
  <1>3. told \in [name : [Ids -> Names \cup {NoName}],
                  value : [Ids -> Values \cup {Null}]]
    BY DEF Init, Nothing, NoNames, Nulls
  <1>4. work = db /\ dialect \in Dialects /\ early = FALSE
    BY DEF Init
  <1>5. target \in Revisions /\ at \in 1 .. 4
    BY DEF Init, Revisions, HeadRevision
  <1> QED  BY <1>1, <1>2, <1>3, <1>4, <1>5 DEF TypeOK

LEMMA TypeNext == TypeOK /\ [Next]_vars => TypeOK'
  <1> SUFFICES ASSUME TypeOK, [Next]_vars PROVE TypeOK'
    OBVIOUS
  <1>0. /\ db \in Database /\ work \in Database
        /\ Having(db, db.objects) = db /\ Having(work, work.objects) = work
        /\ told \in [name : [Ids -> Names \cup {NoName}],
                     value : [Ids -> Values \cup {Null}]]
    BY DEF TypeOK
  <1>1. ASSUME NEW revision \in Revisions, Begin(revision)
        PROVE  TypeOK'
    BY <1>1 DEF TypeOK, Begin
  <1>2. CASE Execute
    <2>1. work' \in Database /\ Having(work', work'.objects) = work'
      BY <1>2, AfterTyped DEF Execute
    <2>2. db' = work' \/ db' = db
      BY <1>2 DEF Execute
    <2>3. at' \in 1 .. 4
      BY <1>2, CurrentForm DEF Execute, TypeOK
    <2>4. told' = told \/ told' = Nothing
      BY <1>2 DEF Execute
    <2>5. Nothing \in [name : [Ids -> Names \cup {NoName}],
                       value : [Ids -> Values \cup {Null}]]
      BY DEF Nothing, NoNames, Nulls
    <2> QED  BY <1>0, <1>2, <2>1, <2>2, <2>3, <2>4, <2>5 DEF TypeOK, Execute
  <1>3. CASE Fail
    BY <1>0, <1>3 DEF TypeOK, Fail, Database
  <1>4. CASE EnsureSchema
    <2>1. PICK made \in SUBSET Objects :
              db' = [db EXCEPT !.objects = @ \cup made] /\ work' = db'
      BY <1>4, CliAdds
    <2>2. db' \in Database
      BY <1>0, <2>1 DEF Database
    <2>3. Having(db', db'.objects) = db'
      BY <1>0, <2>1, <2>2, NoStrayRows DEF Database
    <2> QED  BY <1>4, <2>1, <2>2, <2>3 DEF TypeOK, EnsureSchema
  <1>5. ASSUME NEW i \in Ids, NEW n \in Names, NEW v \in Values \cup {Null},
               Write(i, n, v)
        PROVE  TypeOK'
    <2> DEFINE named == [db.name EXCEPT ![i] = n]
               held(f) == [f EXCEPT ![i] = v]
    <2>1. named \in [Ids -> Names \cup {NoName}]
      BY <1>0 DEF Database
    <2>2. /\ held(db.column) \in [Ids -> Values \cup {Null}]
          /\ held(db.results) \in [Ids -> Values \cup {Null}]
      BY <1>0 DEF Database
    <2>3. /\ "tasks" \in db.objects
          /\ \/ /\ "result_json" \in db.objects
                /\ db' = [[db EXCEPT !.name = named]
                             EXCEPT !.column = held(db.column)]
             \/ /\ "task_results" \in db.objects
                /\ db' = [[db EXCEPT !.name = named]
                             EXCEPT !.results = held(db.results)]
      BY <1>0, <1>5 DEF Write, Store, Database
    <2> HIDE DEF named, held
    <2>4. db' \in Database
      BY <1>0, <2>1, <2>2, <2>3 DEF Database
    <2>5. Having(db', db'.objects) = db'
      BY <1>0, <2>3, <2>4, NoStrayRows DEF Database
    <2>6. work' = db'
      BY <1>5 DEF Write, Store
    <2>7. told' \in [name : [Ids -> Names \cup {NoName}],
                     value : [Ids -> Values \cup {Null}]]
      BY <1>0, <1>5 DEF Write
    <2> QED  BY <1>5, <2>4, <2>5, <2>6, <2>7 DEF TypeOK, Write
  <1>6. CASE UNCHANGED vars
    BY <1>6 DEF TypeOK, vars
  <1> QED  BY <1>1, <1>2, <1>3, <1>4, <1>5, <1>6 DEF Next

\* Every variable keeps its shape, and no row is in a table that is not there.
THEOREM TypeCorrect == Spec => []TypeOK
  BY TypeInit, TypeNext, PTL DEF Spec

--------------------------------------------------------------------------------
(* The shape.                                                               *)

\* What a statement does to the objects and to the revision.
LEMMA AfterShape ==
    ASSUME TypeOK, ~Idle
    PROVE  LET d == After(Current, work)
           IN  /\ d.objects = Then(Current, work.objects)
               /\ d.revision = IF at = 4 THEN Reached ELSE work.revision
  <1> DEFINE d == After(Current, work)
  <1>1. work \in Database
    BY DEF TypeOK
  <1>2. Stamp.kind \notin Ddl /\ CopyOut.kind \notin Ddl /\ CopyBack.kind \notin Ddl
    BY DEF Stamp, CopyOut, CopyBack, Statement, Ddl
  <1>3. CopyOut # CopyBack /\ CopyOut # Stamp /\ CopyBack # Stamp
    BY DEF Stamp, CopyOut, CopyBack, Statement
  <1>4. ASSUME NEW s, s.kind \notin Ddl
        PROVE  Then(s, work.objects) = work.objects
    BY <1>4 DEF Then, Gained, Lost, Ddl
  <1>5. CASE at # 4 /\ Current.kind \in Ddl
    BY <1>1, <1>5 DEF After, Having, Then
  <1>6. CASE at # 4 /\ Current = CopyOut
    <2>1. d = [work EXCEPT !.results = work.column]
      BY <1>2, <1>6 DEF After
    <2> QED  BY <1>1, <1>2, <1>4, <1>6, <2>1 DEF Database
  <1>7. CASE at # 4 /\ Current = CopyBack
    <2> DEFINE c == [i \in Ids |->
                        IF work.name[i] = NoName THEN Null ELSE work.results[i]]
    <2>1. d = [work EXCEPT !.column = c]
      BY <1>2, <1>3, <1>7 DEF After
    <2> HIDE DEF c
    <2> QED  BY <1>1, <1>2, <1>4, <1>7, <2>1 DEF Database
  <1>8. CASE at = 4
    <2>1. d = [work EXCEPT !.revision = Reached]
      BY <1>2, <1>3, <1>8, CurrentForm DEF After
    <2> QED  BY <1>1, <1>2, <1>4, <1>8, <2>1, CurrentForm DEF Database
  <1> QED  BY <1>5, <1>6, <1>7, <1>8, CurrentForm

\* A step within a script stays in it; its end begins another one, or nothing.
LEMMA ExecuteMoves ==
    ASSUME TypeOK, Execute
    PROVE  /\ at # 4 => /\ at' = at + 1 /\ work'.revision = work.revision
                        /\ Upwards' = Upwards /\ Script' = Script /\ ~Idle'
           /\ at = 4 => at' = 1 /\ work'.revision = Reached
           /\ work'.objects = Then(Current, work.objects)
           /\ target' = target
  <1>1. /\ work'.objects = Then(Current, work.objects)
        /\ work'.revision = IF at = 4 THEN Reached ELSE work.revision
    BY AfterShape DEF Execute
  <1>2. at' = IF at = 4 THEN 1 ELSE at + 1
    BY CurrentForm DEF Execute
  <1>3. target' = target /\ ~Idle
    BY DEF Execute
  <1> QED  BY <1>1, <1>2, <1>3 DEF Upwards, Script, Idle, Up, Down

\* What is expected follows the statements too.
LEMMA ExpectedMoves ==
    ASSUME TypeOK, Execute
    PROVE  /\ Expected' = Then(Current, Expected)
           /\ at = 4 => Expected' = ShapeOf(Reached)
  <1>1. at \in 1 .. 4 /\ ~Idle
    BY DEF TypeOK, Execute
  <1>2. CASE at # 4
    <2>1. Expected' = Before(at + 1, Script, ShapeOf(work.revision))
      BY <1>2, ExecuteMoves DEF Expected
    <2> QED  BY <1>1, <1>2, <2>1 DEF Before, Expected, Current
  <1>3. CASE at = 4
    <2>1. Expected' = ShapeOf(Reached)
      BY <1>3, ExecuteMoves DEF Expected, Before
    <2>2. Expected = ShapeOf(Reached)
      BY <1>1, <1>3, ScriptReaches DEF Expected
    <2>3. Then(Stamp, Expected) = Expected
      BY DEF Then, Gained, Lost, Stamp, Statement
    <2> QED  BY <1>1, <1>3, <2>1, <2>2, <2>3, CurrentForm
  <1> QED  BY <1>2, <1>3

LEMMA SettledNext == TypeOK /\ Settled /\ [Next]_vars => Settled'
  <1> SUFFICES ASSUME TypeOK, Settled, [Next]_vars PROVE Settled'
    OBVIOUS
  <1>1. ASSUME NEW revision \in Revisions, Begin(revision)
        PROVE  Settled'
    BY <1>1 DEF Settled, Begin, Idle
  <1>2. CASE Execute
    <2>1. ASSUME Idle'
          PROVE  db' = work' /\ at' = 1
      <3>1. at = 4 /\ at' = 1 /\ Reached = target
        BY <1>2, <2>1, ExecuteMoves DEF Idle
      <3>2. AtEnd
        BY <1>2, <3>1, CurrentForm DEF Execute
      <3>3. Commits
        BY <3>1, <3>2 DEF Commits
      <3> QED  BY <1>2, <3>1, <3>3 DEF Execute
    <2> QED  BY <2>1 DEF Settled
  <1>3. CASE Fail
    BY <1>3 DEF Settled, Fail
  <1>4. CASE EnsureSchema
    BY <1>4 DEF Settled, EnsureSchema, Store
  <1>5. ASSUME NEW i \in Ids, NEW n \in Names, NEW v \in Values \cup {Null},
               Write(i, n, v)
        PROVE  Settled'
    BY <1>5 DEF Settled, Write, Store
  <1>6. CASE UNCHANGED vars
    BY <1>6 DEF Settled, vars, Idle
  <1> QED  BY <1>1, <1>2, <1>3, <1>4, <1>5, <1>6 DEF Next

\* The database's fields that the service does not write.
LEMMA WriteKeeps ==
    ASSUME TypeOK, NEW i \in Ids, NEW n \in Names, NEW v \in Values \cup {Null},
           Write(i, n, v)
    PROVE  /\ db'.objects = db.objects /\ db'.revision = db.revision
           /\ work' = db' /\ db'.name = [db.name EXCEPT ![i] = n]
           /\ db.revision < 3 => /\ db'.column = [db.column EXCEPT ![i] = v]
                                 /\ db'.results = db.results
           /\ ~(db.revision < 3) => db'.results = [db.results EXCEPT ![i] = v]
  <1> DEFINE named == [db.name EXCEPT ![i] = n]
             held(f) == [f EXCEPT ![i] = v]
  <1>1. /\ work' = db'
        /\ IF db.revision < 3
           THEN db' = [[db EXCEPT !.name = named]
                          EXCEPT !.column = held(db.column)]
           ELSE db' = [[db EXCEPT !.name = named]
                          EXCEPT !.results = held(db.results)]
    BY DEF Write, Store, TypeOK, Database
  <1>2. db \in Database
    BY DEF TypeOK
  <1> HIDE DEF named, held
  <1>3. /\ db'.objects = db.objects /\ db'.revision = db.revision
        /\ db'.name = named
        /\ db.revision < 3 => db'.column = held(db.column) /\ db'.results = db.results
        /\ ~(db.revision < 3) => db'.results = held(db.results)
    BY <1>1, <1>2 DEF Database
  <1> QED  BY <1>1, <1>3 DEF named, held

LEMMA ShapedNext == TypeOK /\ Settled /\ Shaped /\ [Next]_vars => Shaped'
  <1> SUFFICES ASSUME TypeOK, Settled, Shaped, [Next]_vars,
                      dialect' = "postgresql"
               PROVE  /\ ShapeOf(db'.revision) \subseteq db'.objects
                      /\ Expected' \subseteq work'.objects
                      /\ ~early' => /\ db'.objects = ShapeOf(db'.revision)
                                    /\ work'.objects = Expected'
    BY DEF Shaped
  <1>0. /\ dialect = "postgresql"
        /\ ShapeOf(db.revision) \subseteq db.objects
        /\ Expected \subseteq work.objects
        /\ ~early => db.objects = ShapeOf(db.revision) /\ work.objects = Expected
    <2>1. dialect' = dialect
      BY DEF Next, Begin, Execute, Fail, EnsureSchema, Write, vars
    <2> QED  BY <2>1 DEF Shaped
  <1>1. ASSUME NEW revision \in Revisions, Begin(revision)
        PROVE  /\ UNCHANGED <<db, work, early>> /\ Expected' = Expected
    BY <1>1 DEF Begin, Settled, Expected, Before
  <1>2. CASE Execute
    <2>1. /\ work'.objects = Then(Current, work.objects)
          /\ Expected' = Then(Current, Expected)
      BY <1>2, ExecuteMoves, ExpectedMoves
    <2>2. Expected' \subseteq work'.objects
      BY <1>0, <2>1 DEF Then
    <2>3. ~early' => work'.objects = Expected'
      BY <1>0, <1>2, <2>1 DEF Execute
    <2>4. CASE Commits
      <3>1. at = 4 /\ ~Idle
        BY <1>0, <1>2, <2>4, CurrentForm DEF Commits, Execute
      <3>2. db' = work' /\ work'.revision = Reached /\ Expected' = ShapeOf(Reached)
        BY <1>2, <2>4, <3>1, ExecuteMoves, ExpectedMoves DEF Execute
      <3> QED  BY <2>2, <2>3, <3>2
    <2>5. CASE ~Commits
      BY <1>0, <1>2, <2>2, <2>3, <2>5 DEF Execute
    <2> QED  BY <2>4, <2>5
  <1>3. CASE Fail
    <2>1. work' = db /\ db' = db /\ early' = early
          /\ Expected' = ShapeOf(db.revision)
      BY <1>3 DEF Fail, Expected, Before
    <2> QED  BY <1>0, <2>1
  <1>4. CASE EnsureSchema
    <2>1. PICK made \in SUBSET Objects :
              /\ db' = [db EXCEPT !.objects = @ \cup made] /\ work' = db'
              /\ ~early' => ~early /\ made = {}
      BY <1>4, CliAdds
    <2>2. db'.objects = db.objects \cup made /\ db'.revision = db.revision
      BY <2>1 DEF TypeOK, Database
    <2>3. work = db /\ at = 1 /\ at' = 1
      BY <1>4 DEF EnsureSchema, Settled
    <2>4. Expected' = Expected
      BY <2>1, <2>2, <2>3 DEF Expected, Before
    <2> QED  BY <1>0, <2>1, <2>2, <2>3, <2>4
  <1>5. ASSUME NEW i \in Ids, NEW n \in Names, NEW v \in Values \cup {Null},
               Write(i, n, v)
        PROVE  /\ db'.objects = db.objects /\ db'.revision = db.revision
               /\ work'.objects = work.objects /\ early' = early
               /\ Expected' = Expected
    <2>1. db'.objects = db.objects /\ db'.revision = db.revision /\ work' = db'
      BY <1>5, WriteKeeps
    <2>2. work = db /\ at = 1 /\ at' = 1 /\ early' = early
      BY <1>5 DEF Write, Settled
    <2> QED  BY <2>1, <2>2 DEF Expected, Before
  <1>6. CASE UNCHANGED vars
    BY <1>0, <1>6 DEF vars, Expected, Script, Upwards
  <1> QED  BY <1>0, <1>1, <1>2, <1>3, <1>4, <1>5, <1>6 DEF Next

ShapeInv == TypeOK /\ Settled /\ Shaped

LEMMA ShapeInvariant == Spec => []ShapeInv
  <1>1. Init => ShapeInv
    <2> SUFFICES ASSUME Init PROVE Settled /\ Shaped
      BY TypeInit DEF ShapeInv
    <2>1. work = db /\ at = 1 /\ db.objects = {} /\ db.revision = 0
      BY DEF Init
    <2> QED  BY <2>1 DEF Settled, Shaped, Expected, Before, ShapeOf
  <1>2. ShapeInv /\ [Next]_vars => ShapeInv'
    BY TypeNext, SettledNext, ShapedNext DEF ShapeInv
  <1> QED  BY <1>1, <1>2, PTL DEF Spec

\* On PostgreSQL a migration happens as a whole or not at all: whatever fails
\* and wherever, between commands the schema is exactly the recorded revision's
\* (env.py, every upgrade() and downgrade()).
THEOREM MigrationsAtomic == Spec => []RevisionShape
  <1>1. ShapeInv => RevisionShape
    BY DEF ShapeInv, Shaped, RevisionShape
  <1> QED  BY <1>1, ShapeInvariant, PTL

\* On PostgreSQL, when /readyz answers 200, everything head consists of is there,
\* whatever the CLI created on the way (readyz, migration_at_head).
THEOREM ReadinessBacked == Spec => []ReadyComplete
  <1>1. ShapeInv => ReadyComplete
    BY DEF ShapeInv, Shaped, ReadyComplete, Ready, AtHead
  <1> QED  BY <1>1, ShapeInvariant, PTL

--------------------------------------------------------------------------------
(* Commands that do not get stuck.                                          *)

\* No statement changes a name, and none before the last table goes drops any.
LEMMA AfterNames ==
    ASSUME TypeOK, ~Idle
    PROVE  LET d == After(Current, work)
           IN  d.name = IF "tasks" \in d.objects THEN work.name ELSE NoNames
  <1> DEFINE d == After(Current, work)
  <1>1. work \in Database /\ ("tasks" \notin work.objects => work.name = NoNames)
    BY NoStrayRows DEF TypeOK
  <1>2. CASE Current.kind \in Ddl
    BY <1>1, <1>2 DEF After, Having
  <1>3. CASE Current.kind \notin Ddl
    <2>1. d.name = work.name /\ d.objects = work.objects
      BY <1>1, <1>3 DEF After, Database
    <2> QED  BY <1>1, <2>1
  <1> QED  BY <1>2, <1>3

LEMMA NamedNext == TypeOK /\ Settled /\ Named /\ [Next]_vars => Named'
  <1> SUFFICES ASSUME TypeOK, Settled, Named, [Next]_vars PROVE Named'
    OBVIOUS
  <1>1. ASSUME NEW revision \in Revisions, Begin(revision)
        PROVE  Named'
    BY <1>1 DEF Named, Begin
  <1>2. CASE Execute
    <2>1. work'.name \in {work.name, NoNames}
      BY <1>2, AfterNames DEF Execute
    <2> QED  BY <1>2, <2>1 DEF Named, Execute
  <1>3. CASE Fail
    BY <1>3 DEF Named, Fail
  <1>4. CASE EnsureSchema
    BY <1>4 DEF Named, EnsureSchema, Store
  <1>5. ASSUME NEW i \in Ids, NEW n \in Names, NEW v \in Values \cup {Null},
               Write(i, n, v)
        PROVE  Named'
    BY <1>5 DEF Named, Write, Store
  <1>6. CASE UNCHANGED vars
    BY <1>6 DEF Named, vars
  <1> QED  BY <1>1, <1>2, <1>3, <1>4, <1>5, <1>6 DEF Next

\* Statement by statement, each script finds what it needs.
LEMMA ExpectedPossible ==
    ASSUME TypeOK, ~Idle, work.objects = Expected, DistinctNames(work)
    PROVE  Possible(Current, work)
  <1>1. at \in 1 .. 4
    BY DEF TypeOK
  <1>2. CASE at = 4
    BY <1>2, CurrentForm
       DEF Possible, Stamp, Create, Drop, CopyOut, CopyBack, Statement
  <1> USE DEF Current, Expected, Before, ShapeOf, FirstTables, TagTables
  <1>3. CASE Upwards /\ work.revision = 0 /\ Script = V1Up
    <2> USE <1>3 DEF V1Up, Then, Gained, Lost,
                     Statement, Create, Drop, CopyOut, CopyBack
    <2>1. CASE at = 1
      BY <2>1 DEF Possible
    <2>2. CASE at = 2
      BY <2>2 DEF Possible
    <2>3. CASE at = 3
      BY <2>3 DEF Possible
    <2> HIDE DEF V1Up
    <2> QED  BY <1>1, <1>2, <2>1, <2>2, <2>3
  <1>4. CASE Upwards /\ work.revision = 1 /\ Script = V2Up
    <2> USE <1>4 DEF V2Up, Then, Gained, Lost,
                     Statement, Create, Drop, CopyOut, CopyBack
    <2>1. CASE at = 1
      BY <2>1 DEF Possible
    <2>2. CASE at = 2
      BY <2>2 DEF Possible
    <2>3. CASE at = 3
      BY <2>3 DEF Possible
    <2> HIDE DEF V2Up
    <2> QED  BY <1>1, <1>2, <2>1, <2>2, <2>3
  <1>5. CASE Upwards /\ work.revision = 2 /\ Script = V3Up
    <2> USE <1>5 DEF V3Up, Then, Gained, Lost,
                     Statement, Create, Drop, CopyOut, CopyBack
    <2>1. CASE at = 1
      BY <2>1 DEF Possible
    <2>2. CASE at = 2
      BY <2>2 DEF Possible
    <2>3. CASE at = 3
      BY <2>3 DEF Possible
    <2> HIDE DEF V3Up
    <2> QED  BY <1>1, <1>2, <2>1, <2>2, <2>3
  <1>6. CASE ~Upwards /\ work.revision = 1 /\ Script = V1Down
    <2> USE <1>6 DEF V1Down, Then, Gained, Lost,
                     Statement, Create, Drop, CopyOut, CopyBack
    <2>1. CASE at = 1
      BY <2>1 DEF Possible
    <2>2. CASE at = 2
      BY <2>2 DEF Possible
    <2>3. CASE at = 3
      BY <2>3 DEF Possible
    <2> HIDE DEF V1Down
    <2> QED  BY <1>1, <1>2, <2>1, <2>2, <2>3
  <1>7. CASE ~Upwards /\ work.revision = 2 /\ Script = V2Down
    <2> USE <1>7 DEF V2Down, Then, Gained, Lost,
                     Statement, Create, Drop, CopyOut, CopyBack
    <2>1. CASE at = 1
      BY <2>1 DEF Possible
    <2>2. CASE at = 2
      BY <2>2 DEF Possible
    <2>3. CASE at = 3
      BY <2>3 DEF Possible
    <2> HIDE DEF V2Down
    <2> QED  BY <1>1, <1>2, <2>1, <2>2, <2>3
  <1>8. CASE ~Upwards /\ work.revision = 3 /\ Script = V3Down
    <2> USE <1>8 DEF V3Down, Then, Gained, Lost,
                     Statement, Create, Drop, CopyOut, CopyBack
    <2>1. CASE at = 1
      BY <2>1 DEF Possible
    <2>2. CASE at = 2
      BY <2>2 DEF Possible
    <2>3. CASE at = 3
      BY <2>3 DEF Possible
    <2> HIDE DEF V3Down
    <2> QED  BY <1>1, <1>2, <2>1, <2>2, <2>3
  <1> QED  BY <1>3, <1>4, <1>5, <1>6, <1>7, <1>8, ScriptCases

\* On PostgreSQL a migration command never gets stuck, whatever came before it:
\* only tables the CLI made, or duplicate names below revision 2, stop it.
THEOREM NothingSticks == Spec => []NeverStuck
  <1>1. Init => Named
    BY DEF Init, Named
  <1>2. ShapeInv /\ Named /\ [Next]_vars => Named'
    BY NamedNext DEF ShapeInv
  <1>3. ShapeInv /\ Named => NeverStuck
    <2> SUFFICES ASSUME ShapeInv, Named, dialect = "postgresql", ~Idle, ~early,
                        DistinctNames(db)
                 PROVE  Possible(Current, work)
      BY DEF NeverStuck
    <2>1. TypeOK /\ work.objects = Expected
      BY DEF ShapeInv, Shaped
    <2>2. DistinctNames(work)
      BY DEF Named, DistinctNames, NoNames
    <2> QED  BY <2>1, <2>2, ExpectedPossible
  <1> QED  BY <1>1, <1>2, <1>3, ShapeInvariant, PTL DEF Spec

--------------------------------------------------------------------------------
(* The data.                                                                *)

\* Where in the scripts tasks and results are touched.
LEMMA Touches ==
    ASSUME TypeOK, ~Idle
    PROVE  /\ "result_json" \in Lost(Current) =>
                  \/ "tasks" \in Lost(Current)
                  \/ work.revision = 2 /\ Upwards /\ at = 3
           /\ "task_results" \in Lost(Current) <=> work.revision = 3 /\ at = 3
           /\ "tasks" \in Lost(Current) => work.revision = 1 /\ ~Upwards
           /\ "tasks" \in Gained(Current) => work.revision = 0 /\ Upwards /\ at = 1
           /\ Current = CopyOut <=> work.revision = 2 /\ Upwards /\ at = 2
           /\ Current = CopyBack <=> work.revision = 3 /\ at = 2
  <1>1. at \in 1 .. 4
    BY DEF TypeOK
  <1>2. at = 4 => Current = Stamp
    BY CurrentForm
  <1> USE DEF Current, Gained, Lost,
              Statement, Create, Drop, CopyOut, CopyBack, Stamp
  <1>3. CASE Upwards /\ work.revision = 0 /\ Script = V1Up
    BY <1>1, <1>2, <1>3 DEF V1Up
  <1>4. CASE Upwards /\ work.revision = 1 /\ Script = V2Up
    BY <1>1, <1>2, <1>4 DEF V2Up
  <1>5. CASE Upwards /\ work.revision = 2 /\ Script = V3Up
    BY <1>1, <1>2, <1>5 DEF V3Up
  <1>6. CASE ~Upwards /\ work.revision = 1 /\ Script = V1Down
    BY <1>1, <1>2, <1>6 DEF V1Down
  <1>7. CASE ~Upwards /\ work.revision = 2 /\ Script = V2Down
    BY <1>1, <1>2, <1>7 DEF V2Down
  <1>8. CASE ~Upwards /\ work.revision = 3 /\ Script = V3Down
    BY <1>1, <1>2, <1>8 DEF V3Down
  <1> QED  BY <1>3, <1>4, <1>5, <1>6, <1>7, <1>8, ScriptCases

\* A statement leaves alone what it does not touch, and what is dropped is empty.
LEMMA AfterData ==
    ASSUME TypeOK, ~Idle
    PROVE  LET d == After(Current, work)
           IN  /\ "result_json" \notin Lost(Current) /\ Current # CopyBack =>
                      d.column = work.column
               /\ "task_results" \notin Lost(Current) /\ Current # CopyOut =>
                      d.results = work.results
               /\ "result_json" \in Lost(Current) => d.column = Nulls
               /\ "task_results" \in Lost(Current) => d.results = Nulls
               /\ Current = CopyOut => d.results = work.column
               /\ Current = CopyBack =>
                      d.column = [i \in Ids |-> IF work.name[i] = NoName
                                                THEN Null ELSE work.results[i]]
  <1> DEFINE d == After(Current, work)
  <1>1. /\ work \in Database
        /\ "result_json" \notin work.objects => work.column = Nulls
        /\ "task_results" \notin work.objects => work.results = Nulls
    BY NoStrayRows DEF TypeOK
  <1>2. CopyOut.kind = "copy_out" /\ CopyBack.kind = "copy_back"
    BY DEF CopyOut, CopyBack, Statement
  <1>3. CASE Current.kind \in Ddl
    <2>1. d = Having(work, Then(Current, work.objects))
      BY <1>3 DEF After, Then
    <2>2. /\ d.column = IF "result_json" \in Then(Current, work.objects)
                        THEN work.column ELSE Nulls
          /\ d.results = IF "task_results" \in Then(Current, work.objects)
                         THEN work.results ELSE Nulls
      BY <2>1 DEF Having
    <2>3. Current # CopyOut /\ Current # CopyBack
      BY <1>2, <1>3 DEF Ddl
    <2> QED  BY <1>1, <2>2, <2>3 DEF Then
  <1>4. CASE Current.kind \notin Ddl
    <2>1. Lost(Current) = {}
      BY <1>4 DEF Lost, Ddl
    <2>2. CASE Current = CopyOut
      BY <1>1, <1>2, <1>4, <2>1, <2>2 DEF After, Database
    <2>3. CASE Current = CopyBack
      <3> DEFINE c == [i \in Ids |-> IF work.name[i] = NoName
                                     THEN Null ELSE work.results[i]]
      <3>1. d = [work EXCEPT !.column = c]
        BY <1>2, <1>4, <2>3 DEF After
      <3> HIDE DEF c
      <3>2. d.column = c /\ d.results = work.results
        BY <1>1, <3>1 DEF Database
      <3> QED  BY <1>2, <2>1, <2>3, <3>2 DEF c
    <2>4. CASE Current # CopyOut /\ Current # CopyBack
      BY <1>1, <1>4, <2>1, <2>4 DEF After, Database
    <2> QED  BY <2>2, <2>3, <2>4
  <1> QED  BY <1>3, <1>4

\* How a statement moves the results from one place to the other.
LEMMA PlacesMove ==
    ASSUME TypeOK, Execute
    PROVE  /\ InColumn' => InColumn \/ (work.revision = 3 /\ at = 2)
           /\ InColumn' => ~(work.revision = 2 /\ Upwards /\ at = 3)
           /\ InResults' => InResults \/ (work.revision = 2 /\ Upwards /\ at = 2)
           /\ InResults' => ~(work.revision = 3 /\ at = 3)
           /\ ~InResults' => ~InResults \/ (work.revision = 3 /\ at = 3)
           /\ ~InResults' => ~(work.revision = 2 /\ Upwards /\ at = 2)
           /\ work.revision < 2 => ~InResults /\ ~InResults'
           /\ work.revision = 0 => InColumn'
  <1>1. at \in 1 .. 4 /\ work.revision \in 0 .. 3 /\ ~Idle
    BY DEF TypeOK, Database, Revisions, HeadRevision, Execute
  <1>2. CASE at # 4
    BY <1>1, <1>2, ExecuteMoves DEF InColumn, InResults
  <1>3. CASE at = 4
    <2>1. at' = 1 /\ work'.revision = Reached
      BY <1>3, ExecuteMoves
    <2> QED  BY <1>1, <1>3, <2>1, ScriptCases DEF InColumn, InResults
  <1> QED  BY <1>2, <1>3

\* Nothing is committed while the results are on their way.
LEMMA CommitsInPlace ==
    ASSUME TypeOK, Execute, Commits
    PROVE  /\ work'.revision < 3 => InColumn' /\ ~InResults'
           /\ work'.revision = 3 => InResults'
  <1>1. at \in 1 .. 4 /\ work.revision \in 0 .. 3 /\ ~Idle
    BY DEF TypeOK, Database, Revisions, HeadRevision, Execute
  <1>2. CASE at # 4
    <2>1. Current.kind \in Ddl /\ ~Open
      BY <1>1, <1>2, CurrentForm DEF Commits
    <2>2. CopyOut.kind \notin Ddl /\ CopyBack.kind \notin Ddl
      BY DEF CopyOut, CopyBack, Statement, Ddl
    <2>3. Script[2] \in {CopyOut, CopyBack} => at = 1
      BY <1>1, <1>2, <2>1, <2>2, CurrentForm DEF Current
    <2>4. work.revision = 3 \/ (work.revision = 2 /\ Upwards)
              => Script[2] \in {CopyOut, CopyBack}
      BY <1>1, ScriptCases DEF V3Up, V3Down
    <2> QED  BY <1>1, <1>2, <2>3, <2>4, ExecuteMoves DEF InColumn, InResults
  <1>3. CASE at = 4
    BY <1>1, <1>3, ExecuteMoves, ScriptCases DEF InColumn, InResults
  <1> QED  BY <1>2, <1>3

\* A statement that leaves no tasks leaves nothing of them.
LEMMA NoTasksNext ==
    ASSUME TypeOK, Elsewhere, Execute, "tasks" \notin work'.objects
    PROVE  work'.column = Nulls /\ work'.results = Nulls
  <1>1. ~Idle /\ work' = After(Current, work) /\ work \in Database
    BY DEF Execute, TypeOK
  <1>2. work'.objects = Then(Current, work.objects)
    BY ExecuteMoves
  <1>3. CASE "tasks" \notin work.objects
    <2>1. work.column = Nulls /\ work.results = Nulls /\ work.name = NoNames
      BY <1>1, <1>3, NoStrayRows DEF Elsewhere, TypeOK
    <2>2. Current = CopyBack => work'.column = Nulls
      <3>1. \A i \in Ids : work.name[i] = NoName
        BY <2>1 DEF NoNames
      <3> QED  BY <1>1, <3>1, AfterData DEF Nulls
    <2> QED  BY <1>1, <2>1, <2>2, AfterData
  <1>4. CASE "tasks" \in work.objects
    <2>1. "tasks" \in Lost(Current)
      BY <1>2, <1>4 DEF Then
    <2>2. "result_json" \in Lost(Current)
      BY <2>1 DEF Lost
    <2>3. work.revision = 1 /\ Current # CopyOut /\ "task_results" \notin Lost(Current)
      BY <1>1, <2>1, Touches
    <2>4. work.results = Nulls
      BY <2>3, PlacesMove DEF Elsewhere
    <2> QED  BY <1>1, <2>2, <2>3, <2>4, AfterData
  <1> QED  BY <1>3, <1>4

\* A statement that leaves the tasks leaves them as they are told, and their
\* results in the place the script has come to.
LEMMA LocatedExecute ==
    ASSUME TypeOK, Located, Forgotten, Elsewhere, Execute, "tasks" \in work'.objects
    PROVE  /\ work'.name = told.name
           /\ InColumn' => work'.column = told.value
           /\ InResults' => work'.results = told.value
           /\ ~InResults' => work'.results = Nulls
  <1>1. ~Idle /\ work' = After(Current, work) /\ work \in Database
    BY DEF Execute, TypeOK
  <1>2. work'.objects = Then(Current, work.objects)
    BY ExecuteMoves
  <1>3. work'.name = work.name
    BY <1>1, AfterNames
  <1>4. CASE "tasks" \notin work.objects
    <2>1. work.column = Nulls /\ work.results = Nulls /\ work.name = NoNames
      BY <1>1, <1>4, NoStrayRows DEF Elsewhere, TypeOK
    <2>2. "tasks" \in Gained(Current)
      BY <1>2, <1>4 DEF Then
    <2>3. work.revision = 0 /\ Upwards /\ at = 1
      BY <1>1, <2>2, Touches
    <2>4. told.name = NoNames /\ told.value = Nulls
      BY <1>4, <2>3 DEF Forgotten, Nothing
    <2>5. work'.column = Nulls /\ work'.results = Nulls
      BY <1>1, <2>1, <2>3, Touches, AfterData
    <2> QED  BY <1>3, <2>1, <2>3, <2>4, <2>5, PlacesMove
  <1>5. CASE "tasks" \in work.objects
    <2>1. /\ work.name = told.name
          /\ InColumn => work.column = told.value
          /\ InResults => work.results = told.value
          /\ ~InResults => work.results = Nulls
      BY <1>5 DEF Located, Elsewhere
    <2>2. "tasks" \notin Lost(Current)
      BY <1>2 DEF Then
    <2>3. ASSUME InColumn'
          PROVE  work'.column = told.value
      <3>1. "result_json" \notin Lost(Current)
        BY <1>1, <2>2, <2>3, Touches, PlacesMove
      <3>2. CASE Current # CopyBack
        <4>1. InColumn
          BY <1>1, <2>3, <3>2, Touches, PlacesMove
        <4> QED  BY <1>1, <2>1, <3>1, <3>2, <4>1, AfterData
      <3>3. CASE Current = CopyBack
        <4>1. work.revision = 3 /\ at = 2
          BY <1>1, <3>3, Touches
        <4>2. InResults
          BY <4>1 DEF InResults
        <4>3. work'.column = [i \in Ids |-> IF told.name[i] = NoName
                                            THEN Null ELSE told.value[i]]
          BY <1>1, <2>1, <3>3, <4>2, AfterData
        <4>4. told.value \in [Ids -> Values \cup {Null}]
          BY DEF TypeOK
        <4> QED  BY <4>3, <4>4 DEF Forgotten
      <3> QED  BY <3>2, <3>3
    <2>4. ASSUME InResults'
          PROVE  work'.results = told.value
      <3>1. "task_results" \notin Lost(Current)
        BY <1>1, <2>4, Touches, PlacesMove
      <3>2. CASE Current # CopyOut
        <4>1. InResults
          BY <1>1, <2>4, <3>2, Touches, PlacesMove
        <4> QED  BY <1>1, <2>1, <3>1, <3>2, <4>1, AfterData
      <3>3. CASE Current = CopyOut
        <4>1. InColumn
          BY <1>1, <3>3, Touches DEF InColumn
        <4> QED  BY <1>1, <2>1, <3>3, <4>1, AfterData
      <3> QED  BY <3>2, <3>3
    <2>5. ASSUME ~InResults'
          PROVE  work'.results = Nulls
      <3>1. CASE "task_results" \in Lost(Current)
        BY <1>1, <3>1, AfterData
      <3>2. CASE "task_results" \notin Lost(Current)
        <4>1. ~InResults /\ Current # CopyOut
          BY <1>1, <2>5, <3>2, Touches, PlacesMove
        <4> QED  BY <1>1, <2>1, <3>2, <4>1, AfterData
      <3> QED  BY <3>1, <3>2
    <2> QED  BY <1>3, <2>1, <2>3, <2>4, <2>5
  <1> QED  BY <1>4, <1>5

\* Between commands, what is said of the committed contents is all there is to
\* say.
LEMMA DataAtRest ==
    ASSUME TypeOK', work' = db', at' = 1, DataKept',
           "tasks" \notin db'.objects =>
               told' = Nothing /\ db'.column = Nulls /\ db'.results = Nulls,
           db'.revision < 3 => db'.results = Nulls,
           \A i \in Ids : told'.name[i] = NoName => told'.value[i] = Null
    PROVE  DataInv'
  <1>1. /\ work'.revision \in 0 .. 3
        /\ db'.column \in [Ids -> Values \cup {Null}]
        /\ db'.results \in [Ids -> Values \cup {Null}]
        /\ told'.value \in [Ids -> Values \cup {Null}]
    BY DEF TypeOK, Database, Revisions, HeadRevision
  <1>2. (InColumn' <=> db'.revision < 3) /\ (InResults' <=> db'.revision = 3)
    BY <1>1 DEF InColumn, InResults
  <1>3. Located'
    <2>1. ASSUME "tasks" \in db'.objects, db'.revision < 3
          PROVE  db'.column = told'.value
      BY <1>1, <2>1 DEF DataKept, ResultOf
    <2>2. ASSUME "tasks" \in db'.objects, db'.revision = 3
          PROVE  db'.results = told'.value
      BY <1>1, <2>2 DEF DataKept, ResultOf
    <2> QED  BY <1>2, <2>1, <2>2 DEF Located, DataKept
  <1>4. Forgotten' /\ Elsewhere'
    BY <1>1, <1>2 DEF Forgotten, Elsewhere
  <1> QED  BY <1>3, <1>4 DEF DataInv

LEMMA DataExecute ==
    ASSUME TypeOK, DataInv, Execute
    PROVE  DataInv'
  <1> USE DEF DataInv
  <1>0. /\ at \in 1 .. 4 /\ work.revision \in 0 .. 3 /\ target \in 0 .. 3
        /\ target # work.revision /\ ~Idle
        /\ work'.revision \in 0 .. 3 /\ target' = target
    <2>1. TypeOK'
      BY TypeNext DEF Next
    <2> QED  BY <2>1 DEF TypeOK, Database, Revisions, HeadRevision, Execute, Idle
  <1>1. "tasks" \in work'.objects =>
            /\ work'.name = told.name
            /\ InColumn' => work'.column = told.value
            /\ InResults' => work'.results = told.value
    BY LocatedExecute
  <1>2. "tasks" \notin work'.objects => work'.column = Nulls /\ work'.results = Nulls
    BY NoTasksNext
  <1>3. ~InResults' => work'.results = Nulls
    BY <1>2, LocatedExecute
  <1>4. CASE Commits
    <2>1. db' = work' /\ told' = IF "tasks" \in work'.objects THEN told ELSE Nothing
      BY <1>4 DEF Execute
    <2>2. DataKept'
      BY <1>0, <1>1, <1>4, <2>1, CommitsInPlace DEF DataKept, ResultOf
    <2>3. Located'
      BY <1>1, <2>1 DEF Located
    <2>4. Forgotten'
      BY <2>1 DEF Forgotten, Nothing, NoNames, Nulls
    <2>5. Elsewhere'
      BY <1>2, <1>3, <1>4, <2>1, CommitsInPlace DEF Elsewhere
    <2> QED  BY <2>2, <2>3, <2>4, <2>5
  <1>5. CASE ~Commits
    <2>1. db' = db /\ told' = told
      BY <1>5 DEF Execute
    <2>2. DataKept'
      BY <2>1 DEF DataKept, ResultOf
    <2>3. Located'
      BY <1>1, <2>1 DEF Located
    <2>4. ASSUME Upwards', "tasks" \notin work'.objects
          PROVE  told = Nothing
      <3>1. Upwards
        <4>1. CASE at # 4
          BY <2>4, <4>1, ExecuteMoves
        <4>2. CASE at = 4
          BY <1>0, <2>4, <4>2, ExecuteMoves DEF Upwards, Reached
        <4> QED  BY <4>1, <4>2
      <3>2. "tasks" \notin work.objects
        BY <1>0, <2>4, <3>1, Touches, ExecuteMoves DEF Then
      <3> QED  BY <3>1, <3>2 DEF Forgotten
    <2>5. Forgotten'
      BY <2>1, <2>4 DEF Forgotten
    <2>6. Elsewhere'
      BY <1>2, <1>3, <2>1 DEF Elsewhere
    <2> QED  BY <2>2, <2>3, <2>5, <2>6
  <1> QED  BY <1>4, <1>5

LEMMA DataNext == TypeOK /\ Settled /\ DataInv /\ [Next]_vars => DataInv'
  <1> SUFFICES ASSUME TypeOK, Settled, DataInv, [Next]_vars PROVE DataInv'
    OBVIOUS
  <1>0. /\ TypeOK' /\ db \in Database
        /\ DataKept
        /\ "tasks" \notin db.objects => /\ told = Nothing /\ db.column = Nulls
                                        /\ db.results = Nulls /\ db.name = NoNames
        /\ db.revision < 3 => db.results = Nulls
        /\ \A i \in Ids : told.name[i] = NoName => told.value[i] = Null
    BY TypeNext, NoStrayRows DEF TypeOK, DataInv, Forgotten, Elsewhere
  <1>1. ASSUME NEW revision \in Revisions, Begin(revision)
        PROVE  DataInv'
    <2>1. /\ db' = db /\ work' = db' /\ at' = 1 /\ told' = told
      BY <1>1 DEF Begin, Settled
    <2>2. DataKept'
      BY <1>0, <2>1 DEF DataKept, ResultOf
    <2> QED  BY <1>0, <2>1, <2>2, DataAtRest
  <1>2. CASE Execute
    BY <1>2, DataExecute
  <1>3. CASE Fail
    <2>1. /\ db' = db /\ work' = db' /\ at' = 1 /\ told' = told
      BY <1>3 DEF Fail
    <2>2. DataKept'
      BY <1>0, <2>1 DEF DataKept, ResultOf
    <2> QED  BY <1>0, <2>1, <2>2, DataAtRest
  <1>4. CASE EnsureSchema
    <2>1. PICK made \in SUBSET Objects :
              db' = [db EXCEPT !.objects = @ \cup made] /\ work' = db'
      BY <1>4, CliAdds
    <2>2. /\ at' = 1 /\ told' = told /\ db.objects \subseteq db'.objects
          /\ db'.revision = db.revision /\ db'.name = db.name
          /\ db'.column = db.column /\ db'.results = db.results
      BY <1>0, <1>4, <2>1 DEF EnsureSchema, Settled, Database
    <2>3. DataKept'
      BY <1>0, <2>2 DEF DataKept, ResultOf, Nothing, Nulls
    <2> QED  BY <1>0, <2>1, <2>2, <2>3, DataAtRest
  <1>5. ASSUME NEW i \in Ids, NEW n \in Names, NEW v \in Values \cup {Null},
               Write(i, n, v)
        PROVE  DataInv'
    <2>1. /\ db'.objects = db.objects /\ db'.revision = db.revision
          /\ work' = db' /\ db'.name = [db.name EXCEPT ![i] = n]
          /\ db.revision < 3 => /\ db'.column = [db.column EXCEPT ![i] = v]
                                /\ db'.results = db.results
          /\ ~(db.revision < 3) => db'.results = [db.results EXCEPT ![i] = v]
      BY <1>0, <1>5, WriteKeeps
    <2>2. /\ "tasks" \in db.objects /\ at' = 1
          /\ told'.name = [told.name EXCEPT ![i] = n]
          /\ told'.value = [told.value EXCEPT ![i] = v]
      BY <1>5 DEF Write, Settled
    <2>3. /\ db.column \in [Ids -> Values \cup {Null}]
          /\ db.results \in [Ids -> Values \cup {Null}]
          /\ told.value \in [Ids -> Values \cup {Null}]
          /\ told.name \in [Ids -> Names \cup {NoName}]
      BY <1>0 DEF TypeOK, Database
    <2>4. DataKept'
      BY <1>0, <2>1, <2>2, <2>3 DEF DataKept, ResultOf
    <2>5. \A j \in Ids : told'.name[j] = NoName => told'.value[j] = Null
      BY <1>0, <2>2, <2>3, SchemaAssumption
    <2> QED  BY <1>0, <2>1, <2>2, <2>4, <2>5, DataAtRest
  <1>6. CASE UNCHANGED vars
    BY <1>6 DEF vars, DataInv, DataKept, ResultOf, Located, Forgotten, Elsewhere,
                InColumn, InResults, Upwards
  <1> QED  BY <1>1, <1>2, <1>3, <1>4, <1>5, <1>6 DEF Next

\* No migration, failed or not, up or down any number of times, loses or changes
\* a task or its result as long as there is a tasks table (v3_split_results).
THEOREM DataSurvives == Spec => []DataKept
  <1>1. Init => DataInv
    BY DEF Init, DataInv, DataKept, Located, Forgotten, Elsewhere, Nothing,
           NoNames, Nulls
  <1>2. ShapeInv /\ DataInv /\ [Next]_vars => DataInv'
    BY DataNext DEF ShapeInv
  <1>3. DataInv => DataKept
    BY DEF DataInv
  <1> QED  BY <1>1, <1>2, <1>3, ShapeInvariant, PTL DEF Spec
================================================================================
