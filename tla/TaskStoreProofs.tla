--------------------------- MODULE TaskStoreProofs ---------------------------
(***************************************************************************)
(* The safety of TaskStore for any sets of ids, names, runs, admins and    *)
(* readers and any page size.  The invariant adds to the properties where  *)
(* the minted ids are (live, in an open POST, or gone with a 204), that no *)
(* name is in use twice by rows committed or not, that a recorded result   *)
(* keeps its task live, and what a listing has covered up to its cursor.   *)
(***************************************************************************)
EXTENDS TaskStore, FiniteSetTheorems, TLAPS

USE StoreAssumption DEF NoId

\* A minted id is live, in an open POST, or gone with a 204, one at most; runs and
\* DELETEs use ids that were live.
Minting ==
    /\ Live \cap Pending = {}
    /\ gone \subseteq minted \ (Live \cup Pending)
    /\ \A r \in Runs : phase[r] # "new" => of[r] \in Live \cup gone
    /\ \A a \in Admins : request[a].id # NoId => request[a].id \in Live \cup gone

\* No name is in use twice, by rows committed or not.
NamesApart ==
    /\ UniqueNames
    /\ \A i \in Live, j \in Pending : tasks[i].name # inserted[j]
    /\ \A i, j \in Pending : inserted[i] = inserted[j] => i = j

\* A recorded result keeps its task live.
HistoryHolds == \A r \in Runs : phase[r] = "recorded" => of[r] \in Live

\* What listing q has covered: all of `start` that is still live, up to its
\* cursor or altogether; and it returned nothing beyond its cursor.
Covered(q) ==
    /\ q.start \subseteq minted \ Pending
    /\ \A i \in q.start \cap Live :
         q.cursor = NoId \/ i <= q.cursor => i \in q.got
    /\ q.cursor # NoId => \A i \in q.got : i <= q.cursor
    /\ IsFiniteSet(q.got)
    /\ q.count = Cardinality(q.got)

Scans == \A s \in Readers : Covered(scan[s])

IInv ==
    /\ TypeOK
    /\ IsFiniteSet(Live)
    /\ Minting
    /\ HistoryHolds
    /\ LostOnlyByDelete
    /\ NamesApart
    /\ Scans

-----------------------------------------------------------------------------
(* Pages.                                                                  *)

\* A page lies beyond its cursor; one followed by a cursor reaches exactly up
\* to it, and one without has everything beyond (list_tasks).
LEMMA PageReach ==
    ASSUME NEW P, NEW k \in Nat, NEW c \in Nat, Live \subseteq Nat \ {0},
           IsPage(P, k), IsNextCursor(c, P)
    PROVE  /\ \A i \in P : i > k /\ i \in Live
           /\ c # NoId => c > k /\ \A i \in P : i <= c
           /\ \A i \in Live : i > k /\ (c = NoId \/ i <= c) => i \in P
<1>1. P \subseteq Beyond(k)
  BY DEF IsPage
<1>2. \A i \in P : i > k /\ i \in Live
  BY <1>1 DEF Beyond
<1>3. CASE Cardinality(P) = Limit
  <2>1. c \in P /\ \A i \in P : i <= c
    BY <1>3 DEF IsNextCursor
  <2>2. c # NoId /\ c > k
    BY <1>2, <2>1
  <2>3. ASSUME NEW i \in Live, i > k, i <= c
        PROVE  i \in P
    <3>1. i \in Beyond(k)
      BY <2>3 DEF Beyond
    <3>2. CASE i \notin P
      <4>1. c < i
        BY <2>1, <3>1, <3>2 DEF IsPage
      <4>2. i \in Nat /\ c \in Nat
        OBVIOUS
      <4> QED
        BY <2>3, <4>1, <4>2
    <3> QED
      BY <3>2
  <2> QED
    BY <1>2, <2>1, <2>2, <2>3
<1>4. CASE Cardinality(P) # Limit
  <2>1. c = NoId
    BY <1>4 DEF IsNextCursor
  <2>2. P = Beyond(k)
    BY <1>4 DEF IsPage
  <2> QED
    BY <1>2, <2>1, <2>2 DEF Beyond
<1> QED
  BY <1>3, <1>4

\* The first page of a listing covers what it must.
LEMMA FirstPageCovers ==
    ASSUME IInv, NEW P \in SUBSET Live, NEW c \in Live \cup {NoId},
           IsPage(P, NoId), IsNextCursor(c, P)
    PROVE  Covered([start |-> Live, got |-> P, count |-> Cardinality(P),
                    cursor |-> c])
<1>1. Live \subseteq minted \ Pending /\ Live \subseteq Nat \ {0}
  BY DEF IInv, TypeOK, Minting
<1>2. IsFiniteSet(P)
  BY FS_Subset DEF IInv
<1>3. /\ c # NoId => \A i \in P : i <= c
      /\ \A i \in Live : i > 0 /\ (c = NoId \/ i <= c) => i \in P
  BY <1>1, PageReach
<1> QED
  BY <1>1, <1>2, <1>3 DEF Covered

\* So does every further page: it is disjoint from the pages before it, which
\* end at its cursor.
LEMMA NextPageCovers ==
    ASSUME IInv, NEW s \in Readers, scan[s].cursor # NoId,
           NEW P \in SUBSET Live, NEW c \in Live \cup {NoId},
           IsPage(P, scan[s].cursor), IsNextCursor(c, P)
    PROVE  Covered([start |-> scan[s].start, got |-> scan[s].got \cup P,
                    count |-> scan[s].count + Cardinality(P), cursor |-> c])
<1> DEFINE q == scan[s]
<1>1. /\ Live \subseteq Nat \ {0}
      /\ q.got \subseteq Nat
      /\ q.start \subseteq Nat
      /\ q.cursor \in Nat
  BY DEF IInv, TypeOK
<1>2. Covered(q)
  BY DEF IInv, Scans
<1>3. /\ \A i \in P : i > q.cursor /\ i \in Live
      /\ c # NoId => c > q.cursor /\ \A i \in P : i <= c
      /\ \A i \in Live : i > q.cursor /\ (c = NoId \/ i <= c) => i \in P
  BY <1>1, PageReach
<1>4. q.got \cap P = {}
  <2>1. \A i \in q.got : i <= q.cursor
    BY <1>2 DEF Covered
  <2> QED
    BY <1>1, <1>3, <2>1
<1>5. /\ IsFiniteSet(q.got \cup P)
      /\ q.count + Cardinality(P) = Cardinality(q.got \cup P)
  <2>1. IsFiniteSet(P) /\ IsFiniteSet(q.got)
    BY <1>2, FS_Subset DEF IInv, Covered
  <2>2. Cardinality(P) \in Nat /\ Cardinality(q.got) \in Nat
    BY <2>1, FS_CardinalityType
  <2>3. Cardinality(q.got \cap P) = 0
    BY <1>4, FS_EmptySet
  <2>4. /\ IsFiniteSet(q.got \cup P)
        /\ Cardinality(q.got \cup P) =
             Cardinality(q.got) + Cardinality(P) - Cardinality(q.got \cap P)
    BY <2>1, FS_Union
  <2>5. q.count = Cardinality(q.got)
    BY <1>2 DEF Covered
  <2> QED
    BY <2>2, <2>3, <2>4, <2>5
<1>6. \A i \in q.start \cap Live :
        c = NoId \/ i <= c => i \in q.got \cup P
  <2> SUFFICES ASSUME NEW i \in q.start \cap Live, c = NoId \/ i <= c
               PROVE  i \in q.got \cup P
    OBVIOUS
  <2>1. CASE i <= q.cursor
    BY <1>2, <2>1 DEF Covered
  <2>2. CASE ~(i <= q.cursor)
    <3>1. i > q.cursor
      BY <1>1, <2>2
    <3> QED
      BY <1>3, <3>1
  <2> QED
    BY <2>1, <2>2
<1>7. c # NoId => \A i \in q.got \cup P : i <= c
  <2> SUFFICES ASSUME c # NoId, NEW i \in q.got
               PROVE  i <= c
    BY <1>3
  <2>1. i <= q.cursor /\ q.cursor < c
    BY <1>2, <1>3 DEF Covered
  <2>2. c \in Nat
    BY <1>1
  <2> QED
    BY <1>1, <2>1, <2>2
<1>8. q.start \subseteq minted \ Pending
  BY <1>2 DEF Covered
<1> QED
  BY <1>5, <1>6, <1>7, <1>8 DEF Covered

\* A listing still covers what it must when tasks come and go between its pages:
\* no id that was live comes back.
LEMMA ScansStable ==
    ASSUME IInv, minted \ Pending \subseteq minted' \ Pending',
           (minted \ Pending) \cap Live' \subseteq Live, scan' = scan
    PROVE  Scans'
<1> SUFFICES ASSUME NEW s \in Readers
             PROVE  Covered(scan[s])'
  BY DEF Scans
<1>1. Covered(scan[s])
  BY DEF IInv, Scans
<1>2. scan[s].start \cap Live' \subseteq Live
  BY <1>1 DEF Covered
<1> QED
  BY <1>1, <1>2 DEF Covered

-----------------------------------------------------------------------------
(* The invariant.                                                          *)

LEMMA InitInvariant == Init => IInv
<1> SUFFICES ASSUME Init
             PROVE  IInv
  OBVIOUS
<1>1. Live = {} /\ Pending = {}
  BY DEF Init, Live, Pending
<1>2. TypeOK
  BY <1>1 DEF Init, TypeOK, Phases, Live, Pending
<1>3. IsFiniteSet(Live)
  BY <1>1, FS_EmptySet
<1>4. Minting /\ HistoryHolds /\ LostOnlyByDelete /\ NamesApart
  BY <1>1 DEF Init, Minting, HistoryHolds, LostOnlyByDelete, NamesApart, UniqueNames
<1>5. Scans
  BY <1>1, FS_EmptySet DEF Init, Scans, Covered
<1> QED
  BY <1>2, <1>3, <1>4, <1>5 DEF IInv

\* An INSERT: its id is fresh and its name is in nobody's hands.
LEMMA InsertTaskInvariant ==
    ASSUME IInv, NEW id \in Ids, NEW n \in Names, InsertTask(id, n)
    PROVE  IInv'
<1>1. /\ UNCHANGED <<tasks, phase, of, finished, request, scan, gone, refused>>
      /\ Live' = Live /\ Pending' = Pending \cup {id}
      /\ minted' = minted \cup {id} /\ id \notin minted
      /\ Live \cup Pending \subseteq minted /\ minted \subseteq Ids
      /\ inserted \in [Pending -> Names]
  BY DEF IInv, TypeOK, InsertTask, Live, Pending
<1>2. /\ \A i \in Pending : inserted'[i] = inserted[i]
      /\ inserted'[id] = n
  BY <1>1 DEF InsertTask
<1>3. TypeOK'
  <2>1. inserted' \in [Pending' -> Names]
    BY <1>1 DEF InsertTask
  <2> QED
    BY <1>1, <2>1 DEF IInv, TypeOK
<1>4. Minting'
  BY <1>1 DEF IInv, Minting
<1>5. HistoryHolds' /\ LostOnlyByDelete' /\ IsFiniteSet(Live')
  BY <1>1 DEF IInv, HistoryHolds, LostOnlyByDelete
<1>6. NamesApart'
  <2>1. /\ \A i \in Live : tasks[i].name # n
        /\ \A i \in Pending : inserted[i] # n
    BY DEF InsertTask, NameFree
  <2>2. UniqueNames'
    BY <1>1 DEF IInv, NamesApart, UniqueNames
  <2> QED
    BY <1>1, <1>2, <2>1, <2>2 DEF IInv, NamesApart
<1>7. Scans'
  BY <1>1, ScansStable
<1> QED
  BY <1>3, <1>4, <1>5, <1>6, <1>7 DEF IInv

\* The end of a POST: its row becomes a task, or nothing.
LEMMA EndInsertInvariant ==
    ASSUME IInv, NEW id \in Ids, CommitTask(id) \/ InsertFails(id)
    PROVE  IInv'
<1>1. /\ id \in Pending /\ Pending' = Pending \ {id}
      /\ UNCHANGED <<minted, phase, of, finished, request, scan, gone, refused>>
      /\ Live' = Live \/ Live' = Live \cup {id}
  BY DEF CommitTask, InsertFails, EndInsert, Live, Pending
<1>2. /\ \A i \in Pending' : inserted'[i] = inserted[i]
      /\ inserted' \in [Pending' -> Names]
  BY <1>1 DEF IInv, TypeOK, CommitTask, InsertFails, EndInsert
<1>3. NewRow(inserted[id]) \in Row /\ NewRow(inserted[id]).name = inserted[id]
  BY <1>1 DEF IInv, TypeOK, NewRow, Row, Statuses
<1>4. /\ Live \cap Pending = {} /\ Live \cup Pending \subseteq minted
      /\ tasks \in [Live -> Row]
  BY DEF IInv, TypeOK, Minting
<1>5. /\ \A i \in Live : tasks'[i] = tasks[i]
      /\ \A i \in Live' \ Live : i = id /\ tasks'[i] = NewRow(inserted[id])
      /\ tasks' \in [Live' -> Row]
  <2>1. CASE CommitTask(id)
    BY <1>1, <1>3, <1>4, <2>1 DEF CommitTask, Live
  <2>2. CASE InsertFails(id)
    BY <1>4, <2>2 DEF InsertFails, Live
  <2> QED
    BY <2>1, <2>2
<1>6. TypeOK'
  BY <1>1, <1>2, <1>4, <1>5 DEF IInv, TypeOK
<1>7. IsFiniteSet(Live')
  BY <1>1, FS_AddElement DEF IInv
<1>8. Minting'
  BY <1>1, <1>4 DEF IInv, Minting
<1>9. HistoryHolds' /\ LostOnlyByDelete'
  BY <1>1 DEF IInv, HistoryHolds, LostOnlyByDelete
<1>10. NamesApart'
  <2>1. NamesApart /\ UniqueNames
    BY DEF IInv, NamesApart
  <2>2. \A i \in Live : tasks[i].name # inserted[id]
    BY <1>1, <2>1 DEF NamesApart
  <2>3. UniqueNames'
    BY <1>1, <1>3, <1>5, <2>1, <2>2 DEF UniqueNames
  <2>4. \A i \in Live', j \in Pending' : tasks'[i].name # inserted'[j]
    BY <1>1, <1>2, <1>3, <1>5, <2>1 DEF NamesApart
  <2> QED
    BY <1>1, <1>2, <2>1, <2>3, <2>4 DEF NamesApart
<1>11. Scans'
  BY <1>1, <1>4, ScansStable
<1> QED
  BY <1>6, <1>7, <1>8, <1>9, <1>10, <1>11 DEF IInv

\* What a run does leaves the table of tasks alone.
LEMMA RunInvariant ==
    ASSUME IInv, NEW r \in Runs, Run(r)
    PROVE  IInv'
<1>1. UNCHANGED <<tasks, inserted, minted, request, scan, gone, refused>>
  BY DEF Run, RunTask, SaveResult, LoseResult, SaveFails
<1>2. Live' = Live /\ Pending' = Pending
  BY <1>1 DEF Live, Pending
<1>3. NamesApart' /\ IsFiniteSet(Live')
  BY <1>1, <1>2 DEF IInv, NamesApart, UniqueNames
<1>4. Scans'
  BY <1>1, <1>2, ScansStable
<1>5. /\ phase \in [Runs -> Phases]
      /\ of \in [Runs -> Ids \cup {NoId}]
      /\ finished \in [Runs -> Stamps \cup {NoStamp}]
      /\ Live \subseteq minted
      /\ Minting /\ HistoryHolds /\ LostOnlyByDelete
  BY DEF IInv, TypeOK
<1>6. /\ phase' \in [Runs -> Phases]
      /\ of' \in [Runs -> Ids \cup {NoId}]
      /\ finished' \in [Runs -> Stamps \cup {NoStamp}]
      /\ Minting' /\ HistoryHolds' /\ LostOnlyByDelete'
  <2>1. CASE \E id \in Ids : RunTask(r, id)
    BY <1>2, <1>5, <2>1
    DEF RunTask, Known, Phases, Minting, HistoryHolds, LostOnlyByDelete
  <2>2. CASE SaveResult(r)
    BY <1>2, <1>5, <2>2
    DEF SaveResult, ParentExists, Phases, Minting, HistoryHolds,
        LostOnlyByDelete
  <2>3. CASE LoseResult(r)
    BY <1>2, <1>5, <2>3
    DEF LoseResult, ParentExists, Phases, Minting, HistoryHolds,
        LostOnlyByDelete
  <2>4. CASE SaveFails(r)
    BY <1>2, <1>5, <2>4
    DEF SaveFails, Phases, Minting, HistoryHolds, LostOnlyByDelete
  <2> QED
    BY <2>1, <2>2, <2>3, <2>4 DEF Run
<1>7. TypeOK'
  BY <1>1, <1>2, <1>6 DEF IInv, TypeOK
<1> QED
  BY <1>3, <1>4, <1>6, <1>7 DEF IInv

\* A DELETE that commits removes one task without results.
LEMMA DeleteCommitInvariant ==
    ASSUME IInv, NEW a \in Admins, DeleteCommit(a)
    PROVE  IInv'
<1> DEFINE id == request[a].id
<1>1. /\ Live' = Live \ {id}
      /\ \A i \in Live' : tasks'[i] = tasks[i]
      /\ gone' = gone \cup {id}
      /\ UNCHANGED <<inserted, minted, phase, of, finished, scan, refused>>
      /\ Pending' = Pending
  BY DEF DeleteCommit, Live, Pending
<1>2. /\ id \in Live \cup gone
      /\ id \in minted \ Pending
      /\ id \in Ids
      /\ minted \subseteq Ids
      /\ Live \subseteq minted
  BY DEF IInv, TypeOK, Minting, DeleteCommit
<1>3. request' = [request EXCEPT ![a] = [id |-> NoId, seen |-> {}]]
  BY DEF DeleteCommit, EndRequest
<1>4. TypeOK'
  <2>1. tasks' \in [Live' -> Row]
    BY <1>1 DEF IInv, TypeOK, DeleteCommit, Live
  <2>2. request' \in [Admins -> [id : Ids \cup {NoId}, seen : SUBSET Runs]]
    BY <1>3 DEF IInv, TypeOK
  <2> QED
    BY <1>1, <1>2, <2>1, <2>2 DEF IInv, TypeOK
<1>5. IsFiniteSet(Live')
  BY <1>1, FS_Subset DEF IInv
<1>6. Minting'
  <2>1. gone' \subseteq minted' \ (Live' \cup Pending')
    BY <1>1, <1>2 DEF IInv, Minting
  <2>2. \A b \in Admins : request'[b].id # NoId => request'[b].id \in Live' \cup gone'
    BY <1>1, <1>3 DEF IInv, TypeOK, Minting
  <2> QED
    BY <1>1, <2>1, <2>2 DEF IInv, Minting
<1>7. HistoryHolds'
  <2>1. Results(id) = {}
    BY DEF DeleteCommit, Deletable
  <2> QED
    BY <1>1, <2>1 DEF IInv, HistoryHolds, Results
<1>8. LostOnlyByDelete' /\ NamesApart'
  BY <1>1 DEF IInv, LostOnlyByDelete, NamesApart, UniqueNames
<1>9. Scans'
  BY <1>1, ScansStable
<1> QED
  BY <1>4, <1>5, <1>6, <1>7, <1>8, <1>9 DEF IInv

\* Every other step of a DELETE touches no table.
LEMMA DeleteInvariant ==
    ASSUME IInv, NEW a \in Admins, Delete(a)
    PROVE  IInv'
<1>1. CASE DeleteCommit(a)
  BY <1>1, DeleteCommitInvariant
<1>2. CASE ~DeleteCommit(a)
  <2>1. /\ UNCHANGED <<tasks, inserted, minted, phase, of, finished, scan, gone>>
        /\ Live' = Live /\ Pending' = Pending
    BY <1>2
    DEF Delete, DeleteSelect, DeleteRefused, DeleteFails, Live, Pending
  <2>2. /\ request' \in [Admins -> [id : Ids \cup {NoId}, seen : SUBSET Runs]]
        /\ \A b \in Admins : request'[b].id # NoId => request'[b].id \in Live \cup gone
        /\ refused' \subseteq Ids
    <3>1. CASE \E id \in Ids : DeleteSelect(a, id)
      BY <3>1 DEF IInv, TypeOK, Minting, DeleteSelect, Results
    <3>2. CASE DeleteRefused(a)
      BY <3>2 DEF IInv, TypeOK, Minting, DeleteRefused, EndRequest
    <3>3. CASE DeleteFails(a)
      BY <3>3 DEF IInv, TypeOK, Minting, DeleteFails, EndRequest
    <3> QED
      BY <1>2, <3>1, <3>2, <3>3 DEF Delete
  <2>3. TypeOK' /\ Minting'
    BY <2>1, <2>2 DEF IInv, TypeOK, Minting
  <2>4. HistoryHolds' /\ LostOnlyByDelete' /\ NamesApart' /\ IsFiniteSet(Live')
    BY <2>1 DEF IInv, HistoryHolds, LostOnlyByDelete, NamesApart, UniqueNames
  <2>5. Scans'
    BY <2>1, ScansStable
  <2> QED
    BY <2>3, <2>4, <2>5 DEF IInv
<1> QED
  BY <1>1, <1>2

\* A page read by one reader: the page lemmas for it, nothing for the others.
LEMMA ListInvariant ==
    ASSUME IInv, NEW s \in Readers, List(s)
    PROVE  IInv'
<1>1. /\ UNCHANGED <<tasks, inserted, minted, phase, of, finished, request, gone, refused>>
      /\ Live' = Live /\ Pending' = Pending
  BY DEF List, FirstPage, NextPage, Live, Pending
<1>2. PICK q : /\ scan' = [scan EXCEPT ![s] = q]
               /\ Covered(q)
               /\ q \in [start : SUBSET Ids, got : SUBSET Ids,
                         count : Nat, cursor : Ids \cup {NoId}]
  <2>1. Live \subseteq Ids /\ scan[s] \in [start : SUBSET Ids, got : SUBSET Ids,
                                count : Nat, cursor : Ids \cup {NoId}]
    BY DEF IInv, TypeOK
  <2>2. \A P \in SUBSET Live : Cardinality(P) \in Nat
    BY FS_Subset, FS_CardinalityType DEF IInv
  <2>3. CASE FirstPage(s)
    <3>1. PICK P \in SUBSET Live, c \in Live \cup {NoId} :
            /\ IsPage(P, NoId)
            /\ IsNextCursor(c, P)
            /\ scan' = [scan EXCEPT ![s] =
                          [start |-> Live, got |-> P,
                           count |-> Cardinality(P), cursor |-> c]]
      BY <2>3 DEF FirstPage
    <3> DEFINE q1 == [start |-> Live, got |-> P, count |-> Cardinality(P),
                      cursor |-> c]
    <3>2. Covered(q1)
      BY <3>1, FirstPageCovers
    <3>3. q1 \in [start : SUBSET Ids, got : SUBSET Ids,
                  count : Nat, cursor : Ids \cup {NoId}]
      BY <2>1, <2>2
    <3>4. scan' = [scan EXCEPT ![s] = q1]
      BY <3>1
    <3> HIDE DEF q1
    <3> QED
      BY <3>2, <3>3, <3>4
  <2>4. CASE NextPage(s)
    <3>1. PICK P \in SUBSET Live, c \in Live \cup {NoId} :
            /\ IsPage(P, scan[s].cursor)
            /\ IsNextCursor(c, P)
            /\ scan' = [scan EXCEPT ![s] =
                          [start |-> scan[s].start, got |-> scan[s].got \cup P,
                           count |-> scan[s].count + Cardinality(P),
                           cursor |-> c]]
      BY <2>4 DEF NextPage
    <3>2. scan[s].cursor # NoId
      BY <2>4 DEF NextPage
    <3> DEFINE q2 == [start |-> scan[s].start, got |-> scan[s].got \cup P,
                      count |-> scan[s].count + Cardinality(P), cursor |-> c]
    <3>3. Covered(q2)
      BY <3>1, <3>2, NextPageCovers
    <3>4. q2 \in [start : SUBSET Ids, got : SUBSET Ids,
                  count : Nat, cursor : Ids \cup {NoId}]
      <4>1. /\ scan[s].start \subseteq Ids
            /\ scan[s].got \cup P \subseteq Ids
            /\ c \in Ids \cup {NoId}
        BY <2>1
      <4>2. scan[s].count + Cardinality(P) \in Nat
        <5>1. scan[s].count \in Nat /\ Cardinality(P) \in Nat
          BY <2>1, <2>2
        <5> QED
          BY <5>1
      <4> QED
        BY <4>1, <4>2
    <3>5. scan' = [scan EXCEPT ![s] = q2]
      BY <3>1
    <3> HIDE DEF q2
    <3> QED
      BY <3>3, <3>4, <3>5
  <2> QED
    BY <2>3, <2>4 DEF List
<1>3. TypeOK'
  BY <1>1, <1>2 DEF IInv, TypeOK
<1>4. Scans'
  <2> SUFFICES ASSUME NEW t \in Readers
               PROVE  Covered(scan[t])'
    BY DEF Scans
  <2>1. scan'[t] = IF t = s THEN q ELSE scan[t]
    BY <1>2 DEF IInv, TypeOK
  <2>2. Covered(scan[t])
    BY DEF IInv, Scans
  <2>3. Covered(scan'[t])
    BY <1>2, <2>1, <2>2
  <2> QED
    BY <1>1, <2>3 DEF Covered
<1>5. /\ Minting' /\ HistoryHolds' /\ LostOnlyByDelete' /\ NamesApart'
      /\ IsFiniteSet(Live')
  BY <1>1 DEF IInv, Minting, HistoryHolds, LostOnlyByDelete, NamesApart, UniqueNames
<1> QED
  BY <1>3, <1>4, <1>5 DEF IInv

\* A restart forgets the runs under way and the open POSTs and DELETEs, and no row
\* that was committed.
LEMMA RestartInvariant ==
    ASSUME IInv, Restart
    PROVE  IInv'
<1>1. /\ UNCHANGED <<tasks, minted, of, finished, scan, gone, refused>>
      /\ Live' = Live /\ Pending' = {} /\ inserted' \in [Pending' -> Names]
  BY DEF Restart, Live, Pending
<1>2. /\ phase' \in [Runs -> Phases]
      /\ \A r \in Runs : /\ phase'[r] # "new" => phase[r] # "new"
                         /\ phase'[r] = "recorded" => phase[r] = "recorded"
                         /\ phase'[r] = "lost" => phase[r] = "lost"
  BY DEF Restart, IInv, TypeOK, Phases
<1>3. request' = [a \in Admins |-> [id |-> NoId, seen |-> {}]]
  BY DEF Restart
<1>4. TypeOK'
  BY <1>1, <1>2, <1>3 DEF IInv, TypeOK
<1>5. Minting'
  <2>1. \A a \in Admins : request'[a].id = NoId
    BY <1>3
  <2>2. Minting
    BY DEF IInv
  <2> QED
    BY <1>1, <1>2, <2>1, <2>2 DEF Minting
<1>6. HistoryHolds' /\ LostOnlyByDelete'
  <2>1. HistoryHolds /\ LostOnlyByDelete
    BY DEF IInv
  <2> QED
    BY <1>1, <1>2, <2>1 DEF HistoryHolds, LostOnlyByDelete
<1>7. NamesApart' /\ IsFiniteSet(Live')
  BY <1>1 DEF IInv, NamesApart, UniqueNames
<1>8. Scans'
  BY <1>1, ScansStable
<1> QED
  BY <1>4, <1>5, <1>6, <1>7, <1>8 DEF IInv

LEMMA NextInvariant == IInv /\ [Next]_vars => IInv'
<1> SUFFICES ASSUME IInv, [Next]_vars
             PROVE  IInv'
  OBVIOUS
<1>1. CASE \E id \in Ids : Create(id)
  BY <1>1, InsertTaskInvariant, EndInsertInvariant DEF Create
<1>2. CASE \E r \in Runs : Run(r)
  BY <1>2, RunInvariant
<1>3. CASE \E a \in Admins : Delete(a)
  BY <1>3, DeleteInvariant
<1>4. CASE \E s \in Readers : List(s)
  BY <1>4, ListInvariant
<1>5. CASE UNCHANGED vars
  <2>1. /\ UNCHANGED <<tasks, inserted, minted, phase, of, finished, request, scan,
                        gone, refused>>
        /\ Live' = Live /\ Pending' = Pending
    BY <1>5 DEF vars, Live, Pending
  <2>2. TypeOK'
    BY <2>1 DEF IInv, TypeOK
  <2>3. Scans'
    BY <2>1, ScansStable
  <2> QED
    BY <2>1, <2>2, <2>3
    DEF IInv, Minting, HistoryHolds, LostOnlyByDelete, NamesApart, UniqueNames
<1>6. CASE Restart
  BY <1>6, RestartInvariant
<1> QED
  BY <1>1, <1>2, <1>3, <1>4, <1>5, <1>6 DEF Next

\* The invariant holds in every reachable state of the store.
THEOREM Invariance == Spec => []IInv
BY InitInvariant, NextInvariant, PTL DEF Spec

-----------------------------------------------------------------------------
(* The properties.                                                         *)

\* The tables and every request keep their types (orm.py, task_repo.py).
THEOREM TypeCorrect == Spec => []TypeOK
<1>1. IInv => TypeOK
  BY DEF IInv
<1> QED
  BY <1>1, Invariance, PTL

\* Paging is complete under any creations, deletions and restarts between the
\* pages: a finished listing has every task that was there throughout
\* (list_tasks).
THEOREM PagingComplete == Spec => []ScanComplete
<1>1. IInv => ScanComplete
  BY DEF IInv, Scans, Covered, ScanComplete
<1> QED
  BY <1>1, Invariance, PTL

\* And it returns no task twice, finished or not (list_tasks).
THEOREM PagingOnce == Spec => []ScanNoRepeat
<1>1. IInv => ScanNoRepeat
  BY DEF IInv, Scans, Covered, ScanNoRepeat
<1> QED
  BY <1>1, Invariance, PTL

\* Where the text of a later stamp sorts before that of an earlier one.
LEMMA TextOrder ==
    ASSUME NEW t \in Stamps \cup {NoStamp}, NEW u \in Stamps \cup {NoStamp},
           t.sec < u.sec \/ (t.sec = u.sec /\ t.frac < u.frac),
           TextBefore(Text(u), Text(t))
    PROVE  t = [sec |-> u.sec, frac |-> 0]
<1>1. t \in [sec : Nat, frac : Nat] /\ u \in [sec : Nat, frac : Nat]
  <2>1. NoStamp \in [sec : Nat, frac : Nat]
    BY DEF NoStamp
  <2>2. Stamps \subseteq [sec : Nat, frac : Nat]
    BY DEF Stamps
  <2> QED
    BY <2>1, <2>2
<1>2. ASSUME NEW v \in [sec : Nat, frac : Nat]
      PROVE  /\ Len(Text(v)) = IF v.frac = 0 THEN 2 ELSE 4
             /\ Text(v)[1] = v.sec
             /\ Text(v)[2] = IF v.frac = 0 THEN 90 ELSE 46
             /\ v.frac # 0 => Text(v)[3] = v.frac /\ Text(v)[4] = 90
  <2>1. CASE v.frac = 0
    <3>1. Text(v) = <<v.sec, 90>>
      BY <2>1 DEF Text, Zulu
    <3> QED
      BY <2>1, <3>1
  <2>2. CASE v.frac # 0
    <3>1. Text(v) = <<v.sec, 46, v.frac, 90>>
      BY <2>2 DEF Text, Zulu, Dot
    <3> QED
      BY <2>2, <3>1
  <2> QED
    BY <2>1, <2>2
<1>3. PICK i \in (1 .. Len(Text(u))) \cap (1 .. Len(Text(t))) :
            /\ Text(u)[i] < Text(t)[i]
            /\ \A j \in 1 .. i - 1 : Text(u)[j] = Text(t)[j]
  BY DEF TextBefore
<1>4. i \in 1 .. 4 /\ (i > 2 => u.frac # 0 /\ t.frac # 0)
  BY <1>1, <1>2, <1>3
<1>5. i > 1 => u.sec = t.sec
  BY <1>1, <1>2, <1>3, <1>4
<1>6. CASE i = 1
  BY <1>1, <1>2, <1>3, <1>6
<1>7. CASE i = 2
  <2>1. t.frac = 0 /\ t.sec = u.sec
    BY <1>1, <1>2, <1>3, <1>5, <1>7
  <2> QED
    BY <1>1, <2>1
<1>8. CASE i = 3
  BY <1>1, <1>2, <1>3, <1>4, <1>5, <1>8
<1>9. CASE i = 4
  BY <1>1, <1>2, <1>3, <1>4, <1>9
<1> QED
  BY <1>4, <1>6, <1>7, <1>8, <1>9

\* The one disorder of a history, for any times (get_results,
\* _format_finished_at).
THEOREM HistoryNearlySorted == Spec => []HistoryOrdered
<1>1. IInv => HistoryOrdered
  BY TextOrder
  DEF IInv, TypeOK, HistoryOrdered, EndedBefore, ListedBefore
<1> QED
  BY <1>1, Invariance, PTL

\* A 204 is final, for the task and for its history (delete_task, save_result).
THEOREM DeletionFinal == Spec => []DeletedStaysGone
<1>1. IInv => DeletedStaysGone
  BY DEF IInv, Minting, HistoryHolds, DeletedStaysGone, Results
<1> QED
  BY <1>1, Invariance, PTL

\* No accepted run loses its result to the foreign key but by an acknowledged
\* deletion of its task (run_task, _persist_result).
THEOREM LossExplained == Spec => []LostOnlyByDelete
<1>1. IInv => LostOnlyByDelete
  BY DEF IInv
<1> QED
  BY <1>1, Invariance, PTL

\* Names stay unique however INSERTs, commits, rollbacks, DELETEs and restarts
\* interleave: no row is committed beside another of its name, although the index
\* was asked when neither may have been committed yet (uq_tasks_name).
THEOREM NamesUnique == Spec => []UniqueNames
<1>1. IInv => UniqueNames
  BY DEF IInv, NamesApart
<1> QED
  BY <1>1, Invariance, PTL
=============================================================================
