------------------------------- MODULE RunnerProofs ----------------------------
(***************************************************************************)
(* The gate and its runs, for any number of runs and any capacity.          *)
(*                                                                         *)
(* On any arrangement of event loops no permit is ever made up, though some *)
(* may be lost between threads.  On one loop none is lost either, and the   *)
(* cap holds, because acquire() and release() then finish what they decided *)
(* before anybody else looks: at most one run is in the middle of either,   *)
(* nobody's future is cancelled meanwhile, and the counter never goes below *)
(* zero.  From that follow the use of free slots and the order of the queue.*)
(***************************************************************************)
EXTENDS Runner, FiniteSetTheorems, SequenceTheorems, WellFoundedInduction, TLAPS

\* A run inside _wake_up_next() has somewhere to go afterwards.
Bound(r) == pc[r] \in Passing => goal[r] # "none"
Typed == TypeOK /\ \A r \in Runs : Bound(r)

--------------------------------------------------------------------------------
(* Sequences.                                                               *)


\* A sequence without its i-th entry.
LEMMA RemoveAtIs ==
    ASSUME NEW S, NEW s \in Seq(S), NEW i \in 1 .. Len(s)
    PROVE  /\ RemoveAt(s, i) \in Seq(S) /\ Len(RemoveAt(s, i)) = Len(s) - 1
           /\ \A k \in 1 .. Len(s) - 1 :
                RemoveAt(s, i)[k] = IF k < i THEN s[k] ELSE s[k + 1]
  <1> DEFINE before == SubSeq(s, 1, i - 1)
             after  == SubSeq(s, i + 1, Len(s))
  <1>1. /\ i \in Int /\ Len(s) \in Nat /\ 1 <= i /\ i <= Len(s)
        /\ \A j \in 1 .. Len(s) : s[j] \in S
    BY ElementOfSeq, LenProperties
  <1>2. /\ before \in Seq(S) /\ Len(before) = i - 1
        /\ \A j \in 1 .. i - 1 : before[j] = s[j]
    BY <1>1, SubSeqProperties
  <1>3. /\ after \in Seq(S) /\ Len(after) = Len(s) - i
        /\ \A j \in 1 .. Len(s) - i : after[j] = s[i + j]
    BY <1>1, SubSeqProperties
  <1>4. RemoveAt(s, i) = before \o after
    BY DEF RemoveAt
  <1> HIDE DEF before, after
  <1>5. /\ before \o after \in Seq(S)
        /\ Len(before \o after) = Len(before) + Len(after)
        /\ \A k \in 1 .. Len(before) + Len(after) :
             (before \o after)[k] = IF k <= Len(before) THEN before[k]
                                    ELSE after[k - Len(before)]
    BY <1>2, <1>3, ConcatProperties
  <1>6. Len(before) + Len(after) = Len(s) - 1
    BY <1>1, <1>2, <1>3
  <1>7. ASSUME NEW k \in 1 .. Len(s) - 1
        PROVE  (before \o after)[k] = IF k < i THEN s[k] ELSE s[k + 1]
    <2>1. CASE k < i
      BY <1>1, <1>2, <1>5, <1>6, <2>1
    <2>2. CASE ~(k < i)
      <3>1. /\ ~(k <= Len(before)) /\ k - Len(before) = k - i + 1
            /\ k - i + 1 \in 1 .. Len(s) - i /\ i + (k - i + 1) = k + 1
        BY <1>1, <1>2, <2>2
      <3> QED
        BY <1>3, <1>5, <1>6, <2>2, <3>1
    <2> QED
      BY <2>1, <2>2
  <1> QED
    BY <1>4, <1>5, <1>6, <1>7

\* Taking one entry out of a sequence keeps the others.
LEMMA RemoveAtKeeps ==
    ASSUME NEW S, NEW s \in Seq(S), NEW i \in 1 .. Len(s)
    PROVE  /\ RemoveAt(s, i) \in Seq(S)
           /\ \A j \in 1 .. Len(s) : j # i =>
                \E k \in 1 .. Len(RemoveAt(s, i)) : RemoveAt(s, i)[k] = s[j]
  <1>1. Len(s) \in Nat
    BY LenProperties
  <1>2. ASSUME NEW j \in 1 .. Len(s), j # i
        PROVE  \E k \in 1 .. Len(RemoveAt(s, i)) : RemoveAt(s, i)[k] = s[j]
    <2>1. CASE j < i
      <3>1. j \in 1 .. Len(s) - 1
        BY <1>1, <2>1
      <3> QED
        BY <2>1, <3>1, RemoveAtIs
    <2>2. CASE j > i
      <3>1. j - 1 \in 1 .. Len(s) - 1 /\ ~(j - 1 < i) /\ (j - 1) + 1 = j
        BY <1>1, <2>2
      <3>2. RemoveAt(s, i)[j - 1] = s[(j - 1) + 1]
        BY <3>1, RemoveAtIs
      <3> QED
        BY <3>1, <3>2, RemoveAtIs
    <2> QED
      BY <1>2, <2>1, <2>2
  <1> QED
    BY <1>2, RemoveAtIs

--------------------------------------------------------------------------------
(* Types.                                                                   *)

LEMMA LeaveQueueKeeps ==
    ASSUME waiters \in Seq(Runs), NEW r \in Runs, LeaveQueue(r)
    PROVE  /\ waiters' \in Seq(Runs)
           /\ \A i \in 1 .. Len(waiters) : waiters[i] # r =>
                \E k \in 1 .. Len(waiters') : waiters'[k] = waiters[i]
  <1>1. PICK i \in 1 .. Len(waiters) : waiters[i] = r /\ waiters' = RemoveAt(waiters, i)
    BY DEF LeaveQueue
  <1> QED
    BY <1>1, RemoveAtKeeps

\* Places by what the proofs tell apart.
LEMMA PlacesDiffer ==
    /\ Goals = {"none", "spawning", "done", "lost", "cancelled"}
    /\ Goals \ {"none"} \subseteq PCs
    /\ Outcomes = {"done", "lost", "cancelled"}
    /\ Terminal = {"done", "lost", "cancelled", "dropped", "crashed"}
    /\ Deciding = {"entering", "queueing", "scanning", "handing"}
    /\ Passing = {"scanning", "handing"}
    /\ Holding = {"spawning", "running", "reaping"}
    /\ PCs = {"new", "thread", "waiting", "woken"} \cup Deciding \cup Holding \cup Terminal
  BY DEF Goals, PCs, Outcomes, Terminal, Deciding, Passing, Holding

\* A run that calls _wake_up_next(), with or without a permit given back.
LEMMA PassOnTypes ==
    ASSUME Typed, NEW r \in Runs, NEW place \in Goals \ {"none"}, PassOn(r, place),
           torn' \subseteq Runs
    PROVE  /\ pc' \in [Runs -> PCs] /\ goal' \in [Runs -> Goals]
           /\ pick' \in [Runs -> SUBSET Runs] /\ deaf' \subseteq Runs
           /\ \A q \in Runs : Bound(q)'
  <1>1. /\ pc \in [Runs -> PCs] /\ goal \in [Runs -> Goals]
        /\ pc' = [pc EXCEPT ![r] = "scanning"] /\ goal' = [goal EXCEPT ![r] = place]
    BY DEF Typed, TypeOK, PassOn, Goto
  <1>2. "scanning" \in PCs
    BY PlacesDiffer
  <1> QED
    BY <1>1, <1>2 DEF Typed, TypeOK, PassOn, Bound

LEMMA PassingTypes ==
    ASSUME Typed, NEW r \in Runs, Scan(r) \/ Hand(r)
    PROVE  /\ pc' \in [Runs -> PCs] /\ value' \in Int /\ goal' \in [Runs -> Goals]
           /\ pick' \in [Runs -> SUBSET Runs] /\ deaf' \subseteq Runs
           /\ torn' \subseteq Runs /\ \A q \in Runs : Bound(q)'
  <1>1. /\ pc \in [Runs -> PCs] /\ goal \in [Runs -> Goals] /\ value \in Int
        /\ pick \in [Runs -> SUBSET Runs] /\ torn \subseteq Runs /\ deaf \subseteq Runs
        /\ pc[r] \in Passing /\ goal[r] # "none" /\ goal[r] \in PCs
        /\ {"handing", "lost", "woken"} \subseteq PCs
    BY PlacesDiffer DEF Typed, TypeOK, Bound, Scan, Hand
  <1>2. goal[r] \notin Passing /\ "lost" \notin Passing /\ "woken" \notin Passing
    BY <1>1, PlacesDiffer
  <1>3. ASSUME Passed(r)
        PROVE  /\ goal' \in [Runs -> Goals] /\ pick' \in [Runs -> SUBSET Runs]
               /\ torn' \subseteq Runs /\ \A q \in Runs \ {r} : goal'[q] = goal[q]
    BY <1>1, <1>3 DEF Passed, Goals
  <1>4. ASSUME NEW q \in Runs, Goto(r, "handing"), pick' = [pick EXCEPT ![r] = {q}],
               torn' = torn \ {r}, goal' = goal, value' = value, deaf' = deaf
        PROVE  /\ pc' \in [Runs -> PCs] /\ value' \in Int /\ goal' \in [Runs -> Goals]
               /\ pick' \in [Runs -> SUBSET Runs] /\ deaf' \subseteq Runs
               /\ torn' \subseteq Runs /\ \A p \in Runs : Bound(p)'
    BY <1>1, <1>4 DEF Goto, Typed, Bound
  <1>5. ASSUME NEW place \in {goal[r], "lost"}, Goto(r, place), Passed(r),
               value' \in {value, value - 1}, deaf' = deaf
        PROVE  /\ pc' \in [Runs -> PCs] /\ value' \in Int /\ goal' \in [Runs -> Goals]
               /\ pick' \in [Runs -> SUBSET Runs] /\ deaf' \subseteq Runs
               /\ torn' \subseteq Runs /\ \A p \in Runs : Bound(p)'
    BY <1>1, <1>2, <1>3, <1>5 DEF Goto, Typed, Bound
  <1>6. ASSUME NEW q \in Runs, Wake(r, q), Passed(r), value' = value - 1
        PROVE  /\ pc' \in [Runs -> PCs] /\ value' \in Int /\ goal' \in [Runs -> Goals]
               /\ pick' \in [Runs -> SUBSET Runs] /\ deaf' \subseteq Runs
               /\ torn' \subseteq Runs /\ \A p \in Runs : Bound(p)'
    BY <1>1, <1>2, <1>3, <1>6 DEF Wake, Typed, Bound
  <1>7. CASE Scan(r)
    BY <1>4, <1>5, <1>7 DEF Scan
  <1>8. CASE Hand(r)
    BY <1>1, <1>5, <1>6, <1>8 DEF Hand, Typed, TypeOK
  <1> QED
    BY <1>7, <1>8

\* The coroutine steps that move their run and do no more to the gate than take
\* a permit off the counter.
LEMMA PlainTypes ==
    ASSUME Typed, NEW r \in Runs,
           Enter(r) \/ TakePermit(r) \/ SpawnOk(r) \/ Kill(r)
    PROVE  Typed'
  <1>1. /\ {"entering", "queueing", "spawning", "running", "reaping"} \subseteq PCs
        /\ {"alive", "killed"} \subseteq Children
        /\ {"entering", "queueing", "spawning", "running", "reaping"} \cap Passing = {}
    BY PlacesDiffer DEF Children
  <1>2. /\ UNCHANGED <<waiters, bound, deaf, passing, result, cancelReq, draining>>
        /\ value' \in Int /\ child' \in [Runs -> Children]
    BY <1>1 DEF Enter, TakePermit, SpawnOk, Kill, semaphore, Typed, TypeOK
  <1>3. \E place \in {"entering", "queueing", "spawning", "running", "reaping"} :
            pc' = [pc EXCEPT ![r] = place]
    BY DEF Enter, TakePermit, SpawnOk, Kill, Goto
  <1>4. pc' \in [Runs -> PCs] /\ \A q \in Runs : Bound(q)'
    BY <1>1, <1>2, <1>3 DEF Typed, TypeOK, Bound, passing
  <1> QED
    BY <1>2, <1>4 DEF Typed, TypeOK, passing, draining

LEMMA QueueTypes ==
    ASSUME Typed, NEW r \in Runs, Queue(r) \/ CancelWaiting(r)
    PROVE  Typed'
  <1>1. /\ {"waiting", "dropped", "cancelled"} \subseteq PCs
        /\ {"waiting", "dropped", "cancelled"} \cap Passing = {}
    BY PlacesDiffer
  <1>2. /\ UNCHANGED <<value, deaf, goal, pick, child, result, cancelReq, draining>>
        /\ torn' \subseteq Runs
    BY DEF Queue, CancelWaiting, LeaveQueue, Tear, semaphore, passing, Typed, TypeOK
  <1>3. \E place \in {"waiting", "dropped", "cancelled"} : pc' = [pc EXCEPT ![r] = place]
    BY DEF Queue, CancelWaiting, Goto
  <1>4. pc' \in [Runs -> PCs] /\ \A q \in Runs : Bound(q)'
    BY <1>1, <1>2, <1>3 DEF Typed, TypeOK, Bound
  <1>5. waiters' \in Seq(Runs) /\ bound' \in Loops \cup {NoLoop}
    <2>1. CASE Queue(r)
      <3>1. waiters' \in {waiters, Append(waiters, r)} /\ bound' \in {bound, LoopOf[r]}
        BY <2>1 DEF Queue, semaphore
      <3> QED
        BY <3>1, AppendProperties, RunnerAssumption DEF Typed, TypeOK
    <2>2. CASE CancelWaiting(r)
      BY <2>2, LeaveQueueKeeps DEF CancelWaiting, Typed, TypeOK
    <2> QED
      BY <2>1, <2>2
  <1> QED
    BY <1>2, <1>4, <1>5 DEF Typed, TypeOK, draining

\* Every way out of the gate gives a permit back.
LEMMA Leaves ==
    ASSUME NEW r \in Runs,
           \/ SpawnFail(r) \/ Collect(r) \/ Overdue(r) \/ Reap(r)
           \/ CancelWoken(r) \/ CancelHolding(r)
    PROVE  /\ pc[r] \in Holding \cup {"woken"} /\ LoopFree(LoopOf[r])
           /\ \E place \in Outcomes : Release(r, place)
           /\ \/ waiters' = waiters /\ torn' = torn /\ pc[r] # "woken"
              \/ LeaveQueue(r) /\ pc[r] = "woken"
           /\ UNCHANGED <<bound, cancelReq, draining>>
  BY DEF SpawnFail, Collect, Overdue, Reap, CancelWoken, CancelHolding, Finish, Holding,
         Outcomes

LEMMA LeavingTypes ==
    ASSUME Typed, NEW r \in Runs,
           \/ SpawnFail(r) \/ Collect(r) \/ Overdue(r) \/ Reap(r)
           \/ CancelWoken(r) \/ CancelHolding(r)
    PROVE  Typed'
  <1>1. PICK place \in Outcomes : Release(r, place)
    BY Leaves
  <1>2. place \in Goals \ {"none"}
    BY PlacesDiffer
  <1>3. /\ waiters' \in Seq(Runs) /\ torn' \subseteq Runs
        /\ UNCHANGED <<bound, cancelReq, draining>>
    BY Leaves, LeaveQueueKeeps DEF Typed, TypeOK, LeaveQueue, Tear
  <1>4. /\ pc' \in [Runs -> PCs] /\ goal' \in [Runs -> Goals]
        /\ pick' \in [Runs -> SUBSET Runs] /\ deaf' \subseteq Runs
        /\ \A q \in Runs : Bound(q)'
    BY <1>1, <1>2, <1>3, PassOnTypes DEF Release
  <1>5. value' \in Int
    BY <1>1 DEF Release, Typed, TypeOK
  <1>6. child' \in [Runs -> Children] /\ result' \in [Runs -> Results]
    BY DEF SpawnFail, Collect, Overdue, Reap, CancelWoken, CancelHolding, Finish,
           Typed, TypeOK, Children, Results
  <1> QED
    BY <1>3, <1>4, <1>5, <1>6 DEF Typed, TypeOK, draining

LEMMA ResumeTypes ==
    ASSUME Typed, NEW r \in Runs, ResumeAcquire(r)
    PROVE  Typed'
  <1>1. /\ waiters' \in Seq(Runs) /\ torn' \subseteq Runs
        /\ UNCHANGED <<value, bound, child, result, cancelReq, draining>>
    BY LeaveQueueKeeps DEF ResumeAcquire, LeaveQueue, Tear, Typed, TypeOK
  <1>2. /\ pc' \in [Runs -> PCs] /\ goal' \in [Runs -> Goals]
        /\ pick' \in [Runs -> SUBSET Runs] /\ deaf' \subseteq Runs
        /\ \A q \in Runs : Bound(q)'
    <2>1. CASE Goto(r, "spawning") /\ UNCHANGED <<deaf, goal, pick>>
      BY <2>1, PlacesDiffer DEF Goto, Typed, TypeOK, Bound
    <2>2. CASE PassOn(r, "spawning")
      BY <1>1, <2>2, PassOnTypes, PlacesDiffer
    <2> QED
      BY <2>1, <2>2 DEF ResumeAcquire
  <1> QED
    BY <1>1, <1>2 DEF Typed, TypeOK, draining

LEMMA CoroutineTypes ==
    ASSUME Typed, NEW r \in Runs, Coroutine(r)
    PROVE  Typed'
  <1>1. CASE Scan(r) \/ Hand(r)
    <2>1. UNCHANGED <<waiters, bound, child, result, cancelReq, draining>>
      BY <1>1 DEF Scan, Hand
    <2> QED
      BY <1>1, <2>1, PassingTypes DEF Typed, TypeOK, draining
  <1> QED
    BY <1>1, PlainTypes, QueueTypes, LeavingTypes, ResumeTypes DEF Coroutine

LEMMA TypeStep == Typed /\ [Next]_vars => Typed'
  <1> SUFFICES ASSUME Typed, [Next]_vars PROVE Typed'
    OBVIOUS
  <1>1. ASSUME NEW r \in Runs, Coroutine(r) PROVE Typed'
    BY <1>1, CoroutineTypes
  <1>2. ASSUME NEW r \in Runs, Start(r) PROVE Typed'
    <2>1. "thread" \in PCs /\ "thread" \notin Passing
      BY PlacesDiffer
    <2>2. pc' = [pc EXCEPT ![r] = "thread"] /\ UNCHANGED <<semaphore, child, result,
                                                           cancelReq, draining>>
      BY <1>2 DEF Start, Goto
    <2> QED
      BY <2>1, <2>2 DEF Typed, TypeOK, Bound, semaphore, passing, draining
  <1>3. ASSUME NEW r \in Runs, ChildExits(r) \/ CallerCancels(r) PROVE Typed'
    BY <1>3 DEF Typed, TypeOK, Bound, ChildExits, CallerCancels, Children, semaphore,
                passing, draining
  <1>4. ASSUME NEW r \in Runs, Draining(r) PROVE Typed'
    BY <1>4 DEF Typed, TypeOK, Bound, Draining, DrainClean, BudgetExpires,
                BudgetExpiresLate, DrainCancelled, Drained, Drains, semaphore, passing
  <1>5. CASE Shutdown \/ Ending
    BY <1>5 DEF Typed, TypeOK, Bound, Shutdown, Ending, ShutdownReturns, ShutdownRaises,
                Drains, semaphore, passing
  <1>6. CASE UNCHANGED vars
    BY <1>6 DEF Typed, TypeOK, Bound, vars, semaphore, passing, draining
  <1> QED
    BY <1>1, <1>2, <1>3, <1>4, <1>5, <1>6 DEF Next

LEMMA InitTypes == Init => Typed
  BY RunnerAssumption, EmptySeq
     DEF Init, Typed, TypeOK, Bound, PCs, Passing, Goals, Children, Results, Drains

\* Every part of the gate, of the runs and of a shutdown keeps its type.
THEOREM TypeCorrect == Spec => []TypeOK
  <1>1. Typed => TypeOK
    BY DEF Typed
  <1> QED
    BY <1>1, InitTypes, TypeStep, PTL DEF Spec

--------------------------------------------------------------------------------
(* Permits, whatever the loops.                                             *)

\* What one step does to the counter and the permits set aside.
SamePermits  == value' + Cardinality(Granted') = value + Cardinality(Granted)
FewerPermits == value' + Cardinality(Granted') <= value + Cardinality(Granted)

\* A thread is about to fail at a queue that changed, or at a waiter that another
\* thread was faster to wake.
Lossy(r) ==
    \/ pc[r] = "scanning" /\ r \in torn
    \/ pc[r] = "handing" /\ \E q \in pick[r] : ~Sleeping(q)

LEMMA GrantedFinite ==
    ASSUME IsFiniteSet(Runs)
    PROVE  /\ IsFiniteSet(Granted) /\ Cardinality(Granted) \in Nat
           /\ IsFiniteSet(Holders) /\ Cardinality(Holders) \in Nat
           /\ Cardinality(Holders) <= Cardinality(Granted)
  <1>1. Granted \subseteq Runs /\ Holders \subseteq Granted
    BY DEF Granted, HasPermit, Holders
  <1>2. IsFiniteSet(Granted)
    BY <1>1, FS_Subset
  <1>3. IsFiniteSet(Holders) /\ Cardinality(Holders) <= Cardinality(Granted)
    BY <1>1, <1>2, FS_Subset
  <1> QED
    BY <1>2, <1>3, FS_CardinalityType

\* Three ways to keep the permits together, and one to lose some.
LEMMA NonePass ==
    ASSUME value' = value, \A q \in Runs : HasPermit(q)' <=> HasPermit(q)
    PROVE  SamePermits
  <1>1. Granted' = Granted
    BY DEF Granted
  <1> QED
    BY <1>1 DEF SamePermits

LEMMA OneTaken ==
    ASSUME IsFiniteSet(Runs), value \in Int, value' = value - 1,
           NEW r \in Runs, ~HasPermit(r),
           \A q \in Runs : HasPermit(q)' <=> HasPermit(q) \/ q = r
    PROVE  SamePermits
  <1>1. Granted' = Granted \cup {r} /\ r \notin Granted
    BY DEF Granted
  <1>2. Cardinality(Granted \cup {r}) = Cardinality(Granted) + 1
    BY <1>1, GrantedFinite, FS_AddElement
  <1>3. Cardinality(Granted') = Cardinality(Granted) + 1
    BY <1>1, <1>2
  <1> QED
    BY <1>3, GrantedFinite DEF SamePermits

LEMMA OneGivenBack ==
    ASSUME IsFiniteSet(Runs), value \in Int, value' = value + 1,
           NEW r \in Runs, HasPermit(r),
           \A q \in Runs : HasPermit(q)' <=> HasPermit(q) /\ q # r
    PROVE  SamePermits
  <1>1. Granted' = Granted \ {r} /\ r \in Granted
    BY DEF Granted
  <1>2. Cardinality(Granted \ {r}) = Cardinality(Granted) - 1
    BY <1>1, GrantedFinite, FS_RemoveElement
  <1>3. Cardinality(Granted') = Cardinality(Granted) - 1
    BY <1>1, <1>2
  <1> QED
    BY <1>3, GrantedFinite DEF SamePermits

LEMMA SomeLost ==
    ASSUME IsFiniteSet(Runs), value \in Int, value' \in Int, value' <= value,
           \A q \in Runs : HasPermit(q)' => HasPermit(q)
    PROVE  FewerPermits
  <1>1. Granted' \subseteq Granted
    BY DEF Granted
  <1>2. /\ IsFiniteSet(Granted') /\ Cardinality(Granted') <= Cardinality(Granted)
        /\ Cardinality(Granted') \in Nat
    BY <1>1, GrantedFinite, FS_Subset, FS_CardinalityType
  <1> QED
    BY <1>2, GrantedFinite DEF FewerPermits

LEMMA TakeKeeps ==
    ASSUME IsFiniteSet(Runs), Typed, NEW r \in Runs, TakePermit(r)
    PROVE  SamePermits
  <1>1. /\ pc[r] = "entering" /\ pc' = [pc EXCEPT ![r] = "spawning"]
        /\ value' = value - 1 /\ goal' = goal /\ pc \in [Runs -> PCs] /\ value \in Int
    BY DEF TakePermit, Goto, passing, Typed, TypeOK
  <1>2. ~HasPermit(r) /\ \A q \in Runs : HasPermit(q)' <=> HasPermit(q) \/ q = r
    BY <1>1 DEF HasPermit, Holding, Passing
  <1> QED
    BY <1>1, <1>2, OneTaken

LEMMA ReleaseKeeps ==
    ASSUME IsFiniteSet(Runs), Typed, NEW r \in Runs, pc[r] \in Holding \cup {"woken"},
           NEW place \in Outcomes, Release(r, place)
    PROVE  SamePermits
  <1>1. /\ pc' = [pc EXCEPT ![r] = "scanning"] /\ goal' = [goal EXCEPT ![r] = place]
        /\ value' = value + 1 /\ place # "spawning"
        /\ pc \in [Runs -> PCs] /\ goal \in [Runs -> Goals] /\ value \in Int
    BY DEF Release, PassOn, Goto, Typed, TypeOK, Outcomes
  <1>2. HasPermit(r) /\ \A q \in Runs : HasPermit(q)' <=> HasPermit(q) /\ q # r
    BY <1>1 DEF HasPermit, Holding, Passing
  <1> QED
    BY <1>1, <1>2, OneGivenBack

LEMMA ResumeKeeps ==
    ASSUME Typed, NEW r \in Runs, ResumeAcquire(r)
    PROVE  SamePermits
  <1>1. /\ pc[r] = "woken" /\ value' = value
        /\ pc \in [Runs -> PCs] /\ goal \in [Runs -> Goals]
    BY DEF ResumeAcquire, Typed, TypeOK
  <1>2. \/ pc' = [pc EXCEPT ![r] = "spawning"] /\ goal' = goal
        \/ /\ pc' = [pc EXCEPT ![r] = "scanning"]
           /\ goal' = [goal EXCEPT ![r] = "spawning"]
    BY DEF ResumeAcquire, PassOn, Goto
  <1>3. \A q \in Runs : HasPermit(q)' <=> HasPermit(q)
    BY <1>1, <1>2 DEF HasPermit, Holding, Passing
  <1> QED
    BY <1>1, <1>3, NonePass

\* A run that leaves _wake_up_next() keeps the permit it has, unless an exception
\* takes it elsewhere.
LEMMA PassedOn ==
    ASSUME Typed, NEW r \in Runs, pc[r] \in Passing, Passed(r)
    PROVE  /\ Goto(r, goal[r]) => \A q \in Runs : HasPermit(q)' <=> HasPermit(q)
           /\ Goto(r, "lost")  => \A q \in Runs : HasPermit(q)' => HasPermit(q)
  <1>1. /\ pc \in [Runs -> PCs] /\ goal[r] \in {"spawning"} \cup Outcomes
        /\ \A q \in Runs \ {r} : goal'[q] = goal[q]
    BY PlacesDiffer DEF Typed, TypeOK, Bound, Passed
  <1>2. ASSUME Goto(r, goal[r]) PROVE \A q \in Runs : HasPermit(q)' <=> HasPermit(q)
    BY <1>1, <1>2 DEF Goto, HasPermit, Holding, Passing, Outcomes
  <1>3. ASSUME Goto(r, "lost") PROVE \A q \in Runs : HasPermit(q)' => HasPermit(q)
    BY <1>1, <1>3 DEF Goto, HasPermit, Holding, Passing, Outcomes
  <1> QED
    BY <1>2, <1>3

LEMMA ScanKeeps ==
    ASSUME IsFiniteSet(Runs), Typed, NEW r \in Runs, Scan(r)
    PROVE  SamePermits \/ (Lossy(r) /\ FewerPermits)
  <1>1. /\ pc[r] = "scanning" /\ pc[r] \in Passing /\ value' = value /\ value \in Int
        /\ pc \in [Runs -> PCs]
    BY DEF Scan, Passing, Typed, TypeOK
  <1>2. CASE Goto(r, "handing") /\ goal' = goal
    <2>1. \A q \in Runs : HasPermit(q)' <=> HasPermit(q)
      BY <1>1, <1>2 DEF Goto, HasPermit, Holding, Passing
    <2> QED
      BY <1>1, <2>1, NonePass
  <1>3. CASE Goto(r, goal[r]) /\ Passed(r)
    BY <1>1, <1>3, PassedOn, NonePass
  <1>4. CASE r \in torn /\ Goto(r, "lost") /\ Passed(r)
    BY <1>1, <1>4, PassedOn, SomeLost DEF Lossy
  <1> QED
    BY <1>2, <1>3, <1>4 DEF Scan

LEMMA HandKeeps ==
    ASSUME IsFiniteSet(Runs), Typed, NEW r \in Runs, Hand(r)
    PROVE  SamePermits \/ (Lossy(r) /\ FewerPermits)
  <1>1. /\ pc[r] = "handing" /\ pc[r] \in Passing /\ value' = value - 1 /\ value \in Int
        /\ pc \in [Runs -> PCs] /\ Passed(r) /\ pick[r] \subseteq Runs
        /\ goal[r] \in {"spawning"} \cup Outcomes
        /\ \A q \in Runs \ {r} : goal'[q] = goal[q]
    BY PlacesDiffer DEF Hand, Passing, Typed, TypeOK, Bound, Passed
  <1>2. ASSUME NEW q \in pick[r], Sleeping(q), Wake(r, q)
        PROVE  SamePermits
    <2>1. /\ q \in Runs /\ q # r /\ pc[q] = "waiting"
          /\ pc' = [p \in Runs |->
                    IF p = q THEN "woken" ELSE IF p = r THEN goal[r] ELSE pc[p]]
      BY <1>1, <1>2 DEF Sleeping, Wake
    <2>2. ~HasPermit(q) /\ \A p \in Runs : HasPermit(p)' <=> HasPermit(p) \/ p = q
      BY <1>1, <2>1 DEF HasPermit, Holding, Passing, Outcomes
    <2> QED
      BY <1>1, <2>1, <2>2, OneTaken
  <1>3. ASSUME NEW q \in pick[r], ~Sleeping(q), Goto(r, "lost")
        PROVE  Lossy(r) /\ FewerPermits
    BY <1>1, <1>3, PassedOn, SomeLost DEF Lossy
  <1> QED
    BY <1>2, <1>3 DEF Hand

\* The steps that neither take nor give back a permit.
LEMMA QuietKeeps ==
    ASSUME Typed, NEW r \in Runs,
           \/ Start(r) \/ Enter(r) \/ Queue(r) \/ SpawnOk(r) \/ ChildExits(r)
           \/ Kill(r) \/ CallerCancels(r) \/ CancelWaiting(r) \/ Draining(r)
           \/ Shutdown \/ Ending \/ UNCHANGED vars
    PROVE  SamePermits
  <1>1. /\ value' = value /\ goal' = goal /\ pc \in [Runs -> PCs]
    BY DEF Typed, TypeOK, Start, Enter, Queue, SpawnOk, ChildExits, Kill, CallerCancels,
           CancelWaiting, Draining, DrainClean, BudgetExpires, BudgetExpiresLate,
           DrainCancelled, Drained, Shutdown, Ending, ShutdownReturns, ShutdownRaises,
           semaphore, passing, vars
  <1>2. CASE \/ ChildExits(r) \/ CallerCancels(r) \/ Draining(r) \/ Shutdown
             \/ Ending \/ UNCHANGED vars
    <2>1. pc' = pc
      BY <1>2 DEF ChildExits, CallerCancels, Draining, DrainClean, BudgetExpires,
                  BudgetExpiresLate, DrainCancelled, Drained, Shutdown, Ending,
                  ShutdownReturns, ShutdownRaises, vars
    <2> QED
      BY <1>1, <2>1, NonePass DEF HasPermit
  <1>3. CASE Start(r) \/ Enter(r) \/ Queue(r) \/ CancelWaiting(r)
    <2>1. /\ pc[r] \in {"new", "thread", "queueing", "waiting"}
          /\ \E place \in {"thread", "queueing", "entering", "waiting", "dropped",
                           "cancelled"} : pc' = [pc EXCEPT ![r] = place]
      BY <1>3 DEF Start, Enter, Queue, CancelWaiting, Goto
    <2>2. \A q \in Runs : HasPermit(q)' <=> HasPermit(q)
      BY <1>1, <2>1 DEF HasPermit, Holding, Passing
    <2> QED
      BY <1>1, <2>2, NonePass
  <1>4. CASE SpawnOk(r) \/ Kill(r)
    <2>1. pc[r] \in Holding /\ \E place \in Holding : pc' = [pc EXCEPT ![r] = place]
      BY <1>4 DEF SpawnOk, Kill, Goto, Holding
    <2>2. \A q \in Runs : HasPermit(q)' <=> HasPermit(q)
      BY <1>1, <2>1 DEF HasPermit, Holding
    <2> QED
      BY <1>1, <2>2, NonePass
  <1> QED
    BY <1>2, <1>3, <1>4

\* No step makes a permit up, and one that loses one is at fault with a thread.
LEMMA StepKeeps ==
    ASSUME IsFiniteSet(Runs), Typed, [Next]_vars
    PROVE  SamePermits \/ ((\E r \in Runs : Lossy(r)) /\ FewerPermits)
  <1>1. ASSUME NEW r \in Runs, Coroutine(r)
        PROVE  SamePermits \/ (Lossy(r) /\ FewerPermits)
    <2>1. CASE \/ SpawnFail(r) \/ Collect(r) \/ Overdue(r) \/ Reap(r)
               \/ CancelWoken(r) \/ CancelHolding(r)
      BY <2>1, Leaves, ReleaseKeeps
    <2> QED
      BY <1>1, <2>1, QuietKeeps, TakeKeeps, ResumeKeeps, ScanKeeps, HandKeeps
         DEF Coroutine
  <1>2. ASSUME NEW r \in Runs,
               Start(r) \/ ChildExits(r) \/ CallerCancels(r) \/ Draining(r)
        PROVE  SamePermits
    BY <1>2, QuietKeeps
  <1>3. CASE Shutdown \/ Ending \/ UNCHANGED vars
    <2>1. pc' = pc /\ goal' = goal /\ value' = value
      BY <1>3 DEF Shutdown, Ending, ShutdownReturns, ShutdownRaises, semaphore, passing,
                  vars
    <2> QED
      BY <2>1, NonePass DEF HasPermit
  <1> QED
    BY <1>1, <1>2, <1>3 DEF Next

LEMMA PermitsAdd ==
    ASSUME IsFiniteSet(Runs), Typed, Typed'
    PROVE  /\ SamePermits /\ PermitsConserved => PermitsConserved'
           /\ SamePermits \/ FewerPermits => (NoPermitMadeUp => NoPermitMadeUp')
  <1>1. /\ value \in Int /\ value' \in Int /\ Cap \in Nat
        /\ Cardinality(Granted) \in Nat /\ Cardinality(Granted') \in Nat
    <2>1. Granted' \subseteq Runs
      BY DEF Granted
    <2> QED
      BY <2>1, GrantedFinite, FS_Subset, FS_CardinalityType, RunnerAssumption
         DEF Typed, TypeOK
  <1> QED
    BY <1>1 DEF SamePermits, FewerPermits, PermitsConserved, NoPermitMadeUp

LEMMA InitPermits == IsFiniteSet(Runs) /\ Init => PermitsConserved /\ NoPermitMadeUp
  <1> SUFFICES ASSUME Init PROVE PermitsConserved /\ NoPermitMadeUp
    OBVIOUS
  <1>1. Granted = {}
    BY DEF Init, Granted, HasPermit, Holding, Passing
  <1>2. Cardinality(Granted) = 0
    BY <1>1, FS_EmptySet
  <1> QED
    BY <1>2, RunnerAssumption DEF Init, PermitsConserved, NoPermitMadeUp

\* On any arrangement of event loops, with any number of runs and on every path in
\* and out of the gate, the counter and the permits set aside never add up to more
\* than TASKQ_MAX_CONCURRENT: threads that meet in release() lose one at worst.
THEOREM NoneMadeUp ==
    ASSUME IsFiniteSet(Runs) PROVE Spec => []NoPermitMadeUp
  <1>1. Init => Typed /\ NoPermitMadeUp
    BY InitTypes, InitPermits
  <1>2. Typed /\ NoPermitMadeUp /\ [Next]_vars => (Typed /\ NoPermitMadeUp)'
    BY TypeStep, StepKeeps, PermitsAdd
  <1> QED
    BY <1>1, <1>2, PTL DEF Spec

--------------------------------------------------------------------------------
(* One loop: what a run has begun to decide it finishes undisturbed.        *)

OneLoopOnly == \A r, q \in Runs : LoopOf[r] = LoopOf[q]

Alone == \A r, q \in Runs : pc[r] \in Deciding /\ pc[q] \in Deciding => r = q

\* No queue changes under an iteration, and the waiter that was found is still
\* the next one.
Steady ==
    /\ torn = {}
    /\ \A r \in Runs : pc[r] = "handing" => \A q \in pick[r] : IsNext(q)

\* A run that is about to take a permit, or to hand one on, finds it.
Covered ==
    /\ value >= 0
    /\ \A r \in Runs : pc[r] \in {"entering"} \cup Passing => value > 0

\* Nobody is cancelled before it waits, a drain's budget cancels on its own loop
\* only, and the semaphore stays on its loop.
Undisturbed ==
    /\ \A r \in Runs :
         /\ pc[r] \in {"new", "thread", "entering", "queueing"} => r \notin cancelReq
         /\ drain[r] = "awaiting" =>
              pc[r] \notin {"new", "thread"} /\ LoopOf[r] = ShutdownLoop
    /\ bound = NoLoop \/ \A r \in Runs : bound = LoopOf[r]

LoopInv == Typed /\ Alone /\ Steady /\ Covered /\ Undisturbed

\* Nobody is in the middle of deciding while another coroutine of the loop, or
\* shutdown, takes a step.
LEMMA LoopAlone ==
    ASSUME OneLoopOnly, NEW r \in Runs, LoopFree(LoopOf[r])
    PROVE  \A q \in Runs : pc[q] \notin Deciding
  BY DEF OneLoopOnly, LoopFree

\* What a coroutine's step does to the other runs, and from where to where it
\* goes itself.
LEMMA CoroutineMoves ==
    ASSUME Typed, NEW r \in Runs, Coroutine(r)
    PROVE  /\ \A q \in Runs \ {r} :
                /\ pc'[q] = pc[q] \/ (pc[q] = "waiting" /\ pc'[q] = "woken")
                /\ child'[q] = child[q] /\ goal'[q] = goal[q] /\ pick'[q] = pick[q]
                /\ result'[q] = result[q]
           /\ cancelReq' = cancelReq /\ drain' = drain /\ shut' = shut
           /\ \/ /\ pc[r] \in {"thread", "entering", "queueing", "woken"}
                 /\ pc'[r] \in {"queueing", "waiting", "dropped", "entering", "spawning"}
                 /\ UNCHANGED <<child, result>>
              \/ /\ pc[r] = "woken" /\ pc'[r] = "scanning" /\ goal'[r] = "spawning"
                 /\ UNCHANGED <<child, result>>
              \/ /\ pc[r] = "spawning" /\ pc'[r] = "running" /\ child'[r] = "alive"
                 /\ UNCHANGED result
              \/ /\ pc[r] = "running" /\ pc'[r] = "reaping" /\ child'[r] = "killed"
                 /\ UNCHANGED result
              \/ /\ pc[r] \in Holding /\ pc'[r] = "scanning"
                 /\ \/ pc[r] = "spawning" /\ child'[r] = child[r]
                    \/ /\ pc[r] = "running" /\ child[r] = "exited"
                       /\ child'[r] = child[r]
                    \/ pc[r] = "reaping" /\ child'[r] = "reaped"
                 /\ \/ /\ goal'[r] = "done"
                       /\ \/ result'[r] = "exit" /\ pc[r] = "running"
                          \/ result'[r] = "failure"
                    \/ goal'[r] = "lost" /\ UNCHANGED result
              \/ /\ r \in cancelReq /\ pc[r] = "waiting" /\ pc'[r] = "cancelled"
                 /\ UNCHANGED <<child, result>>
              \/ /\ r \in cancelReq /\ pc[r] \in Holding \cup {"woken"}
                 /\ pc'[r] = "scanning" /\ goal'[r] = "cancelled"
                 /\ UNCHANGED <<child, result>>
              \/ /\ pc[r] = "scanning" /\ pc'[r] = "handing" /\ goal'[r] = goal[r]
                 /\ UNCHANGED <<child, result>>
              \/ /\ pc[r] \in Passing /\ pc'[r] \in {goal[r], "lost"}
                 /\ UNCHANGED <<child, result>>
  <1>1. /\ pc \in [Runs -> PCs] /\ child \in [Runs -> Children]
        /\ goal \in [Runs -> Goals] /\ pick \in [Runs -> SUBSET Runs]
        /\ result \in [Runs -> Results]
    BY DEF Typed, TypeOK
  <1>2. CASE Enter(r) \/ Queue(r) \/ TakePermit(r)
    BY <1>1, <1>2 DEF Enter, Queue, TakePermit, Goto, semaphore, passing, draining
  <1>3. CASE SpawnOk(r) \/ Kill(r) \/ CancelWaiting(r)
    BY <1>1, <1>3 DEF SpawnOk, Kill, CancelWaiting, Goto, semaphore, passing, draining
  <1>4. CASE ResumeAcquire(r)
    BY <1>1, <1>4 DEF ResumeAcquire, PassOn, Goto, draining
  <1>5. CASE CancelWoken(r) \/ CancelHolding(r)
    BY <1>1, <1>5 DEF CancelWoken, CancelHolding, Release, PassOn, Goto, draining
  <1>6. CASE Scan(r)
    BY <1>1, <1>6 DEF Scan, Passed, Passing, Goto, draining
  <1>7. CASE Hand(r)
    <2>1. ASSUME NEW q \in Runs, Sleeping(q), Wake(r, q)
          PROVE  /\ \A p \in Runs \ {r} :
                      pc'[p] = pc[p] \/ (pc[p] = "waiting" /\ pc'[p] = "woken")
                 /\ pc'[r] = goal[r]
      BY <1>7, <2>1 DEF Hand, Wake, Sleeping
    <2>2. ASSUME Goto(r, "lost")
          PROVE  pc'[r] = "lost" /\ \A p \in Runs \ {r} : pc'[p] = pc[p]
      BY <1>1, <2>2 DEF Goto
    <2> QED
      BY <1>1, <1>7, <2>1, <2>2 DEF Hand, Passed, Passing, draining
  <1>8. CASE SpawnFail(r) \/ Collect(r) \/ Overdue(r) \/ Reap(r)
    <2>1. ASSUME NEW outcome, Finish(r, outcome)
          PROVE  /\ pc'[r] = "scanning" /\ \A q \in Runs \ {r} : pc'[q] = pc[q]
                 /\ \A q \in Runs \ {r} :
                      goal'[q] = goal[q] /\ pick'[q] = pick[q] /\ result'[q] = result[q]
                 /\ cancelReq' = cancelReq /\ drain' = drain /\ shut' = shut
                 /\ \/ goal'[r] = "done" /\ result'[r] = outcome
                    \/ goal'[r] = "lost" /\ UNCHANGED result
      BY <1>1, <2>1 DEF Finish, Release, PassOn, Goto, draining
    <2>2. CASE SpawnFail(r)
      BY <2>1, <2>2 DEF SpawnFail, Holding
    <2>3. CASE Collect(r)
      BY <2>1, <2>3 DEF Collect, Holding
    <2>4. CASE Overdue(r)
      BY <2>1, <2>4 DEF Overdue, Holding
    <2>5. CASE Reap(r)
      BY <1>1, <2>1, <2>5 DEF Reap, Holding
    <2> QED
      BY <1>8, <2>2, <2>3, <2>4, <2>5
  <1> QED
    BY <1>2, <1>3, <1>4, <1>5, <1>6, <1>7, <1>8 DEF Coroutine

\* What all steps but a coroutine's have in common.
LEMMA OthersMove ==
    ASSUME Typed, NEW r \in Runs,
           \/ Start(r) \/ ChildExits(r) \/ CallerCancels(r) \/ Draining(r)
           \/ Shutdown \/ Ending \/ UNCHANGED vars
    PROVE  /\ waiters' = waiters /\ bound' = bound /\ value' = value
           /\ goal' = goal /\ pick' = pick /\ torn' = torn /\ result' = result
           /\ \A q \in Runs : q \in cancelReq => q \in cancelReq'
           /\ \A q \in Runs : pc'[q] = pc[q] \/ (pc[q] = "new" /\ pc'[q] = "thread")
  BY DEF Typed, TypeOK, Start, Goto, ChildExits, CallerCancels, Draining, DrainClean,
         BudgetExpires, BudgetExpiresLate, DrainCancelled, Drained, Shutdown, Ending,
         ShutdownReturns, ShutdownRaises, semaphore, passing, draining, vars

\* A coroutine takes a step only if it is the one that decides, or nobody does.
LEMMA OnlyDecider ==
    ASSUME OneLoopOnly, Alone, Typed, NEW r \in Runs, Coroutine(r)
    PROVE  \A q \in Runs \ {r} : pc[q] \notin Deciding /\ pc'[q] \notin Deciding
  <1>1. \A q \in Runs \ {r} : pc[q] \notin Deciding
    <2>1. CASE LoopFree(LoopOf[r])
      BY <2>1, LoopAlone
    <2>2. CASE pc[r] \in Deciding
      BY <2>2 DEF Alone
    <2> QED
      BY <2>1, <2>2 DEF Coroutine, Enter, Queue, TakePermit, ResumeAcquire, Scan, Hand,
         SpawnOk, SpawnFail, Collect, Kill, Overdue, Reap, CancelWaiting, CancelWoken,
         CancelHolding, Deciding, Passing
  <1> QED
    BY <1>1, CoroutineMoves, PlacesDiffer

\* At most one run decides.
LEMMA AloneStep ==
    ASSUME OneLoopOnly, Alone, Typed, NEW r \in Runs, Coroutine(r)
    PROVE  Alone'
  BY OnlyDecider DEF Alone

\* The queue is as Scan finds it until Hand is done with it.
LEMMA SteadyStep ==
    ASSUME OneLoopOnly, Alone, Steady, Typed, NEW r \in Runs, Coroutine(r)
    PROVE  Steady'
  <1>1. \A q \in Runs \ {r} : pc[q] \notin Deciding /\ pc'[q] \notin Deciding
    BY OnlyDecider
  <1>2. /\ pc \in [Runs -> PCs] /\ goal[r] \in Goals /\ pick \in [Runs -> SUBSET Runs]
    BY DEF Typed, TypeOK
  <1>3. torn' = {}
    <2>1. ASSUME Tear, pc[r] # "scanning" PROVE torn' = {}
      BY <1>1, <2>1 DEF Tear, Steady, Deciding, Passing
    <2>2. CASE \/ Queue(r) \/ ResumeAcquire(r) \/ CancelWaiting(r) \/ CancelWoken(r)
      BY <2>1, <2>2 DEF Queue, ResumeAcquire, CancelWaiting, CancelWoken, LeaveQueue,
                        Steady, semaphore, passing
    <2>3. CASE \/ Enter(r) \/ TakePermit(r) \/ SpawnOk(r) \/ Kill(r) \/ Scan(r)
               \/ Hand(r) \/ SpawnFail(r) \/ Collect(r) \/ Overdue(r) \/ Reap(r)
               \/ CancelHolding(r)
      BY <2>3 DEF Enter, TakePermit, SpawnOk, Kill, Scan, Hand, SpawnFail, Collect,
                  Overdue, Reap, CancelHolding, Finish, Passed, Steady, semaphore, passing
    <2> QED
      BY <2>2, <2>3 DEF Coroutine
  <1>4. ASSUME NEW p \in Runs, pc'[p] = "handing", NEW q \in pick'[p]
        PROVE  IsNext(q)'
    <2>1. p = r
      BY <1>1, <1>4 DEF Deciding, Passing
    <2>2. Scan(r)
      <3>1. pc'[r] = "handing" /\ goal[r] # "handing"
        BY <1>2, <1>4, <2>1 DEF Goals, Outcomes
      <3>2. pc[r] = "scanning"
        BY <1>2, <3>1, CoroutineMoves, PlacesDiffer DEF Typed, Bound
      <3> QED
        BY <3>2 DEF Coroutine, Enter, Queue, TakePermit, ResumeAcquire, Hand, SpawnOk,
                    SpawnFail, Collect, Kill, Overdue, Reap, CancelWaiting, CancelWoken,
                    CancelHolding, Holding
    <2>3. /\ pc' = [pc EXCEPT ![r] = "handing"] /\ pc[r] = "scanning"
          /\ waiters' = waiters /\ cancelReq' = cancelReq /\ IsNext(q)
      <3>1. goal[r] # "handing"
        BY <1>2 DEF Goals, Outcomes
      <3> QED
        BY <1>2, <1>4, <2>1, <2>2, <3>1 DEF Scan, Goto, Passed
    <2>4. \A x \in Runs : Sleeping(x)' <=> Sleeping(x)
      BY <1>2, <2>3 DEF Sleeping
    <2>5. \A i \in 1 .. Len(waiters) : waiters[i] \in Runs
      BY ElementOfSeq DEF Typed, TypeOK
    <2>6. PICK i \in 1 .. Len(waiters) :
              /\ waiters[i] = q /\ Sleeping(q)
              /\ \A j \in 1 .. i - 1 : ~Sleeping(waiters[j])
      BY <2>3 DEF IsNext
    <2>7. \A j \in 1 .. i - 1 : j \in 1 .. Len(waiters) /\ ~Sleeping(waiters[j])'
      <3>1. Len(waiters) \in Nat
        BY LenProperties DEF Typed, TypeOK
      <3>2. \A j \in 1 .. i - 1 : j \in 1 .. Len(waiters)
        BY <2>6, <3>1
      <3> QED
        BY <2>3, <2>4, <2>5, <2>6, <3>2
    <2>8. Sleeping(q)'
      BY <2>4, <2>5, <2>6
    <2> QED
      BY <2>3, <2>6, <2>7, <2>8 DEF IsNext
  <1> QED
    BY <1>3, <1>4 DEF Steady

LEMMA CoveredStep ==
    ASSUME OneLoopOnly, Alone, Covered, Typed, NEW r \in Runs, Coroutine(r)
    PROVE  Covered'
  <1>1. \A q \in Runs \ {r} : pc'[q] \notin {"entering"} \cup Passing
    BY OnlyDecider DEF Deciding
  <1>2. /\ pc \in [Runs -> PCs] /\ value \in Int /\ value >= 0
        /\ pc[r] \in {"entering"} \cup Passing => value > 0
    BY DEF Typed, TypeOK, Covered
  <1>3. CASE Enter(r)
    BY <1>1, <1>2, <1>3 DEF Enter, Locked, Goto, semaphore, Covered, Passing
  <1>4. CASE ResumeAcquire(r)
    BY <1>1, <1>2, <1>4 DEF ResumeAcquire, PassOn, Goto, Covered, Passing
  <1>5. CASE TakePermit(r) \/ Hand(r)
    <2>1. /\ value' = value - 1 /\ value > 0
          /\ pc'[r] \in {"spawning", "lost"} \/ pc'[r] = goal[r]
      <3>1. CASE TakePermit(r)
        BY <1>2, <3>1 DEF TakePermit, Goto
      <3>2. CASE Hand(r)
        <4>1. ASSUME NEW q \in Runs, Sleeping(q), Wake(r, q) PROVE pc'[r] = goal[r]
          BY <3>2, <4>1 DEF Hand, Wake, Sleeping
        <4> QED
          BY <1>2, <3>2, <4>1 DEF Hand, Goto, Passing, Typed, TypeOK
      <3> QED
        BY <1>5, <3>1, <3>2
    <2>2. goal[r] \notin {"entering"} \cup Passing
      BY PlacesDiffer DEF Typed, TypeOK
    <2> QED
      BY <1>1, <1>2, <2>1, <2>2 DEF Covered, Passing
  <1>6. CASE \/ SpawnFail(r) \/ Collect(r) \/ Overdue(r) \/ Reap(r)
             \/ CancelWoken(r) \/ CancelHolding(r)
    <2>1. \E place \in Outcomes : Release(r, place)
      BY <1>6, Leaves
    <2> QED
      BY <1>2, <2>1 DEF Release, Covered
  <1>7. CASE Scan(r)
    BY <1>1, <1>2, <1>7 DEF Scan, Covered, Passing
  <1>8. CASE Queue(r) \/ SpawnOk(r) \/ Kill(r) \/ CancelWaiting(r)
    BY <1>1, <1>2, <1>8 DEF Queue, SpawnOk, Kill, CancelWaiting, Goto, semaphore, Covered,
                            Passing
  <1> QED
    BY <1>3, <1>4, <1>5, <1>6, <1>7, <1>8 DEF Coroutine

LEMMA UndisturbedStep ==
    ASSUME OneLoopOnly, Typed, Undisturbed, NEW r \in Runs, Coroutine(r)
    PROVE  Undisturbed'
  <1>1. /\ pc \in [Runs -> PCs] /\ cancelReq' = cancelReq /\ drain' = drain
        /\ \A q \in Runs \ {r} :
             pc'[q] = pc[q] \/ (pc[q] = "waiting" /\ pc'[q] = "woken")
    BY CoroutineMoves DEF Typed, TypeOK
  <1>2. bound' = bound \/ bound' = LoopOf[r]
    BY DEF Coroutine, Enter, Queue, TakePermit, ResumeAcquire, Scan, Hand, SpawnOk,
           SpawnFail, Collect, Kill, Overdue, Reap, Finish, CancelWaiting, CancelWoken,
           CancelHolding, semaphore
  <1>3. /\ pc'[r] \notin {"new", "thread"}
        /\ pc'[r] \in {"entering", "queueing"} => r \notin cancelReq
    <2>1. CASE Enter(r)
      BY <1>1, <2>1 DEF Enter, Goto, Undisturbed
    <2>2. CASE Queue(r) \/ TakePermit(r) \/ SpawnOk(r) \/ Kill(r) \/ CancelWaiting(r)
      BY <1>1, <2>2 DEF Queue, TakePermit, SpawnOk, Kill, CancelWaiting, Goto
    <2>3. CASE ResumeAcquire(r)
      BY <1>1, <2>3 DEF ResumeAcquire, PassOn, Goto
    <2>4. CASE Scan(r) \/ Hand(r)
      <3>1. pc[r] \in Passing /\ goal[r] \in Goals \ {"none"}
        BY <2>4 DEF Scan, Hand, Passing, Typed, TypeOK, Bound
      <3>2. pc'[r] \in {"handing", "lost", goal[r]}
        BY <3>1, CoroutineMoves, PlacesDiffer
      <3> QED
        BY <3>1, <3>2, PlacesDiffer
    <2>5. CASE \/ SpawnFail(r) \/ Collect(r) \/ Overdue(r) \/ Reap(r)
               \/ CancelWoken(r) \/ CancelHolding(r)
      <3>1. \E place \in Outcomes : Release(r, place)
        BY <2>5, Leaves
      <3> QED
        BY <1>1, <3>1 DEF Release, PassOn, Goto
    <2> QED
      BY <2>1, <2>2, <2>3, <2>4, <2>5 DEF Coroutine
  <1> QED
    BY <1>1, <1>2, <1>3 DEF Undisturbed, OneLoopOnly

\* Callers, commands and shutdown let whoever decides finish.
LEMMA OthersLoop ==
    ASSUME OneLoopOnly, LoopInv, NEW r \in Runs,
           \/ Start(r) \/ ChildExits(r) \/ CallerCancels(r) \/ Draining(r)
           \/ Shutdown \/ Ending \/ UNCHANGED vars
    PROVE  Alone' /\ Steady' /\ Covered' /\ Undisturbed'
  <1>1. /\ waiters' = waiters /\ bound' = bound /\ value' = value
        /\ goal' = goal /\ pick' = pick /\ torn' = torn
        /\ \A q \in Runs : pc'[q] = pc[q] \/ (pc[q] = "new" /\ pc'[q] = "thread")
        /\ pc \in [Runs -> PCs] /\ drain \in [Runs -> Drains]
        /\ \A i \in 1 .. Len(waiters) : waiters[i] \in Runs
    BY OthersMove, ElementOfSeq DEF LoopInv, Typed, TypeOK
  <1>2. Alone' /\ Covered'
    BY <1>1 DEF LoopInv, Alone, Covered, Deciding, Passing
  <1>3. \/ cancelReq' = cancelReq
        \/ \A q \in Runs : pc[q] \notin Deciding
    <2>1. CASE CallerCancels(r)
      BY <2>1, LoopAlone DEF CallerCancels
    <2>2. CASE BudgetExpires(r)
      <3>1. LoopFree(LoopOf[r])
        BY <2>2 DEF BudgetExpires, LoopInv, Undisturbed
      <3> QED
        BY <3>1, LoopAlone
    <2>3. CASE ~(CallerCancels(r) \/ BudgetExpires(r))
      BY <2>3 DEF Start, ChildExits, Draining, DrainClean, BudgetExpiresLate,
                  DrainCancelled, Shutdown, Ending, ShutdownReturns, ShutdownRaises, vars
    <2> QED
      BY <2>1, <2>2, <2>3
  <1>4. Steady'
    <2>1. CASE \A q \in Runs : pc[q] \notin Deciding
      BY <1>1, <2>1 DEF LoopInv, Steady, Deciding, Passing
    <2>2. CASE cancelReq' = cancelReq
      <3>1. \A q \in Runs : Sleeping(q)' <=> Sleeping(q)
        BY <1>1, <2>2 DEF Sleeping
      <3>2. ASSUME NEW q \in Runs, IsNext(q) PROVE IsNext(q)'
        <4>1. PICK i \in 1 .. Len(waiters) :
                  /\ waiters[i] = q /\ Sleeping(q)
                  /\ \A j \in 1 .. i - 1 : ~Sleeping(waiters[j])
          BY <3>2 DEF IsNext
        <4>2. \A j \in 1 .. i - 1 : j \in 1 .. Len(waiters)
          BY <4>1, LenProperties DEF LoopInv, Typed, TypeOK
        <4>3. Sleeping(q)' /\ \A j \in 1 .. i - 1 : ~Sleeping(waiters[j])'
          BY <1>1, <3>1, <4>1, <4>2
        <4> QED
          BY <1>1, <4>1, <4>3 DEF IsNext
      <3>3. ASSUME NEW p \in Runs, pc'[p] = "handing"
            PROVE  \A q \in pick'[p] : IsNext(q)'
        <4>1. pc[p] = "handing" /\ pick'[p] \subseteq Runs
          BY <1>1, <3>3 DEF LoopInv, Typed, TypeOK
        <4> QED
          BY <1>1, <3>2, <4>1 DEF LoopInv, Steady
      <3> QED
        BY <1>1, <3>3 DEF LoopInv, Steady
    <2> QED
      BY <1>3, <2>1, <2>2
  <1>5. Undisturbed'
    <2>1. CASE Start(r) \/ ChildExits(r) \/ Ending \/ UNCHANGED vars
      <3>1. cancelReq' = cancelReq /\ drain' = drain
        BY <2>1 DEF Start, ChildExits, Ending, ShutdownReturns, ShutdownRaises, vars,
                    draining
      <3> QED
        BY <1>1, <3>1 DEF LoopInv, Undisturbed
    <2>2. CASE CallerCancels(r)
      <3>1. /\ cancelReq' = cancelReq \cup {r} /\ drain' = drain /\ pc' = pc
            /\ pc[r] \notin {"new", "thread"} \cup Deciding
        BY <2>2 DEF CallerCancels, InFlight, LoopFree, draining
      <3> QED
        BY <1>1, <3>1 DEF LoopInv, Undisturbed, Deciding
    <2>3. CASE BudgetExpires(r)
      <3>1. /\ cancelReq' = cancelReq \cup {r} /\ pc' = pc
            /\ drain' = [drain EXCEPT ![r] = "cancelling"]
            /\ drain[r] = "awaiting" /\ LoopFree(ShutdownLoop)
        BY <2>3 DEF BudgetExpires, Drained
      <3>2. pc[r] \notin {"new", "thread"} \cup Deciding
        BY <3>1 DEF LoopInv, Undisturbed, LoopFree
      <3> QED
        BY <1>1, <3>1, <3>2 DEF LoopInv, Undisturbed, Deciding
    <2>4. CASE DrainClean(r) \/ BudgetExpiresLate(r) \/ DrainCancelled(r)
      <3>1. /\ cancelReq' = cancelReq /\ pc' = pc
            /\ \E how \in {"raised", "clean", "interrupted"} :
                 drain' = [drain EXCEPT ![r] = how]
        BY <2>4 DEF DrainClean, BudgetExpiresLate, DrainCancelled, Drained
      <3> QED
        BY <1>1, <3>1 DEF LoopInv, Undisturbed
    <2>5. CASE Shutdown
      <3>1. /\ cancelReq' = cancelReq /\ pc' = pc
            /\ \A q \in Runs : drain'[q] = "awaiting" =>
                 InFlight(q) /\ LoopOf[q] = ShutdownLoop
        BY <2>5 DEF Shutdown
      <3> QED
        BY <1>1, <3>1 DEF LoopInv, Undisturbed, InFlight
    <2> QED
      BY <2>1, <2>2, <2>3, <2>4, <2>5 DEF Draining
  <1> QED
    BY <1>2, <1>4, <1>5

LEMMA LoopStep ==
    ASSUME OneLoopOnly, LoopInv, [Next]_vars
    PROVE  LoopInv'
  <1>1. Typed'
    BY TypeStep DEF LoopInv
  <1>2. ASSUME NEW r \in Runs, Coroutine(r) PROVE LoopInv'
    BY <1>1, <1>2, AloneStep, SteadyStep, CoveredStep, UndisturbedStep DEF LoopInv
  <1>3. ASSUME NEW r \in Runs,
               Start(r) \/ ChildExits(r) \/ CallerCancels(r) \/ Draining(r)
        PROVE  LoopInv'
    BY <1>1, <1>3, OthersLoop DEF LoopInv
  <1>4. CASE Shutdown \/ Ending \/ UNCHANGED vars
    <2>1. CASE Runs = {}
      <3>1. UNCHANGED <<value, waiters, bound, torn>>
        BY <1>4 DEF Shutdown, Ending, ShutdownReturns, ShutdownRaises, semaphore, passing,
                    vars
      <3> QED
        BY <1>1, <2>1, <3>1 DEF LoopInv, Alone, Steady, Covered, Undisturbed
    <2>2. CASE \E r \in Runs : TRUE
      BY <1>1, <1>4, <2>2, OthersLoop DEF LoopInv
    <2> QED
      BY <2>1, <2>2
  <1> QED
    BY <1>2, <1>3, <1>4 DEF Next

LEMMA InitLoop == Init => LoopInv
  <1> SUFFICES ASSUME Init PROVE LoopInv
    OBVIOUS
  <1>1. \A r \in Runs : pc[r] = "new" /\ drain[r] = "none"
    BY DEF Init
  <1>2. value > 0 /\ torn = {} /\ bound = NoLoop /\ cancelReq = {}
    BY RunnerAssumption DEF Init
  <1> QED
    BY <1>1, <1>2, InitTypes, PlacesDiffer
       DEF LoopInv, Typed, TypeOK, Alone, Steady, Covered, Undisturbed

\* Then no thread is ever at fault with another.
LEMMA NothingLost == LoopInv => \A r \in Runs : ~Lossy(r)
  BY DEF LoopInv, Steady, Lossy, IsNext

GateInv == LoopInv /\ PermitsConserved

LEMMA GateStep ==
    ASSUME IsFiniteSet(Runs), OneLoopOnly, GateInv, [Next]_vars
    PROVE  GateInv'
  BY LoopStep, NothingLost, StepKeeps, PermitsAdd DEF GateInv, LoopInv

LEMMA InitGate == IsFiniteSet(Runs) /\ Init => GateInv
  BY InitLoop, InitPermits DEF GateInv

\* On one event loop no permit of the gate is lost or made up, with any number of
\* runs and on every path out of the gate, whatever is cancelled.
THEOREM Conservation ==
    ASSUME IsFiniteSet(Runs), OneLoopOnly PROVE Spec => []PermitsConserved
  <1>1. GateInv => PermitsConserved
    BY DEF GateInv
  <1> QED
    BY <1>1, InitGate, GateStep, PTL DEF Spec

\* AC-8.1 on one event loop: never more than TASKQ_MAX_CONCURRENT runs inside
\* the gate, for any number of runs.
THEOREM Capped ==
    ASSUME IsFiniteSet(Runs), OneLoopOnly PROVE Spec => []CapRespected
  <1>1. GateInv => CapRespected
    BY GrantedFinite, RunnerAssumption
       DEF GateInv, LoopInv, Covered, Typed, TypeOK, PermitsConserved, CapRespected
  <1> QED
    BY <1>1, InitGate, GateStep, PTL DEF Spec

--------------------------------------------------------------------------------
(* No slot stays free beside a waiter, on one loop.                         *)

\* The queue holds everybody who waits or was just woken.
Queued ==
    \A r \in Runs : pc[r] \in {"waiting", "woken"} =>
        \E i \in 1 .. Len(waiters) : waiters[i] = r

\* A run is on its way that will pass a free slot on.
Waking == \E r \in Runs : pc[r] \in {"woken"} \cup Passing

\* A run that decided to queue up saw the semaphore locked, and its loop has let
\* nobody free a slot since.
QueueingSafe == (\E r \in Runs : pc[r] = "queueing") => value <= 0 \/ Waking

IdleInv == LoopInv /\ Queued /\ QueueingSafe /\ NoIdleSlot

LEMMA LeastIndex ==
    ASSUME NEW T \in SUBSET Nat, T # {}
    PROVE  \E x \in T : \A y \in T : x <= y
  <1> DEFINE R == OpToRel(<, Nat)
  <1>1. IsWellFoundedOn(OpToRel(<, Nat), Nat)
    BY NatLessThanWellFounded, Zenon
  <1>2. \A ss \in Nat \X Nat : ss \in R <=> ss[1] < ss[2]
    BY Zenon DEF OpToRel
  <1>3. IsWellFoundedOn(R, Nat)
    BY <1>1
  <1> HIDE DEF R
  <1>4. \E x \in T : \A y \in T : ~(<<y, x>> \in R)
    BY <1>3, WFMin
  <1>5. PICK x \in T : \A y \in T : ~(<<y, x>> \in R)
    BY <1>4
  <1>6. \A y \in T : ~(y < x)
    BY <1>2, <1>5
  <1> QED
    BY <1>6

\* Whoever sleeps, somebody is next.
LEMMA NextExists ==
    ASSUME TypeOK, Queued, NEW q \in Runs, Sleeping(q)
    PROVE  \E p \in Runs : IsNext(p)
  <1> DEFINE T == {i \in 1 .. Len(waiters) : Sleeping(waiters[i])}
  <1>1. /\ Len(waiters) \in Nat
        /\ \A i \in 1 .. Len(waiters) : waiters[i] \in Runs
    BY ElementOfSeq, LenProperties DEF TypeOK
  <1>2. T \in SUBSET Nat /\ T # {}
    BY <1>1 DEF Queued, Sleeping
  <1>3. PICK x \in T : \A y \in T : x <= y
    BY <1>2, LeastIndex
  <1>4. IsNext(waiters[x])
    BY <1>1, <1>3 DEF IsNext
  <1> QED
    BY <1>1, <1>3, <1>4

\* A step that makes no slot free, puts nobody to sleep and resumes nobody.
Calm ==
    /\ value' <= value
    /\ \A q \in Runs : Sleeping(q)' => Sleeping(q)
    /\ Waking => Waking'

LEMMA CalmIdle ==
    ASSUME IdleInv, value' \in Int, Calm PROVE NoIdleSlot'
  BY DEF IdleInv, LoopInv, Typed, TypeOK, NoIdleSlot, Calm, Waking

LEMMA CoroutineIdle ==
    ASSUME IdleInv, NEW r \in Runs, Coroutine(r)
    PROVE  NoIdleSlot'
  <1>1. /\ pc \in [Runs -> PCs] /\ value \in Int /\ value' \in Int
        /\ goal[r] \in Goals /\ Typed
    BY CoroutineTypes DEF IdleInv, LoopInv, Typed, TypeOK
  <1>2. CASE Enter(r) \/ TakePermit(r) \/ SpawnOk(r) \/ Kill(r) \/ CancelWaiting(r)
    <2>1. /\ value' <= value /\ cancelReq' = cancelReq
          /\ pc[r] \notin {"woken"} \cup Passing
          /\ \E place \in PCs \ {"waiting"} : pc' = [pc EXCEPT ![r] = place]
      BY <1>1, <1>2, PlacesDiffer
         DEF Enter, TakePermit, SpawnOk, Kill, CancelWaiting, Goto, semaphore
    <2>2. Calm
      BY <1>1, <2>1 DEF Calm, Sleeping, Waking
    <2> QED
      BY <1>1, <2>2, CalmIdle
  <1>3. CASE Queue(r)
    <2>1. /\ value' = value /\ pc[r] = "queueing"
          /\ \E place \in PCs : pc' = [pc EXCEPT ![r] = place]
      BY <1>3, PlacesDiffer DEF Queue, Goto, semaphore
    <2>2. value <= 0 \/ Waking
      BY <2>1 DEF IdleInv, QueueingSafe
    <2>3. Waking => Waking'
      BY <1>1, <2>1 DEF Waking, Passing
    <2> QED
      BY <1>1, <2>1, <2>2, <2>3 DEF NoIdleSlot, Waking
  <1>4. ASSUME pc'[r] \in {"scanning", "handing"} PROVE NoIdleSlot'
    BY <1>4 DEF NoIdleSlot, Passing
  <1>5. CASE \/ SpawnFail(r) \/ Collect(r) \/ Overdue(r) \/ Reap(r)
             \/ CancelWoken(r) \/ CancelHolding(r)
    <2>1. \E place \in Outcomes : Release(r, place)
      BY <1>5, Leaves
    <2> QED
      BY <1>1, <1>4, <2>1 DEF Release, PassOn, Goto
  <1>6. CASE ResumeAcquire(r)
    <2>1. CASE value <= 0
      BY <1>1, <1>6, <2>1 DEF ResumeAcquire, NoIdleSlot
    <2>2. CASE PassOn(r, "spawning")
      BY <1>1, <1>4, <2>2 DEF PassOn, Goto
    <2> QED
      BY <1>6, <2>1, <2>2 DEF ResumeAcquire
  <1>7. CASE Scan(r)
    <2>1. CASE Goto(r, "handing")
      BY <1>1, <1>4, <2>1 DEF Goto
    <2>2. CASE ~(\E q \in Runs : IsNext(q)) /\ Goto(r, goal[r])
      <3>1. \A q \in Runs : ~Sleeping(q)
        BY <1>1, <2>2, NextExists DEF IdleInv, Typed
      <3>2. \A q \in Runs : ~Sleeping(q)'
        BY <1>1, <1>7, <2>2, <3>1, PlacesDiffer DEF Scan, Goto, Sleeping
      <3> QED
        BY <3>2 DEF NoIdleSlot
    <2>3. r \notin torn
      BY DEF IdleInv, LoopInv, Steady
    <2> QED
      BY <1>7, <2>1, <2>2, <2>3 DEF Scan
  <1>8. CASE Hand(r)
    <2>1. PICK q \in pick[r] : Sleeping(q) /\ Wake(r, q)
      <3>1. \A q \in pick[r] : Sleeping(q)
        BY <1>8 DEF Hand, IdleInv, LoopInv, Steady, IsNext
      <3> QED
        BY <1>8, <3>1 DEF Hand
    <2>2. q \in Runs /\ pc'[q] = "woken"
      BY <1>1, <2>1 DEF Wake, Typed, TypeOK
    <2> QED
      BY <2>2 DEF NoIdleSlot
  <1> QED
    BY <1>2, <1>3, <1>5, <1>6, <1>7, <1>8 DEF Coroutine

\* Coroutine steps by what they do to the queue.
LEMMA QueueTouched ==
    ASSUME Typed, NEW r \in Runs, Coroutine(r)
    PROVE  \/ /\ waiters' = waiters
              /\ pc[r] \notin {"waiting", "woken"} /\ pc'[r] \notin {"waiting", "woken"}
           \/ LeaveQueue(r) /\ pc'[r] \notin {"waiting", "woken"}
           \/ Queue(r) /\ pc[r] = "queueing" /\ waiters' = Append(waiters, r)
                       /\ Goto(r, "waiting")
  <1>1. /\ pc \in [Runs -> PCs] /\ goal[r] \in Goals
        /\ goal[r] \notin {"waiting", "woken"}
    BY PlacesDiffer DEF Typed, TypeOK
  <1>2. CASE Enter(r) \/ Queue(r) \/ TakePermit(r) \/ SpawnOk(r) \/ Kill(r)
    BY <1>1, <1>2 DEF Enter, Queue, TakePermit, SpawnOk, Kill, Goto, semaphore
  <1>3. CASE CancelWaiting(r) \/ ResumeAcquire(r)
    BY <1>1, <1>3 DEF CancelWaiting, ResumeAcquire, PassOn, Goto
  <1>4. CASE Scan(r) \/ Hand(r)
    <2>1. pc[r] \in Passing /\ waiters' = waiters
      BY <1>4 DEF Scan, Hand, Passing
    <2>2. pc'[r] \in {"handing", "lost", goal[r]}
      BY <2>1, CoroutineMoves, PlacesDiffer DEF Typed, Bound
    <2> QED
      BY <1>1, <2>1, <2>2 DEF Passing
  <1>5. CASE \/ SpawnFail(r) \/ Collect(r) \/ Overdue(r) \/ Reap(r)
             \/ CancelWoken(r) \/ CancelHolding(r)
    <2>1. pc'[r] = "scanning"
      BY <1>1, <1>5, Leaves DEF Release, PassOn, Goto
    <2> QED
      BY <1>5, <2>1, Leaves DEF Holding
  <1> QED
    BY <1>2, <1>3, <1>4, <1>5 DEF Coroutine

LEMMA CoroutineQueued ==
    ASSUME Typed, Queued, NEW r \in Runs, Coroutine(r)
    PROVE  Queued'
  <1>1. /\ waiters \in Seq(Runs) /\ pc \in [Runs -> PCs] /\ Len(waiters) \in Nat
        /\ \A q \in Runs \ {r} : pc'[q] \in {"waiting", "woken"} =>
                                 pc[q] \in {"waiting", "woken"}
    BY CoroutineMoves, LenProperties DEF Typed, TypeOK
  <1>2. CASE waiters' = waiters /\ pc'[r] \notin {"waiting", "woken"}
    BY <1>1, <1>2 DEF Queued
  <1>3. CASE LeaveQueue(r) /\ pc'[r] \notin {"waiting", "woken"}
    <2> SUFFICES ASSUME NEW q \in Runs, pc'[q] \in {"waiting", "woken"}
                 PROVE  \E k \in 1 .. Len(waiters') : waiters'[k] = q
      BY DEF Queued
    <2>1. q # r /\ pc[q] \in {"waiting", "woken"}
      BY <1>1, <1>3
    <2>2. PICK i \in 1 .. Len(waiters) : waiters[i] = q
      BY <2>1 DEF Queued
    <2> QED
      BY <1>1, <1>3, <2>1, <2>2, LeaveQueueKeeps
  <1>4. CASE waiters' = Append(waiters, r)
    <2>1. /\ Len(waiters') = Len(waiters) + 1 /\ waiters'[Len(waiters) + 1] = r
          /\ \A i \in 1 .. Len(waiters) : waiters'[i] = waiters[i]
      BY <1>1, <1>4, AppendProperties
    <2> SUFFICES ASSUME NEW q \in Runs, pc'[q] \in {"waiting", "woken"}
                 PROVE  \E k \in 1 .. Len(waiters') : waiters'[k] = q
      BY DEF Queued
    <2>2. CASE q = r
      BY <1>1, <2>1, <2>2
    <2>3. CASE q # r
      <3>1. PICK i \in 1 .. Len(waiters) : waiters[i] = q
        BY <1>1, <2>3 DEF Queued
      <3> QED
        BY <1>1, <2>1, <3>1
    <2> QED
      BY <2>2, <2>3
  <1> QED
    BY <1>2, <1>3, <1>4, QueueTouched

\* Whoever decides to queue up does so beside no free slot, or one that is about
\* to be passed on.
LEMMA CoroutineQueueing ==
    ASSUME OneLoopOnly, IdleInv, NEW r \in Runs, Coroutine(r)
    PROVE  QueueingSafe'
  <1>1. /\ pc \in [Runs -> PCs] /\ value \in Int /\ waiters \in Seq(Runs) /\ Typed
        /\ \A q \in Runs \ {r} : pc'[q] # "queueing"
    BY OnlyDecider DEF IdleInv, LoopInv, Typed, TypeOK, Deciding
  <1>2. CASE pc'[r] # "queueing"
    BY <1>1, <1>2 DEF QueueingSafe
  <1>3. CASE pc'[r] = "queueing"
    <2>1. Enter(r) /\ Locked
      <3>1. goal[r] # "queueing"
        BY PlacesDiffer DEF IdleInv, LoopInv, Typed, TypeOK
      <3>2. ~(Queue(r) \/ TakePermit(r) \/ SpawnOk(r) \/ Kill(r) \/ CancelWaiting(r)
              \/ ResumeAcquire(r))
        BY <1>1, <1>3 DEF Queue, TakePermit, SpawnOk, Kill, CancelWaiting, ResumeAcquire,
                          PassOn, Goto
      <3>3. ~(Scan(r) \/ Hand(r))
        <4>1. pc[r] \notin Passing
          BY <1>1, <1>3, <3>1, CoroutineMoves, PlacesDiffer DEF Typed, Bound
        <4> QED
          BY <4>1 DEF Scan, Hand, Passing
      <3>4. ~(SpawnFail(r) \/ Collect(r) \/ Overdue(r) \/ Reap(r) \/ CancelWoken(r)
              \/ CancelHolding(r))
        <4>1. ASSUME NEW place \in Outcomes, Release(r, place) PROVE FALSE
          BY <1>1, <1>3, <4>1 DEF Release, PassOn, Goto
        <4> QED
          BY <4>1, Leaves
      <3>5. Enter(r)
        BY <3>2, <3>3, <3>4 DEF Coroutine
      <3> QED
        BY <1>1, <1>3, <3>5 DEF Enter, Goto
    <2>2. value <= 0 \/ Waking
      <3>1. ASSUME NEW i \in 1 .. Len(waiters), Sleeping(waiters[i]), value > 0
            PROVE  Waking
        BY <1>1, <3>1, ElementOfSeq DEF IdleInv, NoIdleSlot, Waking
      <3>2. ASSUME NEW i \in 1 .. Len(waiters), pc[waiters[i]] = "woken"
            PROVE  Waking
        BY <1>1, <3>2, ElementOfSeq DEF Waking
      <3> QED
        BY <1>1, <2>1, <3>1, <3>2 DEF Locked
    <2>3. value' = value /\ (Waking => Waking')
      BY <1>1, <2>1 DEF Enter, Goto, semaphore, Waking, Passing
    <2> QED
      BY <2>2, <2>3 DEF QueueingSafe
  <1> QED
    BY <1>2, <1>3

\* Callers, commands and shutdown leave the gate as it is, but for the futures
\* they cancel.
LEMMA OthersIdle ==
    ASSUME IdleInv, NEW r \in Runs,
           \/ Start(r) \/ ChildExits(r) \/ CallerCancels(r) \/ Draining(r)
           \/ Shutdown \/ Ending \/ UNCHANGED vars
    PROVE  Queued' /\ QueueingSafe' /\ NoIdleSlot'
  <1>1. /\ value' = value /\ waiters' = waiters /\ value \in Int
        /\ \A q \in Runs : q \in cancelReq => q \in cancelReq'
        /\ \A q \in Runs : pc'[q] = pc[q] \/ (pc[q] = "new" /\ pc'[q] = "thread")
    BY OthersMove DEF IdleInv, LoopInv, Typed, TypeOK
  <1>2. Calm
    BY <1>1 DEF Calm, Sleeping, Waking, Passing
  <1>3. NoIdleSlot'
    BY <1>1, <1>2, CalmIdle
  <1> QED
    BY <1>1, <1>2, <1>3 DEF IdleInv, Queued, QueueingSafe, Calm

LEMMA IdleStep ==
    ASSUME OneLoopOnly, IdleInv, [Next]_vars
    PROVE  IdleInv'
  <1>1. LoopInv'
    BY LoopStep DEF IdleInv
  <1>2. ASSUME NEW r \in Runs, Coroutine(r) PROVE IdleInv'
    BY <1>1, <1>2, CoroutineIdle, CoroutineQueued, CoroutineQueueing DEF IdleInv, LoopInv
  <1>3. ASSUME NEW r \in Runs,
               Start(r) \/ ChildExits(r) \/ CallerCancels(r) \/ Draining(r)
        PROVE  IdleInv'
    BY <1>1, <1>3, OthersIdle DEF IdleInv
  <1>4. CASE Shutdown \/ Ending \/ UNCHANGED vars
    <2>1. CASE Runs = {}
      BY <1>1, <2>1 DEF IdleInv, Queued, QueueingSafe, NoIdleSlot
    <2>2. CASE \E r \in Runs : TRUE
      BY <1>1, <1>4, <2>2, OthersIdle DEF IdleInv
    <2> QED
      BY <2>1, <2>2
  <1> QED
    BY <1>2, <1>3, <1>4 DEF Next

LEMMA InitIdle == Init => IdleInv
  BY InitLoop DEF Init, IdleInv, Queued, QueueingSafe, NoIdleSlot, Sleeping

\* On one event loop, with any number of runs, a permit is never left beside a
\* run that waits for one, unless a run on its way will pass it on.
THEOREM SlotsUsed ==
    ASSUME OneLoopOnly PROVE Spec => []NoIdleSlot
  <1>1. IdleInv => NoIdleSlot
    BY DEF IdleInv
  <1> QED
    BY <1>1, InitIdle, IdleStep, PTL DEF Spec

--------------------------------------------------------------------------------
(* What a run leaves behind, and what a shutdown has seen.                  *)

Ended == {"none", "exited", "reaped"}

\* How far a run, its process and its row are from each other.
Follows(r) ==
    /\ pc[r] \in {"new", "thread", "waiting", "woken", "entering", "queueing", "spawning"}
         => child[r] = "none"
    /\ pc[r] = "running" => child[r] \in {"alive", "exited"}
    /\ pc[r] = "reaping" => child[r] = "killed"
    /\ pc[r] \in Passing =>
         \/ goal[r] = "spawning" /\ child[r] = "none"
         \/ goal[r] = "cancelled" /\ r \in cancelReq
         \/ goal[r] \in {"done", "lost"} /\ child[r] \in Ended
    /\ pc[r] = "done" => child[r] \in Ended
    /\ pc[r] = "lost" => child[r] \in Ended \/ r \in cancelReq
    /\ result[r] # "none" =>
         /\ child[r] \in Ended
         /\ pc[r] \in {"done", "lost", "crashed"} \/ (pc[r] \in Passing /\ goal[r] = "done")

ProcessInv == Typed /\ \A r \in Runs : Follows(r)

LEMMA CoroutineFollows ==
    ASSUME ProcessInv, NEW r \in Runs, Coroutine(r)
    PROVE  \A q \in Runs : Follows(q)'
  <1>1. /\ Typed /\ \A q \in Runs : Follows(q)
        /\ pc[r] \in PCs /\ goal[r] \in Goals /\ result[r] \in Results
        /\ child[r] \in Children
    BY DEF ProcessInv, Typed, TypeOK
  <1>2. ASSUME NEW q \in Runs \ {r} PROVE Follows(q)'
    <2>1. /\ pc'[q] = pc[q] \/ (pc[q] = "waiting" /\ pc'[q] = "woken")
          /\ child'[q] = child[q] /\ goal'[q] = goal[q] /\ result'[q] = result[q]
          /\ cancelReq' = cancelReq /\ Follows(q)
      BY <1>1, CoroutineMoves
    <2> QED
      BY <2>1 DEF Follows, Passing
  <1>3. Follows(r)'
    <2>1. cancelReq' = cancelReq /\ Follows(r)
      BY <1>1, CoroutineMoves
    <2>2. CASE /\ pc[r] \in {"thread", "entering", "queueing", "woken"}
               /\ \/ pc'[r] \in {"queueing", "waiting", "dropped", "entering", "spawning"}
                  \/ pc'[r] = "scanning" /\ goal'[r] = "spawning"
               /\ UNCHANGED <<child, result>>
      BY <2>1, <2>2 DEF Follows, Passing, Ended
    <2>3. CASE /\ \/ pc[r] = "spawning" /\ pc'[r] = "running" /\ child'[r] = "alive"
                  \/ pc[r] = "running" /\ pc'[r] = "reaping" /\ child'[r] = "killed"
               /\ UNCHANGED result
      BY <2>1, <2>3 DEF Follows, Passing, Ended
    <2>4. CASE /\ pc[r] \in Holding /\ pc'[r] = "scanning"
               /\ \/ pc[r] = "spawning" /\ child'[r] = child[r]
                  \/ /\ pc[r] = "running" /\ child[r] = "exited"
                     /\ child'[r] = child[r]
                  \/ pc[r] = "reaping" /\ child'[r] = "reaped"
               /\ goal'[r] = "done" \/ (goal'[r] = "lost" /\ UNCHANGED result)
      BY <2>1, <2>4 DEF Follows, Passing, Ended, Holding
    <2>5. CASE /\ r \in cancelReq /\ pc[r] \in Holding \cup {"woken", "waiting"}
               /\ pc'[r] = "cancelled" \/ (pc'[r] = "scanning" /\ goal'[r] = "cancelled")
               /\ UNCHANGED <<child, result>>
      BY <2>1, <2>5 DEF Follows, Passing, Ended, Holding
    <2>6. CASE /\ pc[r] = "scanning" /\ pc'[r] = "handing" /\ goal'[r] = goal[r]
               /\ UNCHANGED <<child, result>>
      BY <2>1, <2>6 DEF Follows, Passing, Ended
    <2>7. CASE /\ pc[r] \in Passing /\ pc'[r] \in {goal[r], "lost"}
               /\ UNCHANGED <<child, result>>
      BY <2>1, <2>7 DEF Follows, Passing, Ended
    <2> QED
      BY <1>1, <2>2, <2>3, <2>4, <2>5, <2>6, <2>7, CoroutineMoves
  <1> QED
    BY <1>2, <1>3

LEMMA ProcessStep == ProcessInv /\ [Next]_vars => ProcessInv'
  <1> SUFFICES ASSUME ProcessInv, [Next]_vars PROVE ProcessInv'
    OBVIOUS
  <1>1. Typed' /\ child \in [Runs -> Children]
    BY TypeStep DEF ProcessInv, Typed, TypeOK
  <1>2. ASSUME NEW r \in Runs, Coroutine(r) PROVE \A q \in Runs : Follows(q)'
    BY <1>2, CoroutineFollows
  <1>3. ASSUME NEW r \in Runs,
               Start(r) \/ ChildExits(r) \/ CallerCancels(r) \/ Draining(r)
        PROVE  \A q \in Runs : Follows(q)'
    <2>1. /\ goal' = goal /\ result' = result
          /\ \A q \in Runs : q \in cancelReq => q \in cancelReq'
          /\ \A q \in Runs : pc'[q] = pc[q] \/ (pc[q] = "new" /\ pc'[q] = "thread")
      BY <1>3, OthersMove DEF ProcessInv
    <2>2. \A q \in Runs : child'[q] = child[q] \/ (child[q] = "alive" /\ child'[q] = "exited")
      BY <1>1, <1>3 DEF Start, ChildExits, CallerCancels, Draining, DrainClean,
                        BudgetExpires, BudgetExpiresLate, DrainCancelled, Drained
    <2>3. ASSUME NEW q \in Runs PROVE Follows(q)'
      <3>1. Follows(q)
        BY DEF ProcessInv
      <3> QED
        BY <2>1, <2>2, <3>1 DEF Follows, Passing, Ended
    <2> QED
      BY <2>3
  <1>4. ASSUME Shutdown \/ Ending \/ UNCHANGED vars PROVE \A q \in Runs : Follows(q)'
    <2>1. UNCHANGED <<pc, child, goal, result, cancelReq>>
      BY <1>4 DEF Shutdown, Ending, ShutdownReturns, ShutdownRaises, semaphore, passing,
                  vars
    <2>2. ASSUME NEW q \in Runs PROVE Follows(q)'
      <3>1. Follows(q)
        BY DEF ProcessInv
      <3> QED
        BY <2>1, <3>1 DEF Follows
    <2> QED
      BY <2>2
  <1> QED
    BY <1>1, <1>2, <1>3, <1>4 DEF Next, ProcessInv

LEMMA InitProcess == Init => ProcessInv
  BY InitTypes DEF Init, ProcessInv, Follows, Passing, Ended

\* A run that ended by itself, and one with a row, have no process left, whatever
\* the loops and the order of exits, timeouts and cancellations (AC-8.3).
THEOREM ProcessesReaped == Spec => []NoProcessLeft
  <1>1. ProcessInv => NoProcessLeft
    BY DEF ProcessInv, Follows, NoProcessLeft, Ended
  <1> QED
    BY <1>1, InitProcess, ProcessStep, PTL DEF Spec

\* Every run on the loop that shutdown() is awaited on.
SharedLoop == \A r \in Runs : LoopOf[r] = ShutdownLoop

\* A drain that is over has seen its run end, and calls it clean only if it was
\* not cancelled.
DrainTruthful ==
    \A r \in Runs :
        /\ drain[r] = "clean" => pc[r] \in Terminal \ {"cancelled"}
        /\ drain[r] = "interrupted" => pc[r] \in Terminal
        /\ shut = "off" => drain[r] = "none"
        /\ shut = "returned" => drain[r] \in {"none", "clean", "interrupted"}

DrainInv == Typed /\ DrainTruthful

LEMMA EndIsFinal ==
    ASSUME Typed, [Next]_vars, NEW q \in Runs, pc[q] \in Terminal
    PROVE  pc'[q] = pc[q]
  <1>1. ASSUME NEW r \in Runs, Coroutine(r) PROVE pc'[q] = pc[q]
    BY <1>1, CoroutineMoves, PlacesDiffer
  <1>2. ASSUME NEW r \in Runs,
               Start(r) \/ ChildExits(r) \/ CallerCancels(r) \/ Draining(r)
        PROVE  pc'[q] = pc[q]
    BY <1>2, OthersMove, PlacesDiffer
  <1>3. CASE Shutdown \/ Ending \/ UNCHANGED vars
    BY <1>3 DEF Shutdown, Ending, ShutdownReturns, ShutdownRaises, vars
  <1> QED
    BY <1>1, <1>2, <1>3 DEF Next

LEMMA DrainStep ==
    ASSUME SharedLoop, DrainInv, [Next]_vars
    PROVE  DrainInv'
  <1>1. /\ Typed' /\ pc \in [Runs -> PCs] /\ drain \in [Runs -> Drains]
        /\ \A q \in Runs : pc[q] \in Terminal => pc'[q] = pc[q]
    BY TypeStep, EndIsFinal DEF DrainInv, Typed, TypeOK
  <1>2. CASE UNCHANGED <<drain, shut>>
    BY <1>1, <1>2 DEF DrainInv, DrainTruthful
  <1>3. ASSUME NEW r \in Runs, Draining(r) PROVE DrainTruthful'
    <2>1. /\ drain[r] \in {"awaiting", "cancelling"} /\ shut' = shut /\ pc' = pc
          /\ \/ /\ drain' = [drain EXCEPT ![r] = "clean"]
                /\ pc[r] \in Terminal \ {"cancelled"}
             \/ drain' = [drain EXCEPT ![r] = "interrupted"] /\ pc[r] \in Terminal
             \/ drain' = [drain EXCEPT ![r] = "cancelling"]
             \/ drain' = [drain EXCEPT ![r] = "raised"]
      BY <1>3 DEF Draining, DrainClean, BudgetExpires, BudgetExpiresLate,
                  DrainCancelled, Drained
    <2>2. shut # "off" /\ shut # "returned"
      BY <2>1 DEF DrainInv, DrainTruthful
    <2> QED
      BY <1>1, <2>1, <2>2 DEF DrainInv, DrainTruthful
  <1>4. CASE Shutdown
    <2>1. \A r \in Runs : drain'[r] \in {"none", "awaiting"}
      BY <1>4 DEF Shutdown, SharedLoop
    <2>2. shut' = "draining"
      BY <1>4 DEF Shutdown
    <2> QED
      BY <1>1, <2>1, <2>2 DEF DrainInv, DrainTruthful
  <1>5. CASE Ending
    BY <1>1, <1>5 DEF Ending, ShutdownReturns, ShutdownRaises, DrainInv, DrainTruthful
  <1>6. ASSUME NEW r \in Runs,
               Start(r) \/ Coroutine(r) \/ ChildExits(r) \/ CallerCancels(r)
        PROVE  UNCHANGED <<drain, shut>>
    BY <1>6, CoroutineMoves DEF DrainInv, Start, ChildExits, CallerCancels, draining
  <1>7. CASE UNCHANGED vars
    BY <1>2, <1>7 DEF vars, draining
  <1> QED
    BY <1>1, <1>2, <1>3, <1>4, <1>5, <1>6, <1>7 DEF Next, DrainInv

\* When shutdown() returns on the loop of its runs, they have ended, and those cut
\* short are in its list (AC-8.2).
THEOREM ShutdownTruthful ==
    ASSUME SharedLoop PROVE Spec => []DrainComplete
  <1>1. Init => DrainInv
    BY InitTypes DEF Init, DrainInv, DrainTruthful
  <1>2. DrainInv => DrainComplete
    BY DEF DrainInv, DrainTruthful, DrainComplete
  <1> QED
    BY <1>1, <1>2, DrainStep, PTL DEF Spec


--------------------------------------------------------------------------------
(* The queue is first in, first out, on one loop.                           *)

\* The queue holds only runs that wait or were just woken, each once.
InOrder ==
    /\ \A i \in 1 .. Len(waiters) : pc[waiters[i]] \in {"waiting", "woken"}
    /\ \A i, j \in 1 .. Len(waiters) : waiters[i] = waiters[j] => i = j

\* A run that leaves the queue leaves the others in their order.
LEMMA LeaveQueueOrder ==
    ASSUME waiters \in Seq(Runs), InOrder, NEW r \in Runs, LeaveQueue(r)
    PROVE  /\ \A k \in 1 .. Len(waiters') :
                /\ waiters'[k] # r
                /\ \E i \in 1 .. Len(waiters) : waiters'[k] = waiters[i]
           /\ \A k, l \in 1 .. Len(waiters') : waiters'[k] = waiters'[l] => k = l
           /\ \A p, q \in Runs \ {r} : Precedes(q, p)' <=> Precedes(q, p)
  <1>1. PICK i \in 1 .. Len(waiters) : waiters[i] = r /\ waiters' = RemoveAt(waiters, i)
    BY DEF LeaveQueue
  <1>2. /\ Len(waiters) \in Nat /\ i \in Int /\ 1 <= i /\ i <= Len(waiters)
        /\ Len(waiters') = Len(waiters) - 1
        /\ \A k \in 1 .. Len(waiters) - 1 :
             waiters'[k] = IF k < i THEN waiters[k] ELSE waiters[k + 1]
        /\ \A k, l \in 1 .. Len(waiters) : waiters[k] = waiters[l] => k = l
    <2>1. Len(waiters) \in Nat
      BY LenProperties
    <2>2. /\ Len(RemoveAt(waiters, i)) = Len(waiters) - 1
          /\ \A k \in 1 .. Len(waiters) - 1 :
               RemoveAt(waiters, i)[k]
                 = IF k < i THEN waiters[k] ELSE waiters[k + 1]
      BY RemoveAtIs
    <2> QED
      BY <1>1, <2>1, <2>2 DEF InOrder
  <1>3. ASSUME NEW k \in 1 .. Len(waiters')
        PROVE  \E j \in 1 .. Len(waiters) :
                 waiters'[k] = waiters[j] /\ j # i /\ j = IF k < i THEN k ELSE k + 1
    BY <1>2
  <1>4. \A k \in 1 .. Len(waiters') :
            /\ waiters'[k] # r
            /\ \E j \in 1 .. Len(waiters) : waiters'[k] = waiters[j]
    <2> SUFFICES ASSUME NEW k \in 1 .. Len(waiters')
                 PROVE  /\ waiters'[k] # r
                        /\ \E j \in 1 .. Len(waiters) : waiters'[k] = waiters[j]
      OBVIOUS
    <2>1. PICK j \in 1 .. Len(waiters) : waiters'[k] = waiters[j] /\ j # i
      BY <1>3
    <2> QED
      BY <1>1, <1>2, <2>1
  <1>5. ASSUME NEW k \in 1 .. Len(waiters'), NEW l \in 1 .. Len(waiters'),
               waiters'[k] = waiters'[l]
        PROVE  k = l
    BY <1>2, <1>3, <1>5
  <1>6. ASSUME NEW p \in Runs \ {r}, NEW q \in Runs \ {r}, Precedes(q, p)
        PROVE  Precedes(q, p)'
    <2>1. PICK j \in 1 .. Len(waiters) :
              waiters[j] = p /\ \E h \in 1 .. j - 1 : waiters[h] = q
      BY <1>6 DEF Precedes
    <2>2. PICK h \in 1 .. j - 1 : waiters[h] = q
      BY <2>1
    <2>3. j # i /\ h # i /\ h < j /\ h \in 1 .. Len(waiters)
      BY <1>1, <1>2, <2>1, <2>2
    <2> DEFINE k == IF j < i THEN j ELSE j - 1
               l == IF h < i THEN h ELSE h - 1
    <2>4. k \in 1 .. Len(waiters') /\ waiters'[k] = p
      BY <1>2, <2>1, <2>3
    <2>5. l \in 1 .. Len(waiters') /\ waiters'[l] = q
      BY <1>2, <2>2, <2>3
    <2>6. l \in 1 .. k - 1
      BY <1>2, <2>3, <2>4, <2>5
    <2> QED
      BY <2>4, <2>5, <2>6 DEF Precedes
  <1>7. ASSUME NEW p \in Runs \ {r}, NEW q \in Runs \ {r}, Precedes(q, p)'
        PROVE  Precedes(q, p)
    <2>1. PICK k \in 1 .. Len(waiters') :
              waiters'[k] = p /\ \E l \in 1 .. k - 1 : waiters'[l] = q
      BY <1>7 DEF Precedes
    <2>2. PICK l \in 1 .. k - 1 : waiters'[l] = q
      BY <2>1
    <2>3. l \in 1 .. Len(waiters') /\ l < k
      BY <1>2, <2>1, <2>2
    <2>4. PICK j \in 1 .. Len(waiters) :
              waiters[j] = p /\ j = IF k < i THEN k ELSE k + 1
      BY <1>3, <2>1
    <2>5. PICK h \in 1 .. Len(waiters) :
              waiters[h] = q /\ h = IF l < i THEN l ELSE l + 1
      BY <1>3, <2>2, <2>3
    <2>6. h \in 1 .. j - 1
      BY <1>2, <2>3, <2>4, <2>5
    <2> QED
      BY <2>4, <2>5, <2>6 DEF Precedes
  <1> QED
    BY <1>4, <1>5, <1>6, <1>7

\* A run that joins the queue joins it at its end.
LEMMA AppendOrder ==
    ASSUME waiters \in Seq(Runs), NEW r \in Runs,
           \A i \in 1 .. Len(waiters) : waiters[i] # r,
           waiters' = Append(waiters, r)
    PROVE  /\ Len(waiters) \in Nat /\ Len(waiters') = Len(waiters) + 1
           /\ waiters'[Len(waiters) + 1] = r
           /\ \A i \in 1 .. Len(waiters) : waiters'[i] = waiters[i]
           /\ \A p, q \in Runs : p # r => (Precedes(q, p)' <=> Precedes(q, p))
           /\ \A q \in Runs :
                Precedes(q, r)' <=> \E i \in 1 .. Len(waiters) : waiters[i] = q
  <1>1. /\ Len(waiters) \in Nat /\ Len(waiters') = Len(waiters) + 1
        /\ waiters'[Len(waiters) + 1] = r
        /\ \A i \in 1 .. Len(waiters) : waiters'[i] = waiters[i]
    BY AppendProperties, LenProperties
  <1>2. ASSUME NEW p \in Runs, NEW q \in Runs, p # r
        PROVE  Precedes(q, p)' <=> Precedes(q, p)
    BY <1>1, <1>2 DEF Precedes
  <1>3. ASSUME NEW q \in Runs
        PROVE  Precedes(q, r)' <=> \E i \in 1 .. Len(waiters) : waiters[i] = q
    BY <1>1 DEF Precedes
  <1> QED
    BY <1>1, <1>2, <1>3

LEMMA CoroutineOrder ==
    ASSUME Typed, InOrder, NEW r \in Runs, Coroutine(r)
    PROVE  InOrder'
  <1>1. /\ waiters \in Seq(Runs) /\ pc \in [Runs -> PCs]
        /\ \A i \in 1 .. Len(waiters) : waiters[i] \in Runs
    BY ElementOfSeq DEF Typed, TypeOK
  <1>2. \A q \in Runs \ {r} : pc[q] \in {"waiting", "woken"} =>
                              pc'[q] \in {"waiting", "woken"}
    BY CoroutineMoves
  <1>3. CASE waiters' = waiters /\ pc[r] \notin {"waiting", "woken"}
    BY <1>1, <1>2, <1>3 DEF InOrder
  <1>4. CASE LeaveQueue(r)
    <2>1. \A k \in 1 .. Len(waiters') : pc'[waiters'[k]] \in {"waiting", "woken"}
      <3> SUFFICES ASSUME NEW k \in 1 .. Len(waiters')
                   PROVE  pc'[waiters'[k]] \in {"waiting", "woken"}
        OBVIOUS
      <3>1. PICK i \in 1 .. Len(waiters) : waiters'[k] = waiters[i] /\ waiters[i] # r
        BY <1>1, <1>4, LeaveQueueOrder
      <3> QED
        BY <1>1, <1>2, <3>1 DEF InOrder
    <2> QED
      BY <1>1, <1>4, <2>1, LeaveQueueOrder DEF InOrder
  <1>5. CASE /\ pc[r] = "queueing" /\ waiters' = Append(waiters, r)
             /\ Goto(r, "waiting")
    <2>1. \A i \in 1 .. Len(waiters) : waiters[i] # r
      BY <1>5 DEF InOrder
    <2>2. /\ Len(waiters) \in Nat /\ Len(waiters') = Len(waiters) + 1
          /\ waiters'[Len(waiters) + 1] = r
          /\ \A i \in 1 .. Len(waiters) : waiters'[i] = waiters[i]
      BY <1>1, <1>5, <2>1, AppendOrder
    <2>3. pc'[r] = "waiting"
      BY <1>1, <1>5 DEF Goto
    <2>4. \A i \in 1 .. Len(waiters') : i = Len(waiters) + 1 \/ i \in 1 .. Len(waiters)
      BY <2>2
    <2>5. ASSUME NEW i \in 1 .. Len(waiters')
          PROVE  pc'[waiters'[i]] \in {"waiting", "woken"}
      BY <1>1, <1>2, <2>1, <2>2, <2>3, <2>4 DEF InOrder
    <2>6. ASSUME NEW i \in 1 .. Len(waiters'), NEW j \in 1 .. Len(waiters'),
                 waiters'[i] = waiters'[j]
          PROVE  i = j
      BY <2>1, <2>2, <2>4, <2>6 DEF InOrder
    <2> QED
      BY <2>5, <2>6 DEF InOrder
  <1> QED
    BY <1>3, <1>4, <1>5, QueueTouched

--------------------------------------------------------------------------------
(* Every step of the gate is a step of the pool, or none.                   *)

FifoInv == IdleInv /\ PermitsConserved /\ InOrder

\* A step that changes nobody's place among those that still wait.
OrderKept ==
    \A p, q \in Runs :
        Sleeping(p)' /\ Sleeping(q)' => (Precedes(q, p)' <=> Precedes(q, p))

LEMMA PhaseIs ==
    ASSUME NEW r \in Runs
    PROVE  /\ Phase(r) = "idle" <=> pc[r] \in {"new", "thread", "queueing"}
           /\ Phase(r) = "queued" <=> Sleeping(r)
           /\ Phase(r) = "executing" <=> pc[r] = "entering" \/ HasPermit(r)
           /\ Phase(r) \in {"idle", "queued", "executing", "ended"}
  BY DEF Phase, Sleeping, HasPermit, Holding, Passing

LEMMA NextPhaseIs ==
    ASSUME NEW r \in Runs
    PROVE  /\ Phase(r)' = "idle" <=> pc'[r] \in {"new", "thread", "queueing"}
           /\ Phase(r)' = "queued" <=> Sleeping(r)'
           /\ Phase(r)' = "executing" <=> pc'[r] = "entering" \/ HasPermit(r)'
           /\ Phase(r)' \in {"idle", "queued", "executing", "ended"}
  BY DEF Phase, Sleeping, HasPermit, Holding, Passing

LEMMA SamePhase ==
    ASSUME NEW r \in Runs, pc'[r] = pc[r], goal'[r] = goal[r],
           Sleeping(r)' <=> Sleeping(r)
    PROVE  Phase(r)' = Phase(r)
  BY DEF Phase, HasPermit

LEMMA LineKept ==
    ASSUME OrderKept, \A q \in Runs : Sleeping(q)' <=> Sleeping(q)
    PROVE  \A q \in Runs : Ahead(q)' = Ahead(q)
  BY DEF OrderKept, Ahead

LEMMA LineLoses ==
    ASSUME OrderKept, NEW x \in Runs,
           \A q \in Runs : Sleeping(q)' <=> Sleeping(q) /\ q # x
    PROVE  Pool!Dequeue(x)
  <1>1. ASSUME NEW r \in Runs
        PROVE  Ahead(r)' = IF r = x THEN {} ELSE Ahead(r) \ {x}
    BY DEF OrderKept, Ahead
  <1> QED
    BY <1>1 DEF Pool!Dequeue

\* A step of the runner that the pool does not see.
LEMMA Unseen ==
    ASSUME OrderKept,
           \A q \in Runs : Phase(q)' = Phase(q) /\ (Sleeping(q)' <=> Sleeping(q))
    PROVE  UNCHANGED Pool!vars
  <1>1. \A q \in Runs : Ahead(q)' = Ahead(q)
    BY LineKept
  <1> QED
    BY <1>1 DEF Pool!vars

\* The waiter that _wake_up_next() finds is the first of the queue.
LEMMA NextIsFirst ==
    ASSUME TypeOK, InOrder, NEW q \in Runs, IsNext(q)
    PROVE  Pool!First(q)
  <1>1. PICK i \in 1 .. Len(waiters) :
            /\ waiters[i] = q /\ Sleeping(q)
            /\ \A j \in 1 .. i - 1 : ~Sleeping(waiters[j])
    BY DEF IsNext
  <1>2. \A p \in Runs : ~(Sleeping(p) /\ Precedes(p, q))
    <2> SUFFICES ASSUME NEW p \in Runs, Sleeping(p), Precedes(p, q) PROVE FALSE
      OBVIOUS
    <2>1. PICK j \in 1 .. Len(waiters) :
              waiters[j] = q /\ \E h \in 1 .. j - 1 : waiters[h] = p
      BY DEF Precedes
    <2>2. j = i
      BY <1>1, <2>1 DEF InOrder
    <2> QED
      BY <1>1, <2>1, <2>2
  <1>3. Ahead(q) = {}
    BY <1>2 DEF Ahead
  <1>4. Phase(q) = "queued"
    BY <1>1, PhaseIs
  <1> QED
    BY <1>3, <1>4 DEF Pool!First

\* While nobody stands between test and decrement, the counter counts the free
\* slots.
LEMMA SlotFree ==
    ASSUME IsFiniteSet(Runs), FifoInv, value > 0,
           \A q \in Runs : pc[q] # "entering"
    PROVE  Pool!Free
  <1>1. Pool!Executing = Granted
    BY PhaseIs DEF Pool!Executing, Granted
  <1>2. value + Cardinality(Granted) = Cap /\ value \in Int
    BY DEF FifoInv, IdleInv, LoopInv, Typed, TypeOK, PermitsConserved
  <1>3. Cardinality(Granted) < Cap
    BY <1>2, GrantedFinite
  <1>4. Pool!Cardinality(Granted) = Cardinality(Granted)
    BY DEF Pool!Cardinality, Cardinality
  <1> QED
    BY <1>1, <1>3, <1>4 DEF Pool!Free

\* How the queue's order survives a coroutine's step that adds nobody.
LEMMA OrderSurvives ==
    ASSUME TypeOK, InOrder, NEW r \in Runs,
           waiters' = waiters \/ LeaveQueue(r), ~Sleeping(r)'
    PROVE  OrderKept
  <1>1. CASE waiters' = waiters
    BY <1>1 DEF OrderKept, Precedes
  <1>2. CASE LeaveQueue(r)
    BY <1>2, LeaveQueueOrder DEF OrderKept, TypeOK
  <1> QED
    BY <1>1, <1>2

\* One run moves and nobody else does.
LEMMA GotoSeen ==
    ASSUME TypeOK, InOrder, NEW r \in Runs, NEW place \in PCs, ~Sleeping(r),
           place # "waiting", Goto(r, place), cancelReq' = cancelReq,
           \A q \in Runs \ {r} : goal'[q] = goal[q],
           waiters' = waiters \/ LeaveQueue(r)
    PROVE  /\ pc'[r] = place /\ \A p \in Runs \ {r} : Phase(p)' = Phase(p)
           /\ \A q \in Runs : Sleeping(q)' <=> Sleeping(q)
           /\ \A q \in Runs : Ahead(q)' = Ahead(q)
           /\ OrderKept
  <1>1. pc'[r] = place /\ \A p \in Runs \ {r} : pc'[p] = pc[p]
    BY DEF Goto, TypeOK
  <1>2. \A q \in Runs : Sleeping(q)' <=> Sleeping(q)
    BY <1>1 DEF Sleeping
  <1>3. \A p \in Runs \ {r} : Phase(p)' = Phase(p)
    BY <1>1, <1>2, SamePhase
  <1>4. OrderKept
    BY <1>2, OrderSurvives
  <1> QED
    BY <1>1, <1>2, <1>3, <1>4, LineKept

\* A run that gives its permit back leaves the pool.
LEMMA LeavingSeen ==
    ASSUME Typed, InOrder, NEW r \in Runs,
           \/ SpawnFail(r) \/ Collect(r) \/ Overdue(r) \/ Reap(r)
           \/ CancelWoken(r) \/ CancelHolding(r)
    PROVE  Pool!Leave(r)
  <1>1. PICK place \in Outcomes : Release(r, place)
    BY Leaves
  <1>2. /\ TypeOK /\ pc[r] \in Holding \cup {"woken"} /\ cancelReq' = cancelReq
        /\ waiters' = waiters \/ LeaveQueue(r)
        /\ Goto(r, "scanning") /\ goal'[r] = place /\ "scanning" \in PCs
        /\ \A q \in Runs \ {r} : goal'[q] = goal[q]
    BY <1>1, Leaves, PlacesDiffer DEF Release, PassOn, Typed, TypeOK
  <1>3. Phase(r) = "executing" /\ ~Sleeping(r)
    BY <1>2, PhaseIs DEF Sleeping, HasPermit, Holding
  <1>4. /\ pc'[r] = "scanning" /\ \A p \in Runs \ {r} : Phase(p)' = Phase(p)
        /\ \A q \in Runs : Ahead(q)' = Ahead(q)
        /\ \A q \in Runs : Sleeping(q)' <=> Sleeping(q)
    BY <1>2, <1>3, GotoSeen
  <1>5. Phase(r)' = "ended"
    BY <1>2, <1>3, <1>4, NextPhaseIs DEF HasPermit, Holding, Outcomes
  <1> QED
    BY <1>3, <1>4, <1>5 DEF Pool!Leave

LEMMA EnterSeen ==
    ASSUME IsFiniteSet(Runs), OneLoopOnly, FifoInv, NEW r \in Runs, Enter(r)
    PROVE  UNCHANGED Pool!vars \/ Pool!Arrive(r)
  <1>1. /\ pc[r] = "thread" /\ waiters' = waiters /\ cancelReq' = cancelReq
        /\ goal' = goal /\ \A q \in Runs : pc[q] # "entering"
        /\ TypeOK /\ InOrder /\ Queued /\ value \in Int /\ value >= 0
    BY LoopAlone DEF Enter, semaphore, passing, FifoInv, IdleInv, LoopInv, Covered, Typed,
                     TypeOK, Deciding
  <1>2. ~Sleeping(r) /\ Phase(r) = "idle"
    BY <1>1, PhaseIs DEF Sleeping
  <1>3. CASE Locked
    <2>1. Goto(r, "queueing") /\ "queueing" \in PCs
      BY <1>3, PlacesDiffer DEF Enter
    <2>2. /\ pc'[r] = "queueing" /\ \A p \in Runs \ {r} : Phase(p)' = Phase(p)
          /\ \A q \in Runs : Sleeping(q)' <=> Sleeping(q)
          /\ OrderKept
      BY <1>1, <1>2, <2>1, GotoSeen
    <2>3. Phase(r)' = "idle"
      BY <2>2, NextPhaseIs
    <2> QED
      BY <1>2, <2>2, <2>3, Unseen
  <1>4. CASE ~Locked
    <2>1. Goto(r, "entering") /\ "entering" \in PCs
      BY <1>4, PlacesDiffer DEF Enter
    <2>2. /\ pc'[r] = "entering" /\ \A p \in Runs \ {r} : Phase(p)' = Phase(p)
          /\ \A q \in Runs : Ahead(q)' = Ahead(q)
      BY <1>1, <1>2, <2>1, GotoSeen
    <2>3. Phase(r)' = "executing"
      BY <2>2, NextPhaseIs
    <2>4. value > 0
      BY <1>1, <1>4 DEF Locked
    <2>5. \A q \in Runs : Phase(q) # "queued"
      BY <1>1, <1>4, PhaseIs DEF Locked, Queued, Sleeping
    <2>6. Pool!Free /\ Pool!Queued = {}
      BY <1>1, <2>4, <2>5, SlotFree DEF Pool!Queued
    <2> QED
      BY <1>2, <2>2, <2>3, <2>6 DEF Pool!Arrive
  <1> QED
    BY <1>3, <1>4

LEMMA QueueSeen ==
    ASSUME OneLoopOnly, FifoInv, NEW r \in Runs, Queue(r)
    PROVE  Pool!Arrive(r)
  <1>1. /\ pc[r] = "queueing" /\ cancelReq' = cancelReq /\ pc \in [Runs -> PCs]
        /\ InOrder /\ Queued /\ waiters \in Seq(Runs) /\ r \notin cancelReq
    BY DEF Queue, FifoInv, IdleInv, LoopInv, Undisturbed, Typed, TypeOK
  <1>2. Goto(r, "waiting") /\ waiters' = Append(waiters, r) /\ goal' = goal
    BY DEF Queue, FifoInv, IdleInv, LoopInv, Undisturbed
  <1>3. Phase(r) = "idle" /\ ~Sleeping(r)
    BY <1>1, PhaseIs DEF Sleeping
  <1>4. pc'[r] = "waiting" /\ \A p \in Runs \ {r} : pc'[p] = pc[p]
    BY <1>1, <1>2 DEF Goto
  <1>5. \A q \in Runs : Sleeping(q)' <=> Sleeping(q) \/ q = r
    BY <1>1, <1>3, <1>4 DEF Sleeping
  <1>6. \A i \in 1 .. Len(waiters) : waiters[i] # r
    BY <1>1 DEF InOrder
  <1>7. /\ \A p, q \in Runs : p # r => (Precedes(q, p)' <=> Precedes(q, p))
        /\ \A q \in Runs :
             Precedes(q, r)' <=> \E i \in 1 .. Len(waiters) : waiters[i] = q
    BY <1>1, <1>2, <1>6, AppendOrder
  <1>8. Ahead(r)' = {q \in Runs : Sleeping(q)}
    <2>1. \A q \in Runs : Sleeping(q) => Precedes(q, r)'
      BY <1>1, <1>7 DEF Queued, Sleeping
    <2>2. ~Precedes(r, r)'
      BY <1>6, <1>7
    <2> QED
      BY <1>5, <2>1, <2>2 DEF Ahead
  <1>9. ASSUME NEW p \in Runs \ {r} PROVE Ahead(p)' = Ahead(p)
    <2>1. ~Precedes(r, p)
      BY <1>1, <1>6, LenProperties DEF Precedes
    <2> QED
      BY <1>5, <1>7, <2>1 DEF Ahead
  <1>10. Phase(r)' = "queued" /\ \A p \in Runs \ {r} : Phase(p)' = Phase(p)
    BY <1>2, <1>4, <1>5, NextPhaseIs, SamePhase
  <1>11. Pool!Queued = {q \in Runs : Sleeping(q)}
    BY PhaseIs DEF Pool!Queued
  <1> QED
    BY <1>3, <1>8, <1>9, <1>10, <1>11 DEF Pool!Arrive

\* The pool does not see how a run with a permit, or one on its way out, gets on.
LEMMA PlainSeen ==
    ASSUME FifoInv, NEW r \in Runs,
           \/ TakePermit(r) \/ ResumeAcquire(r) \/ SpawnOk(r) \/ Kill(r)
           \/ CancelWaiting(r) \/ Scan(r)
    PROVE  UNCHANGED Pool!vars
  <1>1. /\ Typed /\ TypeOK /\ InOrder /\ pc \in [Runs -> PCs] /\ torn = {}
        /\ goal \in [Runs -> Goals]
    BY DEF FifoInv, IdleInv, LoopInv, Steady, Typed, TypeOK
  <1>2. /\ ~Sleeping(r) /\ cancelReq' = cancelReq
        /\ waiters' = waiters \/ LeaveQueue(r)
        /\ \A q \in Runs \ {r} : goal'[q] = goal[q]
    BY <1>1 DEF TakePermit, ResumeAcquire, SpawnOk, Kill, CancelWaiting, Scan, PassOn,
                Passed, Sleeping, semaphore, passing
  <1>3. PICK place \in PCs :
            /\ Goto(r, place) /\ place # "waiting"
            /\ pc'[r] = place => Phase(r)' = Phase(r)
    <2>1. CASE TakePermit(r) \/ SpawnOk(r) \/ Kill(r)
      <3>1. /\ pc[r] \in Holding \cup {"entering"}
            /\ \E place \in Holding : Goto(r, place)
        BY <2>1 DEF TakePermit, SpawnOk, Kill, Holding
      <3> QED
        BY <3>1, PhaseIs, NextPhaseIs, PlacesDiffer DEF HasPermit
    <2>2. CASE ResumeAcquire(r)
      <3>1. /\ pc[r] = "woken"
            /\ \/ Goto(r, "spawning")
               \/ Goto(r, "scanning") /\ goal'[r] = "spawning"
        BY <1>1, <2>2 DEF ResumeAcquire, PassOn
      <3>2. Phase(r) = "executing"
        BY <3>1, PhaseIs DEF HasPermit
      <3>3. CASE Goto(r, "spawning")
        BY <3>2, <3>3, NextPhaseIs, PlacesDiffer DEF HasPermit
      <3>4. CASE Goto(r, "scanning") /\ goal'[r] = "spawning"
        BY <3>2, <3>4, NextPhaseIs, PlacesDiffer DEF HasPermit
      <3> QED
        BY <3>1, <3>3, <3>4
    <2>3. CASE CancelWaiting(r)
      <3>1. pc[r] = "waiting" /\ r \in cancelReq /\ Goto(r, "cancelled")
        BY <2>3 DEF CancelWaiting
      <3>2. Phase(r) = "ended"
        BY <3>1 DEF Phase, Sleeping, HasPermit, Holding, Passing
      <3>3. pc'[r] = "cancelled" => Phase(r)' = "ended"
        BY DEF Phase, Sleeping, HasPermit, Holding, Passing
      <3> QED
        BY <3>1, <3>2, <3>3, PlacesDiffer
    <2>4. CASE Scan(r)
      <3>1. /\ pc[r] = "scanning" /\ goal[r] \in {"spawning"} \cup Outcomes
            /\ \/ Goto(r, "handing") /\ goal'[r] = goal[r]
               \/ Goto(r, goal[r])
        BY <1>1, <2>4, PlacesDiffer DEF Scan, Typed, Bound
      <3>2. Phase(r) = IF goal[r] = "spawning" THEN "executing" ELSE "ended"
        BY <3>1, PhaseIs DEF HasPermit, Holding, Passing, Sleeping
      <3>3. CASE Goto(r, "handing") /\ goal'[r] = goal[r]
        <4>1. pc'[r] = "handing" => Phase(r)' = Phase(r)
          BY <3>1, <3>2, <3>3, NextPhaseIs DEF HasPermit, Holding, Passing, Sleeping
        <4> QED
          BY <3>3, <4>1, PlacesDiffer
      <3>4. CASE Goto(r, goal[r])
        <4>1. pc'[r] = goal[r] => Phase(r)' = Phase(r)
          BY <3>1, <3>2, NextPhaseIs DEF HasPermit, Holding, Passing, Sleeping, Outcomes
        <4> QED
          BY <3>1, <3>4, <4>1, PlacesDiffer
      <3> QED
        BY <3>1, <3>3, <3>4
    <2> QED
      BY <2>1, <2>2, <2>3, <2>4
  <1>4. /\ pc'[r] = place /\ \A p \in Runs \ {r} : Phase(p)' = Phase(p)
        /\ \A q \in Runs : Sleeping(q)' <=> Sleeping(q)
        /\ OrderKept
    BY <1>1, <1>2, <1>3, GotoSeen
  <1> QED
    BY <1>3, <1>4, Unseen

\* The waiter that is woken gets its slot.
LEMMA HandSeen ==
    ASSUME IsFiniteSet(Runs), FifoInv, NEW r \in Runs, Hand(r)
    PROVE  \E q \in Runs : Pool!Grant(q)
  <1>1. /\ Typed /\ TypeOK /\ InOrder /\ pc \in [Runs -> PCs] /\ pc[r] = "handing"
        /\ goal[r] \in {"spawning"} \cup Outcomes /\ pick[r] \subseteq Runs
        /\ waiters' = waiters /\ cancelReq' = cancelReq
        /\ \A q \in Runs \ {r} : goal'[q] = goal[q]
    BY PlacesDiffer
       DEF FifoInv, IdleInv, LoopInv, Hand, Passed, Typed, TypeOK, Bound
  <1>2. PICK q \in Runs : IsNext(q) /\ Sleeping(q) /\ Wake(r, q)
    <2>1. \A q \in pick[r] : IsNext(q)
      BY <1>1 DEF FifoInv, IdleInv, LoopInv, Steady
    <2>2. \A q \in pick[r] : Sleeping(q)
      BY <2>1 DEF IsNext
    <2> QED
      BY <1>1, <2>1, <2>2 DEF Hand
  <1>3. /\ q # r /\ pc'[q] = "woken" /\ pc'[r] = goal[r]
        /\ \A p \in Runs \ {q, r} : pc'[p] = pc[p]
    BY <1>1, <1>2 DEF Sleeping, Wake
  <1>4. \A p \in Runs : Sleeping(p)' <=> Sleeping(p) /\ p # q
    BY <1>1, <1>2, <1>3 DEF Sleeping, Outcomes
  <1>5. OrderKept
    BY <1>1 DEF OrderKept, Precedes
  <1>6. Pool!First(q) /\ Pool!Dequeue(q)
    BY <1>1, <1>2, <1>4, <1>5, NextIsFirst, LineLoses
  <1>7. Phase(q)' = "executing"
    BY <1>3, NextPhaseIs DEF HasPermit
  <1>8. Phase(r)' = Phase(r)
    BY <1>1, <1>3, PhaseIs, NextPhaseIs DEF HasPermit, Holding, Passing, Sleeping, Outcomes
  <1>9. \A p \in Runs \ {q} : Phase(p)' = Phase(p)
    BY <1>1, <1>3, <1>4, <1>8, SamePhase
  <1>10. Pool!Free
    <2>1. value > 0 /\ \A p \in Runs : pc[p] # "entering"
      BY <1>1 DEF FifoInv, IdleInv, LoopInv, Covered, Alone, Deciding, Passing
    <2> QED
      BY <2>1, SlotFree
  <1>11. [p \in Runs |-> Phase(p)]' = [[p \in Runs |-> Phase(p)] EXCEPT ![q] = "executing"]
    BY <1>7, <1>9
  <1> QED
    BY <1>6, <1>10, <1>11 DEF Pool!Grant

LEMMA CoroutineSeen ==
    ASSUME IsFiniteSet(Runs), OneLoopOnly, FifoInv, NEW r \in Runs, Coroutine(r)
    PROVE  Pool!Next \/ UNCHANGED Pool!vars
  <1>1. Typed /\ InOrder
    BY DEF FifoInv, IdleInv, LoopInv
  <1> QED
    BY <1>1, EnterSeen, QueueSeen, PlainSeen, HandSeen, LeavingSeen
       DEF Coroutine, Pool!Next

\* Cancelling a run that sleeps takes it out of the pool's queue; any other
\* cancellation shows only when the run acts on it.
LEMMA CancelSeen ==
    ASSUME NEW r \in Runs, cancelReq' = cancelReq \cup {r}, pc' = pc, goal' = goal,
           waiters' = waiters
    PROVE  Pool!Withdraw(r) \/ UNCHANGED Pool!vars
  <1>1. \A q \in Runs : Sleeping(q)' <=> Sleeping(q) /\ q # r
    BY DEF Sleeping
  <1>2. OrderKept
    BY DEF OrderKept, Precedes
  <1>3. \A q \in Runs \ {r} : Phase(q)' = Phase(q)
    BY <1>1, SamePhase
  <1>4. CASE Sleeping(r)
    <2>1. Phase(r) = "queued" /\ Phase(r)' = "ended"
      BY <1>4, PhaseIs DEF Phase, Sleeping, HasPermit, Holding, Passing
    <2>2. Pool!Dequeue(r)
      BY <1>1, <1>2, LineLoses
    <2> QED
      BY <1>3, <2>1, <2>2 DEF Pool!Withdraw
  <1>5. CASE ~Sleeping(r)
    <2>1. \A q \in Runs : Phase(q)' = Phase(q) /\ (Sleeping(q)' <=> Sleeping(q))
      BY <1>1, <1>3, <1>5, SamePhase
    <2> QED
      BY <1>2, <2>1, Unseen
  <1> QED
    BY <1>4, <1>5

LEMMA OthersSeen ==
    ASSUME Typed, NEW r \in Runs,
           \/ Start(r) \/ ChildExits(r) \/ CallerCancels(r) \/ Draining(r)
           \/ Shutdown \/ Ending \/ UNCHANGED vars
    PROVE  Pool!Next \/ UNCHANGED Pool!vars
  <1>1. CASE CallerCancels(r) \/ BudgetExpires(r)
    <2>1. /\ cancelReq' = cancelReq \cup {r} /\ pc' = pc /\ goal' = goal
          /\ waiters' = waiters
      BY <1>1 DEF CallerCancels, BudgetExpires, Drained, semaphore, passing
    <2> QED
      BY <2>1, CancelSeen DEF Pool!Next
  <1>2. CASE ~(CallerCancels(r) \/ BudgetExpires(r))
    <2>1. /\ cancelReq' = cancelReq /\ waiters' = waiters /\ goal' = goal
          /\ \A q \in Runs :
               pc'[q] = pc[q] \/ (pc[q] = "new" /\ pc'[q] = "thread")
      <3>1. cancelReq' = cancelReq
        BY <1>2 DEF Start, ChildExits, Draining, DrainClean, BudgetExpiresLate,
                    DrainCancelled, Shutdown, Ending, ShutdownReturns, ShutdownRaises,
                    vars
      <3> QED
        BY <3>1, OthersMove
    <2>2. \A q \in Runs : Sleeping(q)' <=> Sleeping(q)
      BY <2>1 DEF Sleeping
    <2>3. \A q \in Runs : Phase(q)' = Phase(q)
      BY <2>1, <2>2 DEF Phase, HasPermit
    <2>4. OrderKept
      BY <2>1 DEF OrderKept, Precedes
    <2> QED
      BY <2>2, <2>3, <2>4, Unseen
  <1> QED
    BY <1>1, <1>2

LEMMA FifoStep ==
    ASSUME IsFiniteSet(Runs), OneLoopOnly, FifoInv, [Next]_vars
    PROVE  FifoInv' /\ [Pool!Next]_Pool!vars
  <1>1. IdleInv' /\ PermitsConserved' /\ Typed
    BY IdleStep, GateStep DEF FifoInv, IdleInv, GateInv, LoopInv
  <1>2. ASSUME NEW r \in Runs, Coroutine(r)
        PROVE  FifoInv' /\ [Pool!Next]_Pool!vars
    BY <1>1, <1>2, CoroutineOrder, CoroutineSeen DEF FifoInv
  <1>3. ASSUME NEW r \in Runs,
               \/ Start(r) \/ ChildExits(r) \/ CallerCancels(r) \/ Draining(r)
               \/ Shutdown \/ Ending \/ UNCHANGED vars
        PROVE  FifoInv' /\ [Pool!Next]_Pool!vars
    <2>1. InOrder'
      <3>1. /\ waiters' = waiters /\ \A i \in 1 .. Len(waiters) : waiters[i] \in Runs
            /\ \A q \in Runs : pc'[q] = pc[q] \/ pc[q] = "new"
        BY <1>1, <1>3, OthersMove, ElementOfSeq DEF Typed, TypeOK
      <3> QED
        BY <3>1 DEF FifoInv, InOrder
    <2> QED
      BY <1>1, <1>3, <2>1, OthersSeen DEF FifoInv
  <1>4. CASE Shutdown \/ Ending \/ UNCHANGED vars
    <2>1. CASE Runs = {}
      <3>1. UNCHANGED Pool!vars
        BY <2>1 DEF Pool!vars
      <3>2. waiters' = waiters
        BY <1>4 DEF Shutdown, Ending, ShutdownReturns, ShutdownRaises, semaphore, vars
      <3>3. InOrder'
        BY <1>1, <2>1, <3>2, ElementOfSeq DEF Typed, TypeOK, FifoInv, InOrder
      <3> QED
        BY <1>1, <3>1, <3>3 DEF FifoInv
    <2>2. CASE \E r \in Runs : TRUE
      BY <1>3, <1>4, <2>2
    <2> QED
      BY <2>1, <2>2
  <1> QED
    BY <1>2, <1>3, <1>4 DEF Next

\* On one event loop the gate is a bounded first-in-first-out pool (FR-08,
\* AC-8.1), for any number of runs and any capacity: no newcomer overtakes a run
\* that waits, whatever is cancelled and whatever happens at a release.
THEOREM GateIsPool ==
    ASSUME IsFiniteSet(Runs), OneLoopOnly PROVE Spec => RefinesPool
  <1>1. Init => FifoInv
    BY InitIdle, InitPermits DEF Init, FifoInv, InOrder
  <1>2. Init => Pool!Init
    <2> SUFFICES ASSUME Init PROVE Pool!Init
      OBVIOUS
    <2>1. \A r \in Runs : Phase(r) = "idle" /\ Ahead(r) = {}
      BY PhaseIs DEF Init, Ahead, Sleeping
    <2> QED
      BY <2>1 DEF Pool!Init
  <1>3. FifoInv /\ [Next]_vars => FifoInv' /\ [Pool!Next]_Pool!vars
    BY FifoStep
  <1> QED
    BY <1>1, <1>2, <1>3, PTL DEF Spec, RefinesPool, Pool!Spec
================================================================================
