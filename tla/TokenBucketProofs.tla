--------------------------- MODULE TokenBucketProofs ---------------------------
(***************************************************************************)
(* With row locks, the workers of TokenBucket implement AtomicBucket, for   *)
(* any number of workers and keys; the promises proved of AtomicBucket then *)
(* hold of the table the workers share.                                    *)
(*                                                                         *)
(* The invariant says what the two waits buy: the row lock makes what a     *)
(* transaction read stay current, and the primary key makes an uncommitted  *)
(* INSERT the only one of its key.                                         *)
(***************************************************************************)
EXTENDS TokenBucket, TLAPS

\* Stamps are read from the clock, so none is ahead of it.
StampsPast == \A w \in Workers : now[w] <= clock

\* Rows a transaction has read under lock exist, and are locked by one only.
LockedRows ==
    \A w \in Workers :
        pc[w] = "present" =>
            /\ key[w] \in rows
            /\ \A v \in Workers \ {w} : pc[v] = "present" => key[v] # key[w]

\* A key has at most one uncommitted INSERT, and no committed row beside it.
InsertedRows ==
    \A w \in Workers :
        pc[w] = "inserted" =>
            /\ key[w] \notin rows
            /\ \A v \in Workers \ {w} : pc[v] = "inserted" => key[v] # key[w]

IInv ==
    /\ TypeOK
    /\ StampsPast
    /\ LockedRows
    /\ InsertedRows
    /\ ReadStaysCurrent

--------------------------------------------------------------------------------

LEMMA ArithTypes ==
    /\ Cost \in Nat /\ Burst \in Nat /\ Rate \in Nat /\ TicksPerSec \in Nat
    /\ \A n \in Nat : FullRow(n) \in Row
    /\ \A row \in Row, n \in Nat : Advanced(row, n) \in Row
    /\ \A row \in Row : Debited(row) \in Row
    /\ \A row \in Row : ~Affordable(row) => RetryAfter(row) \in Nat
  <1>1. Cost \in Nat /\ Burst \in Nat /\ Rate \in Nat \ {0}
        /\ TicksPerSec \in Nat \ {0}
    BY BucketAssumption
  <1>2. ASSUME NEW n \in Nat PROVE FullRow(n) \in Row
    BY <1>1 DEF FullRow, Row
  <1>3. ASSUME NEW row \in Row, NEW n \in Nat PROVE Advanced(row, n) \in Row
    <2>1. LevelAt(row, n) \in Int
      BY <1>1 DEF LevelAt, Row
    <2> QED
      BY <1>1, <2>1 DEF Advanced, Refilled, Row
  <1>4. ASSUME NEW row \in Row PROVE Debited(row) \in Row
    <2>1. CASE Affordable(row)
      BY <1>1, <2>1 DEF Debited, Row
    <2>2. CASE ~Affordable(row)
      BY <2>2 DEF Debited
    <2> QED
      BY <2>1, <2>2
  <1>5. ASSUME NEW row \in Row, ~Affordable(row) PROVE RetryAfter(row) \in Nat
    <2>1. UnitsPerSec \in Nat \ {0}
      BY <1>1 DEF UnitsPerSec
    <2>2. row.tokens \in Int
      BY DEF Row
    <2>3. (Cost - row.tokens + UnitsPerSec - 1) \div UnitsPerSec \in Int
      BY <1>1, <2>1, <2>2
    <2> QED
      BY <2>3 DEF RetryAfter
  <1> QED
    BY <1>1, <1>2, <1>3, <1>4, <1>5

\* Both specifications compute with the same arithmetic.
LEMMA SameArith ==
    /\ Atomic!Row = Row
    /\ \A n : Atomic!FullRow(n) = FullRow(n)
    /\ \A row, n : Atomic!Advanced(row, n) = Advanced(row, n)
    /\ \A row : /\ Atomic!Debited(row) = Debited(row)
                /\ Atomic!Affordable(row) = Affordable(row)
                /\ Atomic!RetryAfter(row) = RetryAfter(row)
  BY DEF Row, FullRow, Advanced, Refilled, LevelAt, Debited, Affordable,
         RetryAfter, UnitsPerSec, Atomic!Row, Atomic!FullRow, Atomic!Advanced,
         Atomic!Refilled, Atomic!LevelAt, Atomic!Debited, Atomic!Affordable,
         Atomic!RetryAfter, Atomic!UnitsPerSec

\* The row a transaction is about to write is the one the atomic bucket would
\* find due at this instant: nothing changed since it was read.
LEMMA DueAtCommit ==
    ASSUME RowLock, IInv, NEW w \in Workers, pc[w] \in {"present", "inserted"}
    PROVE  /\ DueRow(w) = Atomic!DueRow(key[w], now[w])
           /\ DueRow(w) \in Row
  <1>1. key[w] \in Keys /\ now[w] \in Nat /\ bucket[key[w]] \in Row
    BY DEF IInv, TypeOK
  <1>2. CASE pc[w] = "present"
    <2>1. key[w] \in rows /\ seen[w] = bucket[key[w]]
      BY <1>2 DEF IInv, LockedRows, ReadStaysCurrent
    <2> QED
      BY <1>1, <1>2, <2>1, ArithTypes, SameArith
         DEF DueRow, Atomic!DueRow
  <1>3. CASE pc[w] = "inserted"
    <2>1. key[w] \notin rows
      BY <1>3 DEF IInv, InsertedRows
    <2> QED
      BY <1>1, <1>3, <2>1, ArithTypes, SameArith
         DEF DueRow, Atomic!DueRow
  <1> QED
    BY <1>2, <1>3

--------------------------------------------------------------------------------
(* The invariant.                                                           *)

LEMMA InitInv == Init => IInv
  <1> SUFFICES ASSUME Init PROVE IInv
    OBVIOUS
  <1>1. \A w \in Workers : pc[w] = "idle"
    BY DEF Init
  <1>2. TypeOK /\ StampsPast
    BY ArithTypes DEF Init, TypeOK, StampsPast, PCs, Answers
  <1> QED
    BY <1>1, <1>2 DEF IInv, LockedRows, InsertedRows, ReadStaysCurrent

\* Stamping, failing and answering without a write move one worker out of the
\* transaction or into its start: no lock is taken.
LEMMA StampInv ==
    ASSUME IInv, NEW w \in Workers, NEW k \in Keys, Stamp(w, k)
    PROVE  IInv'
  <1> USE DEF IInv, Stamp, Goto, table, history
  <1>1. TypeOK'
    BY DEF TypeOK, PCs
  <1>2. StampsPast'
    BY DEF StampsPast, TypeOK
  <1>3. LockedRows' /\ InsertedRows' /\ ReadStaysCurrent'
    BY DEF LockedRows, InsertedRows, ReadStaysCurrent, TypeOK
  <1> QED
    BY <1>1, <1>2, <1>3

LEMMA LeaveInv ==
    ASSUME IInv, NEW w \in Workers, InsertConflict(w) \/ Abort(w)
    PROVE  IInv'
  <1>1. /\ pc' = [pc EXCEPT ![w] = "idle"]
        /\ now' = [now EXCEPT ![w] = 0]
        /\ seen' = [seen EXCEPT ![w] = FullRow(0)]
        /\ answer' \in [Workers -> Answers]
        /\ UNCHANGED <<clock, table, key, history>>
    BY DEF InsertConflict, Abort, Answer, Goto, IInv, TypeOK, Answers
  <1>2. TypeOK'
    BY <1>1, ArithTypes DEF IInv, TypeOK, PCs, table, history
  <1>3. StampsPast'
    BY <1>1 DEF IInv, StampsPast, TypeOK
  <1>4. LockedRows' /\ InsertedRows' /\ ReadStaysCurrent'
    BY <1>1 DEF IInv, LockedRows, InsertedRows, ReadStaysCurrent, TypeOK, table
  <1> QED
    BY <1>2, <1>3, <1>4 DEF IInv

\* The SELECT locks a row nobody else has locked, and reads what is committed.
LEMMA SelectInv ==
    ASSUME RowLock, IInv, NEW w \in Workers, SelectRow(w)
    PROVE  IInv'
  <1> USE DEF IInv
  <1>1. UNCHANGED <<clock, table, key, now, answer, history>>
    BY DEF SelectRow
  <1>2. CASE key[w] \in rows
    <2>1. /\ ~RowLocked(w, key[w])
          /\ seen' = [seen EXCEPT ![w] = bucket[key[w]]]
          /\ pc' = [pc EXCEPT ![w] = "present"]
      BY <1>2 DEF SelectRow, Goto
    <2>2. TypeOK' /\ StampsPast'
      BY <1>1, <2>1 DEF TypeOK, StampsPast, PCs, table, history
    <2>3. LockedRows'
      BY <1>1, <1>2, <2>1 DEF LockedRows, RowLocked, TypeOK, table
    <2>4. InsertedRows' /\ ReadStaysCurrent'
      BY <1>1, <1>2, <2>1 DEF InsertedRows, ReadStaysCurrent, TypeOK, table
    <2> QED
      BY <2>2, <2>3, <2>4
  <1>3. CASE key[w] \notin rows
    <2>1. pc' = [pc EXCEPT ![w] = "absent"] /\ seen' = seen
      BY <1>3 DEF SelectRow, Goto
    <2>2. TypeOK' /\ StampsPast'
      BY <1>1, <2>1 DEF TypeOK, StampsPast, PCs, table, history
    <2>3. LockedRows' /\ InsertedRows' /\ ReadStaysCurrent'
      BY <1>1, <2>1 DEF LockedRows, InsertedRows, ReadStaysCurrent, TypeOK, table
    <2> QED
      BY <2>2, <2>3
  <1> QED
    BY <1>2, <1>3

\* The INSERT goes ahead only beside no other uncommitted one of its key.
LEMMA InsertInv ==
    ASSUME IInv, NEW w \in Workers, InsertRow(w)
    PROVE  IInv'
  <1> USE DEF IInv
  <1>1. /\ UNCHANGED <<clock, table, key, now, seen, answer, history>>
        /\ pc' = [pc EXCEPT ![w] = "inserted"]
        /\ key[w] \notin rows /\ ~WriteBlocked(w, key[w])
    BY DEF InsertRow, Goto
  <1>2. TypeOK' /\ StampsPast'
    BY <1>1 DEF TypeOK, StampsPast, PCs, table, history
  <1>3. InsertedRows'
    BY <1>1 DEF InsertedRows, WriteBlocked, TypeOK, table
  <1>4. LockedRows' /\ ReadStaysCurrent'
    BY <1>1 DEF LockedRows, ReadStaysCurrent, TypeOK, table
  <1> QED
    BY <1>2, <1>3, <1>4

\* A commit writes a row that no other transaction has read or inserted.
LEMMA CommitInv ==
    ASSUME RowLock, IInv, NEW w \in Workers, Commit(w)
    PROVE  IInv'
  <1> DEFINE k == key[w]
             due == DueRow(w)
  <1>1. /\ pc[w] \in {"present", "inserted"}
        /\ k \in Keys /\ due \in Row /\ now[w] \in Nat
    BY DueAtCommit DEF Commit, IInv, TypeOK
  <1>2. /\ rows' = rows \cup {k}
        /\ bucket' = [bucket EXCEPT ![k] = Debited(due)]
        /\ pc' = [pc EXCEPT ![w] = "idle"]
        /\ now' = [now EXCEPT ![w] = 0]
        /\ seen' = [seen EXCEPT ![w] = FullRow(0)]
        /\ UNCHANGED <<clock, key>>
    BY DEF Commit, Answer, Goto
  <1>3. /\ admitted' \in [Keys -> Nat]
        /\ answer' \in [Workers -> Answers]
        /\ promised' \subseteq rows \cup {k}
        /\ retryAt' \in [Keys -> Nat]
    <2>0. /\ admitted \in [Keys -> Nat] /\ answer \in [Workers -> Answers]
          /\ promised \subseteq rows /\ retryAt \in [Keys -> Nat]
      BY DEF IInv, TypeOK
    <2>1. CASE Affordable(due)
      <3>1. /\ admitted' = IF now[w] \in WinStart .. WinEnd
                             THEN [admitted EXCEPT ![k] = @ + 1] ELSE admitted
            /\ answer' = [answer EXCEPT ![w] = "admitted"]
            /\ promised' = promised \ {k}
            /\ retryAt' = retryAt
        BY <2>1 DEF Commit, Answer
      <3>2. admitted[k] + 1 \in Nat
        BY <1>1, <2>0
      <3> HIDE DEF k, due
      <3> QED
        BY <1>1, <2>0, <3>1, <3>2 DEF Answers
    <2>2. CASE ~Affordable(due)
      <3>1. /\ admitted' = admitted
            /\ answer' = [answer EXCEPT ![w] = "rejected"]
            /\ promised' = promised \cup {k}
            /\ retryAt' = [retryAt EXCEPT
                             ![k] = now[w] + RetryAfter(due) * TicksPerSec]
        BY <2>2 DEF Commit, Answer
      <3> DEFINE ra == RetryAfter(due)
      <3>2. ra \in Nat /\ TicksPerSec \in Nat
        BY <1>1, <2>2, ArithTypes
      <3> HIDE DEF k, due, ra
      <3>3. now[w] + ra * TicksPerSec \in Nat
        BY <1>1, <3>2
      <3> QED
        BY <1>1, <2>0, <3>1, <3>3 DEF Answers, ra
    <2> QED
      BY <2>1, <2>2
  <1>4. Debited(due) \in Row
    BY <1>1, ArithTypes
  <1> HIDE DEF due
  <1>5. TypeOK'
    BY <1>1, <1>2, <1>3, <1>4, ArithTypes DEF IInv, TypeOK, PCs
  <1>6. StampsPast'
    BY <1>2 DEF IInv, StampsPast, TypeOK
  <1>7. LockedRows'
    BY <1>2 DEF IInv, LockedRows, TypeOK
  <1>8. \A v \in Workers \ {w} :
            pc[v] \in {"present", "inserted"} => key[v] # k
    <2> TAKE v \in Workers \ {w}
    <2>1. CASE pc[w] = "present"
      BY <2>1 DEF IInv, LockedRows, InsertedRows
    <2>2. CASE pc[w] = "inserted"
      BY <2>2 DEF IInv, LockedRows, InsertedRows
    <2> QED
      BY <1>1, <2>1, <2>2
  <1>9. InsertedRows' /\ ReadStaysCurrent'
    <2>1. InsertedRows'
      BY <1>2, <1>8 DEF IInv, InsertedRows, TypeOK
    <2>2. ReadStaysCurrent'
      BY <1>2, <1>8 DEF IInv, ReadStaysCurrent, TypeOK
    <2> QED
      BY <2>1, <2>2
  <1> QED
    BY <1>5, <1>6, <1>7, <1>9 DEF IInv

LEMMA TickInv == IInv /\ Tick => IInv'
  BY DEF IInv, Tick, TypeOK, StampsPast, LockedRows, InsertedRows,
         ReadStaysCurrent, table, history

LEMMA NextInv == RowLock /\ IInv /\ [Next]_vars => IInv'
  <1> SUFFICES ASSUME RowLock, IInv, [Next]_vars PROVE IInv'
    OBVIOUS
  <1>1. CASE Tick
    BY <1>1, TickInv
  <1>2. ASSUME NEW w \in Workers, Work(w) PROVE IInv'
    BY <1>2, StampInv, LeaveInv, SelectInv, InsertInv, CommitInv DEF Work
  <1>3. CASE UNCHANGED vars
    BY <1>3 DEF vars, table, history, IInv, TypeOK, StampsPast, LockedRows,
                InsertedRows, ReadStaysCurrent
  <1> QED
    BY <1>1, <1>2, <1>3 DEF Next

THEOREM Invariance == ASSUME RowLock PROVE Spec => []IInv
  <1>1. RowLock
    OBVIOUS
  <1>2. IInv /\ [Next]_vars => IInv'
    BY <1>1, NextInv
  <1> QED
    BY <1>2, InitInv, PTL DEF Spec

--------------------------------------------------------------------------------
(* Results.                                                                 *)

\* The variables keep their types (TokenBucket.TypeOK).
THEOREM TypeCorrect == ASSUME RowLock PROVE Spec => []TypeOK
  BY Invariance, PTL DEF IInv

\* Two consumers of one key never act on the same pre-decrement count: what a
\* transaction read under FOR UPDATE is still committed when it writes.
THEOREM ReadsStayCurrent == ASSUME RowLock PROVE Spec => []ReadStaysCurrent
  BY Invariance, PTL DEF IInv

\* A commit is an atomic refill-and-debit; every other step changes nothing the
\* atomic bucket sees, but for the clock.
LEMMA CommitConsumes ==
    ASSUME RowLock, IInv, NEW w \in Workers, Commit(w)
    PROVE  /\ now[w] \in 0 .. clock
           /\ Atomic!Consume(key[w], now[w])
  <1>1. pc[w] \in {"present", "inserted"}
    BY DEF Commit
  <1>2. DueRow(w) = Atomic!DueRow(key[w], now[w])
    BY <1>1, DueAtCommit
  <1>3. now[w] \in 0 .. clock
    BY DEF IInv, TypeOK, StampsPast
  <1>4. Atomic!Settle(key[w], DueRow(w), now[w]) /\ UNCHANGED clock
    BY SameArith DEF Commit, Atomic!Settle
  <1> QED
    BY <1>2, <1>3, <1>4 DEF Atomic!Consume

LEMMA StepRefines ==
    ASSUME RowLock, IInv, [Next]_vars
    PROVE  [Atomic!Next]_(Atomic!vars)
  <1>1. CASE Tick
    BY <1>1 DEF Tick, table, history, Atomic!Next, Atomic!Tick,
                Atomic!bucketVars
  <1>2. ASSUME NEW w \in Workers, Commit(w) PROVE Atomic!Next
    <2>1. key[w] \in Keys
      BY DEF IInv, TypeOK
    <2> QED
      BY <1>2, <2>1, CommitConsumes DEF Atomic!Next
  <1>3. ASSUME NEW w \in Workers, Work(w), ~Commit(w)
        PROVE  UNCHANGED Atomic!vars
    BY <1>3 DEF Work, Stamp, SelectRow, InsertRow, InsertConflict, Abort,
                table, history, Atomic!vars, Atomic!bucketVars
  <1>4. CASE UNCHANGED vars
    BY <1>4 DEF vars, table, history, Atomic!vars, Atomic!bucketVars
  <1> QED
    BY <1>1, <1>2, <1>3, <1>4 DEF Next

\* With row locks the concurrent consume implements the atomic one.
THEOREM Refinement == ASSUME RowLock PROVE Spec => RefinesAtomic
  <1>1. RowLock
    OBVIOUS
  <1>2. Init => Atomic!Init
    BY SameArith DEF Init, Atomic!Init
  <1>3. IInv /\ [Next]_vars => [Atomic!Next]_(Atomic!vars)
    BY <1>1, StepRefines
  <1> QED
    BY <1>2, <1>3, Invariance, PTL DEF Spec, RefinesAtomic, Atomic!Spec

\* The results about the atomic bucket, for the table the workers share.
Proved == INSTANCE AtomicBucketProofs

\* The instance the results come with is the one TokenBucket refines.
LEMMA SameAtomic ==
    /\ Proved!vars = Atomic!vars
    /\ Proved!Init <=> Atomic!Init
    /\ Proved!Next <=> Atomic!Next
  BY DEF Atomic!bucketVars, Proved!bucketVars, Atomic!vars, Proved!vars,
         Atomic!Init, Proved!Init, Atomic!Settle, Proved!Settle, Atomic!DueRow,
         Proved!DueRow, Atomic!Consume, Proved!Consume, Atomic!Tick,
         Proved!Tick, Atomic!Next, Proved!Next, Atomic!Row, Proved!Row,
         Atomic!FullRow, Proved!FullRow, Atomic!Advanced, Proved!Advanced,
         Atomic!Refilled, Proved!Refilled, Atomic!LevelAt, Proved!LevelAt,
         Atomic!Debited, Proved!Debited, Atomic!Affordable, Proved!Affordable,
         Atomic!RetryAfter, Proved!RetryAfter, Atomic!UnitsPerSec,
         Proved!UnitsPerSec

\* However many workers serve a key, the requests of it admitted in any window of
\* time are bounded by one burst plus the window's refill.
THEOREM WindowBounded == ASSUME RowLock PROVE Spec => []WindowBound
  <1>1. Proved!Spec => []Proved!WindowBound
    BY Proved!WindowBounded, BucketAssumption, WindowAssumption
  <1>2. Proved!WindowBound <=> WindowBound
    BY DEF WindowBound, Atomic!WindowBound, Proved!WindowBound
  <1>3. [Atomic!Next]_(Atomic!vars) => [Proved!Next]_(Proved!vars)
    BY SameAtomic DEF Atomic!vars, Atomic!bucketVars, Proved!vars,
                      Proved!bucketVars
  <1>4. RefinesAtomic => Proved!Spec
    BY SameAtomic, <1>3, PTL DEF RefinesAtomic, Atomic!Spec, Proved!Spec
  <1> QED
    BY <1>1, <1>2, <1>4, Refinement, PTL
================================================================================
