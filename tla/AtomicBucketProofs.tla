--------------------------- MODULE AtomicBucketProofs --------------------------
(***************************************************************************)
(* The promises of AtomicBucket, for every set of keys, capacity, rate,     *)
(* cost and window.                                                        *)
(*                                                                         *)
(* The argument is a potential: Potential(row) is the level the row would   *)
(* show at stamp 0.  Refilling moves a row along its own line and leaves    *)
(* the potential alone, clamping and debiting lower it, and nothing raises  *)
(* it -- in whatever order the stamps arrive.                              *)
(***************************************************************************)
EXTENDS AtomicBucket, TLAPS

Potential(row) == row.tokens - Rate * row.updated

\* Once a window has admitted somebody, what it admitted and what is left
\* together stay below a full bucket at the start of the window.
WindowInv ==
    \A k \in Keys :
        admitted[k] > 0 =>
            /\ k \in rows
            /\ Cost * admitted[k] + Potential(bucket[k])
                 <= Burst - Rate * WinStart

\* The promise, on the unclamped line of the row.
PromiseInv ==
    \A k \in promised : LevelAt(bucket[k], retryAt[k]) >= Cost

IInv ==
    /\ TypeOK
    /\ WindowInv
    /\ WindowBound
    /\ NeverInDebt
    /\ PromiseInv
    /\ RetryTight

--------------------------------------------------------------------------------
(* Arithmetic.                                                              *)

LEMMA MulMono ==
    ASSUME NEW c \in Nat, NEW a \in Int, NEW b \in Int, a <= b
    PROVE  c * a <= c * b
  OBVIOUS

LEMMA MulSucc ==
    ASSUME NEW c \in Nat, NEW a \in Int
    PROVE  c * (a + 1) = c * a + c /\ c * a \in Int
  OBVIOUS

LEMMA LevelIsPotential ==
    ASSUME NEW row \in Row, NEW t \in Int
    PROVE  /\ LevelAt(row, t) = Potential(row) + Rate * t
           /\ LevelAt(row, t) \in Int
           /\ Potential(row) \in Int
  <1>1. row.tokens \in Int /\ row.updated \in Nat
    BY DEF Row
  <1>2. Rate \in Nat
    BY BucketAssumption
  <1> QED
    BY <1>1, <1>2 DEF LevelAt, Potential

\* What a row that is due looks like: stamped n, not above a burst, and not
\* above the line of the row it came from -- on it, if it ends below a burst.
LEMMA AdvancedRow ==
    ASSUME NEW row \in Row, NEW n \in Nat
    PROVE  /\ Advanced(row, n) \in Row
           /\ Advanced(row, n).updated = n
           /\ Advanced(row, n).tokens <= Burst
           /\ Potential(Advanced(row, n)) <= Potential(row)
           /\ Advanced(row, n).tokens < Burst
                => Potential(Advanced(row, n)) = Potential(row)
  <1>1. /\ LevelAt(row, n) = Potential(row) + Rate * n
        /\ LevelAt(row, n) \in Int
        /\ Potential(row) \in Int
    BY LevelIsPotential
  <1>2. Burst \in Int /\ Rate * n \in Int
    BY BucketAssumption
  <1>3. Refilled(row, n) \in Int /\ Refilled(row, n) <= Burst
        /\ Refilled(row, n) <= LevelAt(row, n)
        /\ (Refilled(row, n) < Burst => Refilled(row, n) = LevelAt(row, n))
    BY <1>1, <1>2 DEF Refilled
  <1>4. Advanced(row, n).tokens = Refilled(row, n)
        /\ Advanced(row, n).updated = n
        /\ Advanced(row, n) \in Row
    BY <1>3 DEF Advanced, Row
  <1>5. Potential(Advanced(row, n)) = Refilled(row, n) - Rate * n
    BY <1>4 DEF Potential
  <1> QED
    BY <1>1, <1>2, <1>3, <1>4, <1>5

\* The row a request finds due, before the test: AdvancedRow, or a full row.
LEMMA DueRowFacts ==
    ASSUME TypeOK, NEW k \in Keys, NEW n \in Nat
    PROVE  /\ DueRow(k, n) \in Row
           /\ DueRow(k, n).updated = n
           /\ DueRow(k, n).tokens <= Burst
           /\ k \in rows => Potential(DueRow(k, n)) <= Potential(bucket[k])
           /\ DueRow(k, n).tokens < Cost
                => k \in rows /\ Potential(DueRow(k, n)) = Potential(bucket[k])
  <1>1. Burst \in Int /\ Cost \in Int /\ Cost <= Burst
    BY BucketAssumption
  <1>2. CASE k \in rows
    <2>1. bucket[k] \in Row
      BY DEF TypeOK
    <2>2. DueRow(k, n) = Advanced(bucket[k], n)
      BY <1>2 DEF DueRow
    <2>3. DueRow(k, n).tokens \in Int
      BY <2>1, <2>2, AdvancedRow DEF Row
    <2> QED
      BY <1>1, <1>2, <2>1, <2>2, <2>3, AdvancedRow
  <1>3. CASE k \notin rows
    BY <1>1, <1>3 DEF DueRow, FullRow, Row
  <1> QED
    BY <1>2, <1>3

\* The header makes up for the deficit, and one second less would not.
LEMMA RetryAfterFacts ==
    ASSUME NEW row \in Row, row.tokens < Cost
    PROVE  /\ RetryAfter(row) \in Nat \ {0}
           /\ row.tokens + UnitsPerSec * RetryAfter(row) >= Cost
           /\ row.tokens + UnitsPerSec * (RetryAfter(row) - 1) < Cost
  <1> DEFINE d == Cost - row.tokens
             u == UnitsPerSec
             q == (d + u - 1) \div u
  <1>1. d \in Nat /\ d >= 1 /\ row.tokens \in Int /\ Cost \in Int
    BY BucketAssumption DEF Row
  <1>2. u \in Nat /\ u >= 1
    BY BucketAssumption DEF UnitsPerSec
  <1>3. q \in Int /\ u * q <= d + u - 1 /\ d + u - 1 < u * q + u
    <2> HIDE DEF d, u
    <2> QED
      BY <1>1, <1>2, SMT
  <1>4. q >= 1
    <2>1. SUFFICES ASSUME q <= 0 PROVE FALSE
      BY <1>3
    <2>2. u * q <= u * 0
      <3> HIDE DEF u, q
      <3> QED
        BY <1>2, <1>3, <2>1, MulMono
    <2> HIDE DEF d, u, q
    <2> QED
      BY <1>1, <1>2, <1>3, <2>2
  <1>5. RetryAfter(row) = q
    BY <1>3, <1>4 DEF RetryAfter
  <1>6. u * (q - 1) = u * q - u
    <2> HIDE DEF u, q
    <2> QED
      BY <1>2, <1>3
  <1> HIDE DEF u, q
  <1>7. u * q \in Int /\ u * (q - 1) \in Int
    BY <1>2, <1>3
  <1>8. d + row.tokens = Cost
    BY <1>1
  <1> HIDE DEF d
  <1>9. row.tokens + u * q >= Cost /\ row.tokens + u * (q - 1) < Cost
    BY <1>1, <1>2, <1>3, <1>6, <1>7, <1>8
  <1> QED
    BY <1>3, <1>4, <1>5, <1>9 DEF u

LEMMA DebitedRow ==
    ASSUME NEW row \in Row
    PROVE  /\ Debited(row) \in Row
           /\ Affordable(row) =>
                 /\ Potential(Debited(row)) = Potential(row) - Cost
                 /\ Potential(Debited(row)) >= - (Rate * row.updated)
           /\ ~Affordable(row) => row.tokens < Cost /\ Debited(row) = row
  <1>1. Cost \in Int /\ Rate * row.updated \in Int /\ row.tokens \in Int
    BY BucketAssumption DEF Row
  <1>2. CASE Affordable(row)
    <2>1. /\ Debited(row).tokens = row.tokens - Cost
          /\ Debited(row).updated = row.updated
          /\ Debited(row) \in Row
      BY <1>1, <1>2 DEF Debited, Row
    <2> QED
      BY <1>1, <1>2, <2>1 DEF Potential, Affordable
  <1>3. CASE ~Affordable(row)
    BY <1>1, <1>3 DEF Debited, Affordable
  <1> QED
    BY <1>2, <1>3

--------------------------------------------------------------------------------
(* The inductive invariant.                                                 *)

LEMMA InitInv == Init => IInv
  <1> SUFFICES ASSUME Init PROVE IInv
    OBVIOUS
  <1>1. TypeOK
    BY BucketAssumption DEF Init, TypeOK, FullRow, Row
  <1>2. WindowBound
    <2>1. WinEnd - WinStart \in Nat /\ Rate \in Nat /\ Burst \in Nat
          /\ Cost \in Nat
      BY BucketAssumption, WindowAssumption
    <2>2. Rate * (WinEnd - WinStart) \in Nat
      BY <2>1
    <2> QED
      BY <2>1, <2>2 DEF Init, WindowBound
  <1>3. WindowInv /\ NeverInDebt /\ PromiseInv /\ RetryTight
    BY DEF Init, WindowInv, NeverInDebt, PromiseInv, RetryTight
  <1> QED
    BY <1>1, <1>2, <1>3 DEF IInv

LEMMA TickInv == IInv /\ Tick => IInv'
  <1> SUFFICES ASSUME IInv, Tick PROVE IInv'
    OBVIOUS
  <1> USE DEF IInv
  <1>1. /\ TypeOK' /\ UNCHANGED bucketVars
        /\ clock \in Nat /\ clock' = clock + 1
    BY DEF Tick, TypeOK, bucketVars
  <1>2. NeverInDebt'
    <2> SUFFICES ASSUME NEW k \in rows PROVE LevelAt(bucket[k], clock + 1) >= 0
      BY <1>1 DEF NeverInDebt, bucketVars
    <2>1. bucket[k] \in Row /\ LevelAt(bucket[k], clock) >= 0
      BY DEF TypeOK, NeverInDebt
    <2>2. Rate * clock <= Rate * (clock + 1)
      BY <1>1, BucketAssumption, MulMono
    <2>3. Rate * clock \in Int /\ Rate * (clock + 1) \in Int
      BY <1>1, BucketAssumption
    <2> QED
      BY <1>1, <2>1, <2>2, <2>3, LevelIsPotential
  <1>3. WindowInv' /\ WindowBound' /\ PromiseInv' /\ RetryTight'
    BY <1>1 DEF WindowInv, WindowBound, PromiseInv, RetryTight, bucketVars
  <1> QED
    BY <1>1, <1>2, <1>3

\* An admitted request: its row drops by Cost and stays above the line through
\* zero at its stamp.
LEMMA AdmitInv ==
    ASSUME IInv, NEW k \in Keys, NEW n \in 0 .. clock,
           Consume(k, n), Affordable(DueRow(k, n))
    PROVE  IInv'
  <1> USE DEF IInv
  <1> DEFINE due == DueRow(k, n)
             new == Debited(due)
  <1>1. /\ clock \in Nat /\ n \in Nat /\ n <= clock /\ clock' = clock
        /\ rows' = rows \cup {k}
        /\ bucket' = [bucket EXCEPT ![k] = new]
        /\ admitted' = IF n \in WinStart .. WinEnd
                         THEN [admitted EXCEPT ![k] = @ + 1] ELSE admitted
        /\ promised' = promised \ {k} /\ retryAt' = retryAt
    BY DEF Consume, Settle, TypeOK
  <1>2. /\ due \in Row /\ due.updated = n /\ due.tokens <= Burst
        /\ k \in rows => Potential(due) <= Potential(bucket[k])
    BY <1>1, DueRowFacts
  <1>3. /\ new \in Row
        /\ Potential(new) = Potential(due) - Cost
        /\ Potential(new) >= - (Rate * n)
    BY <1>2, DebitedRow
  <1>4. /\ Cost \in Nat \ {0} /\ Burst \in Nat /\ Rate \in Nat
        /\ WinStart \in Nat /\ WinEnd \in Nat /\ WinStart <= WinEnd
    BY BucketAssumption, WindowAssumption
  <1>5. /\ Potential(due) \in Int /\ Potential(new) \in Int
        /\ Potential(due) = due.tokens - Rate * n
        /\ Rate * n \in Int /\ due.tokens \in Int
    BY <1>1, <1>2, <1>3, <1>4, LevelIsPotential DEF Potential, Row
  <1>6. /\ bucket \in [Keys -> Row] /\ admitted \in [Keys -> Nat]
        /\ rows \subseteq Keys /\ bucket'[k] = new
        /\ \A j \in Keys \ {k} : bucket'[j] = bucket[j]
    BY <1>1 DEF TypeOK
  <1> HIDE DEF due, new
  <1>7. TypeOK'
    BY <1>1, <1>3, <1>6 DEF TypeOK
  <1>8. NeverInDebt'
    <2> SUFFICES ASSUME NEW j \in rows \cup {k}
                 PROVE  LevelAt(bucket'[j], clock) >= 0
      BY <1>1 DEF NeverInDebt
    <2>1. CASE j # k
      BY <1>6, <2>1 DEF NeverInDebt
    <2>2. CASE j = k
      <3>1. Rate * n <= Rate * clock
        BY <1>1, <1>4, MulMono
      <3>2. Rate * clock \in Int
        BY <1>1, <1>4
      <3>3. LevelAt(new, clock) = Potential(new) + Rate * clock
        BY <1>1, <1>3, LevelIsPotential
      <3> QED
        BY <1>3, <1>5, <1>6, <2>2, <3>1, <3>2, <3>3
    <2> QED
      BY <2>1, <2>2
  <1>9. PromiseInv' /\ RetryTight'
    BY <1>1, <1>6 DEF PromiseInv, RetryTight, TypeOK
  <1>10. CASE n \notin WinStart .. WinEnd
    <2>1. admitted' = admitted
      BY <1>1, <1>10
    <2>2. WindowBound'
      BY <2>1 DEF WindowBound
    <2>3. WindowInv'
      <3> SUFFICES ASSUME NEW j \in Keys, admitted[j] > 0
                   PROVE  /\ j \in rows'
                          /\ Cost * admitted[j] + Potential(bucket'[j])
                               <= Burst - Rate * WinStart
        BY <2>1 DEF WindowInv
      <3>1. /\ j \in rows
            /\ Cost * admitted[j] + Potential(bucket[j])
                 <= Burst - Rate * WinStart
        BY DEF WindowInv
      <3>2. Potential(bucket'[j]) <= Potential(bucket[j])
            /\ Potential(bucket'[j]) \in Int /\ Potential(bucket[j]) \in Int
        <4>1. bucket[j] \in Row /\ bucket'[j] \in Row
          BY <1>3, <1>6
        <4>2. Potential(bucket'[j]) \in Int /\ Potential(bucket[j]) \in Int
          BY <4>1, LevelIsPotential
        <4>3. CASE j = k
          BY <1>2, <1>3, <1>4, <1>5, <1>6, <3>1, <4>2, <4>3
        <4>4. CASE j # k
          BY <1>6, <4>2, <4>4
        <4> QED
          BY <4>2, <4>3, <4>4
      <3>3. Cost * admitted[j] \in Int /\ Rate * WinStart \in Int
        BY <1>4, <1>6
      <3> QED
        BY <1>1, <1>4, <3>1, <3>2, <3>3
    <2> QED
      BY <1>7, <1>8, <1>9, <2>2, <2>3
  <1>11. CASE n \in WinStart .. WinEnd
    <2>1. /\ admitted'[k] = admitted[k] + 1 /\ admitted[k] \in Nat
          /\ \A j \in Keys \ {k} : admitted'[j] = admitted[j]
      BY <1>1, <1>6, <1>11
    <2>2. /\ Rate * WinStart <= Rate * n /\ Rate * n <= Rate * WinEnd
          /\ Rate * (WinEnd - WinStart) = Rate * WinEnd - Rate * WinStart
          /\ Rate * WinStart \in Int /\ Rate * WinEnd \in Int
      <3>1. Rate * WinStart <= Rate * n /\ Rate * n <= Rate * WinEnd
        BY <1>1, <1>4, <1>11, MulMono
      <3> QED
        BY <1>4, <3>1
    <2>3. Cost * admitted'[k] = Cost * admitted[k] + Cost
          /\ Cost * admitted[k] \in Int
      <3> DEFINE a == admitted[k]
      <3>1. Cost \in Nat /\ a \in Nat /\ admitted'[k] = a + 1
        BY <1>4, <2>1
      <3> HIDE DEF a
      <3>2. Cost * (a + 1) = Cost * a + Cost /\ Cost * a \in Int
        BY <3>1, MulSucc
      <3> QED
        BY <3>1, <3>2 DEF a
    <2>4. Cost * admitted'[k] + Potential(new) <= Burst - Rate * WinStart
      <3>1. CASE admitted[k] = 0
        <4>1. Cost * admitted[k] = 0
          BY <1>4, <3>1
        <4> QED
          BY <1>2, <1>3, <1>4, <1>5, <2>2, <2>3, <4>1
      <3>2. CASE admitted[k] # 0
        <4>1. /\ k \in rows
              /\ Cost * admitted[k] + Potential(bucket[k])
                   <= Burst - Rate * WinStart
          BY <2>1, <3>2 DEF WindowInv
        <4>2. Potential(bucket[k]) \in Int
          BY <1>6, LevelIsPotential
        <4> QED
          BY <1>2, <1>3, <1>4, <1>5, <2>2, <2>3, <4>1, <4>2
      <3> QED
        BY <3>1, <3>2
    <2>5. Cost * admitted'[k] <= Burst + Rate * (WinEnd - WinStart)
      BY <1>3, <1>4, <1>5, <2>2, <2>3, <2>4
    <2>6. WindowBound'
      BY <2>1, <2>5 DEF WindowBound
    <2>7. WindowInv'
      BY <1>1, <1>6, <2>1, <2>4 DEF WindowInv
    <2> QED
      BY <1>7, <1>8, <1>9, <2>6, <2>7
  <1> QED
    BY <1>10, <1>11

\* A rejected request: its row stays on the same line, and Retry-After points
\* at where that line reaches Cost.
LEMMA RejectInv ==
    ASSUME IInv, NEW k \in Keys, NEW n \in 0 .. clock,
           Consume(k, n), ~Affordable(DueRow(k, n))
    PROVE  IInv'
  <1> USE DEF IInv
  <1> DEFINE due == DueRow(k, n)
             ra  == RetryAfter(due)
             at  == n + ra * TicksPerSec
  <1>1. /\ clock \in Nat /\ n \in Nat /\ n <= clock /\ clock' = clock
        /\ rows' = rows \cup {k}
        /\ bucket' = [bucket EXCEPT ![k] = Debited(due)]
        /\ admitted' = admitted
        /\ promised' = promised \cup {k}
        /\ retryAt' = [retryAt EXCEPT ![k] = at]
    BY DEF Consume, Settle, TypeOK
  <1>2. due \in Row /\ due.updated = n
    BY <1>1, DueRowFacts
  <1>3. due.tokens < Cost /\ Debited(due) = due
    BY <1>2, DebitedRow
  <1>4. k \in rows /\ Potential(due) = Potential(bucket[k])
    BY <1>1, <1>3, DueRowFacts
  <1>5. /\ ra \in Nat \ {0}
        /\ due.tokens + UnitsPerSec * ra >= Cost
        /\ due.tokens + UnitsPerSec * (ra - 1) < Cost
    BY <1>2, <1>3, RetryAfterFacts
  <1>6. Rate \in Nat /\ TicksPerSec \in Nat /\ due.tokens \in Int
    BY <1>2, BucketAssumption DEF Row
  <1>7. /\ bucket \in [Keys -> Row] /\ retryAt \in [Keys -> Nat]
        /\ rows \subseteq Keys /\ promised \subseteq rows
    BY DEF TypeOK
  <1> HIDE DEF due, ra
  <1>8. at \in Nat /\ at - TicksPerSec \in Nat
    <2>1. ra * TicksPerSec \in Nat /\ (ra - 1) * TicksPerSec \in Nat
          /\ ra * TicksPerSec - TicksPerSec = (ra - 1) * TicksPerSec
      BY <1>5, <1>6
    <2> QED
      BY <1>1, <1>6, <2>1
  <1>9. /\ LevelAt(due, at) = due.tokens + UnitsPerSec * ra
        /\ LevelAt(due, at - TicksPerSec)
             = due.tokens + UnitsPerSec * (ra - 1)
    <2>1. at - due.updated = ra * TicksPerSec
          /\ (at - TicksPerSec) - due.updated = (ra - 1) * TicksPerSec
      BY <1>1, <1>2, <1>5, <1>6
    <2>2. Rate * (ra * TicksPerSec) = UnitsPerSec * ra
          /\ Rate * ((ra - 1) * TicksPerSec) = UnitsPerSec * (ra - 1)
      BY <1>5, <1>6 DEF UnitsPerSec
    <2> HIDE DEF at
    <2> QED
      BY <2>1, <2>2 DEF LevelAt
  <1> HIDE DEF at
  <1>10. TypeOK'
    BY <1>1, <1>2, <1>3, <1>4, <1>7, <1>8 DEF TypeOK
  <1>11. \A j \in Keys, t \in Int : LevelAt(bucket'[j], t) = LevelAt(bucket[j], t)
    <2> TAKE j \in Keys, t \in Int
    <2>1. CASE j = k
      BY <1>1, <1>2, <1>3, <1>4, <1>7, <2>1, LevelIsPotential
    <2>2. CASE j # k
      BY <1>1, <1>7, <2>2
    <2> QED
      BY <2>1, <2>2
  <1>12. \A j \in Keys : Potential(bucket'[j]) = Potential(bucket[j])
    BY <1>1, <1>3, <1>4, <1>7
  <1>13. NeverInDebt'
    BY <1>1, <1>4, <1>7, <1>11 DEF NeverInDebt
  <1>14. WindowInv' /\ WindowBound'
    BY <1>1, <1>4, <1>7, <1>12 DEF WindowInv, WindowBound
  <1>15. PromiseInv' /\ RetryTight'
    <2> SUFFICES ASSUME NEW j \in promised'
                 PROVE  /\ LevelAt(bucket'[j], retryAt'[j]) >= Cost
                        /\ LevelAt(bucket'[j], retryAt'[j] - TicksPerSec) < Cost
      BY DEF PromiseInv, RetryTight
    <2>1. CASE j = k
      BY <1>1, <1>3, <1>4, <1>5, <1>7, <1>9, <2>1
    <2>2. CASE j # k
      <3>1. j \in promised /\ j \in Keys /\ retryAt'[j] = retryAt[j]
            /\ bucket'[j] = bucket[j]
        BY <1>1, <1>7, <2>2
      <3> QED
        BY <3>1 DEF PromiseInv, RetryTight
    <2> QED
      BY <2>1, <2>2
  <1> QED
    BY <1>10, <1>13, <1>14, <1>15

LEMMA NextInv == IInv /\ [Next]_vars => IInv'
  <1> SUFFICES ASSUME IInv, [Next]_vars PROVE IInv'
    OBVIOUS
  <1>1. CASE Tick
    BY <1>1, TickInv
  <1>2. ASSUME NEW k \in Keys, NEW n \in 0 .. clock, Consume(k, n)
        PROVE  IInv'
    BY <1>2, AdmitInv, RejectInv
  <1>3. CASE UNCHANGED vars
    BY <1>3 DEF vars, bucketVars, IInv, TypeOK, WindowInv, WindowBound,
                NeverInDebt, PromiseInv, RetryTight
  <1> QED
    BY <1>1, <1>2, <1>3 DEF Next

THEOREM Invariance == Spec => []IInv
  BY InitInv, NextInv, PTL DEF Spec

--------------------------------------------------------------------------------
(* What follows for every instance.                                         *)

\* The variables keep their types (AtomicBucket.TypeOK).
THEOREM TypeCorrect == Spec => []TypeOK
  BY Invariance, PTL DEF IInv

\* Admissions in any window of time are bounded by a burst plus its refill: the
\* per-key bucket shared by all workers grants no worker a burst of its own.
THEOREM WindowBounded == Spec => []WindowBound
  BY Invariance, PTL DEF IInv

\* Read at the present, no bucket is in debt, however stale the stamps are.
THEOREM Solvent == Spec => []NeverInDebt
  BY Invariance, PTL DEF IInv

\* Retry-After, on the clamped level the next request would find.
LEMMA PromiseImpliesHonoured == IInv => RetryHonoured
  <1> SUFFICES ASSUME IInv, NEW k \in promised
               PROVE  Refilled(bucket[k], retryAt[k]) >= Cost
    BY DEF RetryHonoured
  <1>1. LevelAt(bucket[k], retryAt[k]) >= Cost
    BY DEF IInv, PromiseInv
  <1> QED
    BY <1>1, BucketAssumption DEF Refilled

\* A rejected client that waits Retry-After seconds finds a token unless another
\* request of its key was admitted meanwhile (_retry_after_seconds).
THEOREM RetryAfterKept == Spec => []RetryHonoured
  <1>1. IInv => RetryHonoured
    BY PromiseImpliesHonoured
  <1> QED
    BY <1>1, Invariance, PTL

\* And no shorter wait would do (_retry_after_seconds).
THEOREM RetryAfterTight == Spec => []RetryTight
  <1>1. IInv => RetryTight
    BY DEF IInv
  <1> QED
    BY <1>1, Invariance, PTL
================================================================================
