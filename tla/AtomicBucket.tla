------------------------------ MODULE AtomicBucket -----------------------------
(***************************************************************************)
(* What per-key rate limiting promises: each request is ONE atomic         *)
(* refill-and-debit of its key's bucket (FR-05 AC-5.2), whatever the        *)
(* number of workers.  A request carries the stamp its worker read from     *)
(* the clock before it reached the bucket, so stamps need not arrive in     *)
(* order.                                                                  *)
(*                                                                         *)
(* Three history variables let the promises be stated: how many requests   *)
(* stamped inside an arbitrary window [WinStart, WinEnd] were admitted, and *)
(* until when the last rejected client was told to stay away.               *)
(***************************************************************************)
EXTENDS BucketArith

CONSTANTS Keys,                 \* API keys
          WinStart, WinEnd,     \* any window of stamps
          MaxClock              \* bound on time

ASSUME WindowAssumption ==
    /\ WinStart \in Nat /\ WinEnd \in Nat /\ WinStart <= WinEnd
    /\ MaxClock \in Nat

VARIABLES clock,      \* wall clock, in ticks
          rows,       \* keys that have a rate_buckets row
          bucket,     \* the committed row of each key in rows
          admitted,   \* per key: admissions stamped in the window
          promised,   \* keys rejected since their last admission
          retryAt     \* per promised key: stamp + Retry-After

bucketVars == <<rows, bucket, admitted, promised, retryAt>>
vars == <<clock, bucketVars>>

Init ==
    /\ clock = 0
    /\ rows = {}
    /\ bucket = [k \in Keys |-> FullRow(0)]
    /\ admitted = [k \in Keys |-> 0]
    /\ promised = {}
    /\ retryAt = [k \in Keys |-> 0]

\* Store the row `due` of key k after its test and debit, for a request stamped
\* n, and answer: admitted, or 429 with Retry-After.
Settle(k, due, n) ==
    /\ rows' = rows \cup {k}
    /\ bucket' = [bucket EXCEPT ![k] = Debited(due)]
    /\ IF Affordable(due)
         THEN /\ admitted' = IF n \in WinStart .. WinEnd
                               THEN [admitted EXCEPT ![k] = @ + 1]
                               ELSE admitted
              /\ promised' = promised \ {k}
              /\ UNCHANGED retryAt
         ELSE /\ promised' = promised \cup {k}
              /\ retryAt' =
                   [retryAt EXCEPT ![k] = n + RetryAfter(due) * TicksPerSec]
              /\ UNCHANGED admitted

\* The row a request stamped n finds due: a full one on first use.
DueRow(k, n) ==
    IF k \in rows THEN Advanced(bucket[k], n) ELSE FullRow(n)

Consume(k, n) ==
    /\ Settle(k, DueRow(k, n), n)
    /\ UNCHANGED clock

Tick ==
    /\ clock < MaxClock
    /\ clock' = clock + 1
    /\ UNCHANGED bucketVars

Next == Tick \/ \E k \in Keys : \E n \in 0 .. clock : Consume(k, n)

Spec == Init /\ [][Next]_vars

--------------------------------------------------------------------------------

TypeOK ==
    /\ clock \in Nat
    /\ rows \subseteq Keys
    /\ bucket \in [Keys -> Row]
    /\ admitted \in [Keys -> Nat]
    /\ promised \subseteq rows
    /\ retryAt \in [Keys -> Nat]

\* No window of time, wherever it starts, admits more of a key's requests than
\* a burst plus what the window itself refills -- although stamps are read
\* before the row is locked and so reach the bucket out of order.
WindowBound ==
    \A k \in Keys :
        Cost * admitted[k] <= Burst + Rate * (WinEnd - WinStart)

\* A request that was overtaken writes an older updated_at, and may write a
\* negative level; but read at the present instant no bucket is ever in debt, so
\* an overtaken request costs its key no future capacity.
NeverInDebt == \A k \in rows : LevelAt(bucket[k], clock) >= 0

\* Retry-After is honoured: a rejected client that waits as long as it was told
\* finds a token, unless another request of the key was admitted meanwhile
\* (repeated rejections, in any order of stamps, do not push it back).
RetryHonoured ==
    \A k \in promised : Refilled(bucket[k], retryAt[k]) >= Cost

\* Retry-After is tight: one second earlier the token is not there yet.
RetryTight ==
    \A k \in promised : LevelAt(bucket[k], retryAt[k] - TicksPerSec) < Cost
================================================================================
