------------------------------ MODULE BucketArith ------------------------------
(***************************************************************************)
(* The arithmetic of one token bucket, in integers.                        *)
(*                                                                         *)
(* The program keeps a float level in which one request costs 1.0.  Here   *)
(* the level is counted in units: a request costs Cost units and the       *)
(* bucket refills Rate units per clock tick.  TASKQ_RATE_PER_SEC is then   *)
(* Rate * TicksPerSec / Cost tokens per second, so rational rates below    *)
(* and above one token per tick are both expressible without fractions.    *)
(***************************************************************************)
EXTENDS Integers

CONSTANTS Burst,        \* TASKQ_RATE_BURST, in units
          Rate,         \* units refilled per clock tick
          Cost,         \* TOKEN_COST, in units
          TicksPerSec   \* resolution of the clock that stamps requests

\* config._positive_env lets no capacity or rate below one token / above zero
\* through: a capacity of at least one token is what Burst >= Cost says.
ASSUME BucketAssumption ==
    /\ Cost \in Nat \ {0}
    /\ Burst \in Nat /\ Burst >= Cost
    /\ Rate \in Nat \ {0}
    /\ TicksPerSec \in Nat \ {0}

\* A rate_buckets row.  The level may be negative: a request stamped before the
\* row's updated_at "refills" by a negative elapsed time.
Row == [tokens : Int, updated : Nat]

\* The unclamped level of a row at an instant.
LevelAt(row, t) == row.tokens + Rate * (t - row.updated)

\* Fault: the refill is not clamped, an idle key banks more than a burst.
Refilled_Unclamped(row, n) == LevelAt(row, n)

\* _refilled_tokens: continuous refill, clamped at the capacity.
Refilled(row, n) ==
    IF LevelAt(row, n) < Burst THEN LevelAt(row, n) ELSE Burst

\* Fault: the elapsed time is stored where the stamp belongs.
Advanced_Elapsed(row, n) ==
    [tokens |-> Refilled(row, n), updated |-> n - row.updated]

\* A row advanced to the stamp n; a key without a row gets a full one.
Advanced(row, n)  == [tokens |-> Refilled(row, n), updated |-> n]
FullRow(n)        == [tokens |-> Burst, updated |-> n]

\* Fault: any positive level admits.
Affordable_AnyLevel(row) == row.tokens > 0

\* The admission test and the debit it guards.
Affordable(row) == row.tokens >= Cost
Debited(row) ==
    IF Affordable(row) THEN [row EXCEPT !.tokens = @ - Cost] ELSE row

UnitsPerSec == Rate * TicksPerSec

\* Fault: the wait is rounded down.
RetryAfter_Floor(row) ==
    LET whole == (Cost - row.tokens) \div UnitsPerSec
    IN  IF whole < 1 THEN 1 ELSE whole

\* Fault: a second is added instead of rounding up.
RetryAfter_PlusOne(row) == (Cost - row.tokens) \div UnitsPerSec + 1

\* _retry_after_seconds: the wait for the missing units, rounded up to whole
\* seconds, at least one.
RetryAfter(row) ==
    LET whole == (Cost - row.tokens + UnitsPerSec - 1) \div UnitsPerSec
    IN  IF whole < 1 THEN 1 ELSE whole
================================================================================
