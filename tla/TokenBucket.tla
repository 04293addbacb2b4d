------------------------------- MODULE TokenBucket -----------------------------
(***************************************************************************)
(* service/ratelimit.consume and repository/rate_repo.consume_token as they *)
(* run: many workers, one transaction each, on the shared rate_buckets     *)
(* table.  A worker stamps its request, SELECTs the row FOR UPDATE,        *)
(* computes the new row in memory and writes it at commit; nothing it      *)
(* computed is visible before that.                                        *)
(*                                                                         *)
(* RowLock tells the two databases the program supports apart.  On          *)
(* PostgreSQL the SELECT locks an existing row until commit.  On SQLite     *)
(* with_for_update() renders nothing and the driver opens no transaction    *)
(* for a SELECT: only the writes at the end are serialised, database-wide. *)
(***************************************************************************)
EXTENDS BucketArith, FiniteSets

CONSTANTS Keys, Workers,
          RowLock,              \* TRUE: PostgreSQL, FALSE: SQLite
          WinStart, WinEnd, MaxClock

ASSUME WindowAssumption ==
    /\ WinStart \in Nat /\ WinEnd \in Nat /\ WinStart <= WinEnd
    /\ MaxClock \in Nat
    /\ RowLock \in BOOLEAN

VARIABLES clock, rows, bucket,              \* time and the committed table
          pc,                               \* where each worker's request is
          key, now,                         \* its key and its stamp
          seen,                             \* the row its SELECT returned
          answer,                           \* what its last request got
          admitted, promised, retryAt       \* history, as in AtomicBucket

table   == <<rows, bucket>>
history == <<admitted, promised, retryAt>>
vars == <<clock, table, pc, key, now, seen, answer, history>>

PCs == {"idle", "stamped", "absent", "present", "inserted"}
Answers == {"none", "admitted", "rejected", "conflict", "db_failure"}

Init ==
    /\ clock = 0
    /\ rows = {}
    /\ bucket = [k \in Keys |-> FullRow(0)]
    /\ pc = [w \in Workers |-> "idle"]
    /\ key \in [Workers -> Keys]
    /\ now = [w \in Workers |-> 0]
    /\ seen = [w \in Workers |-> FullRow(0)]
    /\ answer = [w \in Workers |-> "none"]
    /\ admitted = [k \in Keys |-> 0]
    /\ promised = {}
    /\ retryAt = [k \in Keys |-> 0]

--------------------------------------------------------------------------------
(* Locks the database holds for open transactions.                          *)

Goto(w, place) == pc' = [pc EXCEPT ![w] = place]

\* The request returns to its caller; its locals are gone.
Answer(w, how) ==
    /\ answer' = [answer EXCEPT ![w] = how]
    /\ now' = [now EXCEPT ![w] = 0]
    /\ seen' = [seen EXCEPT ![w] = FullRow(0)]
    /\ Goto(w, "idle")

\* Fault: the row is selected without with_for_update().
RowLocked_Ignored(w, k) == FALSE

\* Another transaction has locked k's existing row.
RowLocked(w, k) ==
    RowLock /\ \E v \in Workers \ {w} : pc[v] = "present" /\ key[v] = k

\* Fault: a transaction waits for its own write.
WriteBlocked_Self(w, k) ==
    \E v \in Workers : pc[v] = "inserted" /\ (key[v] = k \/ ~RowLock)

\* Another transaction's uncommitted write makes w's write of k wait: an INSERT
\* of the same primary key, or on SQLite any write.
WriteBlocked(w, k) ==
    \E v \in Workers \ {w} :
        pc[v] = "inserted" /\ (key[v] = k \/ ~RowLock)

--------------------------------------------------------------------------------
(* One request.                                                             *)

\* consume_token reads the clock before it touches the row.
Stamp(w, k) ==
    /\ pc[w] = "idle"
    /\ key' = [key EXCEPT ![w] = k]
    /\ now' = [now EXCEPT ![w] = clock]
    /\ Goto(w, "stamped")
    /\ UNCHANGED <<clock, table, seen, answer, history>>

\* SELECT ... FOR UPDATE: waits for the row lock where there is one, and finds
\* nothing to lock when the key has no committed row.
SelectRow(w) ==
    /\ pc[w] = "stamped"
    /\ IF key[w] \in rows
         THEN /\ ~RowLocked(w, key[w])
              /\ seen' = [seen EXCEPT ![w] = bucket[key[w]]]
              /\ Goto(w, "present")
         ELSE Goto(w, "absent") /\ UNCHANGED seen
    /\ UNCHANGED <<clock, table, key, now, answer, history>>

\* Fault: the INSERT replaces a row committed since the SELECT.
InsertRow_Replace(w) ==
    /\ pc[w] = "absent"
    /\ ~WriteBlocked(w, key[w])
    /\ Goto(w, "inserted")
    /\ UNCHANGED <<clock, table, key, now, seen, answer, history>>

\* session.add + session.flush of a full row: the INSERT is in the database but
\* not committed.
InsertRow(w) ==
    /\ pc[w] = "absent"
    /\ key[w] \notin rows
    /\ ~WriteBlocked(w, key[w])
    /\ Goto(w, "inserted")
    /\ UNCHANGED <<clock, table, key, now, seen, answer, history>>

\* The flush hits the primary key another first request committed meanwhile:
\* IntegrityError, rollback, HTTP 500.
InsertConflict(w) ==
    /\ pc[w] = "absent"
    /\ key[w] \in rows
    /\ Answer(w, "conflict")
    /\ UNCHANGED <<clock, table, key, history>>

\* The in-memory row a transaction is about to write, before test and debit.
DueRow(w) ==
    IF pc[w] = "present" THEN Advanced(seen[w], now[w]) ELSE FullRow(now[w])

\* Test and debit, commit at session_scope exit, then -- outside the
\* transaction -- the answer: proceed, or 429 with Retry-After.
Commit(w) ==
    LET k   == key[w]
        due == DueRow(w)
    IN  /\ pc[w] \in {"present", "inserted"}
        /\ ~WriteBlocked(w, k)
        /\ rows' = rows \cup {k}
        /\ bucket' = [bucket EXCEPT ![k] = Debited(due)]
        /\ IF Affordable(due)
             THEN /\ admitted' = IF now[w] \in WinStart .. WinEnd
                                   THEN [admitted EXCEPT ![k] = @ + 1]
                                   ELSE admitted
                  /\ promised' = promised \ {k}
                  /\ Answer(w, "admitted")
                  /\ UNCHANGED retryAt
             ELSE /\ promised' = promised \cup {k}
                  /\ retryAt' = [retryAt EXCEPT ![k] =
                                   now[w] + RetryAfter(due) * TicksPerSec]
                  /\ Answer(w, "rejected")
                  /\ UNCHANGED admitted
        /\ UNCHANGED <<clock, key>>

\* Any statement or the commit itself fails (connection lost, lock wait given
\* up): session_scope rolls back, the request is answered 500, nothing is
\* charged and the locks are gone.
Abort(w) ==
    /\ pc[w] # "idle"
    /\ Answer(w, "db_failure")
    /\ UNCHANGED <<clock, table, key, history>>

Tick ==
    /\ clock < MaxClock
    /\ clock' = clock + 1
    /\ UNCHANGED <<table, pc, key, now, seen, answer, history>>

Work(w) ==
    \/ \E k \in Keys : Stamp(w, k)
    \/ SelectRow(w) \/ InsertRow(w) \/ InsertConflict(w) \/ Commit(w)
    \/ Abort(w)

Next == Tick \/ \E w \in Workers : Work(w)

Spec == Init /\ [][Next]_vars

\* PostgreSQL queues the waiters of a lock and hands it over in turn, so a wait
\* that keeps being possible to end does end (strong fairness); a transaction
\* that is not waiting keeps running (weak fairness).  Nothing is assumed of
\* new requests, of time or of failures.
Fairness ==
    \A w \in Workers :
        /\ SF_vars(SelectRow(w))
        /\ SF_vars(InsertRow(w))
        /\ WF_vars(InsertConflict(w))
        /\ SF_vars(Commit(w))

FairSpec == Spec /\ Fairness

--------------------------------------------------------------------------------
(* What must hold.                                                          *)

TypeOK ==
    /\ clock \in Nat
    /\ rows \subseteq Keys
    /\ bucket \in [Keys -> Row]
    /\ pc \in [Workers -> PCs]
    /\ key \in [Workers -> Keys]
    /\ now \in [Workers -> Nat]
    /\ seen \in [Workers -> Row]
    /\ answer \in [Workers -> Answers]
    /\ admitted \in [Keys -> Nat]
    /\ promised \subseteq rows
    /\ retryAt \in [Keys -> Nat]

\* The whole transaction is one atomic refill-and-debit of the current row: a
\* behaviour of the workers is a behaviour of AtomicBucket in which a request
\* takes effect at its commit (rate_repo AC-5.2).
Atomic == INSTANCE AtomicBucket
RefinesAtomic == Atomic!Spec

\* The admission bound of AtomicBucket, of the table the workers share.
WindowBound == Atomic!WindowBound

\* Serialisation, in the docstring's terms: the token count a consumer observed
\* is still the committed one when it writes -- nobody else observed the same
\* pre-decrement count.
ReadStaysCurrent ==
    \A w \in Workers :
        pc[w] = "present" => seen[w] = bucket[key[w]]

\* Every request that reaches the limiter is answered: waiting for a row lock or
\* for another first request's INSERT always ends.
EveryRequestAnswered ==
    \A w \in Workers : pc[w] # "idle" ~> pc[w] = "idle"
================================================================================
