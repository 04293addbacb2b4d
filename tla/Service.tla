-------------------------------- MODULE Service --------------------------------
(***************************************************************************)
(* An authenticated request from its arrival to its answer (api/deps.py,    *)
(* the routes of api/tasks.py): look the key up, charge its bucket, check   *)
(* its scope, run the handler.  Each of these is a transaction of its own,  *)
(* so other requests, the operator and the clock step in between.           *)
(*                                                                         *)
(* The limiter is what AtomicBucket promises and TokenBucket implements:    *)
(* the bucket's variables move by AtomicBucket's actions only.  The store   *)
(* is reduced to whether the task that a request names exists; TaskStore    *)
(* has the rest.                                                           *)
(***************************************************************************)
EXTENDS AtomicBucket, FiniteSets

CONSTANTS
    Clients,   \* each has one request in progress at most
    NoKey,     \* the header is missing
    Scopes,    \* scopes keys are created with: any texts, the CLI takes all
    Ops        \* operations in use

ASSUME ServiceAssumption ==
    /\ IsFiniteSet(Clients)
    /\ NoKey \notin Keys
    /\ Ops \subseteq {"get", "list", "history", "create", "run", "delete", "metrics"}

VARIABLES
    keyState,  \* each key's api_keys row
    scope,     \* its scope
    exists,    \* the task requests name is in the table tasks
    req,       \* the request of each client
    served     \* per key: requests past the limiter, stamped in the window

storeVars == <<keyState, scope, exists>>
serviceVars == <<vars, storeVars, req, served>>

Stages == {"idle", "arrived", "known", "charged", "answered"}

\* The statuses of errors.py, and FastAPI's own for bytes that are no text.
BadRequest        == 400
ValidationProblem == 422
UnauthorizedError == 401
ForbiddenError    == 403
NotFoundError     == 404
ConflictError     == 409
RateLimitedError  == 429
ProblemError      == 500

\* What any operation may answer, whatever the state of its task.
Refusals == {BadRequest, ValidationProblem, UnauthorizedError, ForbiddenError,
             RateLimitedError, ProblemError}

Request == [key : Keys \cup {NoKey}, op : Ops, stage : Stages,
            since : Nat,     \* the lookup's time, then the bucket's stamp
            answer : Nat,    \* HTTP status, 0 before there is one
            late : BOOLEAN]  \* the key was revoked or missing from the start

ServiceInit ==
    /\ Init
    /\ keyState = [k \in Keys |-> "absent"]
    /\ scope \in [Keys -> Scopes]
    /\ exists = FALSE
    /\ \E o \in Ops :
         req = [c \in Clients |->
                  [key |-> NoKey, op |-> o, stage |-> "idle",
                   since |-> 0, answer |-> 0, late |-> TRUE]]
    /\ served = [k \in Keys |-> 0]

--------------------------------------------------------------------------------
(* Keys.                                                                    *)

\* Fault: the lookup does not filter on revoked_at.
Active_AnyRow(k) == k \in Keys /\ keyState[k] # "absent"

\* lookup_active_key finds a row.
Active(k) == k \in Keys /\ keyState[k] = "active"

CreateKey(k) ==
    /\ keyState[k] = "absent"
    /\ keyState' = [keyState EXCEPT ![k] = "active"]
    /\ UNCHANGED <<vars, scope, exists, req, served>>

\* The operator sets revoked_at.
RevokeKey(k) ==
    /\ keyState[k] = "active"
    /\ keyState' = [keyState EXCEPT ![k] = "revoked"]
    /\ UNCHANGED <<vars, scope, exists, req, served>>

--------------------------------------------------------------------------------
(* Scopes.                                                                  *)

Rank(s) ==
    CASE s = "read" -> 1 [] s = "write" -> 2 [] s = "admin" -> 3 [] OTHER -> 0

Needed(op) ==
    CASE op \in {"get", "list", "history"} -> "read"
      [] op \in {"create", "run"} -> "write"
      [] op \in {"delete", "metrics"} -> "admin"

Satisfies(op, present) == Rank(present) >= Rank(Needed(op))

\* Fault: the handler looks its task up before it checks the scope.
Permitted_FoundFirst(c) ==
    Satisfies(req[c].op, scope[req[c].key]) \/ ~exists

Permitted(c) == Satisfies(req[c].op, scope[req[c].key])

--------------------------------------------------------------------------------
(* A request.                                                               *)

Arrive(c, k, o) ==
    /\ req[c].stage \in {"idle", "answered"}
    /\ req' = [req EXCEPT ![c] =
                 [key |-> k, op |-> o, stage |-> "arrived", since |-> 0,
                  answer |-> 0, late |-> k = NoKey \/ keyState[k] = "revoked"]]
    /\ UNCHANGED <<vars, storeVars, served>>

Advance(c, stage, n) ==
    req' = [req EXCEPT ![c] = [@ EXCEPT !.stage = stage, !.since = n]]

Reply(c, answer) ==
    req' = [req EXCEPT ![c] =
              [@ EXCEPT !.stage = "answered", !.since = 0, !.answer = answer]]

\* Fault: any key goes on to the limiter.
Resolve_Any(c) ==
    /\ req[c].stage = "arrived" /\ req[c].key \in Keys
    /\ Advance(c, "known", clock)
    /\ UNCHANGED <<vars, storeVars, served>>

Resolve(c) ==
    /\ req[c].stage = "arrived" /\ Active(req[c].key)
    /\ Advance(c, "known", clock)
    /\ UNCHANGED <<vars, storeVars, served>>

\* A body that is no JSON (422), or whose bytes do not even decode (400), found
\* before any dependency runs.  Only POST /v1/tasks takes a body.
Unparsable(c) ==
    /\ req[c].stage = "arrived" /\ req[c].op = "create"
    /\ \E answer \in {ValidationProblem, BadRequest} : Reply(c, answer)
    /\ UNCHANGED <<vars, storeVars, served>>

\* 401: no key, an unknown or a revoked one.
Reject(c) ==
    /\ req[c].stage = "arrived" /\ ~Active(req[c].key)
    /\ Reply(c, UnauthorizedError)
    /\ UNCHANGED <<vars, storeVars, served>>

\* 401 as well: the database fails the lookup.
LookupFails(c) ==
    /\ req[c].stage = "arrived" /\ req[c].key # NoKey
    /\ Reply(c, UnauthorizedError)
    /\ UNCHANGED <<vars, storeVars, served>>

\* The request is stamped when it enters the limiter, at some time since the
\* lookup.
Admit(c) ==
    /\ req[c].stage = "known"
    /\ \E n \in req[c].since .. clock :
         /\ Affordable(DueRow(req[c].key, n))
         /\ Consume(req[c].key, n)
         /\ Advance(c, "charged", n)
    /\ UNCHANGED <<storeVars, served>>

Limit(c) ==
    /\ req[c].stage = "known"
    /\ \E n \in req[c].since .. clock :
         /\ ~Affordable(DueRow(req[c].key, n))
         /\ Consume(req[c].key, n)
    /\ Reply(c, RateLimitedError)
    /\ UNCHANGED <<storeVars, served>>

\* Fault: a request whose charge failed goes on.
ChargeFails_Open(c) ==
    /\ req[c].stage = "known"
    /\ Advance(c, "charged", clock)
    /\ UNCHANGED <<vars, storeVars, served>>

\* 500: the limiter's transaction is rolled back.
ChargeFails(c) ==
    /\ req[c].stage = "known"
    /\ Reply(c, ProblemError)
    /\ UNCHANGED <<vars, storeVars, served>>

Serve(c) ==
    served' = IF req[c].since \in WinStart .. WinEnd
              THEN [served EXCEPT ![req[c].key] = @ + 1] ELSE served

\* 422: a body, a limit or a cursor that will not do.  FastAPI looks at their
\* types before the handler checks the scope, the service at the rest after it.
Invalid(c) ==
    /\ req[c].stage = "charged" /\ req[c].op \in {"create", "list"}
    /\ Reply(c, ValidationProblem)
    /\ Serve(c)
    /\ UNCHANGED <<vars, storeVars>>

Forbid(c) ==
    /\ req[c].stage = "charged" /\ ~Permitted(c)
    /\ Reply(c, ForbiddenError)
    /\ Serve(c)
    /\ UNCHANGED <<vars, storeVars>>

\* Fault: the route of POST keeps the default status code.
Outcome_Plain(op) ==
    CASE op = "run"    -> IF exists THEN 202 ELSE NotFoundError
      [] op = "delete" -> IF exists THEN 204 ELSE NotFoundError
      [] OTHER         -> 200

\* What the routes answer, and whether the task is there afterwards.  A history
\* is read without a look at its task.
Outcome(op) ==
    CASE op = "get"    -> IF exists THEN 200 ELSE NotFoundError
      [] op = "create" -> IF exists THEN ConflictError ELSE 201
      [] op = "run"    -> IF exists THEN 202 ELSE NotFoundError
      [] op = "delete" -> IF exists THEN 204 ELSE NotFoundError
      [] OTHER         -> 200

ThereAfter(op) == op = "create" \/ (exists /\ op # "delete")

Handle(c) ==
    /\ req[c].stage = "charged" /\ Permitted(c)
    /\ Reply(c, Outcome(req[c].op))
    /\ exists' = ThereAfter(req[c].op)
    /\ Serve(c)
    /\ UNCHANGED <<vars, keyState, scope>>

\* 500: the handler's transaction is rolled back; the token is gone.
HandlerFails(c) ==
    /\ req[c].stage = "charged" /\ Permitted(c)
    /\ Reply(c, ProblemError)
    /\ Serve(c)
    /\ UNCHANGED <<vars, storeVars>>

Work(c) ==
    \/ Unparsable(c) \/ Resolve(c) \/ Reject(c) \/ LookupFails(c)
    \/ Admit(c) \/ Limit(c) \/ ChargeFails(c)
    \/ Invalid(c) \/ Forbid(c) \/ Handle(c) \/ HandlerFails(c)

ServiceNext ==
    \/ Tick /\ UNCHANGED <<storeVars, req, served>>
    \/ \E k \in Keys : CreateKey(k) \/ RevokeKey(k)
    \/ \E c \in Clients :
         \/ \E k \in Keys \cup {NoKey}, o \in Ops : Arrive(c, k, o)
         \/ Work(c)

ServiceSpec == ServiceInit /\ [][ServiceNext]_serviceVars

--------------------------------------------------------------------------------
(* Properties.                                                              *)

\* What the documents let an operation answer, besides a refusal.
Codes(op) ==
    CASE op = "get"    -> {200, 404}
      [] op = "create" -> {201, 409}
      [] op = "run"    -> {202, 404}
      [] op = "delete" -> {204, 404}
      [] OTHER         -> {200}

\* Every variable keeps its shape, and an answer is one its operation may give.
ServiceTypeOK ==
    /\ keyState \in [Keys -> {"absent", "active", "revoked"}]
    /\ scope \in [Keys -> Scopes]
    /\ exists \in BOOLEAN
    /\ req \in [Clients -> Request]
    /\ \A c \in Clients :
         req[c].answer \in IF req[c].stage = "answered"
                           THEN Refusals \cup Codes(req[c].op) ELSE {0}
    /\ served \in [Keys -> Nat]

\* A request whose key was revoked before it came, or that has none, gets 401
\* and nothing else (auth_dep): revocation bites at once, but for the requests
\* already under way.  Only a body that is no JSON is found earlier.
RevokedShutOut ==
    \A c \in Clients :
        req[c].late =>
            \/ req[c].stage \in {"idle", "arrived"}
            \/ /\ req[c].stage = "answered"
               /\ \/ req[c].answer = UnauthorizedError
                  \/ /\ req[c].op = "create"
                     /\ req[c].answer \in {ValidationProblem, BadRequest}

\* Who lacks the scope is told nothing about the task: no answer but a refusal,
\* whether the task exists or not (check_scope before every handler).
NothingDisclosed ==
    \A c \in Clients :
        /\ req[c].stage = "answered" /\ req[c].key \in Keys
        /\ ~Satisfies(req[c].op, scope[req[c].key])
        => req[c].answer \in Refusals

\* No bucket is opened for a key that was never issued: requests that fail to
\* authenticate neither spend tokens nor fill rate_buckets (rate_dep, AC-5.3).
OnlyIssuedKeysCharged == \A k \in rows : keyState[k] # "absent"

\* End to end, no window of time sees more requests of a key past the limiter --
\* refused for their scope, failed or served -- than the bucket allows,
\* whatever else fails on the way (auth_dep, consume).
ServedBound ==
    \A k \in Keys : Cost * served[k] <= Burst + Rate * (WinEnd - WinStart)
================================================================================
