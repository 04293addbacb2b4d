----------------------------- MODULE ServiceProofs -----------------------------
(***************************************************************************)
(* Service for any clients, keys, scopes, operations and bucket.            *)
(*                                                                         *)
(* The requests move the bucket by AtomicBucket's actions only, so whatever *)
(* AtomicBucketProofs proves of the bucket holds inside the service.  What  *)
(* goes past the limiter is then bounded by what the bucket admitted: a     *)
(* request is admitted, is on its way to its handler, and is counted there, *)
(* once.                                                                   *)
(***************************************************************************)
EXTENDS Service, AtomicBucketProofs, FiniteSetTheorems

\* Requests of key k that were admitted in the window and not yet counted.
OnTheWay(k) ==
    {c \in Clients : /\ req[c].stage = "charged" /\ req[c].key = k
                     /\ req[c].since \in WinStart .. WinEnd}

\* What went past the limiter, or is about to, was admitted.
Accounted ==
    \A k \in Keys : served[k] + Cardinality(OnTheWay(k)) <= admitted[k]

\* A request past its lookup has a key that was issued, and was not late.
Authentic ==
    \A c \in Clients :
        req[c].stage \in {"known", "charged"} =>
            /\ req[c].key \in Keys /\ keyState[req[c].key] # "absent"
            /\ ~req[c].late

\* A late request has nothing to go on: no key, or a revoked one.
LateIsOut ==
    \A c \in Clients :
        req[c].late /\ req[c].key \in Keys => keyState[req[c].key] = "revoked"

Answering == /\ Authentic /\ LateIsOut
             /\ RevokedShutOut /\ NothingDisclosed /\ OnlyIssuedKeysCharged

ServiceInv == IInv /\ ServiceTypeOK /\ Answering /\ Accounted

--------------------------------------------------------------------------------
(* The service moves the bucket as AtomicBucket does.                       *)

\* Every step of the service is a tick, a charge, or invisible to the bucket.
LEMMA BucketStep ==
    ASSUME ServiceTypeOK, Authentic, [ServiceNext]_serviceVars
    PROVE  [Next]_vars
<1>1. CASE Tick /\ UNCHANGED <<storeVars, req, served>>
  BY <1>1 DEF Next
<1>2. CASE UNCHANGED vars
  BY <1>2
<1>3. ASSUME NEW c \in Clients, Admit(c) \/ Limit(c)
      PROVE  Next
  <2>1. PICK n \in req[c].since .. clock : Consume(req[c].key, n)
    BY <1>3 DEF Admit, Limit
  <2>2. req[c].key \in Keys
    BY <1>3 DEF Admit, Limit, Authentic
  <2>3. req[c].since \in Nat
    BY DEF ServiceTypeOK, Request
  <2> QED
    BY <2>1, <2>2, <2>3 DEF Next
<1>4. ASSUME NEW c \in Clients, Work(c)
      PROVE  UNCHANGED vars \/ Admit(c) \/ Limit(c)
  BY <1>4 DEF Work, Unparsable, Resolve, Reject, LookupFails, ChargeFails,
              Invalid, Forbid, Handle, HandlerFails
<1> QED
  BY <1>1, <1>2, <1>3, <1>4
     DEF ServiceNext, serviceVars, CreateKey, RevokeKey, Arrive

\* The bucket's own invariant carries over.
LEMMA BucketInv ==
    ASSUME ServiceTypeOK, Authentic, IInv, [ServiceNext]_serviceVars
    PROVE  IInv'
  BY BucketStep, NextInv

--------------------------------------------------------------------------------
(* Types.                                                                   *)

LEMMA CodesAreAnswers ==
    ASSUME NEW op \in Ops
    PROVE  Codes(op) \subseteq Nat /\ Outcome(op) \in Codes(op) \ {0}
  BY DEF Codes, Outcome, NotFoundError, ConflictError

LEMMA RefusalsAreStatuses == Refusals \subseteq Nat \ {0}
  BY DEF Refusals, BadRequest, ValidationProblem, UnauthorizedError, ForbiddenError,
         RateLimitedError, ProblemError

LEMMA TypeInit == ServiceInit => ServiceTypeOK
<1> SUFFICES ASSUME ServiceInit PROVE ServiceTypeOK
  OBVIOUS
<1>1. PICK o \in Ops :
         req = [c \in Clients |->
                  [key |-> NoKey, op |-> o, stage |-> "idle",
                   since |-> 0, answer |-> 0, late |-> TRUE]]
  BY DEF ServiceInit
<1>2. req \in [Clients -> Request]
  BY <1>1 DEF Request, Stages
<1>3. \A c \in Clients : req[c].stage = "idle" /\ req[c].answer = 0
  BY <1>1
<1> QED
  BY <1>2, <1>3 DEF ServiceInit, ServiceTypeOK

LEMMA TypeStep ==
    ASSUME ServiceTypeOK, TypeOK, Authentic, [ServiceNext]_serviceVars
    PROVE  ServiceTypeOK'
<1> USE DEF ServiceTypeOK
<1>1. ASSUME NEW k \in Keys, CreateKey(k) \/ RevokeKey(k)
      PROVE  ServiceTypeOK'
  BY <1>1 DEF CreateKey, RevokeKey
<1>2. ASSUME NEW c \in Clients, NEW k \in Keys \cup {NoKey}, NEW o \in Ops,
             Arrive(c, k, o)
      PROVE  ServiceTypeOK'
  BY <1>2 DEF Arrive, Request, Stages, storeVars
<1>3. ASSUME NEW c \in Clients, NEW stage \in Stages \ {"answered"},
             req[c].stage # "answered", NEW n \in Nat, Advance(c, stage, n),
             UNCHANGED <<storeVars, served>>
      PROVE  ServiceTypeOK'
  BY <1>3 DEF Advance, Request, Stages, storeVars
<1>4. ASSUME NEW c \in Clients, NEW a \in Refusals \cup Codes(req[c].op),
             Reply(c, a), UNCHANGED keyState, UNCHANGED scope,
             exists' \in BOOLEAN, served' \in [Keys -> Nat]
      PROVE  ServiceTypeOK'
  <2>1. a \in Nat
    <3>1. req[c].op \in Ops
      BY DEF Request
    <3> QED
      BY <3>1, CodesAreAnswers, RefusalsAreStatuses
  <2>2. req' \in [Clients -> Request]
    <3>1. [req[c] EXCEPT !.stage = "answered", !.since = 0, !.answer = a]
             \in Request
      BY <2>1 DEF Request, Stages
    <3> QED
      BY <1>4, <3>1 DEF Reply
  <2>3. /\ \A d \in Clients \ {c} : req'[d] = req[d]
        /\ req'[c].stage = "answered" /\ req'[c].answer = a
        /\ req'[c].op = req[c].op
    BY <1>4 DEF Reply, Request
  <2>4. ASSUME NEW d \in Clients
        PROVE  req'[d].answer \in IF req'[d].stage = "answered"
                                  THEN Refusals \cup Codes(req'[d].op) ELSE {0}
    <3>1. CASE d = c
      BY <1>4, <2>3, <3>1
    <3>2. CASE d # c
      BY <2>3, <3>2
    <3> QED
      BY <3>1, <3>2
  <2> QED
    BY <1>4, <2>2, <2>4
<1>5. ASSUME NEW c \in Clients, req[c].key \in Keys, Serve(c)
      PROVE  served' \in [Keys -> Nat]
  BY <1>5 DEF Serve
<1>6. ASSUME NEW c \in Clients, Resolve(c)
      PROVE  ServiceTypeOK'
  BY <1>6, <1>3 DEF Resolve, TypeOK, Stages
<1>7. ASSUME NEW c \in Clients,
             Unparsable(c) \/ Reject(c) \/ LookupFails(c) \/ ChargeFails(c)
      PROVE  ServiceTypeOK'
  <2>1. PICK a \in Refusals : Reply(c, a)
    BY <1>7 DEF Unparsable, Reject, LookupFails, ChargeFails, Refusals
  <2>2. UNCHANGED <<storeVars, served>>
    BY <1>7 DEF Unparsable, Reject, LookupFails, ChargeFails
  <2> QED
    BY <2>1, <2>2, <1>4 DEF storeVars
<1>8. ASSUME NEW c \in Clients, Admit(c)
      PROVE  ServiceTypeOK'
  <2>1. PICK n \in req[c].since .. clock : Advance(c, "charged", n)
    BY <1>8 DEF Admit
  <2>2. n \in Nat
    BY DEF Request, TypeOK
  <2> QED
    BY <1>8, <2>1, <2>2, <1>3 DEF Admit, Stages
<1>9. ASSUME NEW c \in Clients, Limit(c)
      PROVE  ServiceTypeOK'
  BY <1>9, <1>4 DEF Limit, Refusals, storeVars
<1>10. ASSUME NEW c \in Clients, Invalid(c) \/ Forbid(c) \/ HandlerFails(c)
       PROVE  ServiceTypeOK'
  <2>1. PICK a \in Refusals : Reply(c, a)
    BY <1>10 DEF Invalid, Forbid, HandlerFails, Refusals
  <2>2. served' \in [Keys -> Nat]
    BY <1>10, <1>5 DEF Invalid, Forbid, HandlerFails, Authentic
  <2>3. UNCHANGED storeVars
    BY <1>10 DEF Invalid, Forbid, HandlerFails
  <2> QED
    BY <2>1, <2>2, <2>3, <1>4 DEF storeVars
<1>11. ASSUME NEW c \in Clients, Handle(c)
       PROVE  ServiceTypeOK'
  <2>1. Outcome(req[c].op) \in Codes(req[c].op) /\ req[c].op \in Ops
    BY CodesAreAnswers DEF Request
  <2>2. exists' \in BOOLEAN
    BY <1>11 DEF Handle, ThereAfter
  <2>3. served' \in [Keys -> Nat]
    BY <1>11, <1>5 DEF Handle, Authentic
  <2> QED
    BY <1>11, <1>4, <2>1, <2>2, <2>3 DEF Handle
<1>12. CASE UNCHANGED <<storeVars, req, served>>
  BY <1>12 DEF storeVars
<1> QED
  BY <1>1, <1>2, <1>6, <1>7, <1>8, <1>9, <1>10, <1>11, <1>12
     DEF ServiceNext, Work, serviceVars

--------------------------------------------------------------------------------
(* Who is answered what.                                                    *)

LEMMA AnsweringInit == ServiceInit => Answering
<1> SUFFICES ASSUME ServiceInit PROVE Answering
  OBVIOUS
<1>1. \A c \in Clients : req[c].stage = "idle" /\ req[c].key = NoKey
  BY DEF ServiceInit
<1>2. rows = {}
  BY DEF ServiceInit, Init
<1> QED
  BY <1>1, <1>2, ServiceAssumption
     DEF Answering, Authentic, LateIsOut, RevokedShutOut, NothingDisclosed,
         OnlyIssuedKeysCharged

LEMMA AnsweringStep ==
    ASSUME ServiceTypeOK, TypeOK, Answering, [ServiceNext]_serviceVars
    PROVE  Answering'
<1> USE DEF ServiceTypeOK, Answering
<1>1. ASSUME NEW k \in Keys, CreateKey(k) \/ RevokeKey(k)
      PROVE  Answering'
  <2>1. UNCHANGED <<req, scope, rows>>
    BY <1>1 DEF CreateKey, RevokeKey, vars, bucketVars
  <2>2. \A j \in Keys : /\ keyState[j] # "absent" => keyState'[j] # "absent"
                        /\ keyState[j] = "revoked" => keyState'[j] = "revoked"
    BY <1>1 DEF CreateKey, RevokeKey
  <2>3. rows \subseteq Keys
    BY DEF TypeOK
  <2> QED
    BY <2>1, <2>2, <2>3
       DEF Authentic, LateIsOut, RevokedShutOut, NothingDisclosed,
           OnlyIssuedKeysCharged
<1>2. ASSUME NEW c \in Clients, NEW k \in Keys \cup {NoKey}, NEW o \in Ops,
             Arrive(c, k, o)
      PROVE  Answering'
  <2>1. UNCHANGED <<keyState, scope, rows>>
    BY <1>2 DEF Arrive, vars, bucketVars, storeVars
  <2>2. /\ \A d \in Clients \ {c} : req'[d] = req[d]
        /\ req'[c].stage = "arrived" /\ req'[c].key = k
        /\ req'[c].late => k = NoKey \/ keyState[k] = "revoked"
    BY <1>2 DEF Arrive
  <2>3. Authentic' /\ LateIsOut'
    BY <2>1, <2>2, ServiceAssumption DEF Authentic, LateIsOut
  <2>4. RevokedShutOut'
    BY <2>2 DEF RevokedShutOut
  <2>5. NothingDisclosed'
    BY <2>1, <2>2 DEF NothingDisclosed, Satisfies
  <2>6. OnlyIssuedKeysCharged'
    BY <2>1 DEF OnlyIssuedKeysCharged
  <2> QED
    BY <2>3, <2>4, <2>5, <2>6
\* An answer that discloses nothing, to a request that is not late unless refused.
<1>3. ASSUME NEW c \in Clients, NEW a, Reply(c, a),
             UNCHANGED <<keyState, scope>>, OnlyIssuedKeysCharged',
             \/ req[c].late => a = UnauthorizedError
             \/ req[c].op = "create" /\ a \in {ValidationProblem, BadRequest},
             a \in Refusals \/ Permitted(c)
      PROVE  Answering'
  <2>1. Authentic' /\ LateIsOut' /\ RevokedShutOut'
    BY <1>3 DEF Reply, Request, Authentic, LateIsOut, RevokedShutOut
  <2>2. NothingDisclosed'
    BY <1>3 DEF Reply, Request, NothingDisclosed, Permitted
  <2> QED
    BY <1>3, <2>1, <2>2
<1>4. ASSUME UNCHANGED rows, UNCHANGED keyState
      PROVE  OnlyIssuedKeysCharged'
  BY <1>4 DEF OnlyIssuedKeysCharged
<1>5. ASSUME NEW c \in Clients, Unparsable(c) \/ Reject(c) \/ LookupFails(c)
      PROVE  Answering'
  <2>1. PICK a \in Refusals :
              /\ Reply(c, a)
              /\ \/ a = UnauthorizedError
                 \/ req[c].op = "create" /\ a \in {ValidationProblem, BadRequest}
    BY <1>5 DEF Unparsable, Reject, LookupFails, Refusals
  <2>2. UNCHANGED <<keyState, scope, rows>>
    BY <1>5 DEF Unparsable, Reject, LookupFails, storeVars, vars, bucketVars
  <2> QED
    BY <2>1, <2>2, <1>3, <1>4
<1>6. ASSUME NEW c \in Clients, req[c].stage \in {"known", "charged"}
      PROVE  ~req[c].late /\ req[c].key \in Keys
             /\ keyState[req[c].key] # "absent"
  BY <1>6 DEF Authentic
<1>7. ASSUME NEW c \in Clients,
             Invalid(c) \/ Forbid(c) \/ HandlerFails(c) \/ ChargeFails(c)
      PROVE  Answering'
  <2>1. PICK a \in Refusals : Reply(c, a)
    BY <1>7 DEF Invalid, Forbid, HandlerFails, ChargeFails, Refusals
  <2>2. UNCHANGED <<keyState, scope, rows>> /\ ~req[c].late
    BY <1>7, <1>6
       DEF Invalid, Forbid, HandlerFails, ChargeFails, storeVars, vars, bucketVars
  <2> QED
    BY <2>1, <2>2, <1>3, <1>4
<1>8. ASSUME NEW c \in Clients, Handle(c)
      PROVE  Answering'
  BY <1>8, <1>3, <1>4, <1>6 DEF Handle, vars, bucketVars
<1>9. ASSUME NEW c \in Clients, NEW n \in Nat, req[c].stage = "known",
             Consume(req[c].key, n), UNCHANGED keyState
      PROVE  OnlyIssuedKeysCharged'
  <2>1. rows' = rows \cup {req[c].key}
    BY <1>9 DEF Consume, Settle
  <2> QED
    BY <1>9, <1>6, <2>1 DEF OnlyIssuedKeysCharged
<1>10. ASSUME NEW c \in Clients, Limit(c)
       PROVE  Answering'
  <2>1. PICK n \in req[c].since .. clock : Consume(req[c].key, n)
    BY <1>10 DEF Limit
  <2>2. n \in Nat
    BY DEF Request, TypeOK
  <2>3. OnlyIssuedKeysCharged'
    BY <1>10, <1>9, <2>1, <2>2 DEF Limit, storeVars
  <2> QED
    BY <1>10, <1>3, <1>6, <2>3 DEF Limit, Refusals, storeVars
\* Going on, for a key that is or was there.
<1>11. ASSUME NEW c \in Clients, NEW stage \in {"known", "charged"}, NEW n,
              Advance(c, stage, n), UNCHANGED storeVars,
              OnlyIssuedKeysCharged', ~req[c].late,
              req[c].key \in Keys, keyState[req[c].key] # "absent"
       PROVE  Answering'
  BY <1>11 DEF Advance, Request, Authentic, LateIsOut, RevokedShutOut,
               NothingDisclosed, storeVars
<1>12. ASSUME NEW c \in Clients, Resolve(c)
       PROVE  Answering'
  <2>1. req[c].key \in Keys /\ keyState[req[c].key] = "active"
    BY <1>12 DEF Resolve, Active
  <2>2. ~req[c].late
    BY <2>1 DEF LateIsOut
  <2> QED
    BY <1>12, <2>1, <2>2, <1>4, <1>11 DEF Resolve, storeVars, vars, bucketVars
<1>13. ASSUME NEW c \in Clients, Admit(c)
       PROVE  Answering'
  <2>1. PICK n \in req[c].since .. clock :
              Consume(req[c].key, n) /\ Advance(c, "charged", n)
    BY <1>13 DEF Admit
  <2>2. n \in Nat
    BY DEF Request, TypeOK
  <2>3. OnlyIssuedKeysCharged'
    BY <1>13, <1>9, <2>1, <2>2 DEF Admit, storeVars
  <2> QED
    BY <1>13, <1>6, <1>11, <2>1, <2>3 DEF Admit
<1>14. CASE UNCHANGED <<storeVars, req, rows>>
  BY <1>14 DEF storeVars, Authentic, LateIsOut, RevokedShutOut,
               NothingDisclosed, OnlyIssuedKeysCharged
<1>15. CASE Tick /\ UNCHANGED <<storeVars, req, served>>
  BY <1>15, <1>14 DEF Tick, bucketVars
<1> QED
  BY <1>1, <1>2, <1>5, <1>7, <1>8, <1>10, <1>12, <1>13, <1>14, <1>15
     DEF ServiceNext, Work, serviceVars, vars, bucketVars

--------------------------------------------------------------------------------
(* What goes past the limiter.                                              *)

LEMMA OnTheWayFinite ==
    ASSUME NEW k
    PROVE  IsFiniteSet(OnTheWay(k)) /\ Cardinality(OnTheWay(k)) \in Nat
  BY ServiceAssumption, FS_Subset, FS_CardinalityType DEF OnTheWay

LEMMA AccountedInit == ServiceInit => Accounted
<1> SUFFICES ASSUME ServiceInit PROVE Accounted
  OBVIOUS
<1>1. \A c \in Clients : req[c].stage = "idle"
  BY DEF ServiceInit
<1>2. \A k \in Keys : OnTheWay(k) = {} /\ served[k] = 0 /\ admitted[k] = 0
  BY <1>1 DEF OnTheWay, ServiceInit, Init
<1> QED
  BY <1>2, FS_EmptySet DEF Accounted

\* A request that is not on its way before and after a step changes nothing.
LEMMA NotOnTheWay ==
    ASSUME Accounted, NEW c \in Clients,
           req[c].stage # "charged", req'[c].stage # "charged",
           \A d \in Clients \ {c} : req'[d] = req[d],
           UNCHANGED <<served, admitted>>
    PROVE  Accounted'
<1>1. \A k \in Keys : OnTheWay(k)' = OnTheWay(k)
  BY DEF OnTheWay
<1> QED
  BY <1>1 DEF Accounted

\* An admission: one more on the way if it is stamped in the window.
LEMMA AdmitAccounted ==
    ASSUME ServiceTypeOK, TypeOK, Authentic, Accounted,
           NEW c \in Clients, Admit(c)
    PROVE  Accounted'
<1>0. PICK k \in Keys : k = req[c].key /\ req[c].stage = "known"
  BY DEF Admit, Authentic
<1>1. PICK n \in req[c].since .. clock :
            /\ Affordable(DueRow(k, n)) /\ Consume(k, n)
            /\ Advance(c, "charged", n)
  BY <1>0 DEF Admit
<1>3. /\ \A d \in Clients \ {c} : req'[d] = req[d]
      /\ req'[c].stage = "charged" /\ req'[c].key = k /\ req'[c].since = n
  BY <1>0, <1>1 DEF Advance, ServiceTypeOK, Request
<1>4. UNCHANGED served
  BY DEF Admit
<1>5. \A j \in Keys \ {k} : OnTheWay(j)' = OnTheWay(j)
  BY <1>0, <1>3 DEF OnTheWay
<1>6. admitted' = IF n \in WinStart .. WinEnd
                  THEN [admitted EXCEPT ![k] = @ + 1] ELSE admitted
  BY <1>1 DEF Consume, Settle
<1>7. \A j \in Keys : /\ served[j] \in Nat /\ admitted[j] \in Nat
                      /\ served[j] + Cardinality(OnTheWay(j)) <= admitted[j]
  BY DEF Accounted, ServiceTypeOK, TypeOK
<1>8. CASE n \in WinStart .. WinEnd
  <2>1. OnTheWay(k)' = OnTheWay(k) \cup {c} /\ c \notin OnTheWay(k)
    BY <1>0, <1>3, <1>8 DEF OnTheWay
  <2>2. Cardinality(OnTheWay(k)') = Cardinality(OnTheWay(k)) + 1
    BY <2>1, OnTheWayFinite, FS_AddElement
  <2>3. /\ admitted'[k] = admitted[k] + 1
        /\ \A j \in Keys \ {k} : admitted'[j] = admitted[j]
    BY <1>0, <1>6, <1>8 DEF TypeOK
  <2>4. ASSUME NEW j \in Keys
        PROVE  served'[j] + Cardinality(OnTheWay(j)') <= admitted'[j]
    <3>1. CASE j = k
      BY <1>0, <1>4, <1>7, <2>2, <2>3, <3>1, OnTheWayFinite
    <3>2. CASE j # k
      <4>1. OnTheWay(j)' = OnTheWay(j)
        BY <1>5, <3>2
      <4> QED
        BY <1>4, <1>7, <2>3, <3>2, <4>1
    <3> QED
      BY <3>1, <3>2
  <2> QED
    BY <2>4 DEF Accounted
<1>9. CASE n \notin WinStart .. WinEnd
  <2>1. OnTheWay(k)' = OnTheWay(k)
    BY <1>0, <1>3, <1>9 DEF OnTheWay
  <2>2. admitted' = admitted
    BY <1>6, <1>9
  <2>3. ASSUME NEW j \in Keys
        PROVE  OnTheWay(j)' = OnTheWay(j)
    BY <1>5, <2>1
  <2> QED
    BY <1>4, <2>2, <2>3 DEF Accounted
<1> QED
  BY <1>8, <1>9

\* The end of a charged request: from on its way to counted.
LEMMA ServeAccounted ==
    ASSUME ServiceTypeOK, TypeOK, Authentic, Accounted,
           NEW c \in Clients, req[c].stage = "charged",
           NEW a, Reply(c, a), Serve(c), UNCHANGED admitted
    PROVE  Accounted'
<1>1. PICK k \in Keys : k = req[c].key
  BY DEF Authentic
<1>2. (\A d \in Clients \ {c} : req'[d] = req[d]) /\ req'[c].stage = "answered"
  BY DEF Reply, ServiceTypeOK, Request
<1>3. \A j \in Keys \ {k} : OnTheWay(j)' = OnTheWay(j)
  BY <1>1, <1>2 DEF OnTheWay
<1>4. OnTheWay(k)' = OnTheWay(k) \ {c}
  <2>1. ASSUME NEW d \in Clients
        PROVE  d \in OnTheWay(k)' <=> d \in OnTheWay(k) /\ d # c
    BY <1>1, <1>2 DEF OnTheWay
  <2> QED
    BY <2>1 DEF OnTheWay
<1>5. \A j \in Keys : /\ served[j] \in Nat /\ admitted[j] \in Nat
                      /\ served[j] + Cardinality(OnTheWay(j)) <= admitted[j]
  BY DEF Accounted, ServiceTypeOK, TypeOK
<1>6. CASE req[c].since \in WinStart .. WinEnd
  <2>1. c \in OnTheWay(k)
    BY <1>1, <1>6 DEF OnTheWay
  <2>2. Cardinality(OnTheWay(k)') = Cardinality(OnTheWay(k)) - 1
    BY <1>4, <2>1, OnTheWayFinite, FS_RemoveElement
  <2>3. /\ served'[k] = served[k] + 1
        /\ \A j \in Keys \ {k} : served'[j] = served[j]
    BY <1>1, <1>6 DEF Serve, ServiceTypeOK
  <2>4. ASSUME NEW j \in Keys
        PROVE  served'[j] + Cardinality(OnTheWay(j)') <= admitted'[j]
    <3>1. CASE j = k
      BY <1>1, <1>5, <2>2, <2>3, <3>1, OnTheWayFinite
    <3>2. CASE j # k
      <4>1. OnTheWay(j)' = OnTheWay(j)
        BY <1>3, <3>2
      <4> QED
        BY <1>5, <2>3, <3>2, <4>1
    <3> QED
      BY <3>1, <3>2
  <2> QED
    BY <2>4 DEF Accounted
<1>7. CASE req[c].since \notin WinStart .. WinEnd
  <2>1. OnTheWay(k)' = OnTheWay(k) /\ UNCHANGED served
    BY <1>4, <1>7 DEF OnTheWay, Serve
  <2>2. ASSUME NEW j \in Keys
        PROVE  OnTheWay(j)' = OnTheWay(j)
    BY <1>3, <2>1
  <2> QED
    BY <2>1, <2>2 DEF Accounted
<1> QED
  BY <1>6, <1>7

LEMMA AccountedStep ==
    ASSUME ServiceTypeOK, TypeOK, Authentic, Accounted,
           [ServiceNext]_serviceVars
    PROVE  Accounted'
<1>1. CASE UNCHANGED <<req, served, admitted>>
  BY <1>1 DEF Accounted, OnTheWay
<1>2. ASSUME NEW c \in Clients, NEW k \in Keys \cup {NoKey}, NEW o \in Ops,
             Arrive(c, k, o)
      PROVE  Accounted'
  <2>1. /\ \A d \in Clients \ {c} : req'[d] = req[d]
        /\ req'[c].stage = "arrived" /\ req[c].stage # "charged"
        /\ UNCHANGED <<served, admitted>>
    BY <1>2 DEF Arrive, ServiceTypeOK, vars, bucketVars
  <2> QED
    BY <2>1, NotOnTheWay
<1>3. ASSUME NEW c \in Clients, Resolve(c)
      PROVE  Accounted'
  <2>1. /\ \A d \in Clients \ {c} : req'[d] = req[d]
        /\ req'[c].stage = "known" /\ req[c].stage # "charged"
        /\ UNCHANGED <<served, admitted>>
    BY <1>3 DEF Resolve, Advance, ServiceTypeOK, Request, vars, bucketVars
  <2> QED
    BY <2>1, NotOnTheWay
<1>4. ASSUME NEW c \in Clients, NEW a, Reply(c, a), req[c].stage # "charged",
             UNCHANGED <<served, admitted>>
      PROVE  Accounted'
  <2>1. (\A d \in Clients \ {c} : req'[d] = req[d]) /\ req'[c].stage = "answered"
    BY <1>4 DEF Reply, ServiceTypeOK, Request
  <2> QED
    BY <1>4, <2>1, NotOnTheWay
<1>5. ASSUME NEW c \in Clients,
             Unparsable(c) \/ Reject(c) \/ LookupFails(c) \/ ChargeFails(c)
      PROVE  Accounted'
  BY <1>4, <1>5
     DEF Unparsable, Reject, LookupFails, ChargeFails, vars, bucketVars
<1>6. ASSUME NEW c \in Clients, Limit(c)
      PROVE  Accounted'
  <2>1. UNCHANGED admitted
    BY <1>6 DEF Limit, Consume, Settle
  <2> QED
    BY <1>4, <1>6, <2>1 DEF Limit
<1>7. ASSUME NEW c \in Clients,
             Invalid(c) \/ Forbid(c) \/ Handle(c) \/ HandlerFails(c)
      PROVE  Accounted'
  BY <1>7, ServeAccounted
     DEF Invalid, Forbid, Handle, HandlerFails, vars, bucketVars
<1> QED
  BY <1>1, <1>2, <1>3, <1>5, <1>6, <1>7, AdmitAccounted
     DEF ServiceNext, Work, serviceVars, vars, bucketVars, Tick, CreateKey,
         RevokeKey

--------------------------------------------------------------------------------
(* Together.                                                                *)

LEMMA ServiceInitInv == ServiceInit => ServiceInv
  BY InitInv, TypeInit, AnsweringInit, AccountedInit DEF ServiceInv, ServiceInit

LEMMA ServiceNextInv == ServiceInv /\ [ServiceNext]_serviceVars => ServiceInv'
<1> SUFFICES ASSUME ServiceInv, [ServiceNext]_serviceVars PROVE ServiceInv'
  OBVIOUS
<1>1. ServiceTypeOK /\ TypeOK /\ Authentic /\ Answering /\ IInv /\ Accounted
  BY DEF ServiceInv, IInv, Answering
<1> QED
  BY <1>1, BucketInv, TypeStep, AnsweringStep, AccountedStep DEF ServiceInv

THEOREM ServiceInvariance == ServiceSpec => []ServiceInv
  BY ServiceInitInv, ServiceNextInv, PTL DEF ServiceSpec

\* Every variable of the service keeps its shape, and every operation answers
\* with a status the documents give it (the routes of api/tasks.py).
THEOREM ServiceTypes == ServiceSpec => []ServiceTypeOK
  BY ServiceInvariance, PTL DEF ServiceInv

\* Every behaviour of the service is one of the bucket: requests touch it by
\* atomic refill-and-debits only (rate_dep).
THEOREM ServiceIsBucket == ServiceSpec => Spec
<1>1. ServiceInit => Init
  BY DEF ServiceInit
<1>2. ServiceInv /\ [ServiceNext]_serviceVars => [Next]_vars
  BY BucketStep DEF ServiceInv, Answering
<1> QED
  BY <1>1, <1>2, ServiceInvariance, PTL DEF ServiceSpec, Spec

\* What passes the limiter in a window is bounded by the bucket, for any clients
\* and any failures between the charge and the answer (auth_dep).
THEOREM ServedBounded == ServiceSpec => []ServedBound
<1>1. ServiceInv => ServedBound
  <2> SUFFICES ASSUME ServiceInv, NEW k \in Keys
               PROVE  Cost * served[k] <= Burst + Rate * (WinEnd - WinStart)
    BY DEF ServedBound
  <2>1. Cost * admitted[k] <= Burst + Rate * (WinEnd - WinStart)
    BY DEF ServiceInv, IInv, WindowBound
  <2>2. served[k] \in Nat /\ admitted[k] \in Nat /\ served[k] <= admitted[k]
    BY OnTheWayFinite DEF ServiceInv, IInv, ServiceTypeOK, TypeOK, Accounted
  <2>3. Cost * served[k] <= Cost * admitted[k]
    BY <2>2, MulMono, BucketAssumption
  <2>4. /\ Cost * served[k] \in Int /\ Cost * admitted[k] \in Int
        /\ Rate * (WinEnd - WinStart) \in Int
    BY <2>2, BucketAssumption, WindowAssumption
  <2> QED
    BY <2>1, <2>3, <2>4, BucketAssumption
<1> QED
  BY <1>1, ServiceInvariance, PTL

\* A revoked or missing key gets 401 and nothing else, unless its body cannot be
\* parsed, however its request interleaves with the operator and with other
\* requests (auth_dep).
THEOREM RevocationBites == ServiceSpec => []RevokedShutOut
  BY ServiceInvariance, PTL DEF ServiceInv, Answering

\* Who lacks the scope learns nothing of the task (check_scope).
THEOREM ScopeHides == ServiceSpec => []NothingDisclosed
  BY ServiceInvariance, PTL DEF ServiceInv, Answering

\* Only issued keys have buckets (rate_dep).
THEOREM IssuedKeysOnly == ServiceSpec => []OnlyIssuedKeysCharged
  BY ServiceInvariance, PTL DEF ServiceInv, Answering
================================================================================
