------------------------------- MODULE BoundedPool -----------------------------
(***************************************************************************)
(* What FR-08 promises of the concurrency gate (AC-8.1): at most Cap runs   *)
(* execute at a time and the others wait in FIFO order.  A waiting run may  *)
(* withdraw.  A slot that comes free is granted to the head of the queue a  *)
(* little later, but never to a newcomer past the queue.                    *)
(*                                                                         *)
(* The queue is an order: ahead of each run that waits are those that       *)
(* waited when it came and still do.                                       *)
(***************************************************************************)
EXTENDS Integers, FiniteSets

CONSTANTS Runs, Cap

VARIABLES phase, ahead

vars == <<phase, ahead>>

Executing == {r \in Runs : phase[r] = "executing"}
Queued    == {r \in Runs : phase[r] = "queued"}

Free     == Cardinality(Executing) < Cap
First(q) == phase[q] = "queued" /\ ahead[q] = {}

Init ==
    /\ phase = [r \in Runs |-> "idle"]
    /\ ahead = [r \in Runs |-> {}]

\* Run q stops waiting, and nobody waits behind it any more.
Dequeue(q) == ahead' = [r \in Runs |-> IF r = q THEN {} ELSE ahead[r] \ {q}]

\* A newcomer takes a free slot if nobody waits; otherwise, or because the gate
\* is busy handing a slot over, it joins the queue.
Arrive(r) ==
    /\ phase[r] = "idle"
    /\ \/ /\ Free /\ Queued = {}
          /\ phase' = [phase EXCEPT ![r] = "executing"]
          /\ UNCHANGED ahead
       \/ /\ phase' = [phase EXCEPT ![r] = "queued"]
          /\ ahead' = [ahead EXCEPT ![r] = Queued]

Grant(q) ==
    /\ First(q) /\ Free
    /\ phase' = [phase EXCEPT ![q] = "executing"]
    /\ Dequeue(q)

Leave(r) ==
    /\ phase[r] = "executing"
    /\ phase' = [phase EXCEPT ![r] = "ended"]
    /\ UNCHANGED ahead

Withdraw(r) ==
    /\ phase[r] = "queued"
    /\ phase' = [phase EXCEPT ![r] = "ended"]
    /\ Dequeue(r)

Next == \E r \in Runs : Arrive(r) \/ Grant(r) \/ Leave(r) \/ Withdraw(r)

Spec == Init /\ [][Next]_vars
================================================================================
