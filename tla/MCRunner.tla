--------------------------------- MODULE MCRunner ------------------------------
(* Runner on small instances.  See the cfg files for sets and bounds. *)
EXTENDS Runner, TLC

\* All runs and shutdown() on one loop: callers of run_task / execute_task.
OneLoop == [r \in Runs |-> "main"]
OneLoopSet == {"main"}

\* Every run on a private loop, as start_task makes them; shutdown() on the
\* server's loop.
PrivateLoops == [r \in Runs |-> r]
PrivateLoopsSet == Runs \cup {"main"}

Symmetric == Permutations(Runs)
================================================================================
