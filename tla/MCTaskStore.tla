----------------------------- MODULE MCTaskStore -----------------------------
(* Instances of TaskStore for TLC.                                          *)
EXTENDS TaskStore, TLC

ThreeIds == 1..3
Symmetric == Permutations(Names) \cup Permutations(Runs) \cup Permutations(Admins)
=============================================================================
