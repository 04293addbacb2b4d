-------------------------------- MODULE MCSchema -------------------------------
(* Instances of Schema for TLC.                                             *)
EXTENDS Schema, TLC

BothDialects == {"postgresql", "sqlite"}
Symmetric == Permutations(Ids) \cup Permutations(Names) \cup Permutations(Values)
================================================================================
