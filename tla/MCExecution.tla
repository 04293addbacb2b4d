-------------------------------- MODULE MCExecution ----------------------------
(* Instances of Execution for TLC.                                          *)
EXTENDS Execution, TLC

OneId == {1}
PrivateLoops == [r \in Runs |-> r]
PrivateLoopsSet == Runs \cup {"main"}
================================================================================
