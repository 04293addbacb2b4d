----------------------------- MODULE MCTokenBucket -----------------------------
(* TokenBucket on small instances.  See the cfg files for the sets and bounds. *)
EXTENDS TokenBucket, TLC

\* Workers are interchangeable, and so are keys (safety runs only).
Symmetric == Permutations(Workers) \cup Permutations(Keys)
================================================================================
