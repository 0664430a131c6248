---------------------------- MODULE MCGraphMemory ----------------------------
(* Small instances of GraphMemory.                                          *)
EXTENDS GraphMemory, TLC

\* The members of each set play the same part.
Symmetric == Permutations(Procs) \cup Permutations(Sessions)
             \cup Permutations(Alerts) \cup Permutations(Graphs)
=============================================================================
