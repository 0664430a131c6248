-------------------------- MODULE MCIncidentMemory --------------------------
(* Small instances of IncidentMemory.                                       *)
EXTENDS IncidentMemory, TLC

Symmetric == Permutations(Alerts) \cup Permutations(Repos) \cup Permutations(Sessions)
                 \cup Permutations(ErrorTypes)
=============================================================================
