----------------------------- MODULE MCRCAEngine -----------------------------
(* Small instances of RCAEngine.                                            *)
EXTENDS RCAEngine, TLC

Symmetric == Permutations(Evidence)
=============================================================================
