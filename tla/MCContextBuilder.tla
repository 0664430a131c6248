-------------------------- MODULE MCContextBuilder --------------------------
(* Small instances of ContextBuilder.                                       *)
EXTENDS ContextBuilder, TLC

Symmetric == Permutations(Symbols)
=============================================================================
