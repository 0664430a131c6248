---------------------------- MODULE MCRepoIndexing ----------------------------
(* Small instances of RepoIndexing.                                         *)
EXTENDS RepoIndexing
=============================================================================
