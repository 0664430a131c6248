----------------------------- MODULE MCWorkbench -----------------------------
(* Small instances of Workbench.                                            *)
EXTENDS Workbench, TLC

Symmetric == Permutations(Alerts)

\* Bound: what follows the first overtaken answer is not explored.
UpToFirstMix == ~ mixed
=============================================================================
