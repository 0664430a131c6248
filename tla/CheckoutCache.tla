---------------------------- MODULE CheckoutCache ----------------------------
(***************************************************************************)
(* What the cache directories of the importer come to, whatever processes  *)
(* clone into them.  A directory is claimed while nothing is in it.  As    *)
(* long as one process at a time claims it, that one makes a whole         *)
(* checkout of it, withdraws it, or abandons it; a whole one stays, and so *)
(* does one that was abandoned with something in it.  Claimed by another   *)
(* meanwhile, it is shared, and what becomes of it is up to chance until   *)
(* both have left.                                                         *)
(***************************************************************************)
CONSTANTS Procs, Repos

VARIABLES
    content,  \* what is in the directory of a repository
    makers,   \* the processes that are making it
    shared    \* the directories that had two makers, since they were new

cacheVars == <<content, makers, shared>>

Init ==
    /\ content \in [Repos -> {"none", "whole"}]
    /\ makers = [r \in Repos |-> {}]
    /\ shared = {}

Claim(p, r) ==
    /\ content[r] \in {"none", "empty"}
    /\ content' = [content EXCEPT ![r] = "empty"]
    /\ makers' = [makers EXCEPT ![r] = @ \cup {p}]
    /\ shared' = CASE makers[r] # {} -> shared \cup {r}
                   [] makers[r] = {} /\ content[r] = "none" -> shared \ {r}
                   [] makers[r] = {} /\ content[r] = "empty" -> shared

Fill(r) ==
    /\ makers[r] # {}
    /\ content[r] = "empty" \/ r \in shared
    /\ content' = [content EXCEPT ![r] = "part"]
    /\ UNCHANGED <<makers, shared>>

\* Whoever leaves a directory has made, removed, emptied or abandoned it.
Leave(p, r) ==
    /\ p \in makers[r]
    /\ makers' = [makers EXCEPT ![r] = @ \ {p}]
    /\ \E left \in {"none", "empty", "part", "whole"} : content' = [content EXCEPT ![r] = left]
    /\ UNCHANGED shared

Next == \E r \in Repos : Fill(r) \/ \E p \in Procs : Claim(p, r) \/ Leave(p, r)

Spec == Init /\ [][Next]_cacheVars
=============================================================================
