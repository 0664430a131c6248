---------------------------- MODULE SharedCatalog ----------------------------
(***************************************************************************)
(* What remains of GraphCatalog when several backend processes serve one   *)
(* database: a deletion is decided in one step and carried out in another, *)
(* so a graph may be dropped that came to be referred to in between.  A    *)
(* graph that was referred to when it was not doomed is safe.              *)
(***************************************************************************)
CONSTANTS Alerts, Graphs, NoGraph

VARIABLES
    rows,   \* graphs that can be loaded
    gone,   \* graphs that were dropped
    refs,   \* the graph the incident of an alert refers to
    doomed  \* graphs that somebody has decided to drop

catalogVars == <<rows, gone, refs, doomed>>

Init ==
    /\ rows = {} /\ gone = {} /\ doomed = {}
    /\ refs = [a \in Alerts |-> NoGraph]

Publish(g) ==
    /\ g \notin rows \cup gone
    /\ rows' = rows \cup {g}
    /\ UNCHANGED <<gone, refs, doomed>>

Refer(a, g) ==
    /\ refs' = [refs EXCEPT ![a] = g]
    /\ UNCHANGED <<rows, gone, doomed>>

Doom(g) ==
    /\ \A a \in Alerts : refs[a] # g
    /\ doomed' = doomed \cup {g}
    /\ UNCHANGED <<rows, gone, refs>>

Spare(g) ==
    /\ doomed' = doomed \ {g}
    /\ UNCHANGED <<rows, gone, refs>>

\* Somebody else may have decided the same.
Drop(g) ==
    /\ g \in doomed \cap rows
    /\ rows' = rows \ {g}
    /\ gone' = gone \cup {g}
    /\ doomed' \in {doomed, doomed \ {g}}
    /\ UNCHANGED refs

Next ==
    \E g \in Graphs :
        \/ Publish(g) \/ Doom(g) \/ Spare(g) \/ Drop(g)
        \/ \E a \in Alerts : Refer(a, g)

Spec == Init /\ [][Next]_catalogVars
=============================================================================
