---------------------------- MODULE GraphCatalog -----------------------------
(***************************************************************************)
(* What the middleware promises about stored graphs, whatever processes,   *)
(* caches and transactions it takes: a graph is published once, incidents  *)
(* refer to graphs, and a graph that an incident refers to is not dropped. *)
(* A reference may name a graph that was dropped before it was made.       *)
(***************************************************************************)
CONSTANTS Alerts, Graphs, NoGraph

VARIABLES
    rows,  \* graphs that can be loaded
    gone,  \* graphs that were dropped
    refs   \* the graph the incident of an alert refers to

catalogVars == <<rows, gone, refs>>

Init ==
    /\ rows = {} /\ gone = {}
    /\ refs = [a \in Alerts |-> NoGraph]

Publish(g) ==
    /\ g \notin rows \cup gone
    /\ rows' = rows \cup {g}
    /\ UNCHANGED <<gone, refs>>

Refer(a, g) ==
    /\ refs' = [refs EXCEPT ![a] = g]
    /\ UNCHANGED <<rows, gone>>

Drop(g) ==
    /\ g \in rows
    /\ \A a \in Alerts : refs[a] # g
    /\ rows' = rows \ {g}
    /\ gone' = gone \cup {g}
    /\ UNCHANGED refs

Next ==
    \E g \in Graphs : Publish(g) \/ Drop(g) \/ \E a \in Alerts : Refer(a, g)

Spec == Init /\ [][Next]_catalogVars
=============================================================================
