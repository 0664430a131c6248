---------------------------- MODULE GitNexusContext ----------------------------
(***************************************************************************)
(* A query that no local index can answer, here or in the store: GitNexus  *)
(* is asked for one symbol and its direct callers and callees.  Filters    *)
(* and depth play no part in that answer.  Its nodes and its relationships *)
(* are cut to their limits one apart from the other, and the mapper leaves *)
(* both as they are: a relationship may be there without its end.          *)
(*                                                                         *)
(* The process that is asked is external: what it lists, and in what       *)
(* order, is a choice.                                                     *)
(***************************************************************************)
EXTENDS LocalGraphIndex

CONSTANTS
    Calls,     \* CALLS, the one relationship a symbol context is made of
    LiveRows   \* bound: the relationships of a graph that is not indexed

ASSUME ContextAssumption == IsFiniteSet(Symbols) /\ Calls \in EdgeTypes /\ LiveRows \in Nat

\* What GitNexus knows of a repository: no limit applies, nothing dangles.
LiveInit ==
    /\ \E rows \in {R \in SUBSET Rows : Cardinality(R) <= LiveRows}, nodes \in SUBSET Symbols :
          /\ Ends(rows) \subseteq nodes
          /\ \E located \in SUBSET nodes :
                graph = [nodes |-> nodes, edges |-> rows, located |-> located, indexed |-> FALSE]
    /\ Empty

Orders(S) == {s \in [1..Cardinality(S) -> S] : Elements(s) = S}

Call(n, m) == [source |-> n, type |-> Calls, target |-> m]

Callers(n) == {m \in graph.nodes : Call(m, n) \in graph.edges}
Callees(n) == {m \in graph.nodes : Call(n, m) \in graph.edges}

\* The dictionary of nodes keeps the first of each, and is then cut.
KeptBelow(around) ==
    {around[i] : i \in {i \in DOMAIN around : Cardinality(Elements(First(around, i))) < NodeCap}}
Kept(around) ==
    {around[i] : i \in {i \in DOMAIN around : Cardinality(Elements(First(around, i))) <= NodeCap}}

CallList(n, callers, callees) ==
    [i \in DOMAIN callers |-> Call(callers[i], n)] \o [i \in DOMAIN callees |-> Call(n, callees[i])]

Through(n, callers, callees) == First(callers, 1) \o <<n>> \o First(callees, 1)

\* _normalize_context_query_payload, map_query_payload
ContextOf(n, callers, callees) ==
    [nodes |-> Kept(<<n>> \o callers \o callees),
     edges |-> Elements(First(CallList(n, callers, callees), EdgeCap)),
     paths |-> {Through(n, callers, callees)}]

\* A symbol that is found may still have no context.
AskGitNexus(q) ==
    /\ ~ graph.indexed
    /\ query' = q
    /\ \/ answer' = NotFound
       \/ \E n \in q.found :
             \E callers \in Orders(Callers(n)), callees \in Orders(Callees(n)) :
                answer' = ContextOf(n, callers, callees)
    /\ pc' = "found"
    /\ UNCHANGED <<graph, seeds, queue, chains, incoming>>

-----------------------------------------------------------------------------
(* Properties                                                               *)

Uncut == Cardinality(answer.nodes) < NodeCap /\ Cardinality(answer.edges) < EdgeCap

\* An answer is a graph: its relationships join nodes of it, and its paths run
\* over nodes and relationships of it.  An index keeps this although nodes and
\* relationships of its payload were cut independently; an answer of GitNexus
\* does unless it was cut itself.  One that was may have relationships that
\* lost an end, but never both.
AnswerIsClosed ==
    /\ \A e \in answer.edges : {e.source, e.target} \cap answer.nodes # {}
    /\ graph.indexed \/ Uncut =>
        /\ \A e \in answer.edges : {e.source, e.target} \subseteq answer.nodes
        /\ \A p \in answer.paths :
            /\ Elements(p) \subseteq answer.nodes
            /\ \A i \in Steps(p) : Between(p, i) \cap answer.edges # {}

\* What was searched for is in the answer, whatever was cut: a path passes it,
\* and its node is kept.
AnswerHasCenter ==
    \A p \in answer.paths : Elements(p) \cap query.found \cap answer.nodes # {}
=============================================================================
