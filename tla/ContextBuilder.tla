---------------------------- MODULE ContextBuilder ----------------------------
(***************************************************************************)
(* A graph query, answered from the local index of its snapshot or, when   *)
(* there is none, by GitNexus, and the evidence bundle Structure 2 builds  *)
(* from one or two of them: a first query, a deeper one (recall) when the  *)
(* first gave little, the merge, and the partition into the evidence that  *)
(* Structure 3 sees.                                                       *)
(*                                                                         *)
(* The evidence of a node or a relationship is represented by the node or  *)
(* relationship itself; the four partitions by source type by their union. *)
(* Similar incidents, and where the index comes from, are in GraphMemory.  *)
(***************************************************************************)
EXTENDS GitNexusContext

CONSTANTS
    Terms,        \* query terms
    Routes,       \* those that start with a slash
    BuildDepth,   \* max_depth of build_graph_query
    RecallDepth,  \* RECALL_MAX_DEPTH
    MinRefs       \* MIN_RECALL_EVIDENCE_REFS

ASSUME BuilderAssumption ==
    /\ Routes \subseteq Terms
    /\ BuildDepth \in 2..MaxDepth /\ RecallDepth \in BuildDepth..MaxDepth
    /\ MinRefs \in Nat

VARIABLES
    request,  \* QueryGraph, or BuildEvidenceBundle and its round
    match,    \* what a term finds, for the terms searched for so far
    context,  \* the GraphContext, merged once the recall has been answered
    bundle    \* the EvidenceBundle

vars == <<searchVars, graph, request, match, context, bundle>>

Items == Ids \cup Edge

Context == [nodes : SUBSET Ids, edges : SUBSET Edge, paths : SUBSET Seq(Ids),
            evidence : SUBSET Items]
NoContext == [nodes |-> {}, edges |-> {}, paths |-> {}, evidence |-> {}]

NoBundle == [nodes |-> {}, paths |-> {}, evidence |-> {}, missing |-> {}]

\* The terms of a request, in any order and without repetition.
TermLists == Orders(Terms)

Request ==
    [round : {"query", "base", "recall"}, terms : TermLists, types : SUBSET Types, depth : 1..MaxDepth]

\* Those a caller may make; a recall is made of one.
Requests ==
    [round : {"query"}, terms : TermLists, types : SUBSET Types, depth : 1..MaxDepth]
        \cup [round : {"base"}, terms : TermLists, types : {{}}, depth : {BuildDepth}]

-----------------------------------------------------------------------------
(* Helpers.  A definition that stands just before another one, and is used  *)
(* nowhere, is a seeded bug: the mutant of the other that PROJECT.json names. *)

\* plan_graph_query: the first route, else the first term.
PlannedTerm(terms) ==
    LET routes == SelectSeq(terms, LAMBDA t : t \in Routes)
    IN  IF routes # <<>> THEN Head(routes) ELSE Head(terms)

\* _recall_graph_query: its terms repeat those of the first query, so only the
\* depth is new.
RecallLess(r) == [r EXCEPT !.round = "recall", !.depth = RecallDepth - BuildDepth]
RecallRequest(r) ==
    [r EXCEPT !.round = "recall", !.depth = IF @ > RecallDepth THEN @ ELSE RecallDepth]

\* A node is evidence when it has a file path, a relationship always.
Located(n) == n \in graph.located
CollectEvidence(a) == {n \in a.nodes : Located(n)} \cup a.edges

MapPayload(a) ==
    [nodes |-> a.nodes, edges |-> a.edges, paths |-> a.paths, evidence |-> CollectEvidence(a)]

NeedsRecall(c) == c.paths = {} \/ Cardinality(c.evidence) < MinRefs

Merge(c, d) ==
    [nodes |-> c.nodes \cup d.nodes, edges |-> c.edges \cup d.edges,
     paths |-> c.paths \cup d.paths, evidence |-> c.evidence \cup d.evidence]

\* llm_semantic_summary has no partition.
Semantic(x) == x \in Summaries \/ x \in [source : Symbols, type : {Describes}, target : Summaries]

Partitions(c) == {x \in c.evidence : ~ Semantic(x)}

MissingChains(c) ==
    {part \in {"nodes", "evidence"} : c[part] = {}}
        \cup (IF \A p \in c.paths : Len(p) = 1 THEN {"paths"} ELSE {})
Missing(c) == {part \in {"nodes", "paths", "evidence"} : c[part] = {}}

BundleOf(c) ==
    [nodes |-> c.nodes, paths |-> c.paths, evidence |-> Partitions(c), missing |-> Missing(c)]

-----------------------------------------------------------------------------
(* query_graph, build_evidence_bundle                                       *)

Init ==
    /\ SearchInit \/ LiveInit
    /\ pc = "plan"
    /\ request \in Requests
    /\ match = <<>>
    /\ context = NoContext
    /\ bundle = NoBundle

\* What a term finds is chosen when it is first searched for.
Find(term) ==
    \E S \in SUBSET graph.nodes :
        match' = [t \in {term} \cup DOMAIN match |->
                     IF t \in DOMAIN match THEN match[t] ELSE S]

QueryOf(term) == [found |-> match'[term], types |-> request.types, depth |-> request.depth]

\* No request here has the edge filter "impact", which the planner turns into a
\* live query even of an indexed graph: Structure 2 sets no filters.
QueryLocalIndex ==
    /\ pc = "plan"
    /\ Find(PlannedTerm(request.terms))
    /\ StartSearch(QueryOf(PlannedTerm(request.terms)))
    /\ UNCHANGED <<request, context, bundle>>

QueryGitNexus ==
    /\ pc = "plan"
    /\ Find(PlannedTerm(request.terms))
    /\ AskGitNexus(QueryOf(PlannedTerm(request.terms)))
    /\ UNCHANGED <<request, context, bundle>>

\* A timeout, an exit code or a reply that is no JSON ends the whole request,
\* the answer of a first query included.
GitNexusFails ==
    /\ pc = "plan" /\ ~ graph.indexed
    /\ pc' = "failed"
    /\ UNCHANGED <<graph, query, seeds, queue, chains, incoming, answer, request, match, context, bundle>>

SearchStep ==
    /\ Search
    /\ UNCHANGED <<request, match, context, bundle>>

QueryGraph ==
    /\ pc = "found" /\ request.round = "query"
    /\ context' = MapPayload(answer)
    /\ pc' = "done"
    /\ UNCHANGED <<graph, query, seeds, queue, chains, incoming, answer, request, match, bundle>>

Recall ==
    /\ pc = "found" /\ request.round = "base"
    /\ NeedsRecall(MapPayload(answer))
    /\ context' = MapPayload(answer)
    /\ request' = RecallRequest(request)
    /\ pc' = "plan"
    /\ UNCHANGED <<graph, query, seeds, queue, chains, incoming, answer, match, bundle>>

BuildBundle ==
    /\ pc = "found" /\ request.round \in {"base", "recall"}
    /\ request.round = "base" => ~ NeedsRecall(MapPayload(answer))
    /\ context' = Merge(context, MapPayload(answer))
    /\ bundle' = BundleOf(context')
    /\ pc' = "done"
    /\ UNCHANGED <<graph, query, seeds, queue, chains, incoming, answer, request, match>>

Next ==
    \/ QueryLocalIndex \/ QueryGitNexus \/ GitNexusFails
    \/ SearchStep \/ QueryGraph \/ Recall \/ BuildBundle

Spec == Init /\ [][Next]_vars

-----------------------------------------------------------------------------
(* Properties                                                               *)

TypeOK ==
    /\ SearchTypeOK
    /\ pc \in {"plan", "incoming", "outgoing", "found", "done", "failed"}
    /\ request \in Request
    /\ \A t \in DOMAIN match : match[t] \subseteq graph.nodes
    /\ context.nodes \subseteq graph.nodes
    /\ context.edges \subseteq Edges
    /\ context.evidence \subseteq graph.nodes \cup Edges

Built == pc = "done" /\ request.round # "query"

\* A bundle has matched nodes if and only if it has paths, and says which are
\* missing together; without them it has no evidence either.  Structure 3
\* takes the one as a sign of the other.
MissingTogether ==
    Built =>
        /\ "nodes" \in bundle.missing <=> "paths" \in bundle.missing
        /\ "paths" \in bundle.missing => "evidence" \in bundle.missing

\* Leaving out what a language model wrote never empties a bundle of its
\* evidence: a summary is only found together with the code it describes.
EvidenceIsGrounded ==
    Built /\ "evidence" \notin bundle.missing => bundle.evidence # {}

Within(p, q) == \E k \in 0..Len(q) : \A i \in DOMAIN p : k + i \in DOMAIN q /\ q[k + i] = p[i]

\* A recall of an index deepens: every path of the first query is part of a
\* path of the second, although both are cut to their depth.
RecallDeepens ==
    Built /\ request.round = "recall" /\ graph.indexed =>
        \A p \in context.paths : \E q \in answer.paths : Within(p, q)

\* So the merge of both answers of an index brings back the shorter paths, and
\* no evidence that the recall has not: nothing is mixed that the deeper query
\* would not have found by itself.
MergeAddsPathsOnly ==
    Built /\ request.round = "recall" /\ graph.indexed =>
        context.nodes = answer.nodes /\ context.edges = answer.edges
=============================================================================
