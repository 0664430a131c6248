--------------------------- MODULE LocalGraphIndex ---------------------------
(***************************************************************************)
(* The search of the process-local index of a snapshot (LocalGraphIndex):  *)
(* the seeds of a term, the chains of relationships into and out of each   *)
(* seed, their combination into context paths, and the part of the graph   *)
(* that is returned.                                                       *)
(*                                                                         *)
(* The code keeps lists, sorts them and walks a queue; the model has sets, *)
(* so order is left out, and a path found twice counts once.  The search   *)
(* treats a path in the queue alone, whatever else the queue holds, and    *)
(* the queue is ordered by length: a step takes all paths of one length,   *)
(* of all seeds.                                                           *)
(***************************************************************************)
EXTENDS Naturals, Sequences, FiniteSets

CONSTANTS
    Symbols,    \* node ids that GitNexus or an enricher gives
    EdgeTypes,  \* types of the relationships between them
    Describes,  \* SEMANTIC_EDGE_TYPE: from a symbol to its summary
    NodeCap,    \* LEGACY_PILOT_MAX_GRAPH_NODES
    EdgeCap,    \* LEGACY_PILOT_MAX_GRAPH_EDGES
    MaxDepth    \* the largest max_depth of a query

ASSUME SearchAssumption ==
    /\ Describes \notin EdgeTypes
    /\ NodeCap \in Nat \ {0} /\ EdgeCap \in Nat
    /\ MaxDepth \in Nat \ {0}

VARIABLES
    graph,     \* the payload the index was made from, or what GitNexus knows
    pc,        \* the place in the search, or in the request around it
    query,     \* [found, types, depth]: what is searched for
    seeds,     \* the nodes the search starts from
    queue,     \* the paths still to be extended
    chains,    \* the paths of the current direction that are finished
    incoming,  \* the finished paths into a seed
    answer     \* the payload of the result

searchVars == <<pc, query, seeds, queue, chains, incoming, answer>>

Summary(n) == [summaryOf |-> n]
Summaries == {Summary(n) : n \in Symbols}
Ids == Symbols \cup Summaries
Types == EdgeTypes \cup {Describes}
Edge == [source : Ids, type : Types, target : Ids]
Rows == [source : Symbols, type : EdgeTypes, target : Symbols]

\* An id is that of a symbol or of a summary.
ASSUME IdAssumption == Symbols \cap (Summaries \cup Edge) = {}

Query == [found : SUBSET Ids, types : SUBSET Types, depth : 1..MaxDepth]
NoQuery == [found |-> {}, types |-> {}, depth |-> 1]

Answer == [nodes : SUBSET Ids, edges : SUBSET Edge, paths : SUBSET Seq(Ids)]
NotFound == [nodes |-> {}, edges |-> {}, paths |-> {}]

Elements(p) == {p[i] : i \in DOMAIN p}

-----------------------------------------------------------------------------
(* Helpers.  A definition that stands just before another one, and is used  *)
(* nowhere, is a seeded bug: the mutant of the other that PROJECT.json names. *)

\* The bounded read of the analysis.  Relationships are cut to EdgeCap, and
\* nodes, independently, to NodeCap of the ends: relationships may dangle.
\* The enrichers add symbols after the cut, and the semantic one a summary of
\* each symbol it describes, which has a file path.
Payload(rows, nodes, located, described) ==
    [nodes |-> nodes \cup {Summary(n) : n \in described},
     edges |-> rows \cup {[source |-> n, type |-> Describes, target |-> Summary(n)] :
                             n \in described},
     located |-> located \cup {Summary(n) : n \in described},
     indexed |-> TRUE]

Ends(rows) == {e.source : e \in rows} \cup {e.target : e \in rows}

Readable(rows, nodes) ==
    \/ Ends(rows) \subseteq nodes
    \/ Cardinality(Ends(rows) \cap nodes) >= NodeCap

\* from_payload keeps a relationship when both its ends are nodes.
AllEdges == graph.edges
Edges == {e \in graph.edges : e.source \in graph.nodes /\ e.target \in graph.nodes}

\* _matching_seed_nodes: term, node type and type of an incident relationship.
Seeds(q) ==
    {n \in q.found \cap graph.nodes :
        q.types # {} => \E e \in Edges : n \in {e.source, e.target} /\ e.type \in q.types}

FullLater(p) == Len(p) > query.depth
Full(p) == Len(p) >= query.depth

CodePredecessors(p) ==
    {<<e.source>> \o p : e \in {e \in Edges : /\ e.target = p[1]
                                              /\ e.source \notin Elements(p)
                                              /\ e.type # Describes}}
Predecessors(p) ==
    {<<e.source>> \o p : e \in {e \in Edges : /\ e.target = p[1]
                                              /\ e.source \notin Elements(p)}}

Successors(p) ==
    {Append(p, e.target) : e \in {e \in Edges : /\ e.source = p[Len(p)]
                                                /\ e.target \notin Elements(p)}}

First(s, n) == SubSeq(s, 1, IF Len(s) < n THEN Len(s) ELSE n)

\* _context_paths: into a seed, then out of it, cut to the depth.
CutShort(p) == First(p, query.depth - 1)
Cut(p) == First(p, query.depth)

Combined(i, o) == Cut(i \o Tail(o))

ContextPaths ==
    {Combined(c[1], c[2]) : c \in {c \in incoming \X chains : c[1][Len(c[1])] = c[2][1]}}

\* The relationships between two neighbours of a path.
Between(p, i) == {e \in Edges : e.source = p[i] /\ e.target = p[i + 1]}

Steps(p) == {i \in DOMAIN p : i + 1 \in DOMAIN p}

\* _paths_matching_edge_filters
TouchesFilter(p) ==
    query.types # {} => \E e \in Edges : e.source \in Elements(p) /\ e.type \in query.types
MatchesFilter(p) ==
    query.types # {} => \E i \in Steps(p) : \E e \in Between(p, i) : e.type \in query.types

\* _relationships_for_paths: those asked for, or all when none is.
AllBetween(p, i) == Between(p, i)
Selected(p, i) ==
    LET asked == {e \in Between(p, i) : e.type \in query.types}
    IN  IF asked # {} THEN asked ELSE Between(p, i)

AnswerOf(paths) ==
    IF paths = {} THEN NotFound
    ELSE [nodes |-> seeds \cup (graph.nodes \cap UNION {Elements(p) : p \in paths}),
          edges |-> UNION {UNION {Selected(p, i) : i \in Steps(p)} : p \in paths},
          paths |-> paths]

-----------------------------------------------------------------------------
(* LocalGraphIndex.query                                                    *)

Empty ==
    /\ query = NoQuery
    /\ seeds = {} /\ queue = {} /\ chains = {} /\ incoming = {}
    /\ answer = NotFound

SearchInit ==
    /\ \E rows \in {R \in SUBSET Rows : Cardinality(R) <= EdgeCap}, nodes \in SUBSET Symbols :
          /\ Readable(rows, nodes)
          /\ \E located \in SUBSET nodes : \E described \in SUBSET located :
                graph = Payload(rows, nodes, located, described)
    /\ Empty

\* The part of an action that starts a search for q.
StartSearch(q) ==
    /\ graph.indexed
    /\ query' = q
    /\ seeds' = Seeds(q)
    /\ queue' = {<<n>> : n \in Seeds(q)}
    /\ chains' = {} /\ incoming' = {}
    /\ answer' = NotFound
    /\ pc' = IF Seeds(q) = {} THEN "found" ELSE "incoming"
    /\ UNCHANGED graph

\* A path that is full, or cannot be extended, is finished.
Follow(longer) ==
    /\ queue # {}
    /\ queue' = UNION {longer[p] : p \in {p \in queue : ~ Full(p)}}
    /\ chains' = chains \cup {p \in queue : Full(p) \/ longer[p] = {}}
    /\ UNCHANGED <<graph, pc, query, seeds, incoming, answer>>

FollowIncoming == pc = "incoming" /\ Follow([p \in queue |-> Predecessors(p)])

FollowOutgoing == pc = "outgoing" /\ Follow([p \in queue |-> Successors(p)])

TurnAround ==
    /\ pc = "incoming" /\ queue = {}
    /\ incoming' = chains
    /\ queue' = {<<n>> : n \in seeds}
    /\ chains' = {}
    /\ pc' = "outgoing"
    /\ UNCHANGED <<graph, query, seeds, answer>>

Combine ==
    /\ pc = "outgoing" /\ queue = {}
    /\ answer' = AnswerOf({p \in ContextPaths : MatchesFilter(p)})
    /\ pc' = "found"
    /\ seeds' = {} /\ chains' = {} /\ incoming' = {}
    /\ UNCHANGED <<graph, query, queue>>

Search == FollowIncoming \/ FollowOutgoing \/ TurnAround \/ Combine

-----------------------------------------------------------------------------
(* Properties                                                               *)

SearchTypeOK ==
    /\ graph.nodes \subseteq Ids /\ graph.edges \subseteq Edge /\ graph.located \subseteq Ids
    /\ query \in Query
    /\ seeds \subseteq graph.nodes
    /\ \A p \in queue \cup chains \cup incoming : p \in Seq(Ids) /\ Len(p) \in 1..query.depth
    /\ \A p \in answer.paths : p \in Seq(Ids)
    /\ answer.nodes \subseteq graph.nodes
    /\ answer.edges \subseteq Edges

IsWalk(p) == \A i \in Steps(p) : Between(p, i) # {}
IsSimple(p) == \A i, j \in DOMAIN p : i # j => p[i] # p[j]

\* A path of an answer leads along relationships of the graph, although it is
\* two chains joined and cut.
PathsAreWalks == \A p \in answer.paths : IsWalk(p)

BoundedSeqs == UNION {[1..n -> graph.nodes] : n \in 1..query.depth}

SimpleWalks ==
    LET joined == {<<e.source, e.target>> : e \in Edges}
    IN  {p \in BoundedSeqs : (\A i \in 1..Len(p) - 1 : <<p[i], p[i + 1]>> \in joined) /\ IsSimple(p)}

\* The walks into (out of) a seed that are full or cannot be extended.
WalksInto(walks, from) ==
    {p \in walks : /\ p[Len(p)] \in from
                   /\ Len(p) = query.depth \/ \A e \in Edges : e.target = p[1] => e.source \in Elements(p)}
WalksOutOf(walks, from) ==
    {p \in walks : /\ p[1] \in from
                   /\ Len(p) = query.depth \/ \A e \in Edges : e.source = p[Len(p)] => e.target \in Elements(p)}

\* Both loops find, on cycles and parallel relationships too, the simple walks
\* into (out of) a seed that are full or cannot be extended: no other chain is
\* followed and none is missed.
ChainsAreExact ==
    pc = "outgoing" /\ queue = {} =>
        \E walks \in {SimpleWalks} :
            incoming = WalksInto(walks, seeds) /\ chains = WalksOutOf(walks, seeds)

\* A relationship between two neighbours of a path, of a type asked for if there
\* is one between them.
Connects(e, p) ==
    \E i \in Steps(p) : /\ e \in Between(p, i)
                        /\ e.type \in query.types \/ \A f \in Between(p, i) : f.type \notin query.types

ResultOf(paths) ==
    IF paths = {} THEN NotFound
    ELSE [nodes |-> Seeds(query) \cup UNION {Elements(p) : p \in paths},
          edges |-> {e \in Edges : \E p \in paths : Connects(e, p)},
          paths |-> paths]

\* The walks through a seed, as far as they go either way, cut to the depth.
WalksThrough(walks, from) ==
    {First(c[1] \o Tail(c[2]), query.depth) :
        c \in {c \in WalksInto(walks, from) \X WalksOutOf(walks, from) : c[1][Len(c[1])] = c[2][1]}}

\* What an index answers is a function of its graph and the query, whatever
\* path the search took: the walks through the nodes found that have a
\* relationship of a type asked for, with what lies on them.
AnswerIsExact ==
    pc = "found" /\ graph.indexed =>
        answer = ResultOf({p \in WalksThrough(SimpleWalks, Seeds(query)) :
                              query.types # {} => \E e \in Edges : Connects(e, p) /\ e.type \in query.types})

\* An index that is asked with a filter answers with paths that have a
\* relationship of a type asked for, which the answer contains; asked without
\* one for a node that it has, it answers something.
AnswerMatchesFilter ==
    graph.indexed =>
        /\ \A p \in answer.paths :
            query.types # {} =>
                \E i \in Steps(p) :
                    \E e \in Between(p, i) \cap answer.edges : e.type \in query.types
        /\ pc = "found" /\ query.types = {} /\ query.found \cap graph.nodes # {} =>
            answer # NotFound
=============================================================================
