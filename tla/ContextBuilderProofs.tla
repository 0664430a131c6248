-------------------------- MODULE ContextBuilderProofs --------------------------
(***************************************************************************)
(* Proofs about graph queries and evidence bundles, for any graph, any     *)
(* limits, depths, filters and terms.  The invariant says of the paths in  *)
(* the queue that each is a simple walk from its seed, and of the walks    *)
(* that are to be found that each is finished or has its end in the queue. *)
(***************************************************************************)
EXTENDS ContextBuilder, GitNexusContextProofs

Searching == pc \in {"incoming", "outgoing"}

Idle == ~ Searching => seeds = {} /\ queue = {} /\ chains = {} /\ incoming = {}

\* The first loop: what it has, and that it misses nothing.
IntoLoop ==
    pc = "incoming" =>
        /\ incoming = {}
        /\ \A p \in queue \cup chains : Into(p)
        /\ \A p \in chains : IntoEnd(p)
        /\ \A p \in IntoWalks : p \in chains \/ \E k \in 1..Len(p) : SubSeq(p, k, Len(p)) \in queue
        /\ \A s \in seeds : \E p \in queue \cup chains : p[Len(p)] = s

\* The second loop.
OutLoop ==
    pc = "outgoing" =>
        /\ incoming = IntoWalks
        /\ \A s \in seeds : \E p \in incoming : p[Len(p)] = s
        /\ \A p \in queue \cup chains : OutOf(p)
        /\ \A p \in chains : OutEnd(p)
        /\ \A p \in OutWalks : p \in chains \/ \E k \in 1..Len(p) : SubSeq(p, 1, k) \in queue
        /\ \A s \in seeds : \E p \in queue \cup chains : p[1] = s

SearchInv ==
    /\ Idle
    /\ Searching => graph.indexed /\ seeds = Seeds(query)
    /\ IntoLoop
    /\ OutLoop
    /\ ~ graph.indexed => IsFiniteSet(graph.nodes)

\* An answer has nodes if and only if it has paths, and without them nothing.
Tidy(a) == (a.nodes = {} <=> a.paths = {}) /\ (a.paths = {} => a.edges = {})

AnswerInv ==
    /\ PathsAreWalks /\ AnswerHasCenter /\ AnswerIsClosed /\ AnswerMatchesFilter
    /\ Tidy(answer)
    /\ \A p \in answer.paths : p \in Seq(graph.nodes)

ContextInv ==
    /\ context.nodes = {} <=> context.paths = {}
    /\ context.paths = {} => context.evidence = {}
    /\ Built => bundle = BundleOf(context)

IInv == TypeOK /\ SearchInv /\ AnswerInv /\ ContextInv

-----------------------------------------------------------------------------
(* The loops.                                                               *)

LEMMA DepthIsPositive == query \in Query => query.depth \in Nat \ {0}
  BY SearchAssumption DEF Query

LEMMA SeedsAreNodes == Seeds(query) \subseteq query.found \cap graph.nodes
  BY DEF Seeds

\* A single seed is a chain, and the end (the start) of every chain into it
\* (out of it).
LEMMA SingleIsChain ==
    ASSUME query.depth \in Nat \ {0}, seeds \subseteq graph.nodes, NEW n \in seeds
    PROVE  Into(<<n>>) /\ OutOf(<<n>>) /\ <<n>>[Len(<<n>>)] = n /\ <<n>>[1] = n
<1>1. <<n>> \in Seq(graph.nodes) /\ Len(<<n>>) = 1 /\ <<n>>[1] = n
  BY SingleNode
<1>2. IsWalk(<<n>>)
  <2>1. \A i \in 1..Len(<<n>>) : ~ (i + 1 <= Len(<<n>>))
    BY <1>1
  <2>. HIDE DEF Edges
  <2>. QED BY <1>1, <2>1, WalkSteps
<1>3. IsSimple(<<n>>)
  <2>1. DOMAIN <<n>> = 1..1
    BY <1>1, LenProperties
  <2>. QED BY <2>1 DEF IsSimple
<1>. QED BY <1>1, <1>2, <1>3 DEF Into, OutOf, Walk

LEMMA WalksStartFromSeeds ==
    query.depth \in Nat \ {0} =>
        /\ \A p \in IntoWalks : Len(p) \in 1..Len(p) /\ SubSeq(p, Len(p), Len(p)) \in {<<n>> : n \in seeds}
        /\ \A p \in OutWalks : 1 \in 1..Len(p) /\ SubSeq(p, 1, 1) \in {<<n>> : n \in seeds}
<1>. SUFFICES ASSUME query.depth \in Nat \ {0}
              PROVE  /\ \A p \in IntoWalks : /\ Len(p) \in 1..Len(p)
                                            /\ SubSeq(p, Len(p), Len(p)) \in {<<n>> : n \in seeds}
                     /\ \A p \in OutWalks : 1 \in 1..Len(p) /\ SubSeq(p, 1, 1) \in {<<n>> : n \in seeds}
  OBVIOUS
<1>1. ASSUME NEW p, p \in BoundedSeqs, NEW k \in 1..Len(p)
      PROVE  SubSeq(p, k, k) = <<p[k]>>
  <2>1. p \in Seq(graph.nodes) /\ Len(p) \in Nat
    BY <1>1, BoundedSeqsAreSeqs
  <2>2. k \in k..Len(p) /\ p[k] \in graph.nodes
    BY <2>1, ElementOfSeq
  <2>3. /\ SubSeq(p, k, k) \in Seq(graph.nodes)
        /\ Len(SubSeq(p, k, k)) = k - k + 1
        /\ \A i \in 1..(k - k + 1) : SubSeq(p, k, k)[i] = p[k + i - 1]
    BY <2>1, <2>2, PartProperties
  <2>4. Len(SubSeq(p, k, k)) = 1 /\ SubSeq(p, k, k)[1] = p[k]
    BY <2>1, <2>3
  <2>5. <<p[k]>> \in Seq(graph.nodes) /\ Len(<<p[k]>>) = 1 /\ <<p[k]>>[1] = p[k]
    BY <2>2, SingleNode
  <2>. DEFINE a == SubSeq(p, k, k)
              b == <<p[k]>>
  <2>6. Len(a) = Len(b) /\ \A i \in 1..Len(a) : a[i] = b[i]
    BY <2>4, <2>5
  <2>7. a \in Seq(graph.nodes) /\ b \in Seq(graph.nodes)
    BY <2>3, <2>5
  <2>. HIDE DEF a, b
  <2>8. a = b
    BY <2>6, <2>7, SeqEqual
  <2>. QED BY <2>8 DEF a, b
<1>2. ASSUME NEW p \in IntoWalks
      PROVE  Len(p) \in 1..Len(p) /\ SubSeq(p, Len(p), Len(p)) \in {<<n>> : n \in seeds}
  <2>1. p \in BoundedSeqs /\ p[Len(p)] \in seeds
    BY DEF IntoWalks
  <2>2. Len(p) \in 1..Len(p)
    BY <2>1, BoundedSeqsAreSeqs
  <2>. QED BY <1>1, <2>1, <2>2
<1>3. ASSUME NEW p \in OutWalks
      PROVE  1 \in 1..Len(p) /\ SubSeq(p, 1, 1) \in {<<n>> : n \in seeds}
  <2>1. p \in BoundedSeqs /\ p[1] \in seeds
    BY DEF OutWalks
  <2>2. 1 \in 1..Len(p)
    BY <2>1, BoundedSeqsAreSeqs
  <2>. QED BY <1>1, <2>1, <2>2
<1>. QED BY <1>2, <1>3

\* Both hold of the next state as well.
LEMMA SingleIsChainNext ==
    (\A n \in seeds : query.depth \in Nat \ {0} /\ seeds \subseteq graph.nodes =>
         Into(<<n>>) /\ <<n>>[Len(<<n>>)] = n)'
<1>1. \A n \in seeds : query.depth \in Nat \ {0} /\ seeds \subseteq graph.nodes =>
          Into(<<n>>) /\ <<n>>[Len(<<n>>)] = n
  BY SingleIsChain
<1>. QED BY <1>1, PTL

LEMMA WalksStartNext ==
    (query.depth \in Nat \ {0} =>
        \A p \in IntoWalks : Len(p) \in 1..Len(p) /\ SubSeq(p, Len(p), Len(p)) \in {<<n>> : n \in seeds})'
<1>1. query.depth \in Nat \ {0} =>
        \A p \in IntoWalks : Len(p) \in 1..Len(p) /\ SubSeq(p, Len(p), Len(p)) \in {<<n>> : n \in seeds}
  BY WalksStartFromSeeds
<1>. QED BY <1>1, PTL

\* What a chain is depends on the graph, the query and the seeds alone.
LEMMA SameChains ==
    ASSUME UNCHANGED <<graph, query, seeds>>
    PROVE  /\ \A p : (Into(p)' <=> Into(p)) /\ (OutOf(p)' <=> OutOf(p))
           /\ \A p : (IntoEnd(p)' <=> IntoEnd(p)) /\ (OutEnd(p)' <=> OutEnd(p))
           /\ IntoWalks' = IntoWalks /\ OutWalks' = OutWalks
           /\ Seeds(query)' = Seeds(query) /\ Edges' = Edges
<1>1. graph' = graph /\ query' = query /\ seeds' = seeds
  OBVIOUS
<1>2. Edges' = Edges
  BY <1>1 DEF Edges
<1>3. \A p : IsWalk(p)' <=> IsWalk(p)
  BY <1>1, <1>2 DEF IsWalk, Between, Steps
<1>4. \A p : Walk(p)' <=> Walk(p)
  BY <1>1, <1>3 DEF Walk, IsSimple
<1>5. \A p : (Into(p)' <=> Into(p)) /\ (OutOf(p)' <=> OutOf(p))
  BY <1>1, <1>4 DEF Into, OutOf
<1>6. \A p : (IntoEnd(p)' <=> IntoEnd(p)) /\ (OutEnd(p)' <=> OutEnd(p))
  BY <1>1, <1>2 DEF IntoEnd, OutEnd, Elements
<1>7. BoundedSeqs' = BoundedSeqs
  BY <1>1 DEF BoundedSeqs
<1>8. IntoWalks' = IntoWalks /\ OutWalks' = OutWalks
  BY <1>1, <1>3, <1>6, <1>7 DEF IntoWalks, OutWalks, IsSimple
<1>9. Seeds(query)' = Seeds(query)
  BY <1>1, <1>2 DEF Seeds
<1>. QED BY <1>2, <1>5, <1>6, <1>8, <1>9

\* An answer stays right as long as nobody gives another.
LEMMA SameAnswer ==
    ASSUME AnswerInv, UNCHANGED <<graph, query, answer>>, pc' # "found"
    PROVE  AnswerInv'
<1>1. graph' = graph /\ query' = query /\ answer' = answer
  OBVIOUS
<1>2. Edges' = Edges
  BY <1>1 DEF Edges
<1>3. \A p, i : Between(p, i)' = Between(p, i) /\ Steps(p)' = Steps(p)
  BY <1>2 DEF Between, Steps
<1>4. PathsAreWalks'
  BY <1>1, <1>3 DEF AnswerInv, PathsAreWalks, IsWalk
<1>5. AnswerHasCenter'
  BY <1>1 DEF AnswerInv, AnswerHasCenter, Elements
<1>6. AnswerIsClosed'
  BY <1>1, <1>3 DEF AnswerInv, AnswerIsClosed, Uncut, Elements
<1>7. AnswerMatchesFilter'
  BY <1>1, <1>3 DEF AnswerInv, AnswerMatchesFilter
<1>8. Tidy(answer)'
  BY <1>1 DEF AnswerInv, Tidy
<1>. QED BY <1>4, <1>5, <1>6, <1>7, <1>8 DEF AnswerInv

\* The walks that are to be found are chains.
LEMMA IntoWalksAreInto ==
    ASSUME query.depth \in Nat
    PROVE  (\A p \in IntoWalks : Into(p)) /\ (\A p \in OutWalks : OutOf(p))
<1>1. ASSUME NEW p \in IntoWalks PROVE Into(p)
  BY BoundedSeqsAreSeqs DEF IntoWalks, Into, Walk
<1>2. ASSUME NEW p \in OutWalks PROVE OutOf(p)
  BY BoundedSeqsAreSeqs DEF OutWalks, OutOf, Walk
<1>. QED BY <1>1, <1>2

LEMMA FollowIncomingStep ==
    ASSUME TypeOK, SearchInv, FollowIncoming
    PROVE  SearchInv' /\ \A p \in queue' \cup chains' \cup incoming' : Into(p)
<1>1. /\ pc = "incoming" /\ pc' = pc
      /\ queue' = UNION {Predecessors(p) : p \in {p \in queue : ~ Full(p)}}
      /\ chains' = chains \cup {p \in queue : Full(p) \/ Predecessors(p) = {}}
      /\ graph' = graph /\ query' = query /\ seeds' = seeds /\ incoming' = incoming
  <2>1. /\ pc = "incoming"
        /\ LET longer == [p \in queue |-> Predecessors(p)] IN
           /\ queue' = UNION {longer[p] : p \in {p \in queue : ~ Full(p)}}
           /\ chains' = chains \cup {p \in queue : Full(p) \/ longer[p] = {}}
        /\ UNCHANGED <<graph, pc, query, seeds, incoming, answer>>
    BY DEF FollowIncoming, Follow
  <2>2. \A p \in queue : [r \in queue |-> Predecessors(r)][p] = Predecessors(p)
    OBVIOUS
  <2>3. queue' = UNION {Predecessors(p) : p \in {p \in queue : ~ Full(p)}}
    BY <2>1, <2>2
  <2>4. chains' = chains \cup {p \in queue : Full(p) \/ Predecessors(p) = {}}
    BY <2>1, <2>2
  <2>. QED BY <2>1, <2>3, <2>4
<1>2. query.depth \in Nat \ {0} /\ query.depth \in Nat
  BY DepthIsPositive DEF TypeOK, SearchTypeOK
<1>3. /\ \A p \in queue \cup chains : Into(p)
      /\ \A p \in chains : IntoEnd(p)
      /\ \A p \in IntoWalks : p \in chains \/ \E k \in 1..Len(p) : SubSeq(p, k, Len(p)) \in queue
      /\ \A s \in seeds : \E p \in queue \cup chains : p[Len(p)] = s
  BY <1>1 DEF SearchInv, IntoLoop
<1>4. \A p \in queue' \cup chains' : Into(p)
  <2>1. ASSUME NEW q \in queue'
        PROVE  Into(q)
    <3>1. PICK p \in queue : ~ Full(p) /\ q \in Predecessors(p)
      BY <1>1
    <3>. QED BY <1>2, <1>3, <3>1, LongerInto
  <2>. QED BY <1>1, <1>3, <2>1
<1>5. \A p \in chains' : IntoEnd(p)
  <2>1. ASSUME NEW p \in queue, Full(p)
        PROVE  IntoEnd(p)
    BY <1>2, <1>3, <2>1 DEF Into, Walk, Full, IntoEnd
  <2>2. ASSUME NEW p \in queue, Predecessors(p) = {}
        PROVE  IntoEnd(p)
    <3>1. \A e \in Edges : e.target = p[1] => e.source \in Elements(p)
      BY <2>2 DEF Predecessors
    <3>. QED BY <3>1 DEF IntoEnd
  <2>. QED BY <1>1, <1>3, <2>1, <2>2
<1>6. ASSUME NEW p \in IntoWalks
      PROVE  p \in chains' \/ \E k \in 1..Len(p) : SubSeq(p, k, Len(p)) \in queue'
  <2>1. CASE p \in chains
    BY <1>1, <2>1
  <2>2. ASSUME NEW k \in 1..Len(p), SubSeq(p, k, Len(p)) \in queue
        PROVE  p \in chains' \/ \E j \in 1..Len(p) : SubSeq(p, j, Len(p)) \in queue'
    <3>. DEFINE s == SubSeq(p, k, Len(p))
    <3>1. /\ k = 1 => s = p /\ (Full(p) \/ Predecessors(p) = {})
          /\ k # 1 => k - 1 \in 1..Len(p) /\ ~ Full(s) /\ SubSeq(p, k - 1, Len(p)) \in Predecessors(s)
      BY <1>2, IntoWalkContinues
    <3>. QED BY <1>1, <2>2, <3>1
  <2>. QED BY <1>3, <2>1, <2>2
<1>7. ASSUME NEW s \in seeds
      PROVE  \E p \in queue' \cup chains' : p[Len(p)] = s
  <2>1. PICK p \in queue \cup chains : p[Len(p)] = s
    BY <1>3
  <2>2. CASE p \in chains \/ Full(p) \/ Predecessors(p) = {}
    BY <1>1, <2>1, <2>2
  <2>3. CASE p \in queue /\ ~ Full(p) /\ Predecessors(p) # {}
    <3>1. PICK q \in Predecessors(p) : TRUE
      BY <2>3
    <3>2. q \in queue' /\ q[Len(q)] = p[Len(p)]
      BY <1>1, <1>2, <1>3, <2>3, <3>1, LongerInto
    <3>. QED BY <2>1, <3>2
  <2>. QED BY <2>1, <2>2, <2>3
<1>8. IntoLoop'
  <2>1. IntoWalks' = IntoWalks /\ \A p : (Into(p)' <=> Into(p)) /\ (IntoEnd(p)' <=> IntoEnd(p))
    BY <1>1, SameChains
  <2>2. pc' = "incoming" /\ incoming' = {}
    BY <1>1 DEF SearchInv, IntoLoop
  <2>. QED BY <1>1, <1>4, <1>5, <1>6, <1>7, <2>1, <2>2 DEF IntoLoop
<1>9. Idle' /\ OutLoop'
  BY <1>1 DEF Idle, Searching, OutLoop
<1>10. (Searching => graph.indexed /\ seeds = Seeds(query))' /\ (~ graph.indexed => IsFiniteSet(graph.nodes))'
  BY <1>1, SameChains DEF SearchInv, Searching
<1>11. incoming' = {}
  BY <1>1 DEF SearchInv, IntoLoop
<1>. QED BY <1>1, <1>4, <1>8, <1>9, <1>10, <1>11 DEF SearchInv

LEMMA FollowOutgoingStep ==
    ASSUME TypeOK, SearchInv, FollowOutgoing
    PROVE  SearchInv' /\ (\A p \in queue' \cup chains' : OutOf(p)) /\ (\A p \in incoming' : Into(p))
<1>1. /\ pc = "outgoing" /\ pc' = pc
      /\ queue' = UNION {Successors(p) : p \in {p \in queue : ~ Full(p)}}
      /\ chains' = chains \cup {p \in queue : Full(p) \/ Successors(p) = {}}
      /\ graph' = graph /\ query' = query /\ seeds' = seeds /\ incoming' = incoming
  <2>1. /\ pc = "outgoing"
        /\ LET longer == [p \in queue |-> Successors(p)] IN
           /\ queue' = UNION {longer[p] : p \in {p \in queue : ~ Full(p)}}
           /\ chains' = chains \cup {p \in queue : Full(p) \/ longer[p] = {}}
        /\ UNCHANGED <<graph, pc, query, seeds, incoming, answer>>
    BY DEF FollowOutgoing, Follow
  <2>2. \A p \in queue : [r \in queue |-> Successors(r)][p] = Successors(p)
    OBVIOUS
  <2>3. queue' = UNION {Successors(p) : p \in {p \in queue : ~ Full(p)}}
    BY <2>1, <2>2
  <2>4. chains' = chains \cup {p \in queue : Full(p) \/ Successors(p) = {}}
    BY <2>1, <2>2
  <2>. QED BY <2>1, <2>3, <2>4
<1>2. query.depth \in Nat \ {0} /\ query.depth \in Nat
  BY DepthIsPositive DEF TypeOK, SearchTypeOK
<1>3. /\ \A p \in queue \cup chains : OutOf(p)
      /\ \A p \in chains : OutEnd(p)
      /\ \A p \in OutWalks : p \in chains \/ \E k \in 1..Len(p) : SubSeq(p, 1, k) \in queue
      /\ \A s \in seeds : \E p \in queue \cup chains : p[1] = s
  BY <1>1 DEF SearchInv, OutLoop
<1>4. \A p \in queue' \cup chains' : OutOf(p)
  <2>1. ASSUME NEW q \in queue'
        PROVE  OutOf(q)
    <3>1. PICK p \in queue : ~ Full(p) /\ q \in Successors(p)
      BY <1>1
    <3>. QED BY <1>2, <1>3, <3>1, LongerOutOf
  <2>. QED BY <1>1, <1>3, <2>1
<1>5. \A p \in chains' : OutEnd(p)
  <2>1. ASSUME NEW p \in queue, Full(p)
        PROVE  OutEnd(p)
    BY <1>2, <1>3, <2>1 DEF OutOf, Walk, Full, OutEnd
  <2>2. ASSUME NEW p \in queue, Successors(p) = {}
        PROVE  OutEnd(p)
    <3>1. \A e \in Edges : e.source = p[Len(p)] => e.target \in Elements(p)
      BY <2>2 DEF Successors
    <3>. QED BY <3>1 DEF OutEnd
  <2>. QED BY <1>1, <1>3, <2>1, <2>2
<1>6. ASSUME NEW p \in OutWalks
      PROVE  p \in chains' \/ \E k \in 1..Len(p) : SubSeq(p, 1, k) \in queue'
  <2>1. CASE p \in chains
    BY <1>1, <2>1
  <2>2. ASSUME NEW k \in 1..Len(p), SubSeq(p, 1, k) \in queue
        PROVE  p \in chains' \/ \E j \in 1..Len(p) : SubSeq(p, 1, j) \in queue'
    <3>. DEFINE s == SubSeq(p, 1, k)
    <3>1. /\ k = Len(p) => s = p /\ (Full(p) \/ Successors(p) = {})
          /\ k # Len(p) => k + 1 \in 1..Len(p) /\ ~ Full(s) /\ SubSeq(p, 1, k + 1) \in Successors(s)
      BY <1>2, OutWalkContinues
    <3>. QED BY <1>1, <2>2, <3>1
  <2>. QED BY <1>3, <2>1, <2>2
<1>7. ASSUME NEW s \in seeds
      PROVE  \E p \in queue' \cup chains' : p[1] = s
  <2>1. PICK p \in queue \cup chains : p[1] = s
    BY <1>3
  <2>2. CASE p \in chains \/ Full(p) \/ Successors(p) = {}
    BY <1>1, <2>1, <2>2
  <2>3. CASE p \in queue /\ ~ Full(p) /\ Successors(p) # {}
    <3>1. PICK q \in Successors(p) : TRUE
      BY <2>3
    <3>2. q \in queue' /\ q[1] = p[1]
      BY <1>1, <1>2, <1>3, <2>3, <3>1, LongerOutOf
    <3>. QED BY <2>1, <3>2
  <2>. QED BY <2>1, <2>2, <2>3
<1>8. OutLoop'
  <2>1. IntoWalks' = IntoWalks /\ OutWalks' = OutWalks /\ \A p : (OutOf(p)' <=> OutOf(p)) /\ (OutEnd(p)' <=> OutEnd(p))
    BY <1>1, SameChains
  <2>2. /\ pc' = "outgoing" /\ incoming' = IntoWalks
        /\ \A s \in seeds : \E p \in incoming' : p[Len(p)] = s
    BY <1>1 DEF SearchInv, OutLoop
  <2>. QED BY <1>1, <1>4, <1>5, <1>6, <1>7, <2>1, <2>2 DEF OutLoop
<1>9. Idle' /\ IntoLoop'
  BY <1>1 DEF Idle, Searching, IntoLoop
<1>10. (Searching => graph.indexed /\ seeds = Seeds(query))' /\ (~ graph.indexed => IsFiniteSet(graph.nodes))'
  BY <1>1, SameChains DEF SearchInv, Searching
<1>11. incoming = IntoWalks
  BY <1>1 DEF SearchInv, OutLoop
<1>12. \A p \in incoming' : Into(p)
  BY <1>1, <1>2, <1>11, IntoWalksAreInto
<1>. QED BY <1>1, <1>4, <1>8, <1>9, <1>10, <1>12 DEF SearchInv

\* The first loop has found the chains it is to find, and the second starts.
LEMMA TurnAroundStep ==
    ASSUME TypeOK, SearchInv, TurnAround
    PROVE  /\ SearchInv'
           /\ (\A p \in queue' \cup chains' : OutOf(p)) /\ (\A p \in incoming' : Into(p))
<1>1. /\ pc = "incoming" /\ pc' = "outgoing" /\ queue = {}
      /\ incoming' = chains /\ queue' = {<<n>> : n \in seeds} /\ chains' = {}
      /\ graph' = graph /\ query' = query /\ seeds' = seeds
  BY DEF TurnAround
<1>2. query.depth \in Nat \ {0} /\ query.depth \in Nat /\ seeds \subseteq graph.nodes
  BY DepthIsPositive DEF TypeOK, SearchTypeOK
<1>3. /\ \A p \in chains : Into(p) /\ IntoEnd(p)
      /\ \A p \in IntoWalks : p \in chains
      /\ \A s \in seeds : \E p \in chains : p[Len(p)] = s
  BY <1>1 DEF SearchInv, IntoLoop
<1>4. \A p \in chains : p \in IntoWalks
  BY <1>2, <1>3, BoundedSeqsAreSeqs DEF IntoWalks, Into, Walk
<1>5. incoming' = IntoWalks
  BY <1>1, <1>3, <1>4
<1>6. /\ \A p \in queue' : OutOf(p)
      /\ \A s \in seeds : \E p \in queue' : p[1] = s
  BY <1>1, <1>2, SingleIsChain
<1>7. \A p \in OutWalks : \E k \in 1..Len(p) : SubSeq(p, 1, k) \in queue'
  BY <1>1, <1>2, WalksStartFromSeeds
<1>8. OutLoop'
  <2>1. IntoWalks' = IntoWalks /\ OutWalks' = OutWalks /\ \A p : OutOf(p)' <=> OutOf(p)
    BY <1>1, SameChains
  <2>. QED BY <1>1, <1>3, <1>5, <1>6, <1>7, <2>1 DEF OutLoop
<1>9. Idle' /\ IntoLoop'
  BY <1>1 DEF Idle, Searching, IntoLoop
<1>10. (Searching => graph.indexed /\ seeds = Seeds(query))' /\ (~ graph.indexed => IsFiniteSet(graph.nodes))'
  BY <1>1, SameChains DEF SearchInv, Searching
<1>. QED BY <1>1, <1>3, <1>6, <1>8, <1>9, <1>10 DEF SearchInv

\* A search starts with one chain for each of its seeds.
LEMMA StartSearchStep ==
    ASSUME SearchInv, NEW q \in Query, StartSearch(q)
    PROVE  SearchInv' /\ \A p \in queue' \cup chains' \cup incoming' : Into(p)'
<1>1. /\ graph.indexed /\ query' = q /\ seeds' = Seeds(q) /\ graph' = graph
      /\ queue' = {<<n>> : n \in Seeds(q)} /\ chains' = {} /\ incoming' = {}
      /\ pc' = IF Seeds(q) = {} THEN "found" ELSE "incoming"
  BY DEF StartSearch
<1>2. Seeds(query)' = Seeds(q)
  BY <1>1 DEF Seeds, Edges
<1>3. query'.depth \in Nat \ {0} /\ seeds' \subseteq graph'.nodes
  BY <1>1, SearchAssumption DEF Query, Seeds
<1>4. /\ \A p \in queue' : Into(p)'
      /\ \A s \in seeds' : \E p \in queue' : p[Len(p)] = s
  BY <1>1, <1>3, SingleIsChainNext
<1>5. \A p \in IntoWalks' : \E k \in 1..Len(p) : SubSeq(p, k, Len(p)) \in queue'
  BY <1>1, <1>3, WalksStartNext
<1>6. IntoLoop'
  BY <1>1, <1>4, <1>5 DEF IntoLoop
<1>7. Idle' /\ OutLoop'
  BY <1>1 DEF Idle, Searching, OutLoop
<1>8. (Searching => graph.indexed /\ seeds = Seeds(query))' /\ (~ graph.indexed => IsFiniteSet(graph.nodes))'
  BY <1>1, <1>2 DEF Searching
<1>. QED BY <1>1, <1>4, <1>6, <1>7, <1>8 DEF SearchInv

-----------------------------------------------------------------------------
(* The answers.                                                             *)

\* What is to be shown of a new answer, in terms of the graph as it was.
LEMMA NewAnswer ==
    ASSUME graph' = graph,
           \A p \in answer'.paths : p \in Seq(graph.nodes),
           \A p \in answer'.paths : IsWalk(p) /\ Elements(p) \cap query'.found \cap answer'.nodes # {},
           \A e \in answer'.edges : {e.source, e.target} \cap answer'.nodes # {},
           (graph.indexed \/ (Cardinality(answer'.nodes) < NodeCap /\ Cardinality(answer'.edges) < EdgeCap)) =>
               /\ \A e \in answer'.edges : {e.source, e.target} \subseteq answer'.nodes
               /\ \A p \in answer'.paths :
                   Elements(p) \subseteq answer'.nodes /\ \A i \in Steps(p) : Between(p, i) \cap answer'.edges # {},
           graph.indexed =>
               /\ query'.types # {} =>
                     \A p \in answer'.paths : \E i \in Steps(p) :
                         \E e \in Between(p, i) \cap answer'.edges : e.type \in query'.types
               /\ pc' = "found" /\ query'.types = {} /\ query'.found \cap graph.nodes # {} => answer' # NotFound,
           answer'.paths = {} => answer' = NotFound
    PROVE  AnswerInv'
<1>1. Edges' = Edges
  BY DEF Edges
<1>2. \A p, i : Between(p, i)' = Between(p, i) /\ Steps(p)' = Steps(p)
  BY <1>1 DEF Between, Steps
<1>3. PathsAreWalks'
  BY <1>2 DEF PathsAreWalks, IsWalk
<1>4. AnswerHasCenter'
  BY DEF AnswerHasCenter, Elements
<1>5. AnswerIsClosed'
  BY <1>2 DEF AnswerIsClosed, Uncut, Elements
<1>6. AnswerMatchesFilter'
  BY <1>2 DEF AnswerMatchesFilter
<1>7. Tidy(answer)'
  <2>1. answer'.paths # {} => answer'.nodes # {}
    OBVIOUS
  <2>2. answer'.paths = {} => answer'.nodes = {} /\ answer'.edges = {}
    BY DEF NotFound
  <2>. QED BY <2>1, <2>2 DEF Tidy
<1>. QED BY <1>3, <1>4, <1>5, <1>6, <1>7 DEF AnswerInv

\* The paths that Combine makes.
LEMMA ContextPathsAreWalks ==
    ASSUME query.depth \in Nat \ {0},
           \A p \in incoming : Into(p), \A p \in chains : OutOf(p)
    PROVE  \A p \in ContextPaths : p \in Seq(graph.nodes) /\ IsWalk(p) /\ Elements(p) \cap seeds # {}
<1>. SUFFICES ASSUME NEW p \in ContextPaths
              PROVE  p \in Seq(graph.nodes) /\ IsWalk(p) /\ Elements(p) \cap seeds # {}
  OBVIOUS
<1>1. PICK c \in incoming \X chains : c[1][Len(c[1])] = c[2][1] /\ p = Combined(c[1], c[2])
  BY DEF ContextPaths
<1>2. Into(c[1]) /\ OutOf(c[2]) /\ c[1][Len(c[1])] \in seeds
  BY DEF Into
<1>. DEFINE i == c[1]
            o == c[2]
<1>3. Into(i) /\ OutOf(o) /\ i[Len(i)] = o[1] /\ p = Combined(i, o) /\ i[Len(i)] \in seeds
  BY <1>1, <1>2
<1>. HIDE DEF i, o
<1>. QED BY <1>3, CombinedIsWalk

LEMMA CombineStep ==
    ASSUME TypeOK, SearchInv, Combine
    PROVE  /\ SearchInv' /\ AnswerInv'
           /\ answer'.nodes \subseteq graph.nodes /\ answer'.edges \subseteq Edges
           /\ \A p \in answer'.paths : p \in Seq(graph.nodes)
<1>. DEFINE P == {p \in ContextPaths : MatchesFilter(p)}
<1>1. /\ pc = "outgoing" /\ queue = {} /\ answer' = AnswerOf(P) /\ pc' = "found"
      /\ seeds' = {} /\ chains' = {} /\ incoming' = {}
      /\ graph' = graph /\ query' = query /\ queue' = queue
  BY DEF Combine
<1>2. query.depth \in Nat \ {0} /\ query.depth \in Nat /\ seeds \subseteq graph.nodes
  BY DepthIsPositive DEF TypeOK, SearchTypeOK
<1>3. /\ graph.indexed /\ seeds = Seeds(query) /\ seeds \subseteq query.found
      /\ incoming = IntoWalks
      /\ \A s \in seeds : \E p \in incoming : p[Len(p)] = s
      /\ \A p \in chains : OutOf(p)
      /\ \A s \in seeds : \E p \in chains : p[1] = s
      /\ ~ graph.indexed => IsFiniteSet(graph.nodes)
  BY <1>1, SeedsAreNodes DEF SearchInv, Searching, OutLoop
<1>4. \A p \in incoming : Into(p)
  BY <1>2, <1>3, IntoWalksAreInto
<1>5. \A p \in P : p \in Seq(graph.nodes) /\ IsWalk(p) /\ Elements(p) \cap seeds # {} /\ MatchesFilter(p)
  BY <1>2, <1>3, <1>4, ContextPathsAreWalks
<1>6. ASSUME query.types = {}, query.found \cap graph.nodes # {}
      PROVE  P # {}
  <2>1. PICK s \in seeds : TRUE
    BY <1>3, <1>6 DEF Seeds
  <2>2. PICK i \in incoming : i[Len(i)] = s
    BY <1>3
  <2>3. PICK o \in chains : o[1] = s
    BY <1>3
  <2>4. <<i, o>> \in incoming \X chains /\ <<i, o>>[1] = i /\ <<i, o>>[2] = o
    OBVIOUS
  <2>5. Combined(i, o) \in ContextPaths
    BY <2>2, <2>3, <2>4 DEF ContextPaths
  <2>6. MatchesFilter(Combined(i, o))
    BY <1>6 DEF MatchesFilter
  <2>. QED BY <2>5, <2>6
<1>. HIDE DEF P
<1>7. /\ answer'.paths = P
      /\ answer'.nodes \subseteq graph.nodes /\ answer'.edges \subseteq Edges
      /\ \A e \in answer'.edges : {e.source, e.target} \subseteq answer'.nodes
      /\ \A p \in P : /\ Elements(p) \subseteq answer'.nodes
                      /\ \A i \in Steps(p) : Selected(p, i) \subseteq answer'.edges
      /\ P # {} => seeds \subseteq answer'.nodes
      /\ P = {} => answer' = NotFound
  BY <1>1, <1>2, <1>5, AnswerOfWalks
<1>8. \A p \in P : IsWalk(p) /\ Elements(p) \cap query'.found \cap answer'.nodes # {}
  BY <1>1, <1>3, <1>5, <1>7
<1>9. ASSUME NEW p \in P, NEW i \in Steps(p)
      PROVE  Between(p, i) \cap answer'.edges # {}
  <2>1. Between(p, i) # {}
    BY <1>5 DEF IsWalk
  <2>2. Selected(p, i) # {} /\ Selected(p, i) \subseteq Between(p, i)
    BY <2>1 DEF Selected
  <2>. QED BY <1>7, <2>2
<1>10. ASSUME query.types # {}, NEW p \in P
       PROVE  \E i \in Steps(p) : \E e \in Between(p, i) \cap answer'.edges : e.type \in query.types
  <2>1. PICK i \in Steps(p) : \E e \in Between(p, i) : e.type \in query.types
    BY <1>5, <1>10 DEF MatchesFilter
  <2>2. PICK e \in Between(p, i) : e.type \in query.types
    BY <2>1
  <2>3. e \in Selected(p, i)
    BY <2>2 DEF Selected
  <2>. QED BY <1>7, <2>2, <2>3
<1>11. query.types = {} /\ query.found \cap graph.nodes # {} => answer' # NotFound
  BY <1>6, <1>7 DEF NotFound
<1>12. AnswerInv'
  BY <1>1, <1>5, <1>7, <1>8, <1>9, <1>10, <1>11, NewAnswer
<1>13. SearchInv'
  BY <1>1, <1>3 DEF SearchInv, Idle, Searching, IntoLoop, OutLoop
<1>. QED BY <1>5, <1>7, <1>12, <1>13

LEMMA AskGitNexusStep ==
    ASSUME SearchInv, ~ Searching, NEW q \in Query, q.found \subseteq graph.nodes, AskGitNexus(q)
    PROVE  /\ SearchInv' /\ AnswerInv'
           /\ answer'.nodes \subseteq graph.nodes /\ answer'.edges \subseteq Edges
           /\ \A p \in answer'.paths : p \in Seq(graph.nodes)
<1>1. /\ ~ graph.indexed /\ query' = q /\ pc' = "found"
      /\ graph' = graph /\ seeds' = seeds /\ queue' = queue /\ chains' = chains /\ incoming' = incoming
  BY DEF AskGitNexus
<1>2. SearchInv'
  BY <1>1 DEF SearchInv, Idle, Searching, IntoLoop, OutLoop
<1>3. CASE answer' = NotFound
  <2>1. answer'.paths = {} /\ answer'.nodes = {} /\ answer'.edges = {}
    BY <1>3 DEF NotFound
  <2>2. AnswerInv'
    BY <1>1, <1>3, <2>1, NewAnswer
  <2>. QED BY <1>2, <2>1, <2>2
<1>4. ASSUME NEW n \in q.found, NEW callers \in Orders(Callers(n)), NEW callees \in Orders(Callees(n)),
             answer' = ContextOf(n, callers, callees)
      PROVE  /\ AnswerInv'
             /\ answer'.nodes \subseteq graph.nodes /\ answer'.edges \subseteq Edges
             /\ \A p \in answer'.paths : p \in Seq(graph.nodes)
  <2>1. IsFiniteSet(graph.nodes) /\ n \in graph.nodes
    BY <1>1 DEF SearchInv
  <2>2. /\ answer'.nodes \subseteq graph.nodes /\ n \in answer'.nodes
        /\ answer'.edges \subseteq Edges
        /\ \A e \in answer'.edges : n \in {e.source, e.target}
        /\ \E p : answer'.paths = {p}
        /\ \A p \in answer'.paths : p \in Seq(graph.nodes) /\ IsWalk(p) /\ n \in Elements(p)
        /\ Cardinality(answer'.nodes) < NodeCap /\ Cardinality(answer'.edges) < EdgeCap =>
              /\ \A e \in answer'.edges : {e.source, e.target} \subseteq answer'.nodes
              /\ \A p \in answer'.paths : /\ Elements(p) \subseteq answer'.nodes
                                          /\ \A i \in Steps(p) : Between(p, i) \cap answer'.edges # {}
    <3>1. IsContextOf(n, ContextOf(n, callers, callees))
      BY <2>1, ContextAnswers
    <3>2. PICK a : a = answer' /\ IsContextOf(n, a)
      BY <1>4, <3>1
    <3>. QED BY <3>2 DEF IsContextOf
  <2>3. answer'.paths # {} /\ \A p \in answer'.paths : Elements(p) \cap query'.found \cap answer'.nodes # {}
    BY <1>1, <2>2
  <2>4. \A e \in answer'.edges : {e.source, e.target} \cap answer'.nodes # {}
    BY <2>2
  <2>5. AnswerInv'
    BY <1>1, <2>2, <2>3, <2>4, NewAnswer
  <2>. QED BY <2>2, <2>5
<1>5. \/ answer' = NotFound
      \/ \E n \in q.found : \E callers \in Orders(Callers(n)), callees \in Orders(Callees(n)) :
            answer' = ContextOf(n, callers, callees)
  BY DEF AskGitNexus
<1>. QED BY <1>2, <1>3, <1>4, <1>5

-----------------------------------------------------------------------------
(* The requests.                                                            *)

LEMMA InitialGraph ==
    ASSUME SearchInit \/ LiveInit
    PROVE  /\ graph.nodes \subseteq Ids /\ graph.edges \subseteq Edge /\ graph.located \subseteq Ids
           /\ ~ graph.indexed => IsFiniteSet(graph.nodes)
           /\ Empty
<1>1. CASE SearchInit
  <2>1. PICK rows \in SUBSET Rows : \E nodes \in SUBSET Symbols :
           \E located \in SUBSET nodes : \E described \in SUBSET located :
              graph = Payload(rows, nodes, located, described)
    BY <1>1 DEF SearchInit
  <2>2. PICK nodes \in SUBSET Symbols : \E located \in SUBSET nodes : \E described \in SUBSET located :
              graph = Payload(rows, nodes, located, described)
    BY <2>1
  <2>3. PICK located \in SUBSET nodes : \E described \in SUBSET located :
              graph = Payload(rows, nodes, located, described)
    BY <2>2
  <2>4. PICK described \in SUBSET located : graph = Payload(rows, nodes, located, described)
    BY <2>3
  <2>5. \A n \in described : n \in Symbols /\ Summary(n) \in Summaries
    BY DEF Summaries
  <2>6. rows \subseteq Edge
    BY DEF Rows, Edge, Ids, Types
  <2>7. \A n \in described : [source |-> n, type |-> Describes, target |-> Summary(n)] \in Edge
    BY <2>5 DEF Edge, Ids, Types
  <2>8. /\ graph.nodes = nodes \cup {Summary(n) : n \in described}
        /\ graph.edges = rows \cup {[source |-> n, type |-> Describes, target |-> Summary(n)] : n \in described}
        /\ graph.located = located \cup {Summary(n) : n \in described}
        /\ graph.indexed = TRUE
    BY <2>4 DEF Payload
  <2>. QED BY <1>1, <2>5, <2>6, <2>7, <2>8 DEF SearchInit, Ids
<1>2. CASE LiveInit
  <2>1. PICK rows \in SUBSET Rows : \E nodes \in SUBSET Symbols : \E located \in SUBSET nodes :
           graph = [nodes |-> nodes, edges |-> rows, located |-> located, indexed |-> FALSE]
    BY <1>2 DEF LiveInit
  <2>2. PICK nodes \in SUBSET Symbols : \E located \in SUBSET nodes :
           graph = [nodes |-> nodes, edges |-> rows, located |-> located, indexed |-> FALSE]
    BY <2>1
  <2>3. rows \subseteq Edge
    BY DEF Rows, Edge, Ids, Types
  <2>4. IsFiniteSet(nodes)
    BY FS_Subset, ContextAssumption
  <2>. QED BY <1>2, <2>2, <2>3, <2>4 DEF LiveInit, Ids
<1>. QED BY <1>1, <1>2

LEMMA Initial == Init => IInv
<1>. SUFFICES ASSUME Init PROVE IInv
  OBVIOUS
<1>1. /\ graph.nodes \subseteq Ids /\ graph.edges \subseteq Edge /\ graph.located \subseteq Ids
      /\ ~ graph.indexed => IsFiniteSet(graph.nodes)
  BY InitialGraph DEF Init
<1>2. /\ pc = "plan" /\ request \in Requests /\ match = <<>> /\ context = NoContext
      /\ query = NoQuery /\ seeds = {} /\ queue = {} /\ chains = {} /\ incoming = {} /\ answer = NotFound
  BY InitialGraph DEF Init, Empty
<1>3. query \in Query
  BY <1>2, SearchAssumption DEF NoQuery, Query
<1>4. answer.nodes = {} /\ answer.edges = {} /\ answer.paths = {}
  BY <1>2 DEF NotFound
<1>5. request \in Request
  BY <1>2, SearchAssumption, BuilderAssumption DEF Requests, Request
<1>6. context.nodes = {} /\ context.edges = {} /\ context.paths = {} /\ context.evidence = {}
  BY <1>2 DEF NoContext
<1>7. DOMAIN match = {}
  BY <1>2
<1>8. TypeOK
  BY <1>1, <1>2, <1>3, <1>4, <1>5, <1>6, <1>7 DEF TypeOK, SearchTypeOK
<1>9. SearchInv
  BY <1>1, <1>2 DEF SearchInv, Idle, Searching, IntoLoop, OutLoop
<1>10. AnswerInv
  BY <1>2, <1>4 DEF AnswerInv, PathsAreWalks, AnswerHasCenter, AnswerIsClosed, AnswerMatchesFilter, Tidy
<1>11. ContextInv
  BY <1>2, <1>6 DEF ContextInv, Built
<1>. QED BY <1>8, <1>9, <1>10, <1>11 DEF IInv

\* The terms found so far, and the query that is made of one.
LEMMA FindStep ==
    ASSUME TypeOK, graph' = graph, NEW t, Find(t)
    PROVE  /\ \A u \in DOMAIN match' : match'[u] \subseteq graph'.nodes
           /\ QueryOf(t) \in Query /\ QueryOf(t).found \subseteq graph.nodes
<1>1. PICK S \in SUBSET graph.nodes :
         match' = [u \in {t} \cup DOMAIN match |-> IF u \in DOMAIN match THEN match[u] ELSE S]
  BY DEF Find
<1>2. \A u \in DOMAIN match : match[u] \subseteq graph.nodes
  BY DEF TypeOK
<1>3. \A u \in DOMAIN match' : match'[u] \subseteq graph'.nodes
  BY <1>1, <1>2
<1>4. match'[t] \subseteq graph.nodes
  BY <1>1, <1>3
<1>5. request.types \subseteq Types /\ request.depth \in 1..MaxDepth
  BY DEF TypeOK, Request
<1>. QED BY <1>3, <1>4, <1>5 DEF QueryOf, Query, TypeOK, SearchTypeOK

\* The types of what the search and the answer are made of.
LEMMA NewTypes ==
    ASSUME TypeOK, graph' = graph, query' \in Query, seeds' \subseteq graph.nodes,
           pc' \in {"plan", "incoming", "outgoing", "found", "done", "failed"},
           \A p \in queue' \cup chains' \cup incoming' :
               p \in Seq(graph.nodes) /\ Len(p) \in 1..query'.depth,
           answer'.nodes \subseteq graph.nodes, answer'.edges \subseteq Edges,
           \A p \in answer'.paths : p \in Seq(graph.nodes),
           request' = request, \A t \in DOMAIN match' : match'[t] \subseteq graph.nodes,
           context' = context
    PROVE  TypeOK'
<1>1. graph.nodes \subseteq Ids /\ Edges' = Edges
  BY DEF TypeOK, SearchTypeOK, Edges
<1>2. \A p \in Seq(graph.nodes) : p \in Seq(Ids)
  BY <1>1, SeqMonotonic
<1>3. SearchTypeOK'
  BY <1>1, <1>2 DEF TypeOK, SearchTypeOK
<1>. QED BY <1>1, <1>3 DEF TypeOK

\* What a search step leaves of the request.
LEMMA SameContext ==
    ASSUME ContextInv, UNCHANGED <<request, context, bundle>>, pc' # "done"
    PROVE  ContextInv'
  BY DEF ContextInv, Built

\* The chains that the loops follow are what the types say.
LEMMA ChainTypes ==
    /\ \A p : Into(p) \/ OutOf(p) => p \in Seq(graph.nodes) /\ Len(p) \in 1..query.depth
    /\ (\A p : Into(p) => p \in Seq(graph.nodes) /\ Len(p) \in 1..query.depth)'
<1>1. \A p : Into(p) \/ OutOf(p) => p \in Seq(graph.nodes) /\ Len(p) \in 1..query.depth
  BY DEF Into, OutOf, Walk
<1>2. \A p : Into(p) => p \in Seq(graph.nodes) /\ Len(p) \in 1..query.depth
  BY DEF Into, Walk
<1>. QED BY <1>1, <1>2, PTL

LEMMA SearchKeepsIInv ==
    ASSUME IInv, SearchStep
    PROVE  IInv'
<1>1. /\ TypeOK /\ SearchInv /\ AnswerInv /\ ContextInv
      /\ query \in Query /\ seeds \subseteq graph.nodes
      /\ answer.nodes \subseteq graph.nodes /\ answer.edges \subseteq Edges
      /\ \A p \in answer.paths : p \in Seq(graph.nodes)
  BY DEF IInv, TypeOK, SearchTypeOK, AnswerInv
<1>2. /\ request' = request /\ match' = match /\ context' = context /\ bundle' = bundle
      /\ \A t \in DOMAIN match' : match'[t] \subseteq graph.nodes
  BY <1>1 DEF SearchStep, TypeOK
<1>3. ASSUME FollowIncoming \/ FollowOutgoing \/ TurnAround
      PROVE  /\ graph' = graph /\ query' = query /\ seeds' = seeds /\ answer' = answer
             /\ pc' \in {"incoming", "outgoing"}
  BY <1>3 DEF FollowIncoming, FollowOutgoing, TurnAround, Follow
<1>4. ASSUME FollowIncoming \/ FollowOutgoing \/ TurnAround
      PROVE  SearchInv' /\ \A p \in queue' \cup chains' \cup incoming' : Into(p) \/ OutOf(p)
  BY <1>1, <1>4, FollowIncomingStep, FollowOutgoingStep, TurnAroundStep
<1>5. CASE FollowIncoming \/ FollowOutgoing \/ TurnAround
  <2>1. AnswerInv'
    BY <1>1, <1>3, <1>5, SameAnswer
  <2>2. ContextInv'
    BY <1>1, <1>2, <1>3, <1>5, SameContext
  <2>3. TypeOK'
    BY <1>1, <1>2, <1>3, <1>4, <1>5, ChainTypes, NewTypes
  <2>. QED BY <1>4, <1>5, <2>1, <2>2, <2>3 DEF IInv
<1>6. CASE Combine
  <2>1. /\ graph' = graph /\ query' = query /\ pc' = "found"
        /\ seeds' = {} /\ queue' = {} /\ chains' = {} /\ incoming' = {}
    BY <1>6 DEF Combine
  <2>2. /\ SearchInv' /\ AnswerInv'
        /\ answer'.nodes \subseteq graph.nodes /\ answer'.edges \subseteq Edges
        /\ \A p \in answer'.paths : p \in Seq(graph.nodes)
    BY <1>1, <1>6, CombineStep
  <2>3. ContextInv'
    BY <1>1, <1>2, <2>1, SameContext
  <2>4. TypeOK'
    BY <1>1, <1>2, <2>1, <2>2, NewTypes
  <2>. QED BY <2>2, <2>3, <2>4 DEF IInv
<1>. QED BY <1>5, <1>6 DEF SearchStep, Search

\* A query whose search has not begun, or is over: nothing but seeds, if any.
LEMMA QueryLocalIndexKeepsIInv ==
    ASSUME IInv, QueryLocalIndex
    PROVE  IInv'
<1>. DEFINE t == PlannedTerm(request.terms)
            q == QueryOf(t)
<1>1. /\ TypeOK /\ SearchInv /\ ContextInv
      /\ graph' = graph /\ graph.indexed /\ answer' = NotFound
      /\ Find(t) /\ StartSearch(q) /\ query' = q /\ seeds' = Seeds(q)
      /\ pc' = IF Seeds(q) = {} THEN "found" ELSE "incoming"
      /\ request' = request /\ context' = context /\ bundle' = bundle
  BY DEF IInv, QueryLocalIndex, StartSearch
<1>2. /\ \A u \in DOMAIN match' : match'[u] \subseteq graph'.nodes
      /\ q \in Query /\ q.found \subseteq graph.nodes
  BY <1>1, FindStep
<1>. HIDE DEF q, t
<1>3. SearchInv' /\ \A p \in queue' \cup chains' \cup incoming' : Into(p)'
  BY <1>1, <1>2, StartSearchStep
<1>4. answer'.nodes = {} /\ answer'.edges = {} /\ answer'.paths = {}
  BY <1>1 DEF NotFound
<1>5. pc' = "found" /\ query'.types = {} => query'.found \cap graph.nodes = {}
  BY <1>1 DEF Seeds
<1>6. AnswerInv'
  BY <1>1, <1>4, <1>5, NewAnswer
<1>7. \A p \in queue' \cup chains' \cup incoming' : p \in Seq(graph.nodes) /\ Len(p) \in 1..query'.depth
  BY <1>1, <1>3, ChainTypes
<1>8. pc' \in {"plan", "incoming", "outgoing", "found", "done", "failed"} /\ pc' # "done"
  BY <1>1
<1>9. seeds' \subseteq graph.nodes
  BY <1>1 DEF Seeds
<1>10. TypeOK'
  BY <1>1, <1>2, <1>4, <1>7, <1>8, <1>9, NewTypes
<1>11. ContextInv'
  BY <1>1, <1>8, SameContext
<1>. QED BY <1>3, <1>6, <1>10, <1>11 DEF IInv

LEMMA QueryGitNexusKeepsIInv ==
    ASSUME IInv, QueryGitNexus
    PROVE  IInv'
<1>. DEFINE t == PlannedTerm(request.terms)
            q == QueryOf(t)
<1>1. /\ TypeOK /\ SearchInv /\ ContextInv /\ pc = "plan"
      /\ graph' = graph /\ pc' = "found" /\ query' = q
      /\ seeds' = seeds /\ queue' = queue /\ chains' = chains /\ incoming' = incoming
      /\ Find(t) /\ AskGitNexus(q)
      /\ request' = request /\ context' = context /\ bundle' = bundle
  BY DEF IInv, QueryGitNexus, AskGitNexus
<1>2. /\ \A u \in DOMAIN match' : match'[u] \subseteq graph'.nodes
      /\ q \in Query /\ q.found \subseteq graph.nodes
  BY <1>1, FindStep
<1>. HIDE DEF q, t
<1>3. seeds = {} /\ queue = {} /\ chains = {} /\ incoming = {} /\ ~ Searching
  BY <1>1 DEF SearchInv, Idle, Searching
<1>4. /\ SearchInv' /\ AnswerInv'
      /\ answer'.nodes \subseteq graph.nodes /\ answer'.edges \subseteq Edges
      /\ \A p \in answer'.paths : p \in Seq(graph.nodes)
  BY <1>1, <1>2, <1>3, AskGitNexusStep
<1>5. TypeOK'
  BY <1>1, <1>2, <1>3, <1>4, NewTypes
<1>6. ContextInv'
  BY <1>1, SameContext
<1>. QED BY <1>4, <1>5, <1>6 DEF IInv

\* What the end of a search leaves of it.
LEMMA SearchOver ==
    ASSUME IInv, UNCHANGED <<graph, query, seeds, queue, chains, incoming, answer>>,
           ~ Searching, pc' \in {"plan", "done", "failed"}
    PROVE  SearchInv' /\ AnswerInv' /\ SearchTypeOK' /\ graph'.nodes = graph.nodes /\ Edges' = Edges
<1>1. TypeOK /\ SearchTypeOK /\ SearchInv /\ AnswerInv
  BY DEF IInv, TypeOK
<1>2. Edges' = Edges
  BY DEF Edges
<1>3. AnswerInv'
  BY <1>1, SameAnswer
<1>4. SearchTypeOK'
  BY <1>1, <1>2 DEF SearchTypeOK
<1>5. SearchInv'
  BY <1>1 DEF SearchInv, Idle, Searching, IntoLoop, OutLoop
<1>. QED BY <1>2, <1>3, <1>4, <1>5

\* What is made of an answer has paths if and only if it has nodes, and no
\* evidence without them; so has what is made of two.
LEMMA MappedAnswer ==
    ASSUME IInv
    PROVE  LET c == MapPayload(answer) IN
           /\ c.nodes \subseteq graph.nodes /\ c.edges \subseteq Edges
           /\ c.evidence \subseteq graph.nodes \cup Edges
           /\ c.nodes = {} <=> c.paths = {}
           /\ c.paths = {} => c.evidence = {}
<1>1. /\ answer.nodes \subseteq graph.nodes /\ answer.edges \subseteq Edges
      /\ answer.nodes = {} <=> answer.paths = {}
      /\ answer.paths = {} => answer.edges = {}
  BY DEF IInv, TypeOK, SearchTypeOK, AnswerInv, Tidy
<1>. QED BY <1>1 DEF MapPayload, CollectEvidence

LEMMA GitNexusFailsKeepsIInv ==
    ASSUME IInv, GitNexusFails
    PROVE  IInv'
<1>1. /\ pc = "plan" /\ pc' = "failed" /\ match' = match
      /\ UNCHANGED <<graph, query, seeds, queue, chains, incoming, answer>>
      /\ UNCHANGED <<request, context, bundle>>
  BY DEF GitNexusFails
<1>2. SearchInv' /\ AnswerInv' /\ SearchTypeOK' /\ graph'.nodes = graph.nodes /\ Edges' = Edges
  BY <1>1, SearchOver DEF Searching
<1>3. TypeOK'
  BY <1>1, <1>2 DEF IInv, TypeOK
<1>4. ContextInv'
  BY <1>1, SameContext DEF IInv
<1>. QED BY <1>2, <1>3, <1>4 DEF IInv

LEMMA QueryGraphKeepsIInv ==
    ASSUME IInv, QueryGraph
    PROVE  IInv'
<1>1. /\ pc = "found" /\ pc' = "done" /\ match' = match /\ request' = request
      /\ context' = MapPayload(answer) /\ request.round = "query"
      /\ UNCHANGED <<graph, query, seeds, queue, chains, incoming, answer>>
  BY DEF QueryGraph
<1>2. SearchInv' /\ AnswerInv' /\ SearchTypeOK' /\ graph'.nodes = graph.nodes /\ Edges' = Edges
  BY <1>1, SearchOver DEF Searching
<1>3. /\ context'.nodes \subseteq graph.nodes /\ context'.edges \subseteq Edges
      /\ context'.evidence \subseteq graph.nodes \cup Edges
      /\ context'.nodes = {} <=> context'.paths = {}
      /\ context'.paths = {} => context'.evidence = {}
  BY <1>1, MappedAnswer
<1>4. TypeOK'
  BY <1>1, <1>2, <1>3 DEF IInv, TypeOK
<1>5. ContextInv'
  BY <1>1, <1>3 DEF ContextInv, Built
<1>. QED BY <1>2, <1>4, <1>5 DEF IInv

LEMMA RecallKeepsIInv ==
    ASSUME IInv, Recall
    PROVE  IInv'
<1>1. /\ pc = "found" /\ pc' = "plan" /\ match' = match
      /\ context' = MapPayload(answer) /\ request' = RecallRequest(request)
      /\ UNCHANGED <<graph, query, seeds, queue, chains, incoming, answer>>
  BY DEF Recall
<1>2. SearchInv' /\ AnswerInv' /\ SearchTypeOK' /\ graph'.nodes = graph.nodes /\ Edges' = Edges
  BY <1>1, SearchOver DEF Searching
<1>3. /\ context'.nodes \subseteq graph.nodes /\ context'.edges \subseteq Edges
      /\ context'.evidence \subseteq graph.nodes \cup Edges
      /\ context'.nodes = {} <=> context'.paths = {}
      /\ context'.paths = {} => context'.evidence = {}
  BY <1>1, MappedAnswer
<1>4. request \in Request /\ \A t \in DOMAIN match : match[t] \subseteq graph.nodes
  BY DEF IInv, TypeOK
<1>5. request' \in Request
  <2>1. request' = [request EXCEPT !.round = "recall",
                                   !.depth = IF @ > RecallDepth THEN @ ELSE RecallDepth]
    BY <1>1 DEF RecallRequest
  <2>2. RecallDepth \in 1..MaxDepth
    BY BuilderAssumption, SearchAssumption
  <2>3. request.depth \in 1..MaxDepth
    BY <1>4 DEF Request
  <2>. QED BY <1>4, <2>1, <2>2, <2>3 DEF Request
<1>6. TypeOK'
  BY <1>1, <1>2, <1>3, <1>4, <1>5 DEF TypeOK
<1>7. ContextInv'
  BY <1>1, <1>3 DEF ContextInv, Built
<1>. QED BY <1>2, <1>6, <1>7 DEF IInv

LEMMA BuildBundleKeepsIInv ==
    ASSUME IInv, BuildBundle
    PROVE  IInv'
<1>1. /\ pc = "found" /\ pc' = "done" /\ match' = match /\ request' = request
      /\ context' = Merge(context, MapPayload(answer)) /\ bundle' = BundleOf(context')
      /\ UNCHANGED <<graph, query, seeds, queue, chains, incoming, answer>>
  BY DEF BuildBundle
<1>2. SearchInv' /\ AnswerInv' /\ SearchTypeOK' /\ graph'.nodes = graph.nodes /\ Edges' = Edges
  BY <1>1, SearchOver DEF Searching
<1>. DEFINE d == MapPayload(answer)
<1>3. /\ d.nodes \subseteq graph.nodes /\ d.edges \subseteq Edges
      /\ d.evidence \subseteq graph.nodes \cup Edges
      /\ d.nodes = {} <=> d.paths = {}
      /\ d.paths = {} => d.evidence = {}
  BY MappedAnswer
<1>4. /\ context'.nodes = context.nodes \cup d.nodes /\ context'.edges = context.edges \cup d.edges
      /\ context'.paths = context.paths \cup d.paths
      /\ context'.evidence = context.evidence \cup d.evidence
  BY <1>1 DEF Merge
<1>. HIDE DEF d
<1>5. /\ context.nodes \subseteq graph.nodes /\ context.edges \subseteq Edges
      /\ context.evidence \subseteq graph.nodes \cup Edges
      /\ context.nodes = {} <=> context.paths = {}
      /\ context.paths = {} => context.evidence = {}
  BY DEF IInv, TypeOK, ContextInv
<1>6. TypeOK'
  BY <1>1, <1>2, <1>3, <1>4, <1>5 DEF IInv, TypeOK
<1>7. ContextInv'
  BY <1>1, <1>3, <1>4, <1>5 DEF ContextInv
<1>. QED BY <1>2, <1>6, <1>7 DEF IInv

\* A step that changes nothing.
LEMMA StutterKeepsIInv ==
    ASSUME IInv, UNCHANGED vars
    PROVE  IInv'
<1>1. /\ graph' = graph /\ pc' = pc /\ query' = query /\ seeds' = seeds /\ queue' = queue
      /\ chains' = chains /\ incoming' = incoming /\ answer' = answer
      /\ request' = request /\ match' = match /\ context' = context /\ bundle' = bundle
  BY DEF vars, searchVars
<1>2. Edges' = Edges
  BY <1>1 DEF Edges
<1>3. TypeOK'
  BY <1>1, <1>2 DEF IInv, TypeOK, SearchTypeOK
<1>4. SearchInv'
  BY <1>1, SameChains DEF IInv, SearchInv, Idle, Searching, IntoLoop, OutLoop
<1>5. \A p, i : Between(p, i)' = Between(p, i) /\ Steps(p)' = Steps(p)
  BY <1>2 DEF Between, Steps
<1>6. PathsAreWalks' /\ AnswerHasCenter' /\ AnswerIsClosed' /\ AnswerMatchesFilter'
  BY <1>1, <1>5 DEF IInv, AnswerInv, PathsAreWalks, IsWalk, AnswerHasCenter, AnswerIsClosed,
                    Uncut, Elements, AnswerMatchesFilter
<1>7. AnswerInv'
  BY <1>1, <1>6 DEF IInv, AnswerInv, Tidy
<1>8. ContextInv'
  BY <1>1 DEF IInv, ContextInv, Built
<1>. QED BY <1>3, <1>4, <1>7, <1>8 DEF IInv

-----------------------------------------------------------------------------
(* The theorems.                                                            *)

\* The inductive invariant holds of every reachable state.
THEOREM Invariance == Spec => []IInv
<1>1. IInv /\ [Next]_vars => IInv'
  <2>. SUFFICES ASSUME IInv, [Next]_vars PROVE IInv'
    OBVIOUS
  <2>1. CASE QueryLocalIndex
    BY <2>1, QueryLocalIndexKeepsIInv
  <2>2. CASE QueryGitNexus
    BY <2>2, QueryGitNexusKeepsIInv
  <2>3. CASE GitNexusFails
    BY <2>3, GitNexusFailsKeepsIInv
  <2>4. CASE SearchStep
    BY <2>4, SearchKeepsIInv
  <2>5. CASE QueryGraph
    BY <2>5, QueryGraphKeepsIInv
  <2>6. CASE Recall
    BY <2>6, RecallKeepsIInv
  <2>7. CASE BuildBundle
    BY <2>7, BuildBundleKeepsIInv
  <2>8. CASE UNCHANGED vars
    BY <2>8, StutterKeepsIInv
  <2>. QED BY <2>1, <2>2, <2>3, <2>4, <2>5, <2>6, <2>7, <2>8 DEF Next
<1>. QED BY <1>1, Initial, PTL DEF Spec

\* The graph stays within what an analysis gives, a search within the graph, an
\* answer and a context within the graph as well.
THEOREM TypeCorrect == Spec => []TypeOK
<1>1. IInv => TypeOK
  BY DEF IInv
<1>. QED BY <1>1, Invariance, PTL

\* Whatever the graph and the depth, a path of an answer leads along
\* relationships of the graph: LocalGraphIndex._context_paths joins two chains
\* at their seed and cuts them, and no step is made up.
THEOREM PathsLeadAlongRelationships == Spec => []PathsAreWalks
<1>1. IInv => PathsAreWalks
  BY DEF IInv, AnswerInv
<1>. QED BY <1>1, Invariance, PTL

LEMMA LoopsAreExact ==
    ASSUME IInv, pc = "outgoing", queue = {}
    PROVE  incoming = IntoWalks /\ chains = OutWalks
<1>1. /\ incoming = IntoWalks
      /\ \A p \in chains : OutOf(p) /\ OutEnd(p)
      /\ \A p \in OutWalks : p \in chains
  BY DEF IInv, SearchInv, OutLoop
<1>2. query.depth \in Nat
  BY DepthIsPositive DEF IInv, TypeOK, SearchTypeOK
<1>3. \A p \in chains : p \in OutWalks
  BY <1>1, <1>2, BoundedSeqsAreSeqs DEF OutWalks, OutOf, Walk
<1>. QED BY <1>1, <1>3

\* The loops of LocalGraphIndex._paths_into and _paths_out_of find exactly the
\* simple walks that are full or cannot be extended, on any graph.
THEOREM LoopsFindAllChains == Spec => []ChainsAreExact
<1>1. IInv => ChainsAreExact
  <2>. SUFFICES ASSUME IInv, pc = "outgoing", queue = {}
                PROVE  incoming = WalksInto(SimpleWalks, seeds) /\ chains = WalksOutOf(SimpleWalks, seeds)
    BY DEF ChainsAreExact
  <2>1. query.depth \in Nat
    BY DepthIsPositive DEF IInv, TypeOK, SearchTypeOK
  <2>. QED BY <2>1, LoopsAreExact, WalksOfTheGraph
<1>. QED BY <1>1, Invariance, PTL

-----------------------------------------------------------------------------
(* Why the loops end.                                                       *)

\* The lengths that paths of the queue have, or may still come to have.
Ahead == {n \in 1..query.depth : \E p \in queue : Len(p) <= n}

\* Every round of a loop leaves fewer of them: both loops end, whatever cycles
\* the graph has.
LoopsAdvance ==
    [][FollowIncoming \/ FollowOutgoing => Ahead' \subseteq Ahead /\ Ahead' # Ahead]_searchVars

\* The paths of the queue have one length, for a round takes all of them.
SameLength == \A p, q \in queue : Len(p) = Len(q)

\* A round makes them longer by one.
LEMMA RoundLengthens ==
    ASSUME IInv, FollowIncoming \/ FollowOutgoing
    PROVE  \A q \in queue' : \E p \in queue : Len(q) = Len(p) + 1
<1>1. query.depth \in Nat
  BY DepthIsPositive DEF IInv, TypeOK, SearchTypeOK
<1>2. CASE FollowIncoming
  <2>1. /\ \A p \in queue : Into(p)
        /\ queue' = UNION {[u \in queue |-> Predecessors(u)][p] : p \in {v \in queue : ~ Full(v)}}
    BY <1>2 DEF IInv, SearchInv, IntoLoop, FollowIncoming, Follow
  <2>2. ASSUME NEW q \in queue'
        PROVE  \E p \in queue : ~ Full(p) /\ q \in Predecessors(p)
    BY <2>1
  <2>. QED BY <1>1, <2>1, <2>2, LongerInto
<1>3. CASE FollowOutgoing
  <2>1. /\ \A p \in queue : OutOf(p)
        /\ queue' = UNION {[u \in queue |-> Successors(u)][p] : p \in {v \in queue : ~ Full(v)}}
    BY <1>3 DEF IInv, SearchInv, OutLoop, FollowOutgoing, Follow
  <2>2. ASSUME NEW q \in queue'
        PROVE  \E p \in queue : ~ Full(p) /\ q \in Successors(p)
    BY <2>1
  <2>. QED BY <1>1, <2>1, <2>2, LongerOutOf
<1>. QED BY <1>2, <1>3

LEMMA SameLengthStep ==
    ASSUME IInv, SameLength, [Next]_vars
    PROVE  SameLength'
<1>1. CASE FollowIncoming \/ FollowOutgoing
  <2>1. \A q \in queue' : \E p \in queue : Len(q) = Len(p) + 1
    BY <1>1, RoundLengthens
  <2>. QED BY <2>1 DEF SameLength
<1>2. ASSUME NEW S, queue' = {<<n>> : n \in S}
      PROVE  SameLength'
  <2>1. \A p \in queue' : Len(p) = 1
    BY <1>2
  <2>. QED BY <2>1 DEF SameLength
<1>3. CASE QueryLocalIndex \/ TurnAround
  BY <1>2, <1>3 DEF QueryLocalIndex, StartSearch, TurnAround
<1>4. CASE queue' \in {queue, {}}
  BY <1>4 DEF SameLength
<1>5. CASE \/ QueryGitNexus \/ GitNexusFails \/ Combine
           \/ QueryGraph \/ Recall \/ BuildBundle \/ UNCHANGED vars
  <2>1. queue' \in {queue, {}}
    BY <1>5 DEF QueryGitNexus, AskGitNexus, GitNexusFails, Combine, QueryGraph, Recall, BuildBundle, vars, searchVars
  <2>. QED BY <1>4, <2>1
<1>. QED BY <1>1, <1>3, <1>5 DEF Next, SearchStep, Search

\* Whatever the graph and the depth, the searches of LocalGraphIndex end: each
\* round leaves fewer lengths that a path in the queue may have.
THEOREM LoopsComeToTheirEnd == Spec => LoopsAdvance
<1>1. Init => SameLength
  BY DEF Init, SearchInit, LiveInit, Empty, SameLength
<1>2. IInv /\ SameLength /\ [Next]_vars => SameLength'
  BY SameLengthStep
<1>3. ASSUME IInv, SameLength, FollowIncoming \/ FollowOutgoing
      PROVE  Ahead' \subseteq Ahead /\ Ahead' # Ahead
  <2>1. query' = query
    BY <1>3 DEF FollowIncoming, FollowOutgoing, Follow
  <2>2. query.depth \in Nat /\ \A p \in queue : Len(p) \in 1..query.depth
    BY <1>3, DepthIsPositive DEF IInv, TypeOK, SearchTypeOK
  <2>3. PICK p \in queue : TRUE
    BY <1>3 DEF FollowIncoming, FollowOutgoing, Follow
  <2>4. Len(p) \in 1..query.depth /\ \A r \in queue : Len(r) = Len(p)
    BY <1>3, <2>2, <2>3 DEF SameLength
  <2>5. \A q \in queue' : Len(q) = Len(p) + 1
    BY <1>3, <2>4, RoundLengthens
  <2>6. Len(p) \in Ahead
    BY <2>2, <2>4 DEF Ahead
  <2>7. \A n \in Ahead' : n \in 1..query.depth /\ Len(p) + 1 <= n
    BY <2>1, <2>5 DEF Ahead
  <2>8. \A n \in Ahead' : n \in Ahead /\ n # Len(p)
    BY <2>2, <2>4, <2>7 DEF Ahead
  <2>. QED BY <2>6, <2>8
<1>4. IInv /\ SameLength /\ [Next]_vars =>
        [FollowIncoming \/ FollowOutgoing => Ahead' \subseteq Ahead /\ Ahead' # Ahead]_searchVars
  BY <1>3
<1>. QED BY <1>1, <1>2, <1>4, Invariance, PTL DEF Spec, LoopsAdvance

\* What an index is to answer, which AnswerIsExact names.
Wanted(p) == query.types # {} => \E e \in Edges : Connects(e, p) /\ e.type \in query.types
Result == ResultOf({p \in WalksThrough(SimpleWalks, Seeds(query)) : Wanted(p)})

\* It depends on the graph and the query alone.
LEMMA SameResult ==
    ASSUME UNCHANGED <<graph, query>>
    PROVE  Result' = Result
<1>1. graph' = graph /\ query' = query
  OBVIOUS
<1>2. Edges' = Edges
  BY <1>1 DEF Edges
<1>3. BoundedSeqs' = BoundedSeqs /\ Seeds(query)' = Seeds(query)
  BY <1>1, <1>2 DEF BoundedSeqs, Seeds
<1>4. SimpleWalks' = SimpleWalks
  BY <1>2, <1>3 DEF SimpleWalks, IsSimple
<1>5. \A W, S : WalksInto(W, S)' = WalksInto(W, S) /\ WalksOutOf(W, S)' = WalksOutOf(W, S)
  BY <1>1, <1>2 DEF WalksInto, WalksOutOf, Elements
<1>6. \A W, S : WalksThrough(W, S)' = WalksThrough(W, S)
  BY <1>1, <1>5 DEF WalksThrough, First
<1>7. \A e, p : Connects(e, p)' <=> Connects(e, p)
  BY <1>1, <1>2 DEF Connects, Between, Steps
<1>8. \A p : Wanted(p)' <=> Wanted(p)
  BY <1>1, <1>2, <1>7 DEF Wanted
<1>9. \A P : ResultOf(P)' = ResultOf(P)
  BY <1>2, <1>3, <1>7 DEF ResultOf, NotFound, Elements
<1>. DEFINE through == {p \in WalksThrough(SimpleWalks, Seeds(query)) : Wanted(p)}
<1>10. through' = through
  BY <1>3, <1>4, <1>6, <1>8
<1>. QED BY <1>9, <1>10 DEF Result

\* Without a seed it is nothing.
LEMMA NothingFound == Seeds(query) = {} => Result = NotFound
<1>. SUFFICES ASSUME Seeds(query) = {} PROVE Result = NotFound
  OBVIOUS
<1>1. WalksInto(SimpleWalks, Seeds(query)) = {}
  BY DEF WalksInto
<1>2. WalksThrough(SimpleWalks, Seeds(query)) = {}
  BY <1>1 DEF WalksThrough
<1>. QED BY <1>2 DEF Result, ResultOf

LEMMA NothingFoundNext == (Seeds(query) = {} => Result = NotFound)'
<1>1. Seeds(query) = {} => Result = NotFound
  BY NothingFound
<1>. QED BY <1>1, PTL

\* Combine gives it.
LEMMA CombineIsExact ==
    ASSUME IInv, Combine
    PROVE  answer' = Result
<1>1. pc = "outgoing" /\ queue = {} /\ answer' = AnswerOf({p \in ContextPaths : MatchesFilter(p)})
  BY DEF Combine
<1>2. query.depth \in Nat \ {0} /\ query.depth \in Nat /\ seeds = Seeds(query) /\ seeds \subseteq graph.nodes
  BY <1>1, DepthIsPositive DEF IInv, TypeOK, SearchTypeOK, SearchInv, Searching
<1>3. /\ incoming = IntoWalks /\ chains = OutWalks
      /\ incoming = WalksInto(SimpleWalks, seeds) /\ chains = WalksOutOf(SimpleWalks, seeds)
  BY <1>1, <1>2, LoopsAreExact, WalksOfTheGraph
<1>4. ContextPaths = WalksThrough(SimpleWalks, Seeds(query))
  BY <1>2, <1>3 DEF ContextPaths, WalksThrough, Combined, Cut
<1>5. ASSUME NEW p \in ContextPaths
      PROVE  Elements(p) \subseteq graph.nodes
  <2>1. \A c \in incoming \cup chains : c \in incoming => Into(c)
    BY <1>2, <1>3, IntoWalksAreInto
  <2>2. \A c \in chains : OutOf(c)
    BY <1>2, <1>3, IntoWalksAreInto
  <2>3. PICK c \in incoming \X chains : c[1][Len(c[1])] = c[2][1] /\ p = Combined(c[1], c[2])
    BY <1>5 DEF ContextPaths
  <2>4. Into(c[1]) /\ OutOf(c[2])
    BY <2>1, <2>2, <2>3
  <2>5. p \in Seq(graph.nodes)
    BY <1>2, <2>3, <2>4, CombinedIsWalk
  <2>. QED BY <2>5, ElementsAreMembers
<1>6. ASSUME NEW p
      PROVE  MatchesFilter(p) <=> Wanted(p)
  <2>1. \A i \in Steps(p) : Between(p, i) \subseteq Edges
    BY DEF Between
  <2>. QED BY <2>1 DEF MatchesFilter, Wanted, Connects
<1>. DEFINE P == {p \in ContextPaths : MatchesFilter(p)}
<1>7. Result = ResultOf(P)
  <2>1. P = {p \in WalksThrough(SimpleWalks, Seeds(query)) : Wanted(p)}
    BY <1>4, <1>6
  <2>. QED BY <2>1 DEF Result
<1>8. \A p \in P : Elements(p) \subseteq graph.nodes
  BY <1>5
<1>. HIDE DEF P
<1>9. ASSUME NEW p
      PROVE  /\ \A i \in Steps(p) : \A e \in Selected(p, i) : e \in Edges /\ Connects(e, p)
             /\ \A e : Connects(e, p) => \E i \in Steps(p) : e \in Selected(p, i)
  <2>1. \A i : /\ Selected(p, i) \subseteq Between(p, i) /\ Between(p, i) \subseteq Edges
              /\ \A e : e \in Selected(p, i) <=>
                     /\ e \in Between(p, i)
                     /\ e.type \in query.types \/ \A f \in Between(p, i) : f.type \notin query.types
    BY DEF Selected, Between
  <2>. QED BY <2>1 DEF Connects
<1>10. UNION {UNION {Selected(p, i) : i \in Steps(p)} : p \in P} = {e \in Edges : \E p \in P : Connects(e, p)}
  <2>1. ASSUME NEW e
        PROVE  e \in UNION {UNION {Selected(p, i) : i \in Steps(p)} : p \in P}
                  <=> \E p \in P : \E i \in Steps(p) : e \in Selected(p, i)
    OBVIOUS
  <2>. QED BY <1>9, <2>1
<1>11. seeds \cup (graph.nodes \cap UNION {Elements(p) : p \in P}) = Seeds(query) \cup UNION {Elements(p) : p \in P}
  BY <1>2, <1>8
<1>12. AnswerOf(P) = ResultOf(P)
  BY <1>10, <1>11 DEF AnswerOf, ResultOf
<1>. QED BY <1>1, <1>7, <1>12 DEF P

\* What LocalGraphIndex.query answers is a function of the graph and the query,
\* on any graph: the two searches, the joining of their chains, the cut, the
\* filter and the choice of relationships come to the walks through the nodes
\* found, with what lies on them, and to nothing when no node is found.
THEOREM AnswersAreExact == Spec => []AnswerIsExact
<1>1. AnswerIsExact <=> (pc = "found" /\ graph.indexed => answer = Result)
  BY DEF AnswerIsExact, Result, Wanted
<1>2. Init => AnswerIsExact
  BY DEF Init, AnswerIsExact
<1>3. IInv /\ AnswerIsExact /\ [Next]_vars => (pc = "found" /\ graph.indexed => answer = Result)'
  <2>. SUFFICES ASSUME IInv, AnswerIsExact, [Next]_vars, pc' = "found", graph'.indexed
                PROVE  answer' = Result'
    OBVIOUS
  <2>1. graph' = graph
    BY DEF Next, vars, QueryLocalIndex, QueryGitNexus, GitNexusFails, SearchStep, QueryGraph, Recall, BuildBundle,
           StartSearch, AskGitNexus, Search, FollowIncoming, FollowOutgoing, Follow, TurnAround, Combine
  <2>2. CASE QueryLocalIndex
    <3>1. answer' = NotFound /\ query' = QueryOf(PlannedTerm(request.terms)) /\ Seeds(query') = {}
      BY <2>2 DEF QueryLocalIndex, StartSearch
    <3>2. Seeds(query)' = {}
      BY <2>1, <3>1 DEF Seeds, Edges
    <3>. QED BY <3>1, <3>2, NothingFoundNext
  <2>3. CASE QueryGitNexus \/ GitNexusFails
    BY <2>1, <2>3 DEF QueryGitNexus, AskGitNexus, GitNexusFails
  <2>4. CASE SearchStep
    <3>1. query' = query /\ Combine
      BY <2>4 DEF SearchStep, Search, FollowIncoming, FollowOutgoing, Follow, TurnAround, Combine
    <3>. QED BY <2>1, <3>1, CombineIsExact, SameResult
  <2>5. CASE QueryGraph \/ Recall \/ BuildBundle
    BY <2>5 DEF QueryGraph, Recall, BuildBundle
  <2>6. CASE UNCHANGED vars
    <3>1. pc' = pc /\ query' = query /\ answer' = answer
      BY <2>6 DEF vars, searchVars
    <3>. QED BY <1>1, <2>1, <3>1, SameResult
  <2>. QED BY <2>2, <2>3, <2>4, <2>5, <2>6 DEF Next
<1>4. AnswerIsExact' <=> (pc = "found" /\ graph.indexed => answer = Result)'
  BY <1>1, PTL
<1>. QED BY <1>2, <1>3, <1>4, Invariance, PTL DEF Spec

\* A relationship of an answer joins nodes of it, and a path runs over nodes and
\* relationships of it, for every pair of limits that cut the payload of an
\* index apart, and for an answer of GitNexus that reached neither; one that did
\* keeps an end of every relationship.
THEOREM AnswersAreClosed == Spec => []AnswerIsClosed
<1>1. IInv => AnswerIsClosed
  BY DEF IInv, AnswerInv
<1>. QED BY <1>1, Invariance, PTL

\* What was searched for survives every cut.
THEOREM AnswersHaveTheirCenter == Spec => []AnswerHasCenter
<1>1. IInv => AnswerHasCenter
  BY DEF IInv, AnswerInv
<1>. QED BY <1>1, Invariance, PTL

\* An index answers with what was asked for, and never with nothing for a node
\* it has: every seed has a chain into it and one out of it.
THEOREM AnswersMatchTheirFilter == Spec => []AnswerMatchesFilter
<1>1. IInv => AnswerMatchesFilter
  BY DEF IInv, AnswerInv
<1>. QED BY <1>1, Invariance, PTL

\* build_evidence_bundle: a bundle has matched nodes if and only if it has
\* paths, after a recall and a merge as well.
THEOREM NodesAndPathsAreMissingTogether == Spec => []MissingTogether
<1>1. IInv => MissingTogether
  <2>. SUFFICES ASSUME IInv, Built
                PROVE  /\ "nodes" \in bundle.missing <=> "paths" \in bundle.missing
                       /\ "paths" \in bundle.missing => "evidence" \in bundle.missing
    BY DEF MissingTogether
  <2>1. /\ bundle.missing = Missing(context)
        /\ context.nodes = {} <=> context.paths = {}
        /\ context.paths = {} => context.evidence = {}
    BY DEF IInv, ContextInv, BundleOf
  <2>2. /\ "nodes" \in Missing(context) <=> context.nodes = {}
        /\ "paths" \in Missing(context) <=> context.paths = {}
        /\ "evidence" \in Missing(context) <=> context.evidence = {}
    BY DEF Missing
  <2>. QED BY <2>1, <2>2
<1>. QED BY <1>1, Invariance, PTL

-----------------------------------------------------------------------------
(* Evidence that a language model did not write.                            *)

\* What the payload of an analysis, and GitNexus, have: a summary is the target
\* of a relationship from a symbol with a file path, and of no other.
GraphInv ==
    /\ \A e \in graph.edges : e.source \in Symbols
    /\ \A e \in graph.edges : Semantic(e) \/ e.target \in Summaries => e.source \in graph.located
    /\ \A n \in graph.nodes \cap Summaries : \E e \in Edges : e.target = n
    /\ ~ graph.indexed => graph.nodes \subseteq Symbols /\ graph.edges \subseteq Rows

Grounded(evidence) == evidence # {} => \E x \in evidence : ~ Semantic(x)

\* The requests of a bundle have no filter and the depth of the builder.
RequestInv ==
    /\ request.round # "query" => request.types = {} /\ request.depth \in BuildDepth..MaxDepth
    /\ pc \in {"incoming", "outgoing", "found"} =>
          query.types = request.types /\ query.depth = request.depth

GroundedInv ==
    /\ GraphInv /\ RequestInv
    /\ request.round # "query" =>
          Grounded(context.evidence) /\ (pc = "found" => Grounded(CollectEvidence(answer)))

LEMMA SymbolsAreCode == \A n \in Symbols : ~ Semantic(n) /\ n \notin Summaries
  BY IdAssumption DEF Semantic, Edge, Ids, Types

LEMMA RowsAreCode == \A e \in Rows : ~ Semantic(e) /\ e.source \in Symbols /\ e.target \notin Summaries
<1>. TAKE e \in Rows
<1>1. e.source \in Symbols /\ e.target \in Symbols /\ e.type \in EdgeTypes
  BY DEF Rows
<1>2. e \notin [source : Symbols, type : {Describes}, target : Summaries]
  BY <1>1, SearchAssumption
<1>3. e \notin Summaries
  <2>1. "source" \in DOMAIN e
    BY DEF Rows
  <2>2. \A n \in Symbols : "source" \notin DOMAIN Summary(n)
    BY DEF Summary
  <2>. QED BY <2>1, <2>2 DEF Summaries
<1>. QED BY <1>1, <1>2, <1>3, SymbolsAreCode DEF Semantic

LEMMA InitialGraphInv ==
    ASSUME SearchInit \/ LiveInit
    PROVE  GraphInv
<1>1. CASE SearchInit
  <2>1. PICK rows \in SUBSET Rows : \E nodes \in SUBSET Symbols :
           \E located \in SUBSET nodes : \E described \in SUBSET located :
              graph = Payload(rows, nodes, located, described)
    BY <1>1 DEF SearchInit
  <2>2. PICK nodes \in SUBSET Symbols : \E located \in SUBSET nodes : \E described \in SUBSET located :
              graph = Payload(rows, nodes, located, described)
    BY <2>1
  <2>3. PICK located \in SUBSET nodes : \E described \in SUBSET located :
              graph = Payload(rows, nodes, located, described)
    BY <2>2
  <2>4. PICK described \in SUBSET located : graph = Payload(rows, nodes, located, described)
    BY <2>3
  <2>. DEFINE Description(n) == [source |-> n, type |-> Describes, target |-> Summary(n)]
  <2>5. /\ graph.nodes = nodes \cup {Summary(n) : n \in described}
        /\ graph.edges = rows \cup {Description(n) : n \in described}
        /\ graph.located = located \cup {Summary(n) : n \in described}
        /\ graph.indexed = TRUE
    BY <2>4 DEF Payload
  <2>6. \A n : Description(n).source = n /\ Description(n).target = Summary(n)
    OBVIOUS
  <2>. HIDE DEF Description
  <2>7. \A e \in graph.edges : e \in rows \/ \E n \in described : e = Description(n)
    BY <2>5
  <2>8. \A e \in graph.edges :
           e.source \in Symbols /\ (Semantic(e) \/ e.target \in Summaries => e.source \in graph.located)
    BY <2>5, <2>6, <2>7, RowsAreCode
  <2>9. ASSUME NEW n \in graph.nodes \cap Summaries
        PROVE  \E e \in Edges : e.target = n
    <3>1. PICK m \in described : n = Summary(m)
      BY <2>5, <2>9, SymbolsAreCode
    <3>2. Description(m) \in Edges
      BY <2>5, <2>6, <3>1 DEF Edges
    <3>. QED BY <2>6, <3>1, <3>2
  <2>. QED BY <2>5, <2>8, <2>9 DEF GraphInv
<1>2. CASE LiveInit
  <2>1. PICK rows \in SUBSET Rows : \E nodes \in SUBSET Symbols : \E located \in SUBSET nodes :
           graph = [nodes |-> nodes, edges |-> rows, located |-> located, indexed |-> FALSE]
    BY <1>2 DEF LiveInit
  <2>2. PICK nodes \in SUBSET Symbols : \E located \in SUBSET nodes :
           graph = [nodes |-> nodes, edges |-> rows, located |-> located, indexed |-> FALSE]
    BY <2>1
  <2>3. graph.nodes = nodes /\ graph.edges = rows /\ ~ graph.indexed
    BY <2>2
  <2>. QED BY <2>3, RowsAreCode, SymbolsAreCode DEF GraphInv
<1>. QED BY <1>1, <1>2

\* A path of an answer that passes a summary passes a symbol it describes.
LEMMA PathIsGrounded ==
    ASSUME GraphInv, query.depth \in Nat, query.depth >= 2,
           NEW i, Into(i), IntoEnd(i), NEW o, OutOf(o), i[Len(i)] = o[1],
           NEW n \in Elements(Combined(i, o)) \cap Summaries
    PROVE  \E m \in Elements(Combined(i, o)) : m \in Symbols /\ m \in graph.located
<1>. DEFINE p == Combined(i, o)
<1>1. /\ p \in Seq(graph.nodes) /\ IsWalk(p)
      /\ \A k \in 1..Len(i) : k \in 1..Len(p) /\ p[k] = i[k]
  BY CombinedIsWalk
<1>. HIDE DEF p
<1>2. i \in Seq(graph.nodes) /\ IsWalk(i) /\ Len(i) \in 1..query.depth
  BY DEF Into, Walk
<1>3. \A e \in Edges : /\ e.source \in Symbols
                       /\ e.target \in Summaries => e.source \in graph.located
  BY DEF GraphInv, Edges
<1>4. n \in Elements(p)
  BY DEF p
<1>5. PICK k \in 1..Len(p) : p[k] = n
  BY <1>1, <1>4, ElementsAreMembers
<1>6. Elements(i) \subseteq Elements(p)
  <2>1. Elements(i) = {i[j] : j \in 1..Len(i)} /\ Elements(p) = {p[j] : j \in 1..Len(p)}
    BY <1>1, <1>2, ElementsAreMembers
  <2>. QED BY <1>1, <2>1
<1>7. CASE k > 1
  <2>1. k - 1 \in 1..Len(p) /\ (k - 1) + 1 = k /\ k <= Len(p)
    BY <1>1, <1>5, <1>7
  <2>2. PICK e \in Edges : e.source = p[k - 1] /\ e.target = p[k]
    BY <1>1, <2>1, WalkSteps
  <2>3. p[k - 1] \in Elements(p)
    BY <1>1, <2>1, ElementsAreMembers
  <2>. QED BY <1>3, <1>5, <2>2, <2>3 DEF p
<1>8. CASE k = 1
  <2>1. i[1] = n
    BY <1>1, <1>2, <1>5, <1>8
  <2>2. CASE \A e \in Edges : e.target = i[1] => e.source \in Elements(i)
    <3>1. n \in graph.nodes
      BY <1>1, <1>4, ElementsAreMembers
    <3>2. PICK e \in Edges : e.target = n
      BY <3>1 DEF GraphInv
    <3>. QED BY <1>3, <1>6, <2>1, <2>2, <3>2 DEF p
  <2>3. CASE Len(i) = query.depth
    <3>1. 1 \in 1..Len(i) /\ 1 + 1 <= Len(i)
      BY <1>2, <2>3
    <3>2. PICK e \in Edges : e.source = i[1] /\ e.target = i[1 + 1]
      BY <1>2, <3>1, WalkSteps
    <3>. QED BY <1>3, <2>1, <3>2, SymbolsAreCode
  <2>. QED BY <2>2, <2>3 DEF IntoEnd
<1>. QED BY <1>1, <1>5, <1>7, <1>8

LEMMA CombineIsGrounded ==
    ASSUME IInv, GraphInv, Combine, query.types = {}, query.depth >= 2
    PROVE  Grounded(CollectEvidence(answer))'
<1>. DEFINE P == {p \in ContextPaths : MatchesFilter(p)}
<1>1. /\ pc = "outgoing" /\ queue = {} /\ answer' = AnswerOf(P) /\ graph' = graph
  BY DEF Combine
<1>2. query.depth \in Nat \ {0} /\ query.depth \in Nat /\ seeds \subseteq graph.nodes
  BY DepthIsPositive DEF IInv, TypeOK, SearchTypeOK
<1>3. /\ incoming = IntoWalks
      /\ \A s \in seeds : \E p \in incoming : p[Len(p)] = s
      /\ \A p \in chains : OutOf(p)
      /\ \A s \in seeds : \E p \in chains : p[1] = s
  BY <1>1 DEF IInv, SearchInv, OutLoop
<1>4. \A p \in incoming : Into(p) /\ IntoEnd(p)
  BY <1>2, <1>3, IntoWalksAreInto DEF IntoWalks
<1>5. P = ContextPaths
  BY DEF MatchesFilter
<1>6. \A p \in ContextPaths : \E i \in incoming, o \in chains : i[Len(i)] = o[1] /\ p = Combined(i, o)
  BY DEF ContextPaths
<1>7. \A p \in P : p \in Seq(graph.nodes) /\ IsWalk(p)
  BY <1>2, <1>3, <1>4, <1>5, ContextPathsAreWalks
<1>8. ASSUME NEW s \in seeds
      PROVE  \E p \in P : s \in Elements(p)
  <2>1. PICK i \in incoming : i[Len(i)] = s
    BY <1>3
  <2>2. PICK o \in chains : o[1] = s
    BY <1>3
  <2>3. <<i, o>> \in incoming \X chains /\ <<i, o>>[1] = i /\ <<i, o>>[2] = o
    OBVIOUS
  <2>4. Combined(i, o) \in P
    BY <1>5, <2>1, <2>2, <2>3 DEF ContextPaths
  <2>. QED BY <1>2, <1>3, <1>4, <2>1, <2>2, <2>4, CombinedIsWalk
<1>9. ASSUME NEW p \in P, NEW n \in Elements(p) \cap Summaries
      PROVE  \E m \in Elements(p) : m \in Symbols /\ m \in graph.located
  <2>1. PICK i \in incoming : \E o \in chains : i[Len(i)] = o[1] /\ p = Combined(i, o)
    BY <1>5, <1>6
  <2>2. PICK o \in chains : i[Len(i)] = o[1] /\ p = Combined(i, o)
    BY <2>1
  <2>. QED BY <1>2, <1>3, <1>4, <1>9, <2>2, PathIsGrounded
<1>. HIDE DEF P
<1>10. /\ answer'.nodes \subseteq graph.nodes /\ answer'.edges \subseteq Edges
       /\ \A e \in answer'.edges : {e.source, e.target} \subseteq answer'.nodes
       /\ \A p \in P : Elements(p) \subseteq answer'.nodes
       /\ P = {} => answer' = NotFound
  BY <1>1, <1>2, <1>7, AnswerOfWalks
<1>11. \A n \in answer'.nodes : n \in seeds \/ \E p \in P : n \in Elements(p)
  <2>1. CASE P = {}
    BY <1>10, <2>1 DEF NotFound
  <2>2. CASE P # {}
    <3>1. AnswerOf(P).nodes = seeds \cup (graph.nodes \cap UNION {Elements(p) : p \in P})
      BY <2>2 DEF AnswerOf
    <3>. QED BY <1>1, <3>1
  <2>. QED BY <2>1, <2>2
<1>12. CollectEvidence(answer)' = {n \in answer'.nodes : n \in graph.located} \cup answer'.edges
  BY <1>1 DEF CollectEvidence, Located
<1>13. ASSUME NEW x \in CollectEvidence(answer)', Semantic(x)
       PROVE  \E m \in answer'.nodes : m \in Symbols /\ m \in graph.located
  <2>1. CASE x \in answer'.edges
    <3>1. x \in graph.edges /\ x.source \in answer'.nodes
      BY <1>10, <2>1 DEF Edges
    <3>. QED BY <1>13, <3>1 DEF GraphInv
  <2>2. CASE x \in answer'.nodes
    <3>1. x \in Summaries
      <4>1. x \in Ids
        BY <1>10, <2>2 DEF IInv, TypeOK, SearchTypeOK
      <4>. QED BY <1>13, <4>1, SymbolsAreCode DEF Ids
    <3>2. PICK p \in P : x \in Elements(p)
      BY <1>8, <1>11, <2>2
    <3>3. PICK m \in Elements(p) : m \in Symbols /\ m \in graph.located
      BY <1>9, <3>1, <3>2
    <3>. QED BY <1>10, <3>3
  <2>. QED BY <1>12, <1>13, <2>1, <2>2
<1>14. ASSUME NEW x \in CollectEvidence(answer)'
       PROVE  \E y \in CollectEvidence(answer)' : ~ Semantic(y)
  <2>1. CASE ~ Semantic(x)
    BY <2>1
  <2>2. CASE Semantic(x)
    <3>1. PICK m \in answer'.nodes : m \in Symbols /\ m \in graph.located
      BY <1>13, <2>2
    <3>. QED BY <1>12, <3>1, SymbolsAreCode
  <2>. QED BY <2>1, <2>2
<1>15. \A x : Semantic(x)' <=> Semantic(x)
  BY DEF Semantic
<1>. QED BY <1>14, <1>15 DEF Grounded

\* An answer of GitNexus has no summaries in it.
LEMMA LiveIsGrounded ==
    ASSUME IInv', GraphInv, graph' = graph, ~ graph.indexed
    PROVE  Grounded(CollectEvidence(answer))'
<1>1. answer'.nodes \subseteq graph.nodes /\ answer'.edges \subseteq graph.edges
  BY DEF IInv, TypeOK, SearchTypeOK, Edges
<1>2. \A x \in CollectEvidence(answer)' : x \in Symbols \/ x \in Rows
  BY <1>1 DEF CollectEvidence, GraphInv
<1>3. \A x \in CollectEvidence(answer)' : ~ Semantic(x)
  BY <1>2, SymbolsAreCode, RowsAreCode
<1>. QED BY <1>3 DEF Grounded, Semantic

LEMMA GroundedStep ==
    ASSUME IInv, IInv', GroundedInv, [Next]_vars
    PROVE  GroundedInv'
<1>1. graph' = graph
  BY DEF Next, vars, QueryLocalIndex, QueryGitNexus, GitNexusFails, SearchStep, QueryGraph, Recall, BuildBundle,
         StartSearch, AskGitNexus, Search, FollowIncoming, FollowOutgoing, Follow, TurnAround, Combine
<1>2. GraphInv'
  BY <1>1 DEF GroundedInv, GraphInv, Edges, Semantic
<1>3. CollectEvidence(answer)' = CollectEvidence(answer) \/ answer' # answer
  BY <1>1 DEF CollectEvidence, Located
<1>4. \A S : Grounded(S)' <=> Grounded(S)
  BY DEF Grounded, Semantic
<1>5. BuildDepth \in Nat /\ MaxDepth \in Nat /\ RecallDepth \in BuildDepth..MaxDepth /\ BuildDepth >= 2
  BY SearchAssumption, BuilderAssumption
<1>6. request \in Request /\ query \in Query
  BY DEF IInv, TypeOK, SearchTypeOK
<1>7. Grounded({})
  BY DEF Grounded
<1>8. CASE UNCHANGED vars
  <2>1. request' = request /\ pc' = pc /\ query' = query /\ answer' = answer /\ context' = context
    BY <1>8 DEF vars, searchVars
  <2>2. RequestInv'
    BY <2>1 DEF GroundedInv, RequestInv
  <2>. QED BY <1>2, <1>3, <1>4, <2>1, <2>2 DEF GroundedInv
<1>9. CASE QueryLocalIndex
  <2>1. /\ request' = request /\ context' = context /\ answer' = NotFound
        /\ query' = QueryOf(PlannedTerm(request.terms))
    BY <1>9 DEF QueryLocalIndex, StartSearch
  <2>2. query'.types = request.types /\ query'.depth = request.depth
    BY <2>1 DEF QueryOf
  <2>3. RequestInv'
    BY <2>1, <2>2 DEF GroundedInv, RequestInv
  <2>4. CollectEvidence(answer)' = {}
    BY <2>1 DEF CollectEvidence, NotFound
  <2>. QED BY <1>2, <1>4, <1>7, <2>1, <2>3, <2>4 DEF GroundedInv
<1>10. CASE QueryGitNexus
  <2>1. /\ request' = request /\ context' = context /\ ~ graph.indexed
        /\ query' = QueryOf(PlannedTerm(request.terms))
    BY <1>10 DEF QueryGitNexus, AskGitNexus
  <2>2. query'.types = request.types /\ query'.depth = request.depth
    BY <2>1 DEF QueryOf
  <2>3. RequestInv'
    BY <2>1, <2>2 DEF GroundedInv, RequestInv
  <2>4. Grounded(CollectEvidence(answer))'
    BY <1>1, <2>1, LiveIsGrounded DEF GroundedInv
  <2>. QED BY <1>2, <1>4, <2>1, <2>3, <2>4 DEF GroundedInv
<1>11. CASE GitNexusFails
  <2>1. request' = request /\ context' = context /\ pc' = "failed"
    BY <1>11 DEF GitNexusFails
  <2>2. RequestInv'
    BY <2>1 DEF GroundedInv, RequestInv
  <2>. QED BY <1>2, <1>4, <2>1, <2>2 DEF GroundedInv
<1>12. CASE SearchStep
  <2>1. request' = request /\ context' = context
    BY <1>12 DEF SearchStep
  <2>2. query' = query /\ pc \in {"incoming", "outgoing"} /\ pc' \in {"incoming", "outgoing", "found"}
    BY <1>12 DEF SearchStep, Search, FollowIncoming, FollowOutgoing, Follow, TurnAround, Combine
  <2>3. RequestInv'
    BY <2>1, <2>2 DEF GroundedInv, RequestInv
  <2>4. pc' = "found" => Combine
    BY <1>12 DEF SearchStep, Search, FollowIncoming, FollowOutgoing, Follow, TurnAround
  <2>5. request.round # "query" => query.types = {} /\ query.depth >= 2
    BY <1>5, <2>2 DEF GroundedInv, RequestInv
  <2>6. request.round # "query" /\ pc' = "found" => Grounded(CollectEvidence(answer))'
    BY <2>4, <2>5, CombineIsGrounded DEF GroundedInv
  <2>. QED BY <1>2, <1>4, <2>1, <2>3, <2>6 DEF GroundedInv
<1>13. CASE QueryGraph
  <2>1. request' = request /\ pc' = "done" /\ request.round = "query"
    BY <1>13 DEF QueryGraph
  <2>2. RequestInv'
    BY <2>1 DEF GroundedInv, RequestInv
  <2>. QED BY <1>2, <2>1, <2>2 DEF GroundedInv
<1>14. CASE Recall
  <2>1. /\ pc = "found" /\ request.round = "base" /\ pc' = "plan"
        /\ context' = MapPayload(answer) /\ request' = RecallRequest(request)
    BY <1>14 DEF Recall
  <2>2. request.types = {} /\ request.depth \in BuildDepth..MaxDepth
    BY <2>1 DEF GroundedInv, RequestInv
  <2>3. request'.types = request.types /\ request'.depth \in {request.depth, RecallDepth}
    BY <1>6, <2>1 DEF RecallRequest, Request
  <2>4. RequestInv'
    BY <1>5, <2>1, <2>2, <2>3 DEF RequestInv
  <2>5. context'.evidence = CollectEvidence(answer)
    BY <2>1 DEF MapPayload
  <2>6. Grounded(CollectEvidence(answer))
    BY <2>1 DEF GroundedInv
  <2>. QED BY <1>2, <1>4, <2>1, <2>4, <2>5, <2>6 DEF GroundedInv
<1>15. CASE BuildBundle
  <2>1. /\ pc = "found" /\ request.round # "query" /\ pc' = "done" /\ request' = request
        /\ context' = Merge(context, MapPayload(answer))
    BY <1>15 DEF BuildBundle
  <2>2. RequestInv'
    BY <2>1 DEF GroundedInv, RequestInv
  <2>3. context'.evidence = context.evidence \cup CollectEvidence(answer)
    BY <2>1 DEF Merge, MapPayload
  <2>4. Grounded(context.evidence) /\ Grounded(CollectEvidence(answer))
    BY <2>1 DEF GroundedInv
  <2>5. Grounded(context.evidence \cup CollectEvidence(answer))
    BY <2>4 DEF Grounded
  <2>. QED BY <1>2, <1>4, <2>1, <2>2, <2>3, <2>5 DEF GroundedInv
<1>. QED BY <1>8, <1>9, <1>10, <1>11, <1>12, <1>13, <1>14, <1>15 DEF Next

\* The bundle's requests and what is found for them, in every state.
THEOREM GroundedInvariance == Spec => []GroundedInv
<1>1. Init => GroundedInv
  <2>. SUFFICES ASSUME Init PROVE GroundedInv
    OBVIOUS
  <2>1. GraphInv
    BY InitialGraphInv DEF Init
  <2>2. request \in Requests /\ pc = "plan" /\ context = NoContext
    BY DEF Init
  <2>3. RequestInv
    BY <2>2, SearchAssumption, BuilderAssumption DEF RequestInv, Requests
  <2>4. context.evidence = {}
    BY <2>2 DEF NoContext
  <2>. QED BY <2>1, <2>2, <2>3, <2>4 DEF GroundedInv, Grounded
<1>2. IInv /\ IInv' /\ GroundedInv /\ [Next]_vars => GroundedInv'
  BY GroundedStep
<1>. QED BY <1>1, <1>2, Invariance, PTL DEF Spec

\* _partition_evidence: what a language model wrote has no partition, and a
\* bundle that was found any evidence for has some without it: a summary is in
\* an answer only with a symbol that it describes.
THEOREM EvidenceStaysGrounded == Spec => []EvidenceIsGrounded
<1>1. IInv /\ GroundedInv => EvidenceIsGrounded
  <2>. SUFFICES ASSUME IInv, GroundedInv, Built, "evidence" \notin bundle.missing
                PROVE  bundle.evidence # {}
    BY DEF EvidenceIsGrounded
  <2>1. bundle = BundleOf(context) /\ Grounded(context.evidence)
    BY DEF IInv, ContextInv, GroundedInv, Built
  <2>2. bundle.missing = Missing(context) /\ bundle.evidence = Partitions(context)
    BY <2>1 DEF BundleOf
  <2>3. context.evidence # {}
    BY <2>2 DEF Missing
  <2>. QED BY <2>1, <2>2, <2>3 DEF Grounded, Partitions
<1>. QED BY <1>1, Invariance, GroundedInvariance, PTL

-----------------------------------------------------------------------------
(* A recall deepens.                                                        *)

SuffixOf(p, q) == \E k \in 0..Len(q) : Len(q) = k + Len(p) /\ \A j \in 1..Len(p) : q[k + j] = p[j]
PrefixOf(p, q) == Len(p) <= Len(q) /\ \A j \in 1..Len(p) : q[j] = p[j]

NoneInto(p) == \A e \in Edges : e.target = p[1] => e.source \in Elements(p)
NoneOutOf(p) == \A e \in Edges : e.source = p[Len(p)] => e.target \in Elements(p)

SimpleWalk(p, d) == p \in Seq(graph.nodes) /\ Len(p) \in 1..d /\ IsWalk(p) /\ IsSimple(p)

\* What a search to some depth d of at most this one makes of two chains.
ChainsTo(d, found, i, o) ==
    /\ SimpleWalk(i, d) /\ SimpleWalk(o, d)
    /\ i[Len(i)] \in found \cap graph.nodes /\ i[Len(i)] = o[1]
    /\ Len(i) = d \/ NoneInto(i)
    /\ Len(o) = d \/ NoneOutOf(o)

Joint(i, o, d) == First(i \o Tail(o), d)

Joins(p, i, o, d) ==
    /\ Len(p) = IF Len(i) + Len(o) - 1 < d THEN Len(i) + Len(o) - 1 ELSE d
    /\ \A k \in 1..Len(p) : p[k] = IF k <= Len(i) THEN i[k] ELSE o[k - Len(i) + 1]

Shallow(p, found, depth) ==
    \E d \in 1..depth : \E i, o : ChainsTo(d, found, i, o) /\ p = Joint(i, o, d)

Term == PlannedTerm(request.terms)

\* The paths of the first query are remembered as chains, from nodes that the
\* recall finds again, until the recall is answered.
DeepInv ==
    graph.indexed =>
        /\ pc \in {"incoming", "outgoing", "found"} =>
              Term \in DOMAIN match /\ query.found = match[Term]
        /\ request.round = "recall" => Term \in DOMAIN match
        /\ request.round = "base" /\ pc = "found" =>
              \A p \in answer.paths : Shallow(p, match[Term], request.depth)
        /\ request.round = "recall" /\ pc \in {"plan", "incoming", "outgoing"} =>
              \A p \in context.paths : Shallow(p, match[Term], request.depth)
        /\ request.round = "recall" /\ pc \in {"found", "done"} =>
              \A p \in context.paths : \E q \in answer.paths : Within(p, q)

LEMMA SameShallow ==
    ASSUME graph' = graph
    PROVE  \A p, found, depth : Shallow(p, found, depth)' <=> Shallow(p, found, depth)
<1>1. Edges' = Edges
  BY DEF Edges
<1>2. \A p : (IsWalk(p)' <=> IsWalk(p)) /\ (IsSimple(p)' <=> IsSimple(p))
  BY <1>1 DEF IsWalk, IsSimple, Between, Steps
<1>3. \A p : (NoneInto(p)' <=> NoneInto(p)) /\ (NoneOutOf(p)' <=> NoneOutOf(p))
  BY <1>1 DEF NoneInto, NoneOutOf, Elements
<1>4. \A p, d : SimpleWalk(p, d)' <=> SimpleWalk(p, d)
  BY <1>2 DEF SimpleWalk
<1>5. \A d, found, i, o : ChainsTo(d, found, i, o)' <=> ChainsTo(d, found, i, o)
  BY <1>3, <1>4 DEF ChainsTo
<1>. QED BY <1>5 DEF Shallow, Joint, First

\* A chain into a seed is the end of one that is to be found.
LEMMA DeeperInto ==
    ASSUME query.depth \in Nat, NEW p, Into(p)
    PROVE  \E q \in IntoWalks : SuffixOf(p, q)
<1>. DEFINE T == {n \in Nat : \E q : Into(q) /\ SuffixOf(p, q) /\ Len(q) + n = query.depth}
<1>1. p \in Seq(graph.nodes) /\ Len(p) \in 1..query.depth
  BY DEF Into, Walk
<1>2. SuffixOf(p, p)
  <2>1. 0 \in 0..Len(p) /\ Len(p) = 0 + Len(p) /\ \A j \in 1..Len(p) : p[0 + j] = p[j]
    BY <1>1
  <2>. QED BY <2>1 DEF SuffixOf
<1>3. query.depth - Len(p) \in T
  BY <1>1, <1>2
<1>4. PICK m \in T : \A n \in T : m <= n
  <2>1. T \in SUBSET Nat /\ T # {}
    BY <1>3
  <2>. HIDE DEF T
  <2>. QED BY <2>1, LeastIndex
<1>5. PICK q : Into(q) /\ SuffixOf(p, q) /\ Len(q) + m = query.depth
  BY <1>4
<1>6. q \in Seq(graph.nodes) /\ Len(q) \in 1..query.depth
  BY <1>5 DEF Into, Walk
<1>7. ASSUME Len(q) # query.depth, NEW e \in Edges, e.target = q[1], e.source \notin Elements(q)
      PROVE  FALSE
  <2>. DEFINE x == e.source
              r == <<x>> \o q
  <2>1. r \in Predecessors(q)
    BY <1>7 DEF Predecessors
  <2>2. ~ Full(q)
    BY <1>6, <1>7 DEF Full
  <2>3. Into(r) /\ Len(r) = Len(q) + 1
    <3>. HIDE DEF r
    <3>. QED BY <1>5, <2>1, <2>2, LongerInto
  <2>4. \A j \in 1..Len(q) : r[j + 1] = q[j]
    <3>1. x \in graph.nodes
      BY EdgesJoinNodes
    <3>. HIDE DEF x
    <3>2. <<x>> \in Seq(graph.nodes) /\ Len(<<x>>) = 1
      BY <3>1, SingleNode
    <3>3. \A j \in 1..Len(<<x>>) + Len(q) : r[j] = IF j <= Len(<<x>>) THEN <<x>>[j] ELSE q[j - Len(<<x>>)]
      BY <1>6, <3>2, ConcatProperties
    <3>4. \A j \in 1..1 + Len(q) : r[j] = IF j <= 1 THEN <<x>>[j] ELSE q[j - 1]
      BY <3>2, <3>3
    <3>. HIDE DEF r
    <3>. QED BY <1>6, <3>4
  <2>. HIDE DEF r
  <2>5. PICK k \in 0..Len(q) : Len(q) = k + Len(p) /\ \A j \in 1..Len(p) : q[k + j] = p[j]
    BY <1>5 DEF SuffixOf
  <2>6. k + 1 \in 0..Len(r) /\ Len(r) = (k + 1) + Len(p)
    BY <1>1, <1>6, <2>3, <2>5
  <2>7. ASSUME NEW j \in 1..Len(p)
        PROVE  r[(k + 1) + j] = p[j]
    <3>1. k + j \in 1..Len(q) /\ (k + 1) + j = (k + j) + 1
      BY <1>1, <1>6, <2>5
    <3>. QED BY <2>4, <2>5, <3>1
  <2>8. SuffixOf(p, r)
    BY <2>6, <2>7 DEF SuffixOf
  <2>9. m - 1 \in Nat /\ Len(r) + (m - 1) = query.depth
    BY <1>4, <1>5, <1>6, <1>7, <2>3
  <2>10. m - 1 \in T
    BY <2>3, <2>8, <2>9
  <2>11. m \in Nat
    BY <1>4
  <2>12. m <= m - 1
    <3>. HIDE DEF T
    <3>. QED BY <1>4, <2>10
  <2>. HIDE DEF T
  <2>. QED BY <2>11, <2>12
<1>8. IntoEnd(q)
  BY <1>7 DEF IntoEnd
<1>9. q \in IntoWalks
  BY <1>5, <1>6, <1>8, BoundedSeqsAreSeqs DEF IntoWalks, Into, Walk
<1>. QED BY <1>5, <1>9

\* A chain out of a seed is the start of one that is to be found.
LEMMA DeeperOutOf ==
    ASSUME query.depth \in Nat, NEW p, OutOf(p)
    PROVE  \E q \in OutWalks : PrefixOf(p, q)
<1>. DEFINE T == {n \in Nat : \E q : OutOf(q) /\ PrefixOf(p, q) /\ Len(q) + n = query.depth}
<1>1. p \in Seq(graph.nodes) /\ Len(p) \in 1..query.depth
  BY DEF OutOf, Walk
<1>2. PrefixOf(p, p)
  BY <1>1 DEF PrefixOf
<1>3. query.depth - Len(p) \in T
  BY <1>1, <1>2
<1>4. PICK m \in T : \A n \in T : m <= n
  <2>1. T \in SUBSET Nat /\ T # {}
    BY <1>3
  <2>. HIDE DEF T
  <2>. QED BY <2>1, LeastIndex
<1>5. PICK q : OutOf(q) /\ PrefixOf(p, q) /\ Len(q) + m = query.depth
  BY <1>4
<1>6. q \in Seq(graph.nodes) /\ Len(q) \in 1..query.depth
  BY <1>5 DEF OutOf, Walk
<1>7. ASSUME Len(q) # query.depth, NEW e \in Edges, e.source = q[Len(q)], e.target \notin Elements(q)
      PROVE  FALSE
  <2>. DEFINE x == e.target
              r == Append(q, x)
  <2>1. r \in Successors(q)
    BY <1>7 DEF Successors
  <2>2. ~ Full(q)
    BY <1>6, <1>7 DEF Full
  <2>3. OutOf(r) /\ Len(r) = Len(q) + 1
    <3>. HIDE DEF r
    <3>. QED BY <1>5, <2>1, <2>2, LongerOutOf
  <2>4. \A j \in 1..Len(q) : r[j] = q[j]
    <3>1. x \in graph.nodes
      BY EdgesJoinNodes
    <3>. HIDE DEF x
    <3>. QED BY <1>6, <3>1, AppendProperties
  <2>. HIDE DEF r
  <2>5. PrefixOf(p, r)
    BY <1>1, <1>5, <1>6, <2>3, <2>4 DEF PrefixOf
  <2>6. m - 1 \in Nat /\ Len(r) + (m - 1) = query.depth
    BY <1>4, <1>5, <1>6, <1>7, <2>3
  <2>7. m - 1 \in T
    BY <2>3, <2>5, <2>6
  <2>. QED BY <1>4, <2>6, <2>7
<1>8. OutEnd(q)
  BY <1>7 DEF OutEnd
<1>9. q \in OutWalks
  BY <1>5, <1>6, <1>8, BoundedSeqsAreSeqs DEF OutWalks, OutOf, Walk
<1>. QED BY <1>5, <1>9

\* The members of two sequences joined at a common one and cut.
LEMMA JointMembers ==
    ASSUME NEW S, NEW i \in Seq(S), NEW o \in Seq(S), Len(o) >= 1, NEW d \in Nat
    PROVE  Joint(i, o, d) \in Seq(S) /\ Joins(Joint(i, o, d), i, o, d)
<1>. DEFINE t == Tail(o)
            p == i \o t
<1>0. Len(i) \in Nat /\ Len(o) \in Nat
  BY LenProperties
<1>1. /\ t \in Seq(S) /\ Len(t) = Len(o) - 1
      /\ \A k \in 1..Len(t) : t[k] = o[k + 1]
  <2>1. o # <<>>
    OBVIOUS
  <2>. QED BY <2>1, HeadTailProperties
<1>. HIDE DEF t
<1>2. /\ p \in Seq(S) /\ Len(p) = Len(i) + Len(t)
      /\ \A k \in 1..Len(i) + Len(t) : p[k] = IF k <= Len(i) THEN i[k] ELSE t[k - Len(i)]
  BY <1>1, ConcatProperties
<1>. HIDE DEF p
<1>. DEFINE c == First(p, d)
<1>3. /\ c \in Seq(S)
      /\ Len(c) = IF Len(p) < d THEN Len(p) ELSE d
      /\ \A k \in 1..Len(c) : c[k] = p[k]
  BY <1>2, FirstProperties
<1>4. Joint(i, o, d) = c
  BY DEF Joint, p, t
<1>. HIDE DEF c
<1>5. ASSUME NEW k \in 1..Len(c)
      PROVE  c[k] = IF k <= Len(i) THEN i[k] ELSE o[k - Len(i) + 1]
  <2>1. k \in 1..Len(i) + Len(t) /\ c[k] = p[k]
    BY <1>0, <1>1, <1>2, <1>3
  <2>2. CASE k <= Len(i)
    BY <1>2, <2>1, <2>2
  <2>3. CASE ~ (k <= Len(i))
    <3>1. k - Len(i) \in 1..Len(t)
      BY <1>0, <1>1, <2>1, <2>3
    <3>. QED BY <1>1, <1>2, <2>1, <2>3, <3>1
  <2>. QED BY <2>2, <2>3
<1>6. Len(c) = IF Len(i) + Len(o) - 1 < d THEN Len(i) + Len(o) - 1 ELSE d
  BY <1>0, <1>1, <1>2, <1>3
<1>7. Joins(c, i, o, d)
  BY <1>5, <1>6 DEF Joins
<1>. QED BY <1>3, <1>4, <1>7

\* A path of a search to a smaller depth is part of one that this search makes.
LEMMA DeeperPath ==
    ASSUME query.depth \in Nat, NEW found, seeds = found \cap graph.nodes,
           NEW p, Shallow(p, found, query.depth)
    PROVE  \E i \in IntoWalks, o \in OutWalks : i[Len(i)] = o[1] /\ Within(p, Combined(i, o))
<1>1. PICK d \in 1..query.depth : \E i, o : ChainsTo(d, found, i, o) /\ p = Joint(i, o, d)
  BY DEF Shallow
<1>2. PICK i, o : ChainsTo(d, found, i, o) /\ p = Joint(i, o, d)
  BY <1>1
<1>3. /\ i \in Seq(graph.nodes) /\ Len(i) \in 1..d /\ o \in Seq(graph.nodes) /\ Len(o) \in 1..d
      /\ i[Len(i)] = o[1] /\ (Len(i) = d \/ NoneInto(i))
  BY <1>2 DEF ChainsTo, SimpleWalk
<1>4. Into(i) /\ OutOf(o)
  BY <1>1, <1>2, <1>3 DEF ChainsTo, SimpleWalk, Into, OutOf, Walk
<1>5. /\ p \in Seq(graph.nodes)
      /\ Len(p) = IF Len(i) + Len(o) - 1 < d THEN Len(i) + Len(o) - 1 ELSE d
      /\ \A k \in 1..Len(p) : p[k] = IF k <= Len(i) THEN i[k] ELSE o[k - Len(i) + 1]
  <2>1. i \in Seq(graph.nodes) /\ o \in Seq(graph.nodes) /\ Len(o) >= 1 /\ d \in Nat
    BY <1>1, <1>3
  <2>2. p = Joint(i, o, d)
    BY <1>2
  <2>3. p \in Seq(graph.nodes) /\ Joins(p, i, o, d)
    BY <2>1, <2>2, JointMembers
  <2>. QED BY <2>3 DEF Joins
<1>6. PICK b \in OutWalks : PrefixOf(o, b)
  BY <1>4, DeeperOutOf
<1>7. /\ OutOf(b) /\ b \in Seq(graph.nodes) /\ Len(b) \in 1..query.depth
      /\ Len(o) <= Len(b) /\ \A j \in 1..Len(o) : b[j] = o[j]
  BY <1>6, IntoWalksAreInto DEF PrefixOf, OutOf, Walk
<1>8. b[1] = o[1]
  BY <1>3, <1>7
<1>9. query.depth \in Nat \ {0}
  BY <1>1
<1>10. CASE Len(i) = d
  <2>1. PICK a \in IntoWalks : SuffixOf(i, a)
    BY <1>4, DeeperInto
  <2>2. Into(a) /\ a \in Seq(graph.nodes) /\ Len(a) \in 1..query.depth
    BY <2>1, IntoWalksAreInto DEF Into, Walk
  <2>3. PICK k \in 0..Len(a) : Len(a) = k + Len(i) /\ \A j \in 1..Len(i) : a[k + j] = i[j]
    BY <2>1 DEF SuffixOf
  <2>4. a[Len(a)] = b[1]
    BY <1>3, <1>8, <2>2, <2>3
  <2>. DEFINE q == Combined(a, b)
  <2>5. q \in Seq(graph.nodes) /\ \A j \in 1..Len(a) : j \in 1..Len(q) /\ q[j] = a[j]
    BY <1>7, <1>9, <2>2, <2>4, CombinedIsWalk
  <2>. HIDE DEF q
  <2>6a. DOMAIN p = 1..Len(p) /\ DOMAIN q = 1..Len(q) /\ Len(q) \in Nat
    BY <1>5, <2>5, LenProperties
  <2>6b. Len(p) = Len(i)
    BY <1>1, <1>3, <1>5, <1>10
  <2>6. Len(p) = Len(i) /\ DOMAIN p = 1..Len(p) /\ DOMAIN q = 1..Len(q) /\ Len(q) \in Nat
    BY <2>6a, <2>6b
  <2>7. k \in 0..Len(q)
    <3>1. Len(a) \in 1..Len(a)
      BY <1>9, <2>2
    <3>2. Len(a) \in 1..Len(q)
      BY <2>5, <3>1
    <3>. QED BY <2>6, <3>1, <3>2
  <2>8. ASSUME NEW j \in DOMAIN p
        PROVE  k + j \in DOMAIN q /\ q[k + j] = p[j]
    <3>1. j \in 1..Len(i) /\ j \in 1..Len(p) /\ p[j] = i[j]
      BY <1>3, <1>5, <2>6
    <3>2. k + j \in 1..Len(a)
      BY <1>3, <2>2, <2>3, <3>1
    <3>. QED BY <2>3, <2>5, <2>6, <3>1, <3>2
  <2>9. Within(p, q)
    BY <2>7, <2>8 DEF Within
  <2>. QED BY <1>6, <2>1, <2>4, <2>9 DEF q
<1>11. CASE Len(i) # d
  <2>1. i \in IntoWalks
    BY <1>1, <1>3, <1>4, <1>11, BoundedSeqsAreSeqs DEF IntoWalks, IntoEnd, NoneInto, Into, Walk
  <2>2. i[Len(i)] = b[1]
    BY <1>3, <1>8
  <2>. DEFINE q == Combined(i, b)
  <2>3. q = Joint(i, b, query.depth)
    BY DEF Combined, Cut, Joint
  <2>4. /\ q \in Seq(graph.nodes)
        /\ Len(q) = IF Len(i) + Len(b) - 1 < query.depth THEN Len(i) + Len(b) - 1 ELSE query.depth
        /\ \A k \in 1..Len(q) : q[k] = IF k <= Len(i) THEN i[k] ELSE b[k - Len(i) + 1]
    <3>. HIDE DEF q
    <3>1. i \in Seq(graph.nodes) /\ b \in Seq(graph.nodes) /\ Len(b) >= 1 /\ query.depth \in Nat
      BY <1>3, <1>7, <1>9
    <3>2. q \in Seq(graph.nodes) /\ Joins(q, i, b, query.depth)
      BY <2>3, <3>1, JointMembers
    <3>. QED BY <3>2 DEF Joins
  <2>. HIDE DEF q
  <2>5. DOMAIN p = 1..Len(p) /\ DOMAIN q = 1..Len(q) /\ Len(q) \in Nat /\ Len(p) \in Nat
    BY <1>5, <2>4, LenProperties
  <2>6. Len(p) <= Len(q)
    BY <1>1, <1>3, <1>5, <1>7, <2>4
  <2>7. ASSUME NEW j \in DOMAIN p
        PROVE  0 + j \in DOMAIN q /\ q[0 + j] = p[j]
    <3>1. j \in 1..Len(p) /\ j \in 1..Len(q) /\ 0 + j = j
      BY <2>5, <2>6
    <3>2. CASE j <= Len(i)
      BY <1>5, <2>4, <2>5, <3>1, <3>2
    <3>3. CASE ~ (j <= Len(i))
      <4>1. j - Len(i) + 1 \in 1..Len(o)
        BY <1>1, <1>3, <1>5, <3>1, <3>3
      <4>. QED BY <1>5, <1>7, <2>4, <2>5, <3>1, <3>3, <4>1
    <3>. QED BY <3>2, <3>3
  <2>8. 0 \in 0..Len(q)
    BY <2>5
  <2>9. Within(p, q)
    BY <2>7, <2>8 DEF Within
  <2>. QED BY <1>6, <2>1, <2>2, <2>9 DEF q
<1>. QED BY <1>10, <1>11

\* The answer of a search, as the next one sees it, and as it sees the last one.
LEMMA CombineDeepens ==
    ASSUME IInv, Combine, query.types = {}
    PROVE  /\ \A p : Shallow(p, query.found, query.depth) => \E q \in answer'.paths : Within(p, q)
           /\ \A p \in answer'.paths : Shallow(p, query.found, query.depth)
<1>1. /\ pc = "outgoing" /\ queue = {}
      /\ answer' = AnswerOf({p \in ContextPaths : MatchesFilter(p)})
  BY DEF Combine
<1>2. query.depth \in Nat \ {0} /\ query.depth \in Nat
  BY DepthIsPositive DEF IInv, TypeOK, SearchTypeOK
<1>3. /\ seeds = Seeds(query) /\ incoming = IntoWalks
      /\ \A p \in chains : OutOf(p) /\ OutEnd(p)
      /\ \A p \in OutWalks : p \in chains
  BY <1>1 DEF IInv, SearchInv, Searching, OutLoop
<1>4. seeds = query.found \cap graph.nodes
  BY <1>3 DEF Seeds
<1>5. answer'.paths = ContextPaths
  <2>1. {p \in ContextPaths : MatchesFilter(p)} = ContextPaths
    BY DEF MatchesFilter
  <2>2. answer' = AnswerOf(ContextPaths)
    BY <1>1, <2>1
  <2>. QED BY <2>2 DEF AnswerOf, NotFound
<1>6. ASSUME NEW p, Shallow(p, query.found, query.depth)
      PROVE  \E q \in answer'.paths : Within(p, q)
  <2>1. PICK i \in IntoWalks, o \in OutWalks : i[Len(i)] = o[1] /\ Within(p, Combined(i, o))
    BY <1>2, <1>4, <1>6, DeeperPath
  <2>2. <<i, o>> \in incoming \X chains /\ <<i, o>>[1] = i /\ <<i, o>>[2] = o
    BY <1>3
  <2>3. Combined(i, o) \in ContextPaths
    BY <2>1, <2>2 DEF ContextPaths
  <2>. QED BY <1>5, <2>1, <2>3
<1>7. ASSUME NEW p \in answer'.paths
      PROVE  Shallow(p, query.found, query.depth)
  <2>1. PICK c \in incoming \X chains : c[1][Len(c[1])] = c[2][1] /\ p = Combined(c[1], c[2])
    BY <1>5 DEF ContextPaths
  <2>. DEFINE i == c[1]
              o == c[2]
  <2>2. i \in IntoWalks /\ OutOf(o) /\ OutEnd(o) /\ i[Len(i)] = o[1] /\ p = Combined(i, o)
    BY <1>3, <2>1
  <2>. HIDE DEF i, o
  <2>3. Into(i) /\ IntoEnd(i)
    BY <1>2, <2>2, IntoWalksAreInto DEF IntoWalks
  <2>4. SimpleWalk(i, query.depth) /\ SimpleWalk(o, query.depth)
    BY <2>2, <2>3 DEF Into, OutOf, Walk, SimpleWalk
  <2>5. i[Len(i)] \in query.found \cap graph.nodes
    BY <1>4, <2>3 DEF Into
  <2>6. (Len(i) = query.depth \/ NoneInto(i)) /\ (Len(o) = query.depth \/ NoneOutOf(o))
    BY <2>2, <2>3 DEF IntoEnd, OutEnd, NoneInto, NoneOutOf
  <2>7. ChainsTo(query.depth, query.found, i, o)
    BY <2>2, <2>4, <2>5, <2>6 DEF ChainsTo
  <2>8. p = Joint(i, o, query.depth) /\ query.depth \in 1..query.depth
    BY <1>2, <2>2 DEF Combined, Cut, Joint
  <2>. QED BY <2>7, <2>8 DEF Shallow
<1>. QED BY <1>6, <1>7

LEMMA DeepStep ==
    ASSUME IInv, GroundedInv, DeepInv, [Next]_vars
    PROVE  DeepInv'
<1>. SUFFICES ASSUME graph'.indexed
              PROVE  DeepInv'
  BY DEF DeepInv
<1>1. graph' = graph
  BY DEF Next, vars, QueryLocalIndex, QueryGitNexus, GitNexusFails, SearchStep, QueryGraph, Recall, BuildBundle,
         StartSearch, AskGitNexus, Search, FollowIncoming, FollowOutgoing, Follow, TurnAround, Combine
<1>2. graph.indexed
  BY <1>1
<1>3. \A p, found, depth : Shallow(p, found, depth)' <=> Shallow(p, found, depth)
  BY <1>1, SameShallow
<1>4. request \in Request /\ RequestInv
  BY DEF IInv, TypeOK, GroundedInv
<1>5. CASE UNCHANGED vars
  <2>1. /\ request' = request /\ pc' = pc /\ query' = query /\ answer' = answer
        /\ context' = context /\ match' = match
    BY <1>5 DEF vars, searchVars
  <2>2. Term' = Term
    BY <2>1 DEF Term
  <2>. QED BY <1>2, <1>3, <2>1, <2>2 DEF DeepInv, Within
<1>6. CASE QueryLocalIndex
  <2>1. /\ pc = "plan" /\ request' = request /\ context' = context /\ answer' = NotFound
        /\ query' = QueryOf(Term) /\ Find(Term)
        /\ pc' = IF Seeds(query') = {} THEN "found" ELSE "incoming"
    BY <1>6 DEF QueryLocalIndex, StartSearch, Term
  <2>2. Term' = Term
    BY <2>1 DEF Term
  <2>3. /\ Term \in DOMAIN match' /\ (Term \in DOMAIN match => match'[Term] = match[Term])
    BY <2>1 DEF Find
  <2>4. query'.found = match'[Term] /\ query'.types = request.types
    BY <2>1 DEF QueryOf
  <2>5. ASSUME request.round = "recall"
        PROVE  \A p \in context.paths : Shallow(p, match'[Term], request.depth)
    BY <1>2, <2>1, <2>3, <2>5 DEF DeepInv
  <2>6. ASSUME request.round = "recall", pc' = "found"
        PROVE  context.paths = {}
    <3>1. query'.types = {}
      BY <1>4, <2>4, <2>6 DEF RequestInv
    <3>2. match'[Term] \cap graph.nodes = {}
      BY <2>1, <2>4, <2>6, <3>1 DEF Seeds
    <3>3. \A p, depth : ~ Shallow(p, match'[Term], depth)
      BY <3>2 DEF Shallow, ChainsTo
    <3>. QED BY <2>5, <2>6, <3>3
  <2>7. answer'.paths = {}
    BY <2>1 DEF NotFound
  <2>8. pc' \in {"incoming", "found"}
    BY <2>1
  <2>. QED BY <1>3, <2>1, <2>2, <2>3, <2>4, <2>5, <2>6, <2>7, <2>8 DEF DeepInv
<1>7. CASE QueryGitNexus \/ GitNexusFails
  BY <1>2, <1>7 DEF QueryGitNexus, AskGitNexus, GitNexusFails
<1>8. CASE SearchStep
  <2>1. request' = request /\ context' = context /\ match' = match
    BY <1>8 DEF SearchStep
  <2>2. /\ query' = query /\ pc \in {"incoming", "outgoing"}
        /\ pc' \in {"incoming", "outgoing", "found"} /\ (pc' = "found" => Combine)
    BY <1>8 DEF SearchStep, Search, FollowIncoming, FollowOutgoing, Follow, TurnAround, Combine
  <2>3. Term' = Term
    BY <2>1 DEF Term
  <2>4. /\ Term \in DOMAIN match /\ query.found = match[Term] /\ query.depth = request.depth
        /\ request.round = "recall" => \A p \in context.paths : Shallow(p, match[Term], request.depth)
    BY <1>2, <1>4, <2>2 DEF DeepInv, RequestInv
  <2>5. ASSUME pc' = "found", request.round # "query"
        PROVE  /\ \A p : Shallow(p, match[Term], request.depth) => \E q \in answer'.paths : Within(p, q)
               /\ \A p \in answer'.paths : Shallow(p, match[Term], request.depth)
    <3>1. query.types = {}
      BY <1>4, <2>2, <2>5 DEF RequestInv
    <3>. QED BY <2>2, <2>4, <2>5, <3>1, CombineDeepens
  <2>. QED BY <1>3, <2>1, <2>2, <2>3, <2>4, <2>5 DEF DeepInv, Within
<1>9. CASE QueryGraph
  BY <1>9 DEF QueryGraph, DeepInv
<1>10. CASE Recall
  <2>1. /\ pc = "found" /\ request.round = "base" /\ pc' = "plan" /\ match' = match
        /\ context' = MapPayload(answer) /\ request' = RecallRequest(request)
    BY <1>10 DEF Recall
  <2>2. /\ Term \in DOMAIN match
        /\ \A p \in answer.paths : Shallow(p, match[Term], request.depth)
    BY <1>2, <2>1 DEF DeepInv
  <2>3. request.depth \in Nat /\ RecallDepth \in Nat
    BY <1>4, SearchAssumption, BuilderAssumption DEF Request
  <2>4. request'.terms = request.terms /\ request'.depth \in Nat /\ request.depth <= request'.depth
    BY <1>4, <2>1, <2>3 DEF RecallRequest, Request
  <2>5. Term' = Term
    BY <2>4 DEF Term
  <2>6. ASSUME NEW p, Shallow(p, match[Term], request.depth)
        PROVE  Shallow(p, match[Term], request'.depth)
    <3>1. \A d \in 1..request.depth : d \in 1..request'.depth
      BY <2>3, <2>4
    <3>. QED BY <2>6, <3>1 DEF Shallow
  <2>7. context'.paths = answer.paths /\ request'.round = "recall"
    BY <1>4, <2>1 DEF MapPayload, RecallRequest, Request
  <2>. QED BY <1>3, <2>1, <2>2, <2>5, <2>6, <2>7 DEF DeepInv
<1>11. CASE BuildBundle
  <2>1. /\ pc = "found" /\ pc' = "done" /\ request' = request /\ match' = match /\ answer' = answer
        /\ context' = Merge(context, MapPayload(answer))
    BY <1>11 DEF BuildBundle
  <2>2. Term' = Term
    BY <2>1 DEF Term
  <2>3. context'.paths = context.paths \cup answer.paths
    BY <2>1 DEF Merge, MapPayload
  <2>4. ASSUME NEW p \in answer.paths
        PROVE  Within(p, p)
    <3>1. p \in Seq(graph.nodes)
      BY DEF IInv, AnswerInv
    <3>2. DOMAIN p = 1..Len(p) /\ Len(p) \in Nat
      BY <3>1, LenProperties
    <3>3. 0 \in 0..Len(p) /\ \A j \in DOMAIN p : 0 + j \in DOMAIN p /\ p[0 + j] = p[j]
      BY <3>2
    <3>. QED BY <3>3 DEF Within
  <2>5. request.round = "recall" => Term \in DOMAIN match
    BY <1>2 DEF DeepInv
  <2>6. request.round = "recall" => \A p \in context.paths : \E q \in answer.paths : Within(p, q)
    BY <1>2, <2>1 DEF DeepInv
  <2>. QED BY <2>1, <2>2, <2>3, <2>4, <2>5, <2>6 DEF DeepInv, Within
<1>. QED BY <1>5, <1>6, <1>7, <1>8, <1>9, <1>10, <1>11 DEF Next

\* The memory of the first query is inductive on top of the other invariants.
THEOREM DeepInvariance == Spec => []DeepInv
<1>1. Init => DeepInv
  <2>. SUFFICES ASSUME Init PROVE DeepInv
    OBVIOUS
  <2>1. pc = "plan" /\ request \in Requests
    BY DEF Init
  <2>2. request.round # "recall"
    BY <2>1 DEF Requests
  <2>. QED BY <2>1, <2>2 DEF DeepInv
<1>2. IInv /\ GroundedInv /\ DeepInv /\ [Next]_vars => DeepInv'
  BY DeepStep
<1>. QED BY <1>1, <1>2, Invariance, GroundedInvariance, PTL DEF Spec

\* _recall_graph_query: whatever the depths, a path of the first query is part
\* of a path of the recall, although both are cut: a chain that was cut fills
\* its path, and one that was not is found again.
THEOREM RecallsDeepen == Spec => []RecallDeepens
<1>1. DeepInv => RecallDeepens
  BY DEF DeepInv, RecallDeepens, Built
<1>. QED BY <1>1, DeepInvariance, PTL

-----------------------------------------------------------------------------
(* What a merge adds.                                                       *)

\* The context of a first query is made of its paths and of the nodes found.
MadeOfPaths ==
    graph.indexed /\ request.round = "recall" /\ pc # "done" =>
        /\ \A n \in context.nodes : n \in match[Term] \/ \E p \in context.paths : n \in Elements(p)
        /\ \A e \in context.edges : \E p \in context.paths : \E i \in Steps(p) : e \in Between(p, i)
        /\ \A p \in context.paths : p \in Seq(graph.nodes)

\* What lies on a part of a path lies on the path.
LEMMA PartsLieWithin ==
    ASSUME NEW p \in Seq(graph.nodes), NEW q, Within(p, q)
    PROVE  /\ Elements(p) \subseteq Elements(q)
           /\ \A i \in Steps(p) : \E j \in Steps(q) : Between(q, j) = Between(p, i)
<1>1. PICK k \in 0..Len(q) : \A i \in DOMAIN p : k + i \in DOMAIN q /\ q[k + i] = p[i]
  BY DEF Within
<1>2. DOMAIN p = 1..Len(p) /\ Len(p) \in Nat
  BY LenProperties
<1>3. Elements(p) \subseteq Elements(q)
  BY <1>1 DEF Elements
<1>4. ASSUME NEW i \in Steps(p)
      PROVE  \E j \in Steps(q) : Between(q, j) = Between(p, i)
  <2>1. i \in DOMAIN p /\ i + 1 \in DOMAIN p /\ i \in Int
    BY <1>2 DEF Steps
  <2>2. k \in Int
    OBVIOUS
  <2>3. /\ k + i \in DOMAIN q /\ q[k + i] = p[i]
        /\ k + (i + 1) \in DOMAIN q /\ q[k + (i + 1)] = p[i + 1]
    BY <1>1, <2>1
  <2>4. k + (i + 1) = (k + i) + 1
    BY <2>1, <2>2
  <2>5. k + i \in Steps(q) /\ Between(q, k + i) = Between(p, i)
    BY <2>3, <2>4 DEF Steps, Between
  <2>. QED BY <2>5
<1>. QED BY <1>3, <1>4

\* Without a filter, an answer is made of the nodes found and of what lies on
\* its paths.
LEMMA AnswerParts ==
    ASSUME AnswerIsExact, pc = "found", graph.indexed, query.types = {}
    PROVE  /\ answer.paths = {} => answer = NotFound
           /\ answer.paths # {} =>
                /\ answer.nodes = Seeds(query) \cup UNION {Elements(p) : p \in answer.paths}
                /\ \A e : e \in answer.edges <=>
                        \E p \in answer.paths : \E i \in Steps(p) : e \in Between(p, i)
<1>1. answer = Result
  BY DEF AnswerIsExact, Result, Wanted
<1>2. PICK P : answer = ResultOf(P)
  BY <1>1 DEF Result
<1>3. CASE P = {}
  BY <1>2, <1>3 DEF ResultOf, NotFound
<1>4. CASE P # {}
  <2>1. /\ answer.paths = P
        /\ answer.nodes = Seeds(query) \cup UNION {Elements(p) : p \in P}
        /\ answer.edges = {e \in Edges : \E p \in P : Connects(e, p)}
    BY <1>2, <1>4 DEF ResultOf
  <2>2. \A e, p : Connects(e, p) <=> \E i \in Steps(p) : e \in Between(p, i)
    BY DEF Connects
  <2>3. \A p, i : Between(p, i) \subseteq Edges
    BY DEF Between
  <2>. QED BY <1>4, <2>1, <2>2, <2>3
<1>. QED BY <1>3, <1>4

\* The answer to a recall holds what the first answer held.
LEMMA RecallContainsFirst ==
    ASSUME IInv, RequestInv, DeepInv, AnswerIsExact, MadeOfPaths,
           graph.indexed, pc = "found", request.round = "recall"
    PROVE  context.nodes \subseteq answer.nodes /\ context.edges \subseteq answer.edges
<1>1. query.types = {} /\ query.found = match[Term]
  BY DEF RequestInv, DeepInv
<1>2. \A p \in context.paths : p \in Seq(graph.nodes) /\ \E q \in answer.paths : Within(p, q)
  BY DEF DeepInv, MadeOfPaths
<1>3. CASE context.paths = {}
  BY <1>3 DEF IInv, ContextInv, MadeOfPaths
<1>4. CASE context.paths # {}
  <2>1. /\ answer.nodes = Seeds(query) \cup UNION {Elements(p) : p \in answer.paths}
        /\ \A e : e \in answer.edges <=> \E p \in answer.paths : \E i \in Steps(p) : e \in Between(p, i)
    BY <1>1, <1>2, <1>4, AnswerParts
  <2>2. ASSUME NEW n \in context.nodes
        PROVE  n \in answer.nodes
    <3>1. CASE n \in match[Term]
      <4>1. n \in Seeds(query)
        BY <1>1, <3>1 DEF Seeds, IInv, TypeOK
      <4>. QED BY <2>1, <4>1
    <3>2. ASSUME NEW p \in context.paths, n \in Elements(p)
          PROVE  n \in answer.nodes
      BY <1>2, <2>1, <3>2, PartsLieWithin
    <3>. QED BY <3>1, <3>2 DEF MadeOfPaths
  <2>3. ASSUME NEW e \in context.edges
        PROVE  e \in answer.edges
    <3>1. PICK p \in context.paths : \E i \in Steps(p) : e \in Between(p, i)
      BY DEF MadeOfPaths
    <3>2. PICK i \in Steps(p) : e \in Between(p, i)
      BY <3>1
    <3>3. PICK q \in answer.paths : Within(p, q)
      BY <1>2
    <3>4. PICK j \in Steps(q) : Between(q, j) = Between(p, i)
      BY <1>2, <3>3, PartsLieWithin
    <3>. QED BY <2>1, <3>2, <3>4
  <2>. QED BY <2>2, <2>3
<1>. QED BY <1>3, <1>4

LEMMA MergeStep ==
    ASSUME IInv, GroundedInv, DeepInv, AnswerIsExact, MadeOfPaths, MergeAddsPathsOnly, [Next]_vars
    PROVE  MadeOfPaths' /\ MergeAddsPathsOnly'
<1>1. graph' = graph
  BY DEF Next, vars, QueryLocalIndex, QueryGitNexus, GitNexusFails, SearchStep, QueryGraph, Recall, BuildBundle,
         StartSearch, AskGitNexus, Search, FollowIncoming, FollowOutgoing, Follow, TurnAround, Combine
<1>2. \A p, i : Between(p, i)' = Between(p, i)
  BY <1>1 DEF Between, Edges
<1>3. request \in Request /\ RequestInv
  BY DEF IInv, TypeOK, GroundedInv
<1>4. ASSUME request' = request, context' = context,
             graph.indexed /\ request.round = "recall" => match'[Term] = match[Term],
             pc' # "done"
      PROVE  MadeOfPaths' /\ MergeAddsPathsOnly'
  <2>1. Term' = Term
    BY <1>4 DEF Term
  <2>2. pc = "done" => UNCHANGED vars \/ ~ graph.indexed
    BY DEF Next, vars, QueryLocalIndex, QueryGitNexus, GitNexusFails, SearchStep, QueryGraph, Recall, BuildBundle,
           StartSearch, AskGitNexus, Search, FollowIncoming, FollowOutgoing, Follow, TurnAround, Combine
  <2>3. pc # "done" \/ ~ graph.indexed
    BY <1>4, <2>2 DEF vars, searchVars
  <2>4. MadeOfPaths'
    BY <1>1, <1>2, <1>4, <2>1, <2>3 DEF MadeOfPaths, Steps, Elements
  <2>. QED BY <1>4, <2>4 DEF MergeAddsPathsOnly, Built
<1>5. CASE QueryLocalIndex
  <2>1. /\ request' = request /\ context' = context /\ pc' # "done" /\ Find(Term)
    BY <1>5 DEF QueryLocalIndex, StartSearch, Term
  <2>2. Term \in DOMAIN match => match'[Term] = match[Term]
    BY <2>1 DEF Find
  <2>. QED BY <1>4, <2>1, <2>2 DEF DeepInv
<1>6. CASE QueryGitNexus \/ GitNexusFails
  BY <1>1, <1>6 DEF QueryGitNexus, AskGitNexus, GitNexusFails, MadeOfPaths, MergeAddsPathsOnly
<1>7. CASE SearchStep
  <2>1. request' = request /\ context' = context /\ match' = match
    BY <1>7 DEF SearchStep
  <2>2. pc' # "done"
    BY <1>7 DEF SearchStep, Search, FollowIncoming, FollowOutgoing, Follow, TurnAround, Combine
  <2>. QED BY <1>4, <2>1, <2>2
<1>8. CASE QueryGraph
  BY <1>8 DEF QueryGraph, MadeOfPaths, MergeAddsPathsOnly, Built
<1>9. CASE Recall
  <2>1. /\ pc = "found" /\ request.round = "base" /\ pc' = "plan" /\ match' = match
        /\ context' = MapPayload(answer) /\ request' = RecallRequest(request)
    BY <1>9 DEF Recall
  <2>2. request'.terms = request.terms
    BY <1>3, <2>1 DEF RecallRequest, Request
  <2>3. Term' = Term
    BY <2>2 DEF Term
  <2>4. context'.nodes = answer.nodes /\ context'.edges = answer.edges /\ context'.paths = answer.paths
    BY <2>1 DEF MapPayload
  <2>5. ASSUME graph.indexed
        PROVE  /\ \A n \in answer.nodes : n \in match[Term] \/ \E p \in answer.paths : n \in Elements(p)
               /\ \A e \in answer.edges : \E p \in answer.paths : \E i \in Steps(p) : e \in Between(p, i)
               /\ \A p \in answer.paths : p \in Seq(graph.nodes)
    <3>1. query.types = {} /\ query.found = match[Term]
      BY <1>3, <2>1, <2>5 DEF RequestInv, DeepInv
    <3>2. \A p \in answer.paths : p \in Seq(graph.nodes)
      BY DEF IInv, AnswerInv
    <3>3. CASE answer.paths = {}
      BY <2>1, <2>5, <3>1, <3>3, AnswerParts DEF NotFound
    <3>4. CASE answer.paths # {}
      <4>1. /\ answer.nodes = Seeds(query) \cup UNION {Elements(p) : p \in answer.paths}
            /\ \A e : e \in answer.edges <=>
                  \E p \in answer.paths : \E i \in Steps(p) : e \in Between(p, i)
        BY <2>1, <2>5, <3>1, <3>4, AnswerParts
      <4>2. Seeds(query) \subseteq match[Term]
        BY <3>1, SeedsAreNodes
      <4>. QED BY <3>2, <4>1, <4>2
    <3>. QED BY <3>3, <3>4
  <2>6. MadeOfPaths'
    BY <1>1, <1>2, <2>1, <2>3, <2>4, <2>5 DEF MadeOfPaths, Steps, Elements
  <2>. QED BY <2>1, <2>6 DEF MergeAddsPathsOnly, Built
<1>10. CASE BuildBundle
  <2>1. /\ pc = "found" /\ pc' = "done" /\ request' = request /\ answer' = answer
        /\ context' = Merge(context, MapPayload(answer))
    BY <1>10 DEF BuildBundle
  <2>2. /\ context'.nodes = context.nodes \cup answer.nodes
        /\ context'.edges = context.edges \cup answer.edges
    BY <2>1 DEF Merge, MapPayload
  <2>3. graph.indexed /\ request.round = "recall" =>
          context.nodes \subseteq answer.nodes /\ context.edges \subseteq answer.edges
    BY <1>3, <2>1, RecallContainsFirst
  <2>4. MergeAddsPathsOnly'
    BY <1>1, <2>1, <2>2, <2>3 DEF MergeAddsPathsOnly, Built
  <2>. QED BY <2>1, <2>4 DEF MadeOfPaths
<1>11. CASE UNCHANGED vars
  <2>1. /\ request' = request /\ pc' = pc /\ query' = query /\ answer' = answer
        /\ context' = context /\ match' = match
    BY <1>11 DEF vars, searchVars
  <2>2. Term' = Term
    BY <2>1 DEF Term
  <2>. QED BY <1>1, <1>2, <2>1, <2>2 DEF MadeOfPaths, MergeAddsPathsOnly, Built, Steps, Elements
<1>. QED BY <1>5, <1>6, <1>7, <1>8, <1>9, <1>10, <1>11 DEF Next

\* _merge_graph_contexts after a recall of an index: the bundle has the nodes
\* and relationships of the deeper answer, whatever the depths and the graph.
\* It follows from RecallDeepens, since a first answer is made of its paths.
THEOREM MergesAddPathsOnly == Spec => []MergeAddsPathsOnly
<1>1. Init => MadeOfPaths /\ MergeAddsPathsOnly
  <2>. SUFFICES ASSUME Init PROVE MadeOfPaths /\ MergeAddsPathsOnly
    OBVIOUS
  <2>1. request.round # "recall"
    BY DEF Init, Requests
  <2>. QED BY <2>1 DEF MadeOfPaths, MergeAddsPathsOnly
<1>2. IInv /\ GroundedInv /\ DeepInv /\ AnswerIsExact /\ MadeOfPaths /\ MergeAddsPathsOnly /\ [Next]_vars =>
          MadeOfPaths' /\ MergeAddsPathsOnly'
  BY MergeStep
<1>. QED
  BY <1>1, <1>2, Invariance, GroundedInvariance, DeepInvariance, AnswersAreExact, PTL DEF Spec
-----------------------------------------------------------------------------
(* What Structure 3 is handed.                                              *)

CONSTANTS
    Similar,  \* evidence of the similar incidents of the bundle
    Unknown, Conclusions, Root, Hypotheses, Confidences, ConfidenceCap, RepairSetting

Handed == [known |-> bundle.evidence \cup Similar,
           graph |-> bundle.nodes # {} \/ bundle.paths # {},
           missing |-> bundle.missing # {}]

\* generate_rca, called with the bundle that was built.
Engine == INSTANCE RCAEngine WITH
    Evidence <- Items \cup Similar, bundle <- Handed,
    pc <- "ask", attempt <- 0, repairs <- 0, posts <- 0,
    reply <- [kind |-> "none"], report <- [conf |-> -1], metadata <- [attempts |-> 0],
    incident <- {}

\* The bundle is one of those that RCAEngine starts from.
IsUnderstood == Built => Engine!Init

\* The one sign the engine goes by, nodes or paths, stands for both, so that it
\* counts the references of every bundle that names no gap; and such a bundle has
\* evidence of its own, which the engine does not refuse.
IsJudged ==
    Built =>
        /\ Handed.graph <=> bundle.nodes # {} /\ bundle.paths # {}
        /\ Engine!Constrained <=>
               bundle.missing # {} \/ Cardinality(Engine!Known) < Engine!LowRecallMinRefs
        /\ bundle.missing = {} => bundle.evidence # {} /\ Engine!Known # {}

\* build_evidence_bundle and generate_rca fit together: what RCAEngine assumes of
\* the bundles it starts from is what ContextBuilder makes, for any graph, any
\* request and any similar incidents.
THEOREM BundlesAreUnderstood == Spec => [](IsUnderstood /\ IsJudged)
<1>1. IInv /\ MissingTogether /\ EvidenceIsGrounded => IsUnderstood /\ IsJudged
  <2>. SUFFICES ASSUME IInv, MissingTogether, EvidenceIsGrounded, Built
                PROVE  IsUnderstood /\ IsJudged
    BY DEF IsUnderstood, IsJudged
  <2>1. bundle = BundleOf(context)
    BY DEF IInv, ContextInv
  <2>2. /\ "nodes" \in bundle.missing <=> bundle.nodes = {}
        /\ "paths" \in bundle.missing <=> bundle.paths = {}
    BY <2>1 DEF BundleOf, Missing
  <2>3. bundle.nodes = {} <=> bundle.paths = {}
    BY <2>2 DEF MissingTogether
  <2>4. bundle.evidence \subseteq Items
    <3>1. bundle.evidence \subseteq context.evidence
      BY <2>1 DEF BundleOf, Partitions
    <3>2. context.evidence \subseteq graph.nodes \cup Edges /\ graph.nodes \subseteq Ids /\ graph.edges \subseteq Edge
      BY DEF IInv, TypeOK, SearchTypeOK
    <3>. QED BY <3>1, <3>2 DEF Edges, Items
  <2>5. Handed \in Engine!Bundle
    BY <2>4 DEF Handed, Engine!Bundle
  <2>6. Handed.graph \/ Handed.missing
    BY <2>2, <2>3 DEF Handed
  <2>7. IsUnderstood
    BY <2>5, <2>6 DEF IsUnderstood, Engine!Init, Engine!NoReply, Engine!NoReport, Engine!NoMetadata
  <2>8. Handed.graph <=> bundle.nodes # {} /\ bundle.paths # {}
    BY <2>3 DEF Handed
  <2>9. Engine!Constrained <=>
            bundle.missing # {} \/ Cardinality(Engine!Known) < Engine!LowRecallMinRefs
    <3>1. Engine!Constrained <=>
              Handed.missing \/ (Handed.graph /\ Cardinality(Engine!Known) < Engine!LowRecallMinRefs)
      BY DEF Engine!Constrained, Engine!Cardinality, Cardinality
    <3>2. Handed.missing <=> bundle.missing # {}
      BY DEF Handed
    <3>3. Handed.graph \in BOOLEAN
      BY DEF Handed
    <3>. QED BY <2>6, <3>1, <3>2, <3>3
  <2>10. bundle.missing = {} => bundle.evidence # {} /\ Engine!Known # {}
    BY DEF EvidenceIsGrounded, Engine!Known, Handed
  <2>. QED BY <2>7, <2>8, <2>9, <2>10 DEF IsJudged
<1>. QED BY <1>1, Invariance, NodesAndPathsAreMissingTogether, EvidenceStaysGrounded, PTL
=============================================================================
