------------------------- MODULE LocalGraphIndexProofs -------------------------
(***************************************************************************)
(* Lemmas about the search of LocalGraphIndex, for any graph, any limits   *)
(* and any depth: what its helpers return, and what holds of the paths in  *)
(* its queue.  ContextBuilderProofs uses them for the requests around the  *)
(* search.                                                                 *)
(***************************************************************************)
EXTENDS LocalGraphIndex, SequenceTheorems, TLAPS

\* The paths of the two directions: simple walks of at most the depth asked
\* for, into a seed and out of one.
Walk(p) ==
    /\ p \in Seq(graph.nodes) /\ Len(p) \in 1..query.depth
    /\ IsWalk(p) /\ IsSimple(p)
Into(p) == Walk(p) /\ p[Len(p)] \in seeds
OutOf(p) == Walk(p) /\ p[1] \in seeds

\* What the search calls finished.
IntoEnd(p) == Len(p) = query.depth \/ \A e \in Edges : e.target = p[1] => e.source \in Elements(p)
OutEnd(p) ==
    Len(p) = query.depth \/ \A e \in Edges : e.source = p[Len(p)] => e.target \in Elements(p)

\* The walks that the two loops are to find.
IntoWalks == {p \in BoundedSeqs : IsWalk(p) /\ IsSimple(p) /\ p[Len(p)] \in seeds /\ IntoEnd(p)}
OutWalks == {p \in BoundedSeqs : IsWalk(p) /\ IsSimple(p) /\ p[1] \in seeds /\ OutEnd(p)}

-----------------------------------------------------------------------------
(* Sequences of nodes.                                                      *)

LEMMA EdgesJoinNodes == \A e \in Edges : e.source \in graph.nodes /\ e.target \in graph.nodes
  BY DEF Edges

\* A walk, by its indices.
LEMMA WalkSteps ==
    ASSUME NEW S, NEW p \in Seq(S)
    PROVE  /\ Steps(p) = {i \in 1..Len(p) : i + 1 <= Len(p)}
           /\ IsWalk(p) <=> \A i \in 1..Len(p) : i + 1 <= Len(p) =>
                                \E e \in Edges : e.source = p[i] /\ e.target = p[i + 1]
<1>1. DOMAIN p = 1..Len(p) /\ Len(p) \in Nat
  BY LenProperties
<1>2. Steps(p) = {i \in 1..Len(p) : i + 1 <= Len(p)}
  BY <1>1 DEF Steps
<1>. QED BY <1>2 DEF IsWalk, Between

LEMMA ElementsAreMembers ==
    ASSUME NEW S, NEW p \in Seq(S)
    PROVE  Elements(p) \subseteq S /\ Elements(p) = {p[i] : i \in 1..Len(p)}
<1>1. DOMAIN p = 1..Len(p) /\ \A i \in 1..Len(p) : p[i] \in S
  BY LenProperties, ElementOfSeq
<1>. QED BY <1>1 DEF Elements

LEMMA SingleNode ==
    ASSUME NEW S, NEW x \in S
    PROVE  /\ <<x>> \in Seq(S) /\ Len(<<x>>) = 1 /\ <<x>>[1] = x
           /\ Elements(<<x>>) = {x}
<1>1. <<>> \in Seq(S)
  BY EmptySeq
<1>2. Append(<<>>, x) \in Seq(S)
  BY <1>1, AppendProperties
<1>3. Len(<<x>>) = 1 /\ <<x>>[1] = x
  OBVIOUS
<1>4. <<x>> \in Seq(S)
  <2>1. Append(<<>>, x) = <<x>>
    OBVIOUS
  <2>. QED BY <1>2, <2>1
<1>5. Elements(<<x>>) = {<<x>>[i] : i \in 1..1}
  BY <1>3, <1>4, ElementsAreMembers
<1>. QED BY <1>3, <1>4, <1>5

\* A part of a sequence.
LEMMA PartProperties ==
    ASSUME NEW S, NEW p \in Seq(S), NEW m \in 1..Len(p), NEW n \in m..Len(p)
    PROVE  /\ SubSeq(p, m, n) \in Seq(S)
           /\ Len(SubSeq(p, m, n)) = n - m + 1
           /\ \A i \in 1..(n - m + 1) : SubSeq(p, m, n)[i] = p[m + i - 1]
<1>1. m \in Int /\ n \in Int /\ Len(p) \in Nat
  BY LenProperties
<1>2. \A i \in m..n : p[i] \in S
  BY <1>1, ElementOfSeq
<1>3. /\ SubSeq(p, m, n) \in Seq(S)
      /\ Len(SubSeq(p, m, n)) = IF m <= n THEN n - m + 1 ELSE 0
      /\ \A i \in 1..(n - m + 1) : SubSeq(p, m, n)[i] = p[m + i - 1]
  BY <1>1, <1>2, SubSeqProperties
<1>. QED BY <1>1, <1>3

LEMMA FunctionIsSeq ==
    ASSUME NEW S, NEW n \in Nat, NEW p \in [1..n -> S]
    PROVE  p \in Seq(S) /\ Len(p) = n
<1>. DEFINE s == SubSeq(p, 1, n)
<1>1. 1 \in Int /\ n \in Int /\ \A i \in 1..n : p[i] \in S
  OBVIOUS
<1>2. /\ s \in Seq(S)
      /\ Len(s) = IF 1 <= n THEN n - 1 + 1 ELSE 0
      /\ \A i \in 1..(n - 1 + 1) : s[i] = p[1 + i - 1]
  BY <1>1, SubSeqProperties
<1>3. Len(s) = n /\ \A i \in 1..n : s[i] = p[i]
  <2>. HIDE DEF s
  <2>. QED BY <1>2
<1>. HIDE DEF s
<1>4. s \in [1..n -> S]
  BY <1>2, <1>3, LenProperties
<1>5. s = p
  BY <1>3, <1>4
<1>. QED BY <1>2, <1>3, <1>5

\* The first n members of a sequence.
LEMMA FirstProperties ==
    ASSUME NEW S, NEW p \in Seq(S), NEW n \in Nat
    PROVE  /\ First(p, n) \in Seq(S)
           /\ Len(First(p, n)) = IF Len(p) < n THEN Len(p) ELSE n
           /\ \A i \in 1..Len(First(p, n)) : First(p, n)[i] = p[i]
<1>. DEFINE m == IF Len(p) < n THEN Len(p) ELSE n
<1>1. Len(p) \in Nat /\ m \in Nat /\ m <= Len(p)
  BY LenProperties
<1>2. \A i \in 1..m : p[i] \in S
  BY <1>1, ElementOfSeq
<1>3. /\ SubSeq(p, 1, m) \in Seq(S)
      /\ Len(SubSeq(p, 1, m)) = IF 1 <= m THEN m - 1 + 1 ELSE 0
      /\ \A i \in 1..(m - 1 + 1) : SubSeq(p, 1, m)[i] = p[1 + i - 1]
  <2>1. 1 \in Int /\ m \in Int
    BY <1>1
  <2>. HIDE DEF m
  <2>. QED BY <1>2, <2>1, SubSeqProperties
<1>4. First(p, n) = SubSeq(p, 1, m)
  BY DEF First
<1>5. Len(First(p, n)) = m /\ First(p, n) \in Seq(S)
  BY <1>1, <1>3, <1>4
<1>6. \A i \in 1..m : First(p, n)[i] = p[i]
  BY <1>1, <1>3, <1>4
<1>. QED BY <1>5, <1>6

\* Cutting a walk leaves a walk.
LEMMA FirstIsWalk ==
    ASSUME NEW S, NEW p \in Seq(S), IsWalk(p), NEW n \in Nat
    PROVE  IsWalk(First(p, n))
<1>. DEFINE f == First(p, n)
<1>1. /\ f \in Seq(S) /\ Len(f) <= Len(p) /\ Len(f) \in Nat /\ Len(p) \in Nat
      /\ \A i \in 1..Len(f) : f[i] = p[i]
  BY FirstProperties, LenProperties
<1>. HIDE DEF f
<1>2. \A i \in 1..Len(f) : i + 1 <= Len(f) =>
          \E e \in Edges : e.source = f[i] /\ e.target = f[i + 1]
  <2>. SUFFICES ASSUME NEW i \in 1..Len(f), i + 1 <= Len(f)
                PROVE  \E e \in Edges : e.source = f[i] /\ e.target = f[i + 1]
    OBVIOUS
  <2>1. i \in 1..Len(p) /\ i + 1 <= Len(p) /\ f[i] = p[i] /\ f[i + 1] = p[i + 1]
    BY <1>1
  <2>2. \E e \in Edges : e.source = p[i] /\ e.target = p[i + 1]
    BY <2>1, WalkSteps
  <2>. QED BY <2>1, <2>2
<1>. QED BY <1>1, <1>2, WalkSteps DEF f

-----------------------------------------------------------------------------
(* One step of a loop.                                                      *)

\* A chain into a seed stays one when a relationship is put before it.
LEMMA LongerInto ==
    ASSUME query.depth \in Nat,
           NEW p, Into(p), ~ Full(p), NEW q \in Predecessors(p)
    PROVE  Into(q) /\ Len(q) = Len(p) + 1 /\ q[Len(q)] = p[Len(p)]
<1>1. PICK e \in Edges : e.target = p[1] /\ e.source \notin Elements(p) /\ q = <<e.source>> \o p
  BY DEF Predecessors
<1>. DEFINE x == e.source
<1>2. x \in graph.nodes
  BY EdgesJoinNodes
<1>3. p \in Seq(graph.nodes) /\ Len(p) \in 1..query.depth /\ Len(p) < query.depth
  BY DEF Into, Walk, Full
<1>4. /\ q \in Seq(graph.nodes) /\ Len(q) = Len(p) + 1
      /\ \A i \in 1..Len(p) + 1 : q[i] = IF i <= 1 THEN x ELSE p[i - 1]
  <2>1. /\ <<x>> \o p \in Seq(graph.nodes) /\ Len(<<x>> \o p) = 1 + Len(p)
        /\ \A i \in 1..1 + Len(p) : (<<x>> \o p)[i] = IF i <= 1 THEN <<x>>[i] ELSE p[i - 1]
    <3>. HIDE DEF x
    <3>1. <<x>> \in Seq(graph.nodes) /\ Len(<<x>>) = 1
      BY <1>2, SingleNode
    <3>. QED BY <1>3, <3>1, ConcatProperties
  <2>. QED BY <1>1, <1>2, <1>3, <2>1
<1>5. IsWalk(q)
  <2>. SUFFICES ASSUME NEW i \in 1..Len(q), i + 1 <= Len(q)
                PROVE  \E d \in Edges : d.source = q[i] /\ d.target = q[i + 1]
    BY <1>4, WalkSteps
  <2>1. CASE i = 1
    BY <1>1, <1>3, <1>4, <2>1
  <2>2. CASE i > 1
    <3>1. i - 1 \in 1..Len(p) /\ (i - 1) + 1 <= Len(p) /\ q[i] = p[i - 1] /\ q[i + 1] = p[(i - 1) + 1]
      BY <1>3, <1>4, <2>2
    <3>2. IsWalk(p)
      BY DEF Into, Walk
    <3>. QED BY <1>3, <3>1, <3>2, WalkSteps
  <2>. QED BY <1>3, <1>4, <2>1, <2>2
<1>6. IsSimple(q)
  <2>1. \A i \in 1..Len(p) : p[i] # x
    BY <1>1, <1>3, ElementsAreMembers
  <2>2. \A i, j \in 1..Len(p) : i # j => p[i] # p[j]
    BY <1>3, LenProperties DEF Into, Walk, IsSimple
  <2>3. q[1] = x /\ \A i \in 1..Len(q) : i # 1 => i - 1 \in 1..Len(p) /\ q[i] = p[i - 1]
    BY <1>3, <1>4
  <2>4. ASSUME NEW i \in 1..Len(q), NEW j \in 1..Len(q), i # j
        PROVE  q[i] # q[j]
    <3>1. CASE i = 1
      BY <2>1, <2>3, <2>4, <3>1
    <3>2. CASE j = 1
      BY <2>1, <2>3, <2>4, <3>2
    <3>3. CASE i # 1 /\ j # 1
      <4>1. i - 1 # j - 1
        BY <1>3, <1>4, <2>4
      <4>. QED BY <2>2, <2>3, <3>3, <4>1
    <3>. QED BY <3>1, <3>2, <3>3
  <2>. QED BY <1>4, <2>4, LenProperties DEF IsSimple
<1>7. q[Len(q)] = p[Len(p)]
  BY <1>3, <1>4
<1>. QED BY <1>3, <1>4, <1>5, <1>6, <1>7 DEF Into, Walk

\* A chain out of a seed stays one when a relationship is put after it.
LEMMA LongerOutOf ==
    ASSUME query.depth \in Nat,
           NEW p, OutOf(p), ~ Full(p), NEW q \in Successors(p)
    PROVE  OutOf(q) /\ Len(q) = Len(p) + 1 /\ q[1] = p[1]
<1>1. PICK e \in Edges : /\ e.source = p[Len(p)] /\ e.target \notin Elements(p)
                         /\ q = Append(p, e.target)
  BY DEF Successors
<1>. DEFINE x == e.target
<1>2. x \in graph.nodes
  BY EdgesJoinNodes
<1>3. p \in Seq(graph.nodes) /\ Len(p) \in 1..query.depth /\ Len(p) < query.depth
  BY DEF OutOf, Walk, Full
<1>4. /\ q \in Seq(graph.nodes) /\ Len(q) = Len(p) + 1
      /\ \A i \in 1..Len(p) : q[i] = p[i]
      /\ q[Len(p) + 1] = x
  <2>1. p \in Seq(graph.nodes) /\ q = Append(p, x)
    BY <1>1, <1>3
  <2>. HIDE DEF x
  <2>. QED BY <1>2, <2>1, AppendProperties
<1>5. IsWalk(q)
  <2>. SUFFICES ASSUME NEW i \in 1..Len(q), i + 1 <= Len(q)
                PROVE  \E d \in Edges : d.source = q[i] /\ d.target = q[i + 1]
    BY <1>4, WalkSteps
  <2>1. CASE i = Len(p)
    BY <1>1, <1>3, <1>4, <2>1
  <2>2. CASE i < Len(p)
    <3>1. i \in 1..Len(p) /\ i + 1 <= Len(p) /\ q[i] = p[i] /\ q[i + 1] = p[i + 1]
      BY <1>3, <1>4, <2>2
    <3>2. IsWalk(p)
      BY DEF OutOf, Walk
    <3>. QED BY <1>3, <3>1, <3>2, WalkSteps
  <2>. QED BY <1>3, <1>4, <2>1, <2>2
<1>6. IsSimple(q)
  <2>1. \A i \in 1..Len(p) : p[i] # x
    BY <1>1, <1>3, ElementsAreMembers
  <2>2. \A i, j \in 1..Len(p) : i # j => p[i] # p[j]
    BY <1>3, LenProperties DEF OutOf, Walk, IsSimple
  <2>3. \A i, j \in 1..Len(q) : i # j => q[i] # q[j]
    BY <1>3, <1>4, <2>1, <2>2
  <2>. QED BY <1>4, <2>3, LenProperties DEF IsSimple
<1>7. q[1] = p[1]
  BY <1>3, <1>4
<1>. QED BY <1>3, <1>4, <1>5, <1>6, <1>7 DEF OutOf, Walk

-----------------------------------------------------------------------------
(* The chains that are to be found, and the loops that find them.           *)

LEMMA BoundedSeqsAreSeqs ==
    ASSUME query.depth \in Nat, NEW p
    PROVE  p \in BoundedSeqs <=> p \in Seq(graph.nodes) /\ Len(p) \in 1..query.depth
<1>1. ASSUME p \in BoundedSeqs
      PROVE  p \in Seq(graph.nodes) /\ Len(p) \in 1..query.depth
  <2>1. PICK n \in 1..query.depth : p \in [1..n -> graph.nodes]
    BY <1>1 DEF BoundedSeqs
  <2>. QED BY <2>1, FunctionIsSeq
<1>2. ASSUME p \in Seq(graph.nodes), Len(p) \in 1..query.depth
      PROVE  p \in BoundedSeqs
  <2>1. p \in [1..Len(p) -> graph.nodes]
    BY <1>2, LenProperties
  <2>. QED BY <1>2, <2>1 DEF BoundedSeqs
<1>. QED BY <1>1, <1>2

\* The walks of the property are those that the loops are to find.
LEMMA WalksOfTheGraph ==
    ASSUME query.depth \in Nat
    PROVE  WalksInto(SimpleWalks, seeds) = IntoWalks /\ WalksOutOf(SimpleWalks, seeds) = OutWalks
<1>1. ASSUME NEW p \in BoundedSeqs
      PROVE  p \in SimpleWalks <=> IsWalk(p) /\ IsSimple(p)
  <2>1. p \in Seq(graph.nodes) /\ Len(p) \in Nat
    BY BoundedSeqsAreSeqs
  <2>2. \A x, y : <<x, y>> \in {<<e.source, e.target>> : e \in Edges}
                     <=> \E e \in Edges : e.source = x /\ e.target = y
    OBVIOUS
  <2>3. IsWalk(p) <=> \A i \in 1..Len(p) - 1 : \E e \in Edges : e.source = p[i] /\ e.target = p[i + 1]
    <3>1. \A i \in 1..Len(p) - 1 : i \in 1..Len(p) /\ i + 1 <= Len(p)
      BY <2>1
    <3>2. \A i \in 1..Len(p) : i + 1 <= Len(p) => i \in 1..Len(p) - 1
      BY <2>1
    <3>. QED BY <2>1, <3>1, <3>2, WalkSteps
  <2>. QED BY <2>2, <2>3 DEF SimpleWalks
<1>2. \A p \in SimpleWalks : p \in BoundedSeqs
  BY DEF SimpleWalks
<1>3. \A p : p \in SimpleWalks <=> p \in BoundedSeqs /\ IsWalk(p) /\ IsSimple(p)
  BY <1>1, <1>2
<1>4. \A p : p \in WalksInto(SimpleWalks, seeds) <=> p \in IntoWalks
  BY <1>3 DEF WalksInto, IntoWalks, IntoEnd
<1>5. \A p : p \in WalksOutOf(SimpleWalks, seeds) <=> p \in OutWalks
  BY <1>3 DEF WalksOutOf, OutWalks, OutEnd
<1>. QED BY <1>4, <1>5

\* The end of a chain that is to be found is the chain, which the loop then
\* finishes, or one that the loop makes longer, by its next node too.
LEMMA IntoWalkContinues ==
    ASSUME query.depth \in Nat,
           NEW p \in IntoWalks, NEW k \in 1..Len(p)
    PROVE  LET s == SubSeq(p, k, Len(p)) IN
           /\ k = 1 => s = p /\ (Full(p) \/ Predecessors(p) = {})
           /\ k # 1 => k - 1 \in 1..Len(p) /\ ~ Full(s) /\ SubSeq(p, k - 1, Len(p)) \in Predecessors(s)
<1>. DEFINE s == SubSeq(p, k, Len(p))
<1>1. p \in Seq(graph.nodes) /\ Len(p) \in 1..query.depth
  BY BoundedSeqsAreSeqs DEF IntoWalks
<1>2. ASSUME k = 1
      PROVE  s = p /\ (Full(p) \/ Predecessors(p) = {})
  <2>1. s = p
    BY <1>1, <1>2, SubSeqFull
  <2>2. IntoEnd(p)
    BY DEF IntoWalks
  <2>3. CASE Len(p) = query.depth
    BY <1>1, <2>1, <2>3 DEF Full
  <2>4. CASE \A e \in Edges : e.target = p[1] => e.source \in Elements(p)
    BY <2>1, <2>4 DEF Predecessors
  <2>. QED BY <2>2, <2>3, <2>4 DEF IntoEnd
<1>3. ASSUME k # 1
      PROVE  k - 1 \in 1..Len(p) /\ ~ Full(s) /\ SubSeq(p, k - 1, Len(p)) \in Predecessors(s)
  <2>1. k \in Int /\ Len(p) \in Int /\ k <= Len(p) /\ k - 1 \in 1..Len(p)
    BY <1>1, <1>3
  <2>3. /\ s \in Seq(graph.nodes)
        /\ Len(s) = Len(p) - k + 1
        /\ \A i \in 1..Len(p) - k + 1 : s[i] = p[k + i - 1]
    <3>1. Len(p) \in k..Len(p)
      BY <2>1
    <3>. QED BY <1>1, <3>1, PartProperties
  <2>4. ~ Full(s)
    BY <1>1, <2>1, <2>3 DEF Full
  <2>5. PICK e \in Edges : e.source = p[k - 1] /\ e.target = p[k]
    <3>1. IsWalk(p) /\ k - 1 \in 1..Len(p) /\ (k - 1) + 1 = k /\ k <= Len(p)
      BY <2>1 DEF IntoWalks
    <3>. QED BY <1>1, <3>1, WalkSteps
  <2>6. s[1] = p[k]
    BY <2>1, <2>3
  <2>7. p[k - 1] \notin Elements(s)
    <3>0. Elements(s) = {s[i] : i \in 1..Len(s)}
      <4>. HIDE DEF s
      <4>. QED BY <2>3, ElementsAreMembers
    <3>1. SUFFICES ASSUME NEW i \in 1..Len(s)
                   PROVE  s[i] # p[k - 1]
      <4>. HIDE DEF s
      <4>. QED BY <3>0
    <3>2. s[i] = p[k + i - 1] /\ k + i - 1 \in 1..Len(p) /\ k + i - 1 # k - 1
      BY <2>1, <2>3
    <3>3. \A a, b \in 1..Len(p) : a # b => p[a] # p[b]
      BY <1>1, LenProperties DEF IntoWalks, IsSimple
    <3>. QED BY <2>1, <3>2, <3>3
  <2>8. SubSeq(p, k - 1, Len(p)) = <<p[k - 1]>> \o s
    <3>1. k - 1 \in 1..Len(p) /\ Len(p) \in (k - 1)..Len(p) /\ (k - 1) + 1 = k
      BY <2>1
    <3>. QED BY <1>1, <3>1, SubSeqRecursiveFirst
  <2>. QED BY <2>1, <2>4, <2>5, <2>6, <2>7, <2>8 DEF Predecessors
<1>. QED BY <1>2, <1>3

\* The same of the start of a chain out of a seed.
LEMMA OutWalkContinues ==
    ASSUME query.depth \in Nat,
           NEW p \in OutWalks, NEW k \in 1..Len(p)
    PROVE  LET s == SubSeq(p, 1, k) IN
           /\ k = Len(p) => s = p /\ (Full(p) \/ Successors(p) = {})
           /\ k # Len(p) => k + 1 \in 1..Len(p) /\ ~ Full(s) /\ SubSeq(p, 1, k + 1) \in Successors(s)
<1>. DEFINE s == SubSeq(p, 1, k)
<1>1. p \in Seq(graph.nodes) /\ Len(p) \in 1..query.depth
  BY BoundedSeqsAreSeqs DEF OutWalks
<1>2. ASSUME k = Len(p)
      PROVE  s = p /\ (Full(p) \/ Successors(p) = {})
  <2>1. s = p
    BY <1>1, <1>2, SubSeqFull
  <2>2. OutEnd(p)
    BY DEF OutWalks
  <2>3. CASE Len(p) = query.depth
    BY <1>1, <2>1, <2>3 DEF Full
  <2>4. CASE \A e \in Edges : e.source = p[Len(p)] => e.target \in Elements(p)
    BY <2>1, <2>4 DEF Successors
  <2>. QED BY <2>2, <2>3, <2>4 DEF OutEnd
<1>3. ASSUME k # Len(p)
      PROVE  k + 1 \in 1..Len(p) /\ ~ Full(s) /\ SubSeq(p, 1, k + 1) \in Successors(s)
  <2>1. k \in Int /\ Len(p) \in Int /\ 1 <= k /\ k + 1 \in 1..Len(p)
    BY <1>1, <1>3
  <2>3. /\ s \in Seq(graph.nodes)
        /\ Len(s) = k
        /\ \A i \in 1..k : s[i] = p[i]
    <3>1. 1 \in 1..Len(p) /\ k \in 1..Len(p)
      BY <2>1
    <3>2. /\ s \in Seq(graph.nodes)
          /\ Len(s) = k - 1 + 1
          /\ \A i \in 1..(k - 1 + 1) : s[i] = p[1 + i - 1]
      BY <1>1, <3>1, PartProperties
    <3>. QED BY <2>1, <3>2
  <2>4. ~ Full(s)
    BY <1>1, <2>1, <2>3 DEF Full
  <2>5. PICK e \in Edges : e.source = p[k] /\ e.target = p[k + 1]
    <3>1. IsWalk(p) /\ k \in 1..Len(p) /\ k + 1 <= Len(p)
      BY <2>1 DEF OutWalks
    <3>. QED BY <1>1, <3>1, WalkSteps
  <2>6. s[Len(s)] = p[k]
    BY <2>1, <2>3
  <2>7. p[k + 1] \notin Elements(s)
    <3>0. Elements(s) = {s[i] : i \in 1..Len(s)}
      <4>. HIDE DEF s
      <4>. QED BY <2>3, ElementsAreMembers
    <3>1. SUFFICES ASSUME NEW i \in 1..Len(s)
                   PROVE  s[i] # p[k + 1]
      <4>. HIDE DEF s
      <4>. QED BY <3>0
    <3>2. s[i] = p[i] /\ i \in 1..Len(p) /\ i # k + 1
      BY <2>1, <2>3
    <3>3. \A a, b \in 1..Len(p) : a # b => p[a] # p[b]
      BY <1>1, LenProperties DEF OutWalks, IsSimple
    <3>. QED BY <2>1, <3>2, <3>3
  <2>8. SubSeq(p, 1, k + 1) = Append(s, p[k + 1])
    <3>1. k + 1 \in 1..Len(p) /\ 1 \in 1..Len(p) /\ k + 1 \in 1..Len(p) /\ (k + 1) - 1 = k
      BY <2>1
    <3>2. SubSeq(p, 1, k + 1) = SubSeq(p, 1, (k + 1) - 1) \o <<p[k + 1]>>
      BY <1>1, <2>1, <3>1, SubSeqRecursiveSecond
    <3>3. p[k + 1] \in graph.nodes
      BY <1>1, <2>1, ElementOfSeq
    <3>4. Append(s, p[k + 1]) = s \o <<p[k + 1]>>
      BY <2>3, <3>3, AppendIsConcat
    <3>. QED BY <3>1, <3>2, <3>4
  <2>. QED BY <2>1, <2>4, <2>5, <2>6, <2>7, <2>8 DEF Successors
<1>. QED BY <1>2, <1>3

-----------------------------------------------------------------------------
(* The answer.                                                              *)

\* Two chains that meet, joined and cut, are a walk of at most the depth that
\* still passes the seed they meet in.
LEMMA CombinedIsWalk ==
    ASSUME query.depth \in Nat \ {0},
           NEW i, Into(i), NEW o, OutOf(o), i[Len(i)] = o[1]
    PROVE  /\ Combined(i, o) \in Seq(graph.nodes)
           /\ Len(Combined(i, o)) \in 1..query.depth
           /\ IsWalk(Combined(i, o))
           /\ i[Len(i)] \in Elements(Combined(i, o))
           /\ \A k \in 1..Len(i) : k \in 1..Len(Combined(i, o)) /\ Combined(i, o)[k] = i[k]
<1>. DEFINE t == Tail(o)
            p == i \o t
<1>1. /\ i \in Seq(graph.nodes) /\ Len(i) \in 1..query.depth /\ IsWalk(i)
      /\ o \in Seq(graph.nodes) /\ Len(o) \in 1..query.depth /\ IsWalk(o)
  BY DEF Into, OutOf, Walk
<1>2. /\ t \in Seq(graph.nodes) /\ Len(t) = Len(o) - 1
      /\ \A k \in 1..Len(t) : t[k] = o[k + 1]
  <2>1. o # <<>>
    BY <1>1
  <2>. QED BY <1>1, <2>1, HeadTailProperties
<1>. HIDE DEF t
<1>3. /\ p \in Seq(graph.nodes) /\ Len(p) = Len(i) + Len(t)
      /\ \A k \in 1..Len(i) + Len(t) : p[k] = IF k <= Len(i) THEN i[k] ELSE t[k - Len(i)]
  BY <1>1, <1>2, ConcatProperties
<1>. HIDE DEF p
<1>4. IsWalk(p)
  <2>1. ASSUME NEW k \in 1..Len(p), k + 1 <= Len(p)
        PROVE  \E e \in Edges : e.source = p[k] /\ e.target = p[k + 1]
    <3>1. CASE k < Len(i)
      <4>1. k \in 1..Len(i) /\ k + 1 <= Len(i) /\ p[k] = i[k] /\ p[k + 1] = i[k + 1]
        BY <1>1, <1>2, <1>3, <2>1, <3>1
      <4>. QED BY <1>1, <4>1, WalkSteps
    <3>2. CASE k >= Len(i)
      <4>. DEFINE j == k - Len(i) + 1
      <4>1. j \in 1..Len(o) /\ j + 1 <= Len(o)
        BY <1>1, <1>2, <1>3, <2>1, <3>2
      <4>2. p[k + 1] = o[j + 1]
        <5>1. k + 1 \in 1..Len(i) + Len(t) /\ ~ (k + 1 <= Len(i))
          BY <1>1, <1>2, <1>3, <2>1, <3>2
        <5>2. p[k + 1] = t[j] /\ j \in 1..Len(t)
          BY <1>1, <1>2, <1>3, <5>1, <4>1
        <5>. QED BY <1>2, <5>2
      <4>3. p[k] = o[j]
        <5>1. CASE k = Len(i)
          <6>1. k \in 1..Len(i) + Len(t) /\ k <= Len(i)
            <7>1. Len(t) \in Nat /\ Len(i) \in Nat /\ Len(i) >= 1
              BY <1>1, <1>2
            <7>. QED BY <5>1, <7>1
          <6>2. p[k] = i[Len(i)]
            BY <1>3, <5>1, <6>1
          <6>3. j = 1
            BY <1>1, <5>1
          <6>. HIDE DEF j
          <6>. QED BY <6>2, <6>3
        <5>2. CASE k > Len(i)
          <6>1. Len(t) \in Nat /\ Len(i) \in Nat /\ k \in Nat /\ k <= Len(i) + Len(t)
            BY <1>1, <1>2, <1>3
          <6>2. k \in 1..Len(i) + Len(t) /\ ~ (k <= Len(i)) /\ k - Len(i) \in 1..Len(t)
            BY <5>2, <6>1
          <6>3. p[k] = t[k - Len(i)]
            BY <1>3, <6>2
          <6>. QED BY <1>2, <6>2, <6>3
        <5>. QED BY <1>1, <2>1, <3>2, <5>1, <5>2
      <4>. HIDE DEF j
      <4>. QED BY <1>1, <4>1, <4>2, <4>3, WalkSteps
    <3>. QED BY <1>1, <2>1, <3>1, <3>2
  <2>. QED BY <1>3, <2>1, WalkSteps
<1>5. Combined(i, o) = First(p, query.depth)
  BY DEF Combined, Cut, p, t
<1>6. /\ First(p, query.depth) \in Seq(graph.nodes)
      /\ Len(First(p, query.depth)) = IF Len(p) < query.depth THEN Len(p) ELSE query.depth
      /\ \A k \in 1..Len(First(p, query.depth)) : First(p, query.depth)[k] = p[k]
      /\ IsWalk(First(p, query.depth))
  BY <1>3, <1>4, FirstProperties, FirstIsWalk
<1>. DEFINE c == First(p, query.depth)
<1>. HIDE DEF c
<1>7. c \in Seq(graph.nodes) /\ Len(c) \in 1..query.depth /\ Len(i) \in 1..Len(c) /\ c[Len(i)] = i[Len(i)]
  BY <1>1, <1>2, <1>3, <1>6 DEF c
<1>8. i[Len(i)] \in Elements(c)
  BY <1>7, ElementsAreMembers
<1>9. \A k \in 1..Len(i) : k \in 1..Len(c) /\ c[k] = i[k]
  BY <1>1, <1>2, <1>3, <1>6, <1>7 DEF c
<1>. QED BY <1>5, <1>6, <1>7, <1>8, <1>9 DEF c

\* The answer made of some walks is a graph that contains them, and all of it
\* comes from the graph that was searched.
LEMMA AnswerOfWalks ==
    ASSUME seeds \subseteq graph.nodes, NEW paths,
           \A p \in paths : p \in Seq(graph.nodes) /\ IsWalk(p)
    PROVE  /\ AnswerOf(paths).paths = paths
           /\ AnswerOf(paths).nodes \subseteq graph.nodes
           /\ AnswerOf(paths).edges \subseteq Edges
           /\ \A e \in AnswerOf(paths).edges : {e.source, e.target} \subseteq AnswerOf(paths).nodes
           /\ \A p \in paths :
                 /\ Elements(p) \subseteq AnswerOf(paths).nodes
                 /\ \A i \in Steps(p) : Selected(p, i) \subseteq AnswerOf(paths).edges
           /\ paths # {} => seeds \subseteq AnswerOf(paths).nodes
           /\ paths = {} => AnswerOf(paths) = NotFound
<1>1. CASE paths = {}
  BY <1>1 DEF AnswerOf, NotFound
<1>2. CASE paths # {}
  <2>. DEFINE a == AnswerOf(paths)
  <2>1. /\ a.nodes = seeds \cup (graph.nodes \cap UNION {Elements(p) : p \in paths})
        /\ a.edges = UNION {UNION {Selected(p, i) : i \in Steps(p)} : p \in paths}
        /\ a.paths = paths
    BY <1>2 DEF AnswerOf
  <2>. HIDE DEF a
  <2>2. ASSUME NEW p \in paths
        PROVE  Elements(p) \subseteq a.nodes /\ \A i \in Steps(p) : Selected(p, i) \subseteq a.edges
    <3>1. Elements(p) \subseteq graph.nodes
      BY ElementsAreMembers
    <3>. QED BY <2>1, <3>1
  <2>3. ASSUME NEW e \in a.edges
        PROVE  e \in Edges /\ {e.source, e.target} \subseteq a.nodes
    <3>1. PICK p \in paths : e \in UNION {Selected(p, i) : i \in Steps(p)}
      BY <2>1
    <3>2. PICK i \in Steps(p) : e \in Selected(p, i)
      BY <3>1
    <3>3. e \in Between(p, i)
      BY <3>2 DEF Selected
    <3>4. e \in Edges /\ e.source = p[i] /\ e.target = p[i + 1]
      BY <3>3 DEF Between
    <3>5. p[i] \in Elements(p) /\ p[i + 1] \in Elements(p)
      BY <3>2 DEF Steps, Elements
    <3>. QED BY <2>2, <3>4, <3>5
  <2>. QED BY <1>2, <2>1, <2>2, <2>3 DEF a
<1>. QED BY <1>1, <1>2
=============================================================================
