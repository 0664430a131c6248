------------------------- MODULE GitNexusContextProofs -------------------------
(***************************************************************************)
(* Lemmas about the answers of GitNexus, for any graph and any limits: an  *)
(* answer that did not reach its limits has lost nothing, and one that did *)
(* has kept the symbol that was asked for.                                 *)
(***************************************************************************)
EXTENDS GitNexusContext, LocalGraphIndexProofs, FiniteSetTheorems, WellFoundedInduction

-----------------------------------------------------------------------------
(* Enumerations.                                                            *)

LEMMA LeastIndex ==
    ASSUME NEW T \in SUBSET Nat, T # {}
    PROVE  \E i \in T : \A j \in T : i <= j
<1>1. PICK i \in T : \A j \in T : ~ (<<j, i>> \in OpToRel(<, Nat))
  BY NatLessThanWellFounded, WFMin
<1>2. \A j \in T : ~ (j < i)
  BY <1>1 DEF OpToRel
<1>. QED BY <1>2

\* A sequence has finitely many members.
LEMMA ElementsFinite ==
    ASSUME NEW S, NEW p \in Seq(S)
    PROVE  IsFiniteSet(Elements(p))
<1>1. Len(p) \in Nat /\ Elements(p) = {p[i] : i \in 1..Len(p)} /\ p \in [1..Len(p) -> S]
  BY ElementsAreMembers, LenProperties
<1>2. p \in Surjection(1..Len(p), Elements(p))
  BY <1>1 DEF Surjection
<1>3. IsFiniteSet(1..Len(p))
  BY <1>1, FS_Interval
<1>. QED BY <1>2, <1>3, FS_Surjection

\* An order lists every member of its set once.
LEMMA OrderListsOnce ==
    ASSUME NEW S, IsFiniteSet(S), NEW s \in Orders(S)
    PROVE  /\ s \in Seq(S) /\ Len(s) = Cardinality(S) /\ Elements(s) = S
           /\ \A i, j \in 1..Len(s) : i # j => s[i] # s[j]
<1>1. Cardinality(S) \in Nat
  BY FS_CardinalityType
<1>2. s \in [1..Cardinality(S) -> S] /\ Elements(s) = S
  BY DEF Orders
<1>3. s \in Seq(S) /\ Len(s) = Cardinality(S)
  BY <1>1, <1>2, FunctionIsSeq
<1>4. s \in Surjection(1..Cardinality(S), S)
  BY <1>2, <1>3, ElementsAreMembers DEF Surjection
<1>5. IsFiniteSet(1..Cardinality(S)) /\ Cardinality(1..Cardinality(S)) = Cardinality(S)
  BY <1>1, FS_Interval
<1>6. s \in Injection(1..Cardinality(S), S)
  BY <1>4, <1>5, FS_Surjection
<1>7. \A i, j \in 1..Len(s) : i # j => s[i] # s[j]
  BY <1>3, <1>6 DEF Injection, IsInjective
<1>. QED BY <1>2, <1>3, <1>7

-----------------------------------------------------------------------------
(* The cut of the nodes.                                                    *)

\* The first node is kept, and when fewer are kept than may be, all are.
LEMMA KeptNodes ==
    ASSUME NEW S, NEW around \in Seq(S), Len(around) # 0
    PROVE  /\ Kept(around) \subseteq Elements(around)
           /\ around[1] \in Kept(around)
           /\ IsFiniteSet(Kept(around))
           /\ Cardinality(Kept(around)) < NodeCap => Kept(around) = Elements(around)
<1>. DEFINE K == Kept(around)
            Prefix(i) == Elements(First(around, i))
<1>1. DOMAIN around = 1..Len(around) /\ Len(around) \in Nat \ {0}
  BY LenProperties
<1>2. K = {around[i] : i \in {i \in 1..Len(around) : Cardinality(Prefix(i)) <= NodeCap}}
  BY <1>1 DEF Kept
<1>3. K \subseteq Elements(around)
  BY <1>2, ElementsAreMembers
<1>4. \A i \in 1..Len(around) : Prefix(i) = {around[j] : j \in 1..i}
  <2>. SUFFICES ASSUME NEW i \in 1..Len(around)
                PROVE  Prefix(i) = {around[j] : j \in 1..i}
    OBVIOUS
  <2>1. /\ First(around, i) \in Seq(S) /\ Len(First(around, i)) = i
        /\ \A j \in 1..i : First(around, i)[j] = around[j]
    BY <1>1, FirstProperties
  <2>2. Prefix(i) = {First(around, i)[j] : j \in 1..i}
    BY <2>1, ElementsAreMembers
  <2>. QED BY <2>1, <2>2
<1>5. around[1] \in K
  <2>1. 1 \in 1..Len(around) /\ Prefix(1) = {around[1]}
    BY <1>1, <1>4
  <2>2. Cardinality(Prefix(1)) = 1 /\ NodeCap \in Nat \ {0}
    BY <2>1, FS_Singleton, SearchAssumption
  <2>. QED BY <1>2, <2>1, <2>2
<1>6. IsFiniteSet(K)
  BY <1>3, ElementsFinite, FS_Subset
<1>. HIDE DEF K, Prefix
<1>7. ASSUME Cardinality(K) < NodeCap
      PROVE  K = Elements(around)
  <2>. DEFINE T == {i \in 1..Len(around) : around[i] \notin K}
  <2>1. SUFFICES T = {}
    <3>1. Elements(around) = {around[i] : i \in 1..Len(around)}
      BY ElementsAreMembers
    <3>. QED BY <1>3, <3>1
  <2>2. SUFFICES ASSUME T # {} PROVE FALSE
    OBVIOUS
  <2>3. PICK i \in T : \A j \in T : i <= j
    <3>1. T \in SUBSET Nat
      BY <1>1
    <3>. HIDE DEF T
    <3>. QED BY <2>2, <3>1, LeastIndex
  <2>4. i \in 1..Len(around) /\ \A j \in 1..i : j # i => around[j] \in K
    BY <1>1, <2>3
  <2>5. Prefix(i) \subseteq K \cup {around[i]}
    BY <1>4, <2>4
  <2>6. IsFiniteSet(K \cup {around[i]}) /\ Cardinality(K \cup {around[i]}) = Cardinality(K) + 1
    BY <1>6, <2>3, FS_AddElement
  <2>7. Cardinality(Prefix(i)) <= Cardinality(K) + 1 /\ Cardinality(Prefix(i)) \in Nat
    BY <2>5, <2>6, FS_Subset, FS_CardinalityType
  <2>8. Cardinality(Prefix(i)) <= NodeCap
    BY <1>6, <1>7, <2>7, FS_CardinalityType, SearchAssumption
  <2>. QED BY <1>2, <2>3, <2>4, <2>8
<1>. QED BY <1>3, <1>5, <1>6, <1>7 DEF K

-----------------------------------------------------------------------------
(* The answer.                                                              *)

\* The path of an answer: the first caller, the symbol, the first callee.
LEMMA CenterPath ==
    ASSUME NEW S, NEW n \in S, NEW callers \in Seq(S), NEW callees \in Seq(S)
    PROVE  LET p == Through(n, callers, callees)
               h == Len(First(callers, 1))
           IN  /\ h \in 0..1 /\ h <= Len(callers) /\ p \in Seq(S)
               /\ Len(p) \in {h + 1, h + 2} /\ p[h + 1] = n
               /\ h = 1 => p[1] = callers[1]
               /\ Len(p) = h + 2 => p[h + 2] = callees[1] /\ Len(callees) >= 1
<1>. DEFINE a == First(callers, 1)
            b == First(callees, 1)
            q == a \o <<n>>
            p == q \o b
<1>1. /\ a \in Seq(S) /\ Len(a) \in 0..1 /\ Len(a) <= Len(callers)
      /\ Len(a) = 1 => a[1] = callers[1]
  <2>1. /\ a \in Seq(S) /\ Len(a) = IF Len(callers) < 1 THEN Len(callers) ELSE 1
        /\ \A i \in 1..Len(a) : a[i] = callers[i]
    BY FirstProperties
  <2>. HIDE DEF a
  <2>2. Len(callers) \in Nat
    BY LenProperties
  <2>3. Len(a) \in 0..1 /\ Len(a) <= Len(callers)
    BY <2>1, <2>2
  <2>. QED BY <2>1, <2>3
<1>2. /\ b \in Seq(S) /\ Len(b) \in 0..1 /\ Len(b) <= Len(callees)
      /\ Len(b) = 1 => b[1] = callees[1]
  <2>1. /\ b \in Seq(S) /\ Len(b) = IF Len(callees) < 1 THEN Len(callees) ELSE 1
        /\ \A i \in 1..Len(b) : b[i] = callees[i]
    BY FirstProperties
  <2>. HIDE DEF b
  <2>2. Len(callees) \in Nat
    BY LenProperties
  <2>3. Len(b) \in 0..1 /\ Len(b) <= Len(callees)
    BY <2>1, <2>2
  <2>. QED BY <2>1, <2>3
<1>. HIDE DEF a, b
<1>3. <<n>> \in Seq(S) /\ Len(<<n>>) = 1 /\ <<n>>[1] = n
  BY SingleNode
<1>4. /\ q \in Seq(S) /\ Len(q) = Len(a) + 1
      /\ \A i \in 1..Len(a) + 1 : q[i] = IF i <= Len(a) THEN a[i] ELSE <<n>>[i - Len(a)]
  BY <1>1, <1>3, ConcatProperties
<1>5. q[Len(a) + 1] = n /\ (Len(a) = 1 => q[1] = a[1])
  BY <1>1, <1>3, <1>4
<1>. HIDE DEF q
<1>6. /\ p \in Seq(S) /\ Len(p) = Len(q) + Len(b)
      /\ \A i \in 1..Len(q) + Len(b) : p[i] = IF i <= Len(q) THEN q[i] ELSE b[i - Len(q)]
  BY <1>2, <1>4, ConcatProperties
<1>7. p[Len(a) + 1] = n /\ (Len(a) = 1 => p[1] = callers[1])
  BY <1>1, <1>2, <1>4, <1>5, <1>6
<1>8. Len(b) = 1 => p[Len(a) + 2] = callees[1] /\ Len(callees) >= 1
  BY <1>1, <1>2, <1>4, <1>6, LenProperties
<1>9. Len(p) \in {Len(a) + 1, Len(a) + 2} /\ (Len(p) = Len(a) + 2 => Len(b) = 1)
  BY <1>1, <1>2, <1>4, <1>6
<1>10. Through(n, callers, callees) = p
  BY DEF Through, a, b, q
<1>. QED BY <1>1, <1>6, <1>7, <1>8, <1>9, <1>10 DEF a

\* The calls that are left after the cut: when fewer are left than may be, the
\* calls of the path are among them.
LEMMA KeptCalls ==
    ASSUME NEW n, NEW S, IsFiniteSet(S), NEW T,
           NEW callers \in Orders(S), NEW callees \in Orders(T), IsFiniteSet(T)
    PROVE  LET K == Elements(First(CallList(n, callers, callees), EdgeCap)) IN
           /\ \A e \in K : (\E m \in S : e = Call(m, n)) \/ (\E m \in T : e = Call(n, m))
           /\ IsFiniteSet(K)
           /\ Cardinality(K) < EdgeCap =>
                 /\ Len(callers) >= 1 => Call(callers[1], n) \in K
                 /\ Len(callees) >= 1 => Call(n, callees[1]) \in K
<1>. DEFINE ins == [i \in 1..Len(callers) |-> Call(callers[i], n)]
            outs == [i \in 1..Len(callees) |-> Call(n, callees[i])]
            calls == ins \o outs
            C == {Call(m, n) : m \in S} \cup {Call(n, m) : m \in T}
            f == First(calls, EdgeCap)
            K == Elements(f)
<1>1. /\ callers \in Seq(S) /\ Len(callers) \in Nat /\ DOMAIN callers = 1..Len(callers)
      /\ \A i, j \in 1..Len(callers) : i # j => callers[i] # callers[j]
      /\ \A i \in 1..Len(callers) : callers[i] \in S
  BY OrderListsOnce, LenProperties, ElementOfSeq
<1>2. /\ callees \in Seq(T) /\ Len(callees) \in Nat /\ DOMAIN callees = 1..Len(callees)
      /\ \A i \in 1..Len(callees) : callees[i] \in T
  BY OrderListsOnce, LenProperties, ElementOfSeq
<1>3. /\ ins \in Seq(C) /\ Len(ins) = Len(callers)
      /\ \A i \in 1..Len(ins) : ins[i] = Call(callers[i], n)
  <2>1. ins \in [1..Len(callers) -> C]
    BY <1>1
  <2>. HIDE DEF C
  <2>2. ins \in Seq(C) /\ Len(ins) = Len(callers)
    BY <1>1, <2>1, FunctionIsSeq
  <2>. QED BY <2>2
<1>4. /\ outs \in Seq(C) /\ Len(outs) = Len(callees)
      /\ \A i \in 1..Len(outs) : outs[i] = Call(n, callees[i])
  <2>1. outs \in [1..Len(callees) -> C]
    BY <1>2
  <2>. HIDE DEF C
  <2>2. outs \in Seq(C) /\ Len(outs) = Len(callees)
    BY <1>2, <2>1, FunctionIsSeq
  <2>. QED BY <2>2
<1>. HIDE DEF ins, outs, C
<1>5. /\ calls \in Seq(C) /\ Len(calls) = Len(callers) + Len(callees)
      /\ \A i \in 1..Len(callers) + Len(callees) :
            calls[i] = IF i <= Len(callers) THEN ins[i] ELSE outs[i - Len(callers)]
  BY <1>3, <1>4, ConcatProperties
<1>. HIDE DEF calls
<1>6. /\ f \in Seq(C) /\ Len(f) = IF Len(calls) < EdgeCap THEN Len(calls) ELSE EdgeCap
      /\ \A i \in 1..Len(f) : f[i] = calls[i]
  BY <1>5, FirstProperties, SearchAssumption
<1>. HIDE DEF f
<1>7. K \subseteq C /\ K = {f[i] : i \in 1..Len(f)} /\ IsFiniteSet(K) /\ Len(f) \in Nat
  BY <1>6, ElementsAreMembers, ElementsFinite, LenProperties
<1>8. \A e \in K : (\E m \in S : e = Call(m, n)) \/ (\E m \in T : e = Call(n, m))
  BY <1>7 DEF C
<1>. HIDE DEF K
<1>9. ASSUME Cardinality(K) < EdgeCap
      PROVE  Len(callers) < EdgeCap
  <2>1. SUFFICES ASSUME EdgeCap <= Len(callers) PROVE FALSE
    BY <1>1, SearchAssumption
  <2>2. EdgeCap \in Nat /\ Len(f) = EdgeCap
    BY <1>1, <1>2, <1>5, <1>6, <2>1, SearchAssumption
  <2>3. \A i \in 1..EdgeCap : i \in 1..Len(callers) /\ f[i] = Call(callers[i], n)
    <3>. SUFFICES ASSUME NEW i \in 1..EdgeCap
                  PROVE  i \in 1..Len(callers) /\ f[i] = Call(callers[i], n)
      OBVIOUS
    <3>1. i \in 1..Len(callers) /\ i \in 1..Len(f) /\ i \in 1..Len(callers) + Len(callees)
      BY <1>1, <1>2, <2>1, <2>2
    <3>2. f[i] = calls[i]
      BY <1>6, <3>1
    <3>3. calls[i] = ins[i]
      BY <1>5, <3>1
    <3>4. ins[i] = Call(callers[i], n)
      BY <1>3, <3>1
    <3>. QED BY <3>1, <3>2, <3>3, <3>4
  <2>4. \A i, j \in 1..EdgeCap : f[i] = f[j] => i = j
    <3>. SUFFICES ASSUME NEW i \in 1..EdgeCap, NEW j \in 1..EdgeCap, f[i] = f[j]
                  PROVE  i = j
      OBVIOUS
    <3>1. callers[i] = callers[j]
      <4>1. Call(callers[i], n) = Call(callers[j], n)
        BY <2>3
      <4>2. Call(callers[i], n).source = callers[i] /\ Call(callers[j], n).source = callers[j]
        BY DEF Call
      <4>. QED BY <4>1, <4>2
    <3>. QED BY <1>1, <2>3, <3>1
  <2>5. f \in [1..EdgeCap -> K]
    BY <1>6, <1>7, <2>2, LenProperties
  <2>6. f \in Injection(1..EdgeCap, K)
    BY <2>4, <2>5 DEF Injection, IsInjective
  <2>7. Cardinality(1..EdgeCap) <= Cardinality(K)
    BY <1>7, <2>6, FS_Injection
  <2>8. Cardinality(1..EdgeCap) = EdgeCap /\ Cardinality(K) \in Nat
    BY <1>7, <2>2, FS_Interval, FS_CardinalityType
  <2>. QED BY <1>9, <2>2, <2>7, <2>8
<1>10. ASSUME Cardinality(K) < EdgeCap
       PROVE  /\ Len(callers) >= 1 => Call(callers[1], n) \in K
              /\ Len(callees) >= 1 => Call(n, callees[1]) \in K
  <2>1. Len(callers) < EdgeCap /\ EdgeCap \in Nat
    BY <1>9, <1>10, SearchAssumption
  <2>2. ASSUME Len(callers) >= 1
        PROVE  Call(callers[1], n) \in K
    <3>1. 1 \in 1..Len(f) /\ f[1] = ins[1]
      BY <1>1, <1>2, <1>5, <1>6, <2>1, <2>2
    <3>. QED BY <1>1, <1>3, <1>7, <2>2, <3>1
  <2>3. ASSUME Len(callees) >= 1
        PROVE  Call(n, callees[1]) \in K
    <3>1. Len(callers) + 1 \in 1..Len(f) /\ f[Len(callers) + 1] = outs[1]
      BY <1>1, <1>2, <1>5, <1>6, <2>1, <2>3
    <3>. QED BY <1>2, <1>4, <1>7, <2>3, <3>1
  <2>. QED BY <2>2, <2>3
<1>11. CallList(n, callers, callees) = calls
  BY <1>1, <1>2 DEF CallList, calls, ins, outs
<1>12. K = Elements(First(CallList(n, callers, callees), EdgeCap))
  BY <1>11 DEF K, f
<1>. QED BY <1>7, <1>8, <1>10, <1>12

\* All that the requests need to know of an answer about n.
IsContextOf(n, a) ==
    /\ a.nodes \subseteq graph.nodes /\ n \in a.nodes
    /\ a.edges \subseteq Edges
    /\ \A e \in a.edges : n \in {e.source, e.target}
    /\ \E p : a.paths = {p}
    /\ \A p \in a.paths : p \in Seq(graph.nodes) /\ IsWalk(p) /\ n \in Elements(p)
    /\ Cardinality(a.nodes) < NodeCap /\ Cardinality(a.edges) < EdgeCap =>
          /\ \A e \in a.edges : {e.source, e.target} \subseteq a.nodes
          /\ \A p \in a.paths :
                Elements(p) \subseteq a.nodes /\ \A i \in Steps(p) : Between(p, i) \cap a.edges # {}

LEMMA ContextAnswers ==
    ASSUME IsFiniteSet(graph.nodes), NEW n \in graph.nodes,
           NEW callers \in Orders(Callers(n)), NEW callees \in Orders(Callees(n))
    PROVE  IsContextOf(n, ContextOf(n, callers, callees))
<1>. DEFINE around == <<n>> \o callers \o callees
            nodes == Kept(around)
            K == Elements(First(CallList(n, callers, callees), EdgeCap))
            p == Through(n, callers, callees)
            h == Len(First(callers, 1))
<1>1. /\ Callers(n) \subseteq graph.nodes /\ IsFiniteSet(Callers(n))
      /\ Callees(n) \subseteq graph.nodes /\ IsFiniteSet(Callees(n))
  BY FS_Subset DEF Callers, Callees
<1>2. /\ callers \in Seq(graph.nodes) /\ Elements(callers) = Callers(n)
      /\ callees \in Seq(graph.nodes) /\ Elements(callees) = Callees(n)
  BY <1>1, OrderListsOnce, SeqMonotonic
<1>3. /\ \A i \in 1..Len(callers) : callers[i] \in Callers(n)
      /\ \A i \in 1..Len(callees) : callees[i] \in Callees(n)
  BY <1>2, ElementsAreMembers
<1>4. /\ around \in Seq(graph.nodes) /\ Len(around) # 0 /\ around[1] = n
      /\ {n} \cup Callers(n) \cup Callees(n) \subseteq Elements(around)
  <2>. DEFINE q == <<n>> \o callers
  <2>1. /\ q \in Seq(graph.nodes) /\ Len(q) = 1 + Len(callers) /\ Len(callers) \in Nat
        /\ \A i \in 1..1 + Len(callers) : q[i] = IF i <= 1 THEN <<n>>[i] ELSE callers[i - 1]
    <3>1. <<n>> \in Seq(graph.nodes) /\ Len(<<n>>) = 1
      BY SingleNode
    <3>. QED BY <1>2, <3>1, ConcatProperties, LenProperties
  <2>2. q[1] = n /\ \A i \in 1..Len(callers) : i + 1 \in 1..Len(q) /\ q[i + 1] = callers[i]
    BY <2>1, SingleNode
  <2>. HIDE DEF q
  <2>3. /\ around \in Seq(graph.nodes) /\ Len(around) = Len(q) + Len(callees) /\ Len(callees) \in Nat
        /\ \A i \in 1..Len(q) + Len(callees) :
              around[i] = IF i <= Len(q) THEN q[i] ELSE callees[i - Len(q)]
    <3>1. around = q \o callees
      BY DEF q
    <3>. HIDE DEF around
    <3>. QED BY <1>2, <2>1, <3>1, ConcatProperties, LenProperties
  <2>. HIDE DEF around
  <2>4. around[1] = n /\ \A i \in 1..Len(callers) : i + 1 \in 1..Len(around) /\ around[i + 1] = callers[i]
    BY <2>1, <2>2, <2>3
  <2>5. \A i \in 1..Len(callees) : Len(q) + i \in 1..Len(around) /\ around[Len(q) + i] = callees[i]
    BY <2>1, <2>3
  <2>6. Elements(around) = {around[i] : i \in 1..Len(around)} /\ Len(around) \in Nat \ {0}
    <3>1. Len(around) \in Nat \ {0}
      BY <2>1, <2>3
    <3>. QED BY <2>3, <3>1, ElementsAreMembers
  <2>7. n \in Elements(around)
    BY <2>4, <2>6
  <2>8. Callers(n) \subseteq Elements(around)
    <3>1. Callers(n) = {callers[i] : i \in 1..Len(callers)}
      BY <1>2, ElementsAreMembers
    <3>. QED BY <2>4, <2>6, <3>1
  <2>9. Callees(n) \subseteq Elements(around)
    <3>1. Callees(n) = {callees[i] : i \in 1..Len(callees)}
      BY <1>2, ElementsAreMembers
    <3>. QED BY <2>5, <2>6, <3>1
  <2>. QED BY <2>3, <2>4, <2>6, <2>7, <2>8, <2>9
<1>. HIDE DEF around
<1>5. /\ nodes \subseteq Elements(around) /\ n \in nodes
      /\ Cardinality(nodes) < NodeCap => nodes = Elements(around)
  BY <1>4, KeptNodes
<1>6. nodes \subseteq graph.nodes
  BY <1>4, <1>5, ElementsAreMembers
<1>. HIDE DEF nodes
<1>7. /\ \A e \in K : (\E m \in Callers(n) : e = Call(m, n)) \/ (\E m \in Callees(n) : e = Call(n, m))
      /\ Cardinality(K) < EdgeCap =>
            /\ Len(callers) >= 1 => Call(callers[1], n) \in K
            /\ Len(callees) >= 1 => Call(n, callees[1]) \in K
  <2>. DEFINE S == Callers(n)
              T == Callees(n)
  <2>1. IsFiniteSet(S) /\ IsFiniteSet(T) /\ callers \in Orders(S) /\ callees \in Orders(T)
    BY <1>1
  <2>. HIDE DEF S, T
  <2>2. /\ \A e \in K : (\E m \in S : e = Call(m, n)) \/ (\E m \in T : e = Call(n, m))
        /\ Cardinality(K) < EdgeCap =>
              /\ Len(callers) >= 1 => Call(callers[1], n) \in K
              /\ Len(callees) >= 1 => Call(n, callees[1]) \in K
    BY <2>1, KeptCalls
  <2>. QED BY <2>2 DEF S, T
<1>. HIDE DEF K
<1>8. /\ \A m \in Callers(n) : Call(m, n) \in Edges /\ Call(m, n).source = m /\ Call(m, n).target = n
      /\ \A m \in Callees(n) : Call(n, m) \in Edges /\ Call(n, m).source = n /\ Call(n, m).target = m
  BY DEF Callers, Callees, Call, Edges
<1>9. /\ K \subseteq Edges
      /\ \A e \in K : n \in {e.source, e.target} /\ {e.source, e.target} \subseteq {n} \cup Callers(n) \cup Callees(n)
  BY <1>7, <1>8
<1>10. /\ h \in 0..1 /\ h <= Len(callers) /\ p \in Seq(graph.nodes)
       /\ Len(p) \in {h + 1, h + 2} /\ p[h + 1] = n
       /\ h = 1 => p[1] = callers[1]
       /\ Len(p) = h + 2 => p[h + 2] = callees[1] /\ Len(callees) >= 1
  BY <1>2, CenterPath
<1>. HIDE DEF p, h
<1>11. n \in Elements(p)
  <2>1. h + 1 \in 1..Len(p)
    BY <1>10
  <2>. QED BY <1>10, <2>1, ElementsAreMembers
<1>12. /\ Len(callers) \in Nat /\ Len(callees) \in Nat
       /\ h = 1 => 1 \in 1..Len(callers) /\ callers[1] \in Callers(n)
       /\ Len(p) = h + 2 => 1 \in 1..Len(callees) /\ callees[1] \in Callees(n)
  BY <1>2, <1>3, <1>10, LenProperties
\* A step of the path is a call to the symbol or a call of it.
<1>13. ASSUME NEW i \in 1..Len(p), i + 1 <= Len(p)
       PROVE  \/ h = 1 /\ p[i] = callers[1] /\ p[i + 1] = n
              \/ Len(p) = h + 2 /\ p[i] = n /\ p[i + 1] = callees[1]
  <2>1. CASE i = h + 1
    BY <1>10, <1>13, <2>1
  <2>2. CASE i # h + 1
    <3>1. h = 1 /\ i = 1
      BY <1>10, <1>13, <2>2
    <3>. QED BY <1>10, <3>1
  <2>. QED BY <2>1, <2>2
<1>14. IsWalk(p)
  <2>1. ASSUME NEW i \in 1..Len(p), i + 1 <= Len(p)
        PROVE  \E e \in Edges : e.source = p[i] /\ e.target = p[i + 1]
    <3>1. CASE h = 1 /\ p[i] = callers[1] /\ p[i + 1] = n
      <4>1. callers[1] \in Callers(n)
        BY <1>12, <3>1
      <4>2. /\ Call(callers[1], n) \in Edges
            /\ Call(callers[1], n).source = p[i] /\ Call(callers[1], n).target = p[i + 1]
        BY <1>8, <3>1, <4>1
      <4>. QED BY <4>2
    <3>2. CASE Len(p) = h + 2 /\ p[i] = n /\ p[i + 1] = callees[1]
      <4>1. callees[1] \in Callees(n)
        BY <1>12, <3>2
      <4>2. /\ Call(n, callees[1]) \in Edges
            /\ Call(n, callees[1]).source = p[i] /\ Call(n, callees[1]).target = p[i + 1]
        BY <1>8, <3>2, <4>1
      <4>. QED BY <4>2
    <3>. QED BY <1>13, <2>1, <3>1, <3>2
  <2>. QED BY <1>10, <2>1, WalkSteps
<1>15. ASSUME Cardinality(nodes) < NodeCap, Cardinality(K) < EdgeCap
       PROVE  /\ \A e \in K : {e.source, e.target} \subseteq nodes
              /\ Elements(p) \subseteq nodes /\ \A i \in Steps(p) : Between(p, i) \cap K # {}
  <2>1. {n} \cup Callers(n) \cup Callees(n) \subseteq nodes
    BY <1>4, <1>5, <1>15
  <2>2. \A e \in K : {e.source, e.target} \subseteq nodes
    BY <1>9, <2>1
  <2>3. /\ h = 1 => Call(callers[1], n) \in K
        /\ Len(p) = h + 2 => Call(n, callees[1]) \in K
    BY <1>7, <1>12, <1>15
  <2>4. \A i \in 1..Len(p) : p[i] \in nodes
    <3>. SUFFICES ASSUME NEW i \in 1..Len(p)
                  PROVE  p[i] \in nodes
      OBVIOUS
    <3>1. (i = h + 1) \/ (h = 1 /\ i = 1) \/ (Len(p) = h + 2 /\ i = h + 2)
      BY <1>10
    <3>. QED BY <1>10, <1>12, <2>1, <3>1
  <2>5. Elements(p) \subseteq nodes
    BY <1>10, <2>4, ElementsAreMembers
  <2>6. ASSUME NEW i \in Steps(p)
        PROVE  Between(p, i) \cap K # {}
    <3>1. i \in 1..Len(p) /\ i + 1 <= Len(p)
      BY <1>10, WalkSteps
    <3>2. \E e \in K : e \in Edges /\ e.source = p[i] /\ e.target = p[i + 1]
      <4>1. CASE h = 1 /\ p[i] = callers[1] /\ p[i + 1] = n
        <5>1. callers[1] \in Callers(n) /\ Call(callers[1], n) \in K
          BY <1>12, <2>3, <4>1
        <5>2. /\ Call(callers[1], n) \in Edges
              /\ Call(callers[1], n).source = p[i] /\ Call(callers[1], n).target = p[i + 1]
          BY <1>8, <4>1, <5>1
        <5>. QED BY <5>1, <5>2
      <4>2. CASE Len(p) = h + 2 /\ p[i] = n /\ p[i + 1] = callees[1]
        <5>1. callees[1] \in Callees(n) /\ Call(n, callees[1]) \in K
          BY <1>12, <2>3, <4>2
        <5>2. /\ Call(n, callees[1]) \in Edges
              /\ Call(n, callees[1]).source = p[i] /\ Call(n, callees[1]).target = p[i + 1]
          BY <1>8, <4>2, <5>1
        <5>. QED BY <5>1, <5>2
      <4>. QED BY <1>13, <3>1, <4>1, <4>2
    <3>. QED BY <3>2 DEF Between
  <2>. QED BY <2>2, <2>5, <2>6
<1>16. /\ ContextOf(n, callers, callees).nodes = nodes
       /\ ContextOf(n, callers, callees).edges = K
       /\ ContextOf(n, callers, callees).paths = {p}
  BY DEF ContextOf, nodes, around, K, p
<1>. QED BY <1>5, <1>6, <1>9, <1>10, <1>11, <1>14, <1>15, <1>16 DEF IsContextOf
=============================================================================
