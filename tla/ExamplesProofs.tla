--------------------------- MODULE ExamplesProofs ---------------------------
(***************************************************************************)
(* Theorems about the programs in examples/, for every graph and number of *)
(* workers.  The levels and ancestors of the specifications are functions  *)
(* defined by recursion on the number of edges; what they contain is       *)
(* proved by induction in set form: a set of numbers that has 0 and the    *)
(* successor of each of its members has all the natural numbers.           *)
(***************************************************************************)
EXTENDS Examples, FiniteSetTheorems, TLAPS

-----------------------------------------------------------------------------
(* Induction and recursion over the natural numbers.                       *)
Less == {ss \in Nat \X Nat : ss[1] < ss[2]}

LEMMA LessIsWellFounded == IsWellFoundedOn(Less, Nat)
BY Zenon, NatLessThanWellFounded DEF OpToRel, Less

LEMMA NatSet ==
    ASSUME NEW S, 0 \in S, \A n \in Nat : n \in S => n + 1 \in S
    PROVE  Nat \subseteq S
<1> DEFINE T == Nat \ S
<1> SUFFICES ASSUME T # {} PROVE FALSE
  OBVIOUS
<1>1. PICK x \in T : \A y \in T : ~(<<y, x>> \in Less)
  <2>1. T \subseteq Nat
    OBVIOUS
  <2> HIDE DEF T
  <2>2. QED
    BY <2>1, LessIsWellFounded, WFMin
<1>2. x # 0 /\ x - 1 \in Nat
  OBVIOUS
<1>3. x - 1 \notin T
  <2>1. <<x - 1, x>> \in Less
    BY <1>2 DEF Less
  <2> HIDE DEF T
  <2>2. QED
    BY <1>1, <2>1
<1>4. QED
  BY <1>2, <1>3

(* A start and a step determine a sequence: the first n + 1 members exist  *)
(* for every n, and two beginnings agree where both are defined.           *)
Begins(g, n, a, G) == g[0] = a /\ \A j \in 0 .. n - 1 : g[j + 1] = G[g[j]]
Beginnings(n, S, a, G) == {g \in [0 .. n -> S] : Begins(g, n, a, G)}

LEMMA RecursiveSequence ==
    ASSUME NEW S, NEW a \in S, NEW G \in [S -> S]
    PROVE  \E f \in [Nat -> S] : f[0] = a /\ \A n \in Nat : f[n + 1] = G[f[n]]
<1> DEFINE N == {n \in Nat : Beginnings(n, S, a, G) # {}}
<1>1. 0 \in N
  <2>1. [j \in 0 .. 0 |-> a] \in Beginnings(0, S, a, G)
    BY DEF Beginnings, Begins
  <2>2. QED
    BY <2>1
<1>2. ASSUME NEW n \in Nat, n \in N PROVE n + 1 \in N
  <2>1. PICK g \in [0 .. n -> S] : g[0] = a /\ \A j \in 0 .. n - 1 : g[j + 1] = G[g[j]]
    BY <1>2 DEF Beginnings, Begins
  <2> DEFINE h == [j \in 0 .. n + 1 |-> IF j = n + 1 THEN G[g[n]] ELSE g[j]]
  <2>2. h \in [0 .. n + 1 -> S]
    BY <2>1
  <2>3. h[0] = a
    BY <2>1
  <2>4. ASSUME NEW j \in 0 .. n + 1 - 1 PROVE h[j + 1] = G[h[j]]
    <3>1. CASE j = n
      BY <3>1
    <3>2. CASE j # n
      <4>1. j \in 0 .. n - 1 /\ j + 1 # n + 1 /\ j # n + 1 /\ j \in 0 .. n + 1 /\ j + 1 \in 0 .. n + 1
        BY <3>2
      <4>2. h[j + 1] = g[j + 1] /\ h[j] = g[j]
        BY <4>1
      <4>3. QED
        BY <2>1, <4>1, <4>2
    <3>3. QED
      BY <3>1, <3>2
  <2>5. h \in Beginnings(n + 1, S, a, G)
    <3> HIDE DEF h
    <3>1. QED
      BY <2>2, <2>3, <2>4 DEF Beginnings, Begins
  <2>6. QED
    BY <2>5
<1>3. \A n \in Nat : Beginnings(n, S, a, G) # {}
  <2> HIDE DEF N
  <2>1. Nat \subseteq N
    BY <1>1, <1>2, NatSet
  <2>2. QED
    BY <2>1 DEF N
<1>4. ASSUME NEW n \in Nat, NEW m \in Nat,
             NEW g \in Beginnings(n, S, a, G), NEW h \in Beginnings(m, S, a, G)
      PROVE  \A j \in Nat : j <= n /\ j <= m => g[j] = h[j]
  <2> DEFINE A == {j \in Nat : j <= n /\ j <= m => g[j] = h[j]}
  <2>1. 0 \in A
    BY DEF Beginnings, Begins
  <2>2. ASSUME NEW j \in Nat, j \in A PROVE j + 1 \in A
    <3> SUFFICES ASSUME j + 1 <= n, j + 1 <= m PROVE g[j + 1] = h[j + 1]
      OBVIOUS
    <3>1. j \in 0 .. n - 1 /\ j \in 0 .. m - 1 /\ g[j] = h[j]
      BY <2>2
    <3>2. g[j + 1] = G[g[j]] /\ h[j + 1] = G[h[j]]
      BY <3>1 DEF Beginnings, Begins
    <3>3. QED
      BY <3>1, <3>2
  <2>3. Nat \subseteq A
    <3> HIDE DEF A
    <3>1. QED
      BY <2>1, <2>2, NatSet
  <2>4. QED
    BY <2>3
<1> DEFINE pick == [n \in Nat |-> CHOOSE g \in Beginnings(n, S, a, G) : TRUE]
           f == [n \in Nat |-> pick[n][n]]
<1>5. \A n \in Nat : pick[n] \in Beginnings(n, S, a, G)
  BY <1>3
<1>6. f \in [Nat -> S]
  <2>1. \A n \in Nat : pick[n][n] \in S
    <3> HIDE DEF pick
    <3>1. QED
      BY <1>5 DEF Beginnings
  <2> HIDE DEF pick
  <2>2. QED
    BY <2>1
<1>7. f[0] = a
  <2>1. f[0] = pick[0][0]
    BY DEF f
  <2> HIDE DEF pick, f
  <2>2. QED
    BY <1>5, <2>1 DEF Beginnings, Begins
<1>8. ASSUME NEW n \in Nat PROVE f[n + 1] = G[f[n]]
  <2>1. f[n + 1] = pick[n + 1][n + 1] /\ f[n] = pick[n][n]
    BY DEF f
  <2> HIDE DEF pick, f
  <2>2. pick[n + 1][n] = pick[n][n]
    BY <1>4, <1>5
  <2>3. pick[n + 1][n + 1] = G[pick[n + 1][n]]
    <3>1. n \in 0 .. n + 1 - 1
      OBVIOUS
    <3>2. QED
      BY <1>5, <3>1 DEF Beginnings, Begins
  <2>4. QED
    BY <2>1, <2>2, <2>3
<1> HIDE DEF f
<1>9. QED
  BY <1>6, <1>7, <1>8

(* A growing sequence of subsets of a finite set that stands still once it *)
(* does not grow has come to a stop after as many steps as the set has     *)
(* members: up to the stop every step adds one.                            *)
LEMMA GrowthStops ==
    ASSUME NEW U, IsFiniteSet(U), NEW F \in [Nat -> SUBSET U], F[0] # {},
           \A n \in Nat : F[n] \subseteq F[n + 1],
           \A n \in Nat : F[n + 1] = F[n] => F[n + 1 + 1] = F[n + 1]
    PROVE  /\ Cardinality(U) \in Nat
           /\ \A n \in Nat : Cardinality(U) <= n + 1 => F[n + 1] = F[n]
<1>1. Cardinality(U) \in Nat
  BY FS_CardinalityType
<1>2. \A n \in Nat : /\ IsFiniteSet(F[n]) /\ Cardinality(F[n]) \in Nat
                     /\ Cardinality(F[n]) <= Cardinality(U)
  BY FS_Subset, FS_CardinalityType
<1>3. \A n \in Nat : F[n + 1] # F[n] => Cardinality(F[n + 1]) >= Cardinality(F[n]) + 1
  <2> SUFFICES ASSUME NEW n \in Nat, F[n + 1] # F[n]
               PROVE  Cardinality(F[n + 1]) >= Cardinality(F[n]) + 1
    OBVIOUS
  <2>1. F[n] \in SUBSET F[n + 1] /\ IsFiniteSet(F[n + 1])
    BY <1>2
  <2>2. /\ Cardinality(F[n]) <= Cardinality(F[n + 1])
        /\ Cardinality(F[n + 1]) = Cardinality(F[n]) => F[n + 1] = F[n]
    BY <2>1, FS_Subset
  <2>3. n + 1 \in Nat /\ Cardinality(F[n]) \in Nat /\ Cardinality(F[n + 1]) \in Nat
    BY <1>2
  <2>4. QED
    BY <2>2, <2>3
<1> DEFINE N == {n \in Nat : F[n + 1] = F[n] \/ Cardinality(F[n + 1]) >= n + 2}
<1>4. 0 \in N
  <2>1. Cardinality(F[0]) # 0
    BY <1>2, FS_EmptySet
  <2>2. Cardinality(F[0]) >= 1
    BY <1>2, <2>1
  <2>3. F[1] = F[0] \/ Cardinality(F[1]) >= Cardinality(F[0]) + 1
    BY <1>3
  <2>4. F[1] = F[0] \/ Cardinality(F[1]) >= 2
    BY <1>2, <2>2, <2>3
  <2>5. QED
    BY <2>4
<1>5. ASSUME NEW n \in Nat, n \in N PROVE n + 1 \in N
  <2>1. CASE F[n + 1] = F[n]
    BY <2>1
  <2>2. CASE Cardinality(F[n + 1]) >= n + 2
    <3>1. F[n + 1 + 1] = F[n + 1] \/ Cardinality(F[n + 1 + 1]) >= Cardinality(F[n + 1]) + 1
      BY <1>3
    <3>2. F[n + 1 + 1] = F[n + 1] \/ Cardinality(F[n + 1 + 1]) >= n + 1 + 2
      BY <1>2, <2>2, <3>1
    <3>3. QED
      BY <3>2
  <2>3. QED
    BY <1>5, <2>1, <2>2
<1>6. Nat \subseteq N
  <2> HIDE DEF N
  <2>1. QED
    BY <1>4, <1>5, NatSet
<1>7. ASSUME NEW n \in Nat, Cardinality(U) <= n + 1 PROVE F[n + 1] = F[n]
  <2>1. F[n + 1] = F[n] \/ Cardinality(F[n + 1]) >= n + 2
    BY <1>6
  <2>2. Cardinality(F[n + 1]) <= Cardinality(U)
    BY <1>2
  <2>3. Cardinality(F[n + 1]) \in Nat
    BY <1>2
  <2>4. QED
    BY <1>1, <1>7, <2>1, <2>2, <2>3
<1>8. QED
  BY <1>1, <1>7

(* What n steps along edges reach: everything there is after as many steps *)
(* as there are vertices.                                                  *)
Spreads(F, V, E, s, t) ==
    /\ F \in [Nat -> SUBSET V] /\ F[0] # {}
    /\ \A n \in Nat : \A v \in V :
          v \in F[n + 1] <=> v \in F[n] \/ \E e \in E : t[e] = v /\ s[e] \in F[n]

LEMMA ReachStops ==
    ASSUME NEW V, IsFiniteSet(V), NEW E, NEW s, NEW t, NEW F, Spreads(F, V, E, s, t)
    PROVE  /\ Cardinality(V) \in Nat
           /\ \A n \in Nat : Cardinality(V) <= n + 1 => F[n + 1] = F[n]
           /\ \A n, m \in Nat : F[n + 1] = F[n] /\ n <= m => F[m] = F[n]
           /\ \A e \in E : t[e] \in V /\ s[e] \in F[Cardinality(V)] => t[e] \in F[Cardinality(V)]
<1> USE DEF Spreads
<1>1. \A n \in Nat : F[n] \subseteq F[n + 1]
  OBVIOUS
<1>2. ASSUME NEW n \in Nat, F[n + 1] = F[n] PROVE F[n + 1 + 1] = F[n + 1]
  <2>1. n + 1 \in Nat
    OBVIOUS
  <2>2. \A v \in V : v \in F[n + 1 + 1] <=> v \in F[n + 1] \/ \E e \in E : t[e] = v /\ s[e] \in F[n + 1]
    BY <2>1
  <2>3. \A v \in V : v \in F[n + 1] <=> v \in F[n] \/ \E e \in E : t[e] = v /\ s[e] \in F[n]
    OBVIOUS
  <2>4. \A v \in V : v \in F[n + 1 + 1] <=> v \in F[n + 1]
    BY <1>2, <2>2, <2>3
  <2>5. n + 1 + 1 \in Nat
    OBVIOUS
  <2>6. F[n + 1 + 1] \subseteq V /\ F[n + 1] \subseteq V
    BY <2>1, <2>5
  <2>7. QED
    BY <2>4, <2>6
<1>3. /\ Cardinality(V) \in Nat
      /\ \A n \in Nat : Cardinality(V) <= n + 1 => F[n + 1] = F[n]
  <2>1. \A n \in Nat : F[n + 1] = F[n] => F[n + 1 + 1] = F[n + 1]
    BY <1>2
  <2>2. QED
    BY <1>1, <2>1, GrowthStops, Z3
<1>a. ASSUME NEW n \in Nat, F[n + 1] = F[n] PROVE \A m \in Nat : n <= m => F[m] = F[n]
  <2> DEFINE N == {m \in Nat : n <= m => F[m] = F[n] /\ F[m + 1] = F[m]}
  <2>1. 0 \in N
    BY <1>a
  <2>2. ASSUME NEW m \in Nat, m \in N PROVE m + 1 \in N
    <3>1. CASE n <= m
      <4>1. F[m] = F[n] /\ F[m + 1] = F[m]
        BY <2>2, <3>1
      <4>2. F[m + 1 + 1] = F[m + 1]
        BY <1>2, <4>1
      <4>3. QED
        BY <4>1, <4>2
    <3>2. CASE ~(n <= m)
      <4>1. n <= m + 1 => n = m + 1
        BY <3>2
      <4>2. QED
        BY <1>a, <4>1
    <3>3. QED
      BY <3>1, <3>2
  <2>3. Nat \subseteq N
    <3> HIDE DEF N
    <3>1. QED
      BY <2>1, <2>2, NatSet
  <2>4. QED
    BY <2>3
<1> DEFINE size == Cardinality(V)
<1>4. size \in Nat /\ F[size + 1] = F[size]
  <2>1. size \in Nat /\ size <= size + 1
    BY <1>3
  <2>2. QED
    BY <1>3, <2>1
<1> HIDE DEF size
<1>5. \A e \in E : t[e] \in V /\ s[e] \in F[size] => t[e] \in F[size]
  BY <1>4
<1>6. QED
  BY <1>3, <1>a, <1>5 DEF size

-----------------------------------------------------------------------------
(* wcc                                                                     *)
LEMMA WccGraphFacts ==
    /\ IsFiniteSet(WccVertices) /\ WccVertices \subseteq Nat
    /\ WccSource \in [WccEdges -> WccVertices] /\ WccTarget \in [WccEdges -> WccVertices]
    /\ \A S : W!Cardinality(S) = Cardinality(S)
    /\ (CHOOSE e \in WccEdges : TRUE) \in WccEdges
<1>1. \A S : W!IsFiniteSet(S) <=> IsFiniteSet(S)
  BY DEF W!IsFiniteSet, IsFiniteSet
<1>2. \A S : W!Cardinality(S) = Cardinality(S)
  BY Zenon DEF W!Cardinality, Cardinality
<1>3. W!GraphAssumption
  BY GraphAssumptions
<1>4. QED
  BY <1>1, <1>2, <1>3 DEF W!GraphAssumption

LEMMA WccWithin ==
    /\ W!Within \in [Nat -> [WccVertices -> SUBSET WccVertices]]
    /\ W!Within[0] = [v \in WccVertices |-> {v}]
    /\ \A n \in Nat : W!Within[n + 1] = [v \in WccVertices |-> W!Within[n][v] \union
           UNION {W!Within[n][WccSource[e]] : e \in {d \in WccEdges : WccTarget[d] = v}}]
<1> DEFINE S == [WccVertices -> SUBSET WccVertices]
           a == [v \in WccVertices |-> {v}]
           G == [before \in S |-> [v \in WccVertices |-> before[v] \union
                    UNION {before[WccSource[e]] : e \in {d \in WccEdges : WccTarget[d] = v}}]]
<1>1. a \in S
  OBVIOUS
<1>2. G \in [S -> S]
  <2>1. ASSUME NEW before \in S
        PROVE  [v \in WccVertices |-> before[v] \union
                    UNION {before[WccSource[e]] : e \in {d \in WccEdges : WccTarget[d] = v}}] \in S
    BY WccGraphFacts
  <2>2. QED
    BY <2>1
<1>3. PICK f \in [Nat -> S] : f[0] = a /\ \A n \in Nat : f[n + 1] = G[f[n]]
  <2> HIDE DEF S, a, G
  <2>1. QED
    BY <1>1, <1>2, RecursiveSequence
<1>4. f = [n \in Nat |-> IF n = 0 THEN a ELSE G[f[n - 1]]]
  <2> HIDE DEF S, a, G
  <2>1. \A n \in Nat : n # 0 => n - 1 \in Nat /\ n - 1 + 1 = n
    OBVIOUS
  <2>2. \A n \in Nat : f[n] = IF n = 0 THEN a ELSE G[f[n - 1]]
    BY <1>3, <2>1
  <2>3. QED
    BY <2>2
<1>5. f = [n \in Nat |-> IF n = 0 THEN a
                         ELSE [v \in WccVertices |-> f[n - 1][v] \union
                    UNION {f[n - 1][WccSource[e]] : e \in {d \in WccEdges : WccTarget[d] = v}}]]
  <2>1. \A n \in Nat : n # 0 => f[n - 1] \in S
    OBVIOUS
  <2>2. \A n \in Nat : n # 0 => G[f[n - 1]] = [v \in WccVertices |-> f[n - 1][v] \union
                    UNION {f[n - 1][WccSource[e]] : e \in {d \in WccEdges : WccTarget[d] = v}}]
    <3> HIDE DEF S
    <3>1. QED
      BY <2>1
  <2> HIDE DEF G, S, a
  <2>3. QED
    BY <1>4, <2>2
<1>6. W!Within = [n \in Nat |-> IF n = 0 THEN a
                         ELSE [v \in WccVertices |-> W!Within[n - 1][v] \union
                    UNION {W!Within[n - 1][WccSource[e]] : e \in {d \in WccEdges : WccTarget[d] = v}}]]
  BY <1>5, ZenonT(30) DEF W!Within
<1> DEFINE N == {n \in Nat : W!Within[n] \in S}
<1>7. ASSUME NEW n \in Nat
      PROVE  W!Within[n + 1] = [v \in WccVertices |-> W!Within[n][v] \union
           UNION {W!Within[n][WccSource[e]] : e \in {d \in WccEdges : WccTarget[d] = v}}]
  <2>1. ASSUME NEW j \in Nat, j # 0, j - 1 = n
        PROVE  W!Within[j] = [v \in WccVertices |-> W!Within[n][v] \union
                   UNION {W!Within[n][WccSource[e]] : e \in {d \in WccEdges : WccTarget[d] = v}}]
    <3>1. W!Within[j] = [v \in WccVertices |-> W!Within[j - 1][v] \union
                   UNION {W!Within[j - 1][WccSource[e]] : e \in {d \in WccEdges : WccTarget[d] = v}}]
      BY <1>6, <2>1, Zenon
    <3>2. QED
      BY <2>1, <3>1
  <2>2. n + 1 \in Nat /\ n + 1 # 0 /\ n + 1 - 1 = n
    OBVIOUS
  <2>3. QED
    BY <2>1, <2>2
<1>8. W!Within[0] = a
  BY <1>6
<1>9. Nat \subseteq N
  <2>1. 0 \in N
    BY <1>8, <1>1
  <2>2. ASSUME NEW n \in Nat, n \in N PROVE n + 1 \in N
    <3>1. \A e \in WccEdges : W!Within[n][WccSource[e]] \subseteq WccVertices
      BY <2>2, WccGraphFacts
    <3>2. [v \in WccVertices |-> W!Within[n][v] \union
              UNION {W!Within[n][WccSource[e]] : e \in {d \in WccEdges : WccTarget[d] = v}}] \in S
      BY <2>2, <3>1
    <3> HIDE DEF S
    <3>3. QED
      BY <1>7, <3>2
  <2> HIDE DEF N
  <2>3. QED
    BY <2>1, <2>2, NatSet
<1>10. W!Within \in [Nat -> S]
  <2>1. \A n \in Nat : W!Within[n] \in S
    BY <1>9
  <2>2. \E g : W!Within = [n \in Nat |-> g[n]]
    <3> HIDE DEF S, a
    <3>1. DOMAIN W!Within = Nat
      BY <1>6
    <3>2. W!Within = [n \in Nat |-> W!Within[n]]
      BY <1>6
    <3>3. QED
      BY <3>2
  <2> HIDE DEF S
  <2>3. QED
    BY <2>1, <2>2
<1>11. QED
  BY <1>7, <1>8, <1>10

(* The vertices from which a path of at most n edges leads to v.           *)
WccFrom(n, v) == W!Within[n][v]

LEMMA WccPaths ==
    ASSUME NEW n \in Nat, NEW v \in WccVertices
    PROVE  /\ WccFrom(n, v) \subseteq WccVertices
           /\ WccFrom(0, v) = {v}
           /\ \A u : u \in WccFrom(n + 1, v) <=>
                        \/ u \in WccFrom(n, v)
                        \/ \E e \in WccEdges : WccTarget[e] = v /\ u \in WccFrom(n, WccSource[e])
<1>1. W!Within[n][v] \subseteq WccVertices /\ W!Within[0][v] = {v}
  BY WccWithin
<1>2. W!Within[n + 1] = [x \in WccVertices |-> W!Within[n][x] \union
           UNION {W!Within[n][WccSource[e]] : e \in {d \in WccEdges : WccTarget[d] = x}}]
  BY WccWithin
<1>3. W!Within[n + 1][v] = W!Within[n][v] \union
         UNION {W!Within[n][WccSource[e]] : e \in {d \in WccEdges : WccTarget[d] = v}}
  BY <1>2
<1>4. ASSUME NEW u
      PROVE  u \in W!Within[n + 1][v] <=>
                \/ u \in W!Within[n][v]
                \/ \E e \in WccEdges : WccTarget[e] = v /\ u \in W!Within[n][WccSource[e]]
  BY <1>3
<1>5. QED
  BY <1>1, <1>4 DEF WccFrom

(* Ancestors has all the ancestors: longer paths bring no new ones.        *)
LEMMA WccSize ==
    /\ Cardinality(WccVertices) \in Nat
    /\ \A v : W!Ancestors[v] = WccFrom(Cardinality(WccVertices), v)
<1>1. Cardinality(WccVertices) \in Nat
  BY WccGraphFacts, FS_CardinalityType
<1>2. W!Cardinality(WccVertices) = Cardinality(WccVertices)
  BY WccGraphFacts
<1>3. QED
  BY <1>1, <1>2 DEF W!Ancestors, WccFrom

LEMMA WccAncestors ==
    /\ \A v \in WccVertices : v \in W!Ancestors[v] /\ W!Ancestors[v] \subseteq WccVertices
    /\ \A e \in WccEdges : W!Ancestors[WccSource[e]] \subseteq W!Ancestors[WccTarget[e]]
<1> DEFINE N == {n \in Nat : \A v \in WccVertices : v \in WccFrom(n, v)}
           size == Cardinality(WccVertices)
<1>1. Nat \subseteq N
  <2>1. 0 \in N
    BY WccPaths
  <2>2. ASSUME NEW n \in Nat, n \in N PROVE n + 1 \in N
    BY <2>2, WccPaths
  <2> HIDE DEF N
  <2>3. QED
    BY <2>1, <2>2, NatSet
<1>2. size \in Nat /\ \A v : W!Ancestors[v] = WccFrom(size, v)
  BY WccSize
<1> HIDE DEF size
<1>3. ASSUME NEW v \in WccVertices
      PROVE  v \in W!Ancestors[v] /\ W!Ancestors[v] \subseteq WccVertices
  BY <1>1, <1>2, WccPaths
<1>4. ASSUME NEW e \in WccEdges, NEW u \in W!Ancestors[WccSource[e]]
      PROVE  u \in W!Ancestors[WccTarget[e]]
  <2> DEFINE F == [n \in Nat |-> {v \in WccVertices : u \in WccFrom(n, v)}]
  <2>1. u \in WccVertices
    BY <1>3, WccGraphFacts
  <2>2. F \in [Nat -> SUBSET WccVertices] /\ F[0] # {}
    <3>1. u \in WccFrom(0, u)
      BY <2>1, WccPaths
    <3>2. QED
      BY <2>1, <3>1
  <2>3. ASSUME NEW n \in Nat, NEW v \in WccVertices
        PROVE  v \in F[n + 1] <=> v \in F[n] \/ \E d \in WccEdges : WccTarget[d] = v /\ WccSource[d] \in F[n]
    <3>1. u \in WccFrom(n + 1, v) <=>
             \/ u \in WccFrom(n, v)
             \/ \E d \in WccEdges : WccTarget[d] = v /\ u \in WccFrom(n, WccSource[d])
      BY WccPaths
    <3>2. \A d \in WccEdges : WccSource[d] \in WccVertices
      BY WccGraphFacts
    <3>3. QED
      BY <3>1, <3>2
  <2>4. WccSource[e] \in F[size] /\ WccTarget[e] \in WccVertices
    BY <1>2, WccGraphFacts
  <2>5. WccTarget[e] \in F[size]
    <3>1. Spreads(F, WccVertices, WccEdges, WccSource, WccTarget)
      <4> HIDE DEF F
      <4>1. QED
        BY <2>2, <2>3 DEF Spreads
    <3> HIDE DEF F
    <3>2. QED
      BY <2>4, <3>1, ReachStops, WccGraphFacts DEF size
  <2>6. QED
    BY <1>2, <2>5
<1>5. QED
  BY <1>3, <1>4

(* When no label can flow along an edge any more, none is above an         *)
(* ancestor.                                                               *)
LEMMA WccNoLower ==
    ASSUME NEW l \in [WccVertices -> WccVertices], \A v \in WccVertices : l[v] <= v,
           \A e \in WccEdges : ~(l[WccSource[e]] < l[WccTarget[e]])
    PROVE  \A v \in WccVertices : \A u \in W!Ancestors[v] : l[v] <= u
<1> DEFINE N == {n \in Nat : \A v \in WccVertices : \A u \in WccFrom(n, v) : l[v] <= u}
<1>1. \A v \in WccVertices : l[v] \in Nat /\ v \in Nat
  BY WccGraphFacts
<1>2. 0 \in N
  BY WccPaths
<1>3. ASSUME NEW n \in Nat, n \in N PROVE n + 1 \in N
  <2> SUFFICES ASSUME NEW v \in WccVertices, NEW u \in WccFrom(n + 1, v) PROVE l[v] <= u
    OBVIOUS
  <2>1. CASE u \in WccFrom(n, v)
    BY <1>3, <2>1
  <2>2. CASE u \notin WccFrom(n, v)
    <3>1. PICK e \in WccEdges : WccTarget[e] = v /\ u \in WccFrom(n, WccSource[e])
      BY <2>2, WccPaths
    <3>2. WccSource[e] \in WccVertices /\ l[v] <= l[WccSource[e]]
      <4>1. WccSource[e] \in WccVertices /\ ~(l[WccSource[e]] < l[v])
        BY <3>1, WccGraphFacts
      <4>2. QED
        BY <1>1, <4>1
    <3>3. l[WccSource[e]] <= u
      BY <1>3, <3>1, <3>2
    <3>4. u \in Nat
      BY <3>1, <3>2, WccPaths, WccGraphFacts
    <3>5. QED
      BY <1>1, <3>2, <3>3, <3>4
  <2>3. QED
    BY <2>1, <2>2
<1>4. Nat \subseteq N
  <2> HIDE DEF N
  <2>1. QED
    BY <1>2, <1>3, NatSet
<1>5. QED
  BY <1>4, WccSize

-----------------------------------------------------------------------------
(* Workers are busy during a pass only, and what they hold of a label came *)
(* from an ancestor.  A pass that returns 0 has marked nobody.             *)
WccInPlace ==
    /\ mainPc # "pass" => pending = {} /\ \A w \in Workers : pc[w] = "idle"
    /\ \A w \in Workers :
          /\ pc[w] \in {"compare", "load", "cas"} => b[w] \in W!Ancestors[WccSource[edge[w]]]
          /\ pc[w] = "cas" => b[w] < c[w]
WccLabels == \A v \in WccVertices : label[v] <= v /\ label[v] \in W!Ancestors[v]
WccQuiet ==
    /\ mainPc = "pass" /\ written = 0 => active_out = {}
    /\ mainPc # "pass" /\ active_vertices = 0 => active_out = {}
    /\ mainPc = "done" => active_vertices = 0
WccIInv == W!TypeOK /\ W!NothingForgotten /\ WccInPlace /\ WccLabels /\ WccQuiet

LEMMA WccInit == W!Init => WccIInv
<1> SUFFICES ASSUME W!Init PROVE WccIInv
  OBVIOUS
<1> USE DEF W!Init
<1>1. W!TypeOK
  BY WccGraphFacts, FS_CardinalityType DEF W!TypeOK
<1>2. W!NothingForgotten
  BY WccGraphFacts DEF W!NothingForgotten
<1>3. WccInPlace
  BY DEF WccInPlace
<1>4. WccLabels
  BY WccGraphFacts, WccAncestors DEF WccLabels
<1>5. WccQuiet
  BY WccGraphFacts, FS_EmptySet DEF WccQuiet
<1>6. QED
  BY <1>1, <1>2, <1>3, <1>4, <1>5 DEF WccIInv

LEMMA WccMain == WccIInv /\ W!MainStep => WccIInv'
<1> SUFFICES ASSUME WccIInv, W!MainStep PROVE WccIInv'
  OBVIOUS
<1> USE DEF WccIInv, W!mainVars
<1>1. CASE W!StartPass
  <2> USE <1>1 DEF W!StartPass
  <2>1. W!TypeOK'
    BY DEF W!TypeOK
  <2>2. W!NothingForgotten'
    <3> SUFFICES ASSUME NEW e \in WccEdges, label[WccSource[e]] < label[WccTarget[e]]
                 PROVE  e \in pending'
      BY DEF W!NothingForgotten
    <3>1. \A w \in Workers : pc[w] = "idle"
      BY DEF WccInPlace
    <3>2. ~W!Marking(WccSource[e]) /\ ~W!InHand(e)
      BY <3>1 DEF W!Marking, W!InHand
    <3>3. WccSource[e] \in active_out
      BY <3>2 DEF W!NothingForgotten
    <3>4. QED
      BY <3>3
  <2>3. WccInPlace' /\ WccLabels' /\ WccQuiet'
    BY DEF WccInPlace, WccLabels, WccQuiet
  <2>4. QED
    BY <2>1, <2>2, <2>3
<1>2. CASE W!EndPass
  <2> USE <1>2 DEF W!EndPass
  <2>1. W!TypeOK'
    BY DEF W!TypeOK
  <2>2. W!NothingForgotten'
    BY DEF W!NothingForgotten, W!Marking, W!InHand
  <2>3. WccInPlace' /\ WccLabels' /\ WccQuiet'
    BY DEF WccInPlace, WccLabels, WccQuiet
  <2>4. QED
    BY <2>1, <2>2, <2>3
<1>3. CASE W!CountComponents
  <2> USE <1>3 DEF W!CountComponents
  <2>1. W!TypeOK'
    <3>1. W!Cardinality({label[v] : v \in WccVertices}) \in Nat
      <4> DEFINE L == {label[v] : v \in WccVertices}
      <4>1. L \subseteq WccVertices
        BY DEF W!TypeOK
      <4> HIDE DEF L
      <4>2. Cardinality(L) \in Nat
        BY <4>1, WccGraphFacts, FS_Subset, FS_CardinalityType
      <4>3. W!Cardinality(L) = Cardinality(L)
        BY WccGraphFacts
      <4>4. QED
        BY <4>2, <4>3 DEF L
    <3>2. QED
      BY <3>1 DEF W!TypeOK
  <2>2. W!NothingForgotten'
    BY DEF W!NothingForgotten, W!Marking, W!InHand
  <2>3. WccInPlace' /\ WccLabels' /\ WccQuiet'
    BY DEF WccInPlace, WccLabels, WccQuiet
  <2>4. QED
    BY <2>1, <2>2, <2>3
<1>4. QED
  BY <1>1, <1>2, <1>3 DEF W!MainStep

LEMMA WccWorker ==
    ASSUME WccIInv, NEW w \in Workers, W!WorkerStep(w)
    PROVE  WccIInv'
<1> USE DEF WccIInv, W!mainVars
<1>0. mainPc = "pass"
  <2>1. mainPc # "pass" => pending = {} /\ pc[w] = "idle"
    BY DEF WccInPlace
  <2>2. QED
    BY <2>1 DEF W!WorkerStep, W!Take, W!ReadSource, W!Compare, W!Load, W!Cas, W!SetBit
<1>t. /\ label \in [WccVertices -> WccVertices]
      /\ edge[w] \in WccEdges /\ WccSource[edge[w]] \in WccVertices /\ WccTarget[edge[w]] \in WccVertices
      /\ \A v \in WccVertices : v \in Nat
      /\ b[w] \in Nat /\ c[w] \in Nat
  BY WccGraphFacts DEF W!TypeOK
<1>1. CASE W!Take(w)
  <2>1. PICK e \in pending : pending' = pending \ {e} /\ edge' = [edge EXCEPT ![w] = e]
    BY <1>1 DEF W!Take
  <2> USE <1>1 DEF W!Take
  <2>2. W!TypeOK'
    BY <2>1 DEF W!TypeOK
  <2>3. W!NothingForgotten'
    <3> SUFFICES ASSUME NEW d \in WccEdges, label[WccSource[d]] < label[WccTarget[d]]
                 PROVE  \/ WccSource[d] \in active_out \/ W!Marking(WccSource[d])' \/ d \in pending'
                        \/ W!InHand(d)'
      BY <1>0 DEF W!NothingForgotten
    <3>1. CASE d = e
      <4>1. edge'[w] = d /\ pc'[w] = "source"
        BY <2>1, <3>1 DEF W!TypeOK
      <4>2. W!InHand(d)'
        BY <4>1 DEF W!InHand
      <4>3. QED
        BY <4>2
    <3>2. CASE d # e
      <4>1. \A x \in Workers : x # w => edge'[x] = edge[x] /\ pc'[x] = pc[x]
        BY <2>1 DEF W!TypeOK
      <4>2. W!Marking(WccSource[d]) => W!Marking(WccSource[d])'
        BY <4>1 DEF W!Marking
      <4>3. W!InHand(d) => W!InHand(d)'
        BY <4>1 DEF W!InHand
      <4>4. QED
        BY <2>1, <3>2, <4>2, <4>3 DEF W!NothingForgotten
    <3>3. QED
      BY <3>1, <3>2
  <2>4. WccInPlace'
    BY <1>0, <2>1 DEF WccInPlace, W!TypeOK
  <2>5. WccLabels' /\ WccQuiet'
    BY <1>0 DEF WccLabels, WccQuiet
  <2>6. QED
    BY <2>2, <2>3, <2>4, <2>5
<1>2. CASE W!ReadSource(w)
  <2> USE <1>2 DEF W!ReadSource
  <2>1. W!TypeOK'
    BY <1>t DEF W!TypeOK
  <2>2. W!NothingForgotten'
    <3>1. \A x \in Workers : x # w => b'[x] = b[x] /\ pc'[x] = pc[x]
      BY DEF W!TypeOK
    <3>2. pc'[w] = "compare" /\ b'[w] = label[WccSource[edge[w]]]
      BY DEF W!TypeOK
    <3>3. \A v : W!Marking(v) => W!Marking(v)'
      BY <3>1 DEF W!Marking
    <3>4. \A e \in WccEdges : W!InHand(e) => W!InHand(e)'
      BY <1>t, <3>1, <3>2 DEF W!InHand
    <3>5. QED
      BY <3>3, <3>4 DEF W!NothingForgotten
  <2>3. WccInPlace'
    BY <1>0, <1>t DEF WccInPlace, W!TypeOK, WccLabels
  <2>4. WccLabels' /\ WccQuiet'
    BY <1>0 DEF WccLabels, WccQuiet
  <2>5. QED
    BY <2>1, <2>2, <2>3, <2>4
<1>3. CASE W!Compare(w)
  <2> USE <1>3 DEF W!Compare
  <2>1. W!TypeOK'
    BY <1>t DEF W!TypeOK
  <2>2. \A x \in Workers : x # w => b'[x] = b[x] /\ pc'[x] = pc[x]
    BY DEF W!TypeOK
  <2>3. \/ pc'[w] = "load" /\ b'[w] \in {b[w], label[WccSource[edge[w]]]}
        \/ pc'[w] = "idle" /\ b' = b /\ ~(b[w] < label[WccTarget[edge[w]]])
    BY DEF W!TypeOK
  <2>4. W!NothingForgotten'
    <3>1. \A v : W!Marking(v) => W!Marking(v)'
      BY <2>2 DEF W!Marking
    <3>2. \A e \in WccEdges : label[WccSource[e]] < label[WccTarget[e]] /\ W!InHand(e) => W!InHand(e)'
      <4> SUFFICES ASSUME NEW e \in WccEdges, label[WccSource[e]] < label[WccTarget[e]], W!InHand(e)
                   PROVE  W!InHand(e)'
        OBVIOUS
      <4>1. PICK x \in Workers :
                edge[x] = e /\ (pc[x] = "source" \/ (pc[x] \in {"compare", "load", "cas"} /\ b[x] <= label[WccSource[e]]))
        BY DEF W!InHand
      <4>2. CASE x # w
        BY <2>2, <4>1, <4>2 DEF W!InHand
      <4>3. CASE x = w
        <5>1. b[w] <= label[WccSource[e]] /\ edge[w] = e
          BY <4>1, <4>3
        <5>2. pc'[w] = "load" /\ b'[w] \in {b[w], label[WccSource[e]]}
          BY <1>t, <2>3, <5>1
        <5>3. b'[w] <= label[WccSource[e]]
          BY <1>t, <5>1, <5>2
        <5>4. QED
          BY <5>1, <5>2, <5>3 DEF W!InHand
      <4>4. QED
        BY <4>2, <4>3
    <3>3. QED
      BY <3>1, <3>2 DEF W!NothingForgotten
  <2>5. WccInPlace'
    BY <1>0, <1>t, <2>2, <2>3 DEF WccInPlace, WccLabels
  <2>6. WccLabels' /\ WccQuiet'
    BY <1>0 DEF WccLabels, WccQuiet
  <2>7. QED
    BY <2>1, <2>4, <2>5, <2>6
<1>4. CASE W!Load(w)
  <2> USE <1>4 DEF W!Load
  <2>1. W!TypeOK'
    BY <1>t DEF W!TypeOK
  <2>2. \A x \in Workers : x # w => c'[x] = c[x] /\ pc'[x] = pc[x]
    BY DEF W!TypeOK
  <2>3. /\ c'[w] = label[WccTarget[edge[w]]]
        /\ pc'[w] = IF label[WccTarget[edge[w]]] > b[w] THEN "cas" ELSE "idle"
    BY DEF W!TypeOK
  <2>4. W!NothingForgotten'
    <3>1. \A v : W!Marking(v) => W!Marking(v)'
      BY <2>2 DEF W!Marking
    <3>2. \A e \in WccEdges : label[WccSource[e]] < label[WccTarget[e]] /\ W!InHand(e) => W!InHand(e)'
      <4> SUFFICES ASSUME NEW e \in WccEdges, label[WccSource[e]] < label[WccTarget[e]], W!InHand(e)
                   PROVE  W!InHand(e)'
        OBVIOUS
      <4>1. PICK x \in Workers :
                edge[x] = e /\ (pc[x] = "source" \/ (pc[x] \in {"compare", "load", "cas"} /\ b[x] <= label[WccSource[e]]))
        BY DEF W!InHand
      <4>2. CASE x # w
        BY <2>2, <4>1, <4>2 DEF W!InHand
      <4>3. CASE x = w
        <5>1. b[w] <= label[WccSource[e]] /\ edge[w] = e
          BY <4>1, <4>3
        <5>2. pc'[w] = "cas"
          BY <1>t, <2>3, <5>1
        <5>3. QED
          BY <5>1, <5>2 DEF W!InHand
      <4>4. QED
        BY <4>2, <4>3
    <3>3. QED
      BY <3>1, <3>2 DEF W!NothingForgotten
  <2>5. WccInPlace'
    <3>1. pc'[w] = "cas" => b[w] < c'[w]
      BY <1>t, <2>3
    <3>2. QED
      BY <1>0, <1>t, <2>2, <2>3, <3>1 DEF WccInPlace
  <2>6. WccLabels' /\ WccQuiet'
    BY <1>0 DEF WccLabels, WccQuiet
  <2>7. QED
    BY <2>1, <2>4, <2>5, <2>6
<1>5. CASE W!Cas(w)
  <2> USE <1>5 DEF W!Cas
  <2>1. b[w] \in W!Ancestors[WccSource[edge[w]]] /\ b[w] < c[w]
    BY DEF WccInPlace
  <2>2. b[w] \in W!Ancestors[WccTarget[edge[w]]] /\ b[w] \in WccVertices
    BY <1>t, <2>1, WccAncestors
  <2>3. W!TypeOK'
    BY <1>t, <2>2 DEF W!TypeOK
  <2>4. \A x \in Workers : x # w => pc'[x] = pc[x]
    BY DEF W!TypeOK
  <2>5. CASE label[WccTarget[edge[w]]] = c[w]
    <3> DEFINE t == WccTarget[edge[w]]
    <3>1. pc'[w] = "set" /\ label' = [label EXCEPT ![t] = b[w]]
      BY <2>5 DEF W!TypeOK
    <3>2. label'[t] = b[w] /\ b[w] < label[t] /\ \A v \in WccVertices : v # t => label'[v] = label[v]
      BY <1>t, <2>1, <2>5, <3>1
    <3>3. W!Marking(t)' /\ \A v : W!Marking(v) => W!Marking(v)'
      <4>1. W!Marking(t)'
        BY <3>1 DEF W!Marking
      <4>2. \A v : W!Marking(v) => W!Marking(v)'
        BY <2>4 DEF W!Marking
      <4>3. QED
        BY <4>1, <4>2
    <3>4. W!NothingForgotten'
      <4> SUFFICES ASSUME NEW e \in WccEdges, label'[WccSource[e]] < label'[WccTarget[e]]
                   PROVE  \/ WccSource[e] \in active_out \/ W!Marking(WccSource[e])'
                          \/ e \in pending \/ W!InHand(e)'
        BY <1>0 DEF W!NothingForgotten
      <4>1. WccSource[e] \in WccVertices /\ WccTarget[e] \in WccVertices
        BY WccGraphFacts
      <4>2. CASE WccSource[e] = t
        BY <3>3, <4>2
      <4>3. CASE WccSource[e] # t
        <5>1. label'[WccSource[e]] = label[WccSource[e]]
          BY <3>2, <4>1, <4>3
        <5>2. label[WccSource[e]] < label[WccTarget[e]]
          <6>1. label[WccTarget[e]] \in Nat /\ label[WccSource[e]] \in Nat /\ label[t] \in Nat
            BY <1>t, <4>1
          <6>2. CASE WccTarget[e] = t
            BY <1>t, <3>2, <5>1, <6>1, <6>2
          <6>3. CASE WccTarget[e] # t
            BY <3>2, <4>1, <5>1, <6>3
          <6>4. QED
            BY <6>2, <6>3
        <5>3. W!InHand(e) => W!InHand(e)'
          <6> SUFFICES ASSUME W!InHand(e) PROVE W!InHand(e)'
            OBVIOUS
          <6>1. PICK x \in Workers :
                edge[x] = e /\ (pc[x] = "source" \/ (pc[x] \in {"compare", "load", "cas"} /\ b[x] <= label[WccSource[e]]))
            BY DEF W!InHand
          <6>2. x # w
            <7> SUFFICES ASSUME x = w PROVE FALSE
              OBVIOUS
            <7>1. b[w] <= label[WccSource[e]] /\ edge[w] = e
              BY <6>1
            <7>2. label'[WccTarget[e]] = b[w]
              BY <3>2, <7>1
            <7>3. label[WccSource[e]] \in Nat
              BY <1>t, <4>1
            <7>4. QED
              BY <1>t, <5>1, <7>1, <7>2, <7>3
          <6>3. QED
            BY <2>4, <5>1, <6>1, <6>2 DEF W!InHand
        <5>4. QED
          BY <3>3, <5>2, <5>3 DEF W!NothingForgotten
      <4>4. QED
        BY <4>2, <4>3
    <3>5. WccInPlace'
      BY <1>0, <1>t, <2>4, <3>1 DEF WccInPlace
    <3>6. WccLabels'
      <4> SUFFICES ASSUME NEW v \in WccVertices PROVE label'[v] <= v /\ label'[v] \in W!Ancestors[v]
        BY DEF WccLabels
      <4>1. label[v] <= v /\ label[v] \in W!Ancestors[v] /\ label[v] \in Nat /\ v \in Nat
        BY <1>t DEF WccLabels
      <4>2. CASE v = t
        BY <1>t, <2>2, <3>2, <4>1, <4>2
      <4>3. CASE v # t
        BY <3>2, <4>1, <4>3
      <4>4. QED
        BY <4>2, <4>3
    <3>7. WccQuiet'
      BY <1>0 DEF WccQuiet
    <3>8. QED
      BY <2>3, <3>4, <3>5, <3>6, <3>7
  <2>6. CASE label[WccTarget[edge[w]]] # c[w]
    <3>1. pc'[w] = "load" /\ label' = label
      BY <2>6 DEF W!TypeOK
    <3>2. W!NothingForgotten'
      <4>1. \A v : W!Marking(v) => W!Marking(v)'
        BY <2>4 DEF W!Marking
      <4>2. \A e \in WccEdges : W!InHand(e) => W!InHand(e)'
        BY <2>4, <3>1 DEF W!InHand
      <4>3. QED
        BY <3>1, <4>1, <4>2 DEF W!NothingForgotten
    <3>3. WccInPlace'
      BY <1>0, <2>4, <3>1 DEF WccInPlace
    <3>4. WccLabels' /\ WccQuiet'
      BY <1>0, <3>1 DEF WccLabels, WccQuiet
    <3>5. QED
      BY <2>3, <3>2, <3>3, <3>4
  <2>7. QED
    BY <2>5, <2>6
<1>6. CASE W!SetBit(w)
  <2> USE <1>6 DEF W!SetBit
  <2>1. W!TypeOK'
    BY <1>t DEF W!TypeOK
  <2>2. pc'[w] = "idle" /\ \A x \in Workers : x # w => pc'[x] = pc[x]
    BY DEF W!TypeOK
  <2>3. W!NothingForgotten'
    <3>1. \A v : W!Marking(v) => W!Marking(v)' \/ v \in active_out'
      BY <2>2 DEF W!Marking
    <3>2. \A e \in WccEdges : W!InHand(e) => W!InHand(e)'
      BY <2>2 DEF W!InHand
    <3>3. QED
      BY <3>1, <3>2 DEF W!NothingForgotten
  <2>4. WccInPlace'
    BY <1>0, <2>2 DEF WccInPlace
  <2>5. WccLabels' /\ WccQuiet'
    BY <1>0 DEF WccLabels, WccQuiet, W!TypeOK
  <2>6. QED
    BY <2>1, <2>3, <2>4, <2>5
<1>7. QED
  BY <1>1, <1>2, <1>3, <1>4, <1>5, <1>6 DEF W!WorkerStep

LEMMA WccImplies == WccIInv => W!Inv
<1> SUFFICES ASSUME WccIInv, mainPc = "done" PROVE W!Converges
  BY DEF WccIInv, W!Inv, W!Converges
<1> USE DEF WccIInv
<1>1. active_out = {} /\ \A w \in Workers : pc[w] = "idle"
  BY DEF WccQuiet, WccInPlace
<1>2. \A e \in WccEdges : ~(label[WccSource[e]] < label[WccTarget[e]])
  BY <1>1 DEF W!NothingForgotten, W!Marking, W!InHand
<1>3. label \in [WccVertices -> WccVertices] /\ \A v \in WccVertices : label[v] <= v
  BY DEF W!TypeOK, WccLabels
<1>4. \A v \in WccVertices : \A u \in W!Ancestors[v] : label[v] <= u
  BY <1>2, <1>3, WccNoLower
<1>5. QED
  BY <1>4 DEF W!Converges, WccLabels

-----------------------------------------------------------------------------
(* Nothing but the running program takes steps.                            *)
LEMMA RankKeepsProgram ==
    ASSUME P!MainStep \/ \E w \in Workers : P!WorkerStep(w)
    PROVE  program' = program
<1>1. P!MainStep => program' = program
  BY DEF P!MainStep, P!EndDegree, P!InitVertices, P!StartPass, P!EndPass, P!Leave, P!arguments
<1>2. ASSUME NEW w \in Workers, P!WorkerStep(w) PROVE program' = program
  BY <1>2 DEF P!WorkerStep, P!Take, P!Load, P!Cas, P!arguments
<1>3. QED
  BY <1>1, <1>2

Ranks == {"pagerank", "spmv", "pagerank-Delta"}

LEMMA OneProgram ==
    ASSUME [Next]_vars
    PROVE  /\ program' = program
           /\ \/ program = "bfs" /\ (B!MainStep \/ \E w \in BfsWorkers : B!WorkerStep(w))
              \/ program = "wcc" /\ (W!MainStep \/ \E w \in Workers : W!WorkerStep(w))
              \/ program = "mis" /\ (M!MainStep \/ \E w \in Workers : M!WorkerStep(w))
              \/ program = "k-cores" /\ (C!MainStep \/ \E w \in Workers : C!WorkerStep(w))
              \/ program = "radii" /\ (R!MainStep \/ \E w \in Workers : R!WorkerStep(w))
              \/ program \in Ranks /\ (P!MainStep \/ \E w \in Workers : P!WorkerStep(w))
              \/ UNCHANGED vars
<1>1. CASE MainStep
  BY <1>1, RankKeepsProgram DEF MainStep, Bfs, Wcc, Mis, KCores, Radii, Rank, Ranks
<1>2. ASSUME NEW w \in Workers, WorkerStep(w)
      PROVE  /\ program' = program
             /\ \/ program = "wcc" /\ W!WorkerStep(w)
                \/ program = "mis" /\ M!WorkerStep(w)
                \/ program = "k-cores" /\ C!WorkerStep(w)
                \/ program = "radii" /\ R!WorkerStep(w)
                \/ program \in Ranks /\ P!WorkerStep(w)
  BY <1>2, RankKeepsProgram DEF WorkerStep, Wcc, Mis, KCores, Radii, Rank, Ranks
<1>3. ASSUME NEW w \in BfsWorkers, BfsWorkerStep(w)
      PROVE  program' = program /\ program = "bfs" /\ B!WorkerStep(w)
  BY <1>3 DEF BfsWorkerStep, Bfs
<1>4. CASE UNCHANGED vars
  BY <1>4 DEF vars
<1>5. QED
  BY <1>1, <1>2, <1>3, <1>4 DEF Next, Finished

LEMMA FirstStates ==
    ASSUME Init
    PROVE  \/ program = "bfs" /\ B!Init
           \/ program = "wcc" /\ W!Init
           \/ program = "mis" /\ M!Init
           \/ program = "k-cores" /\ C!Init
           \/ program = "radii" /\ R!Init
           \/ program \in Ranks /\ P!Init
<1>1. P!Init => program \in Ranks
  BY DEF P!Init, Ranks
<1>2. QED
  BY <1>1 DEF Init

-----------------------------------------------------------------------------
(* wcc: every label that could still spread is going to, and every vertex  *)
(* ends with the smallest label of those that reach it.                    *)
THEOREM WccIsCorrect == Spec => []WccInv
<1> DEFINE I == program = "wcc" => WccIInv
<1>1. Init => I
  BY FirstStates, WccInit DEF Ranks
<1>2. I /\ [Next]_vars => I'
  <2> SUFFICES ASSUME I, [Next]_vars, program' = "wcc" PROVE WccIInv'
    OBVIOUS
  <2>1. program = "wcc" /\ WccIInv
    BY OneProgram
  <2>2. CASE W!MainStep
    BY <2>1, <2>2, WccMain
  <2>3. CASE \E w \in Workers : W!WorkerStep(w)
    BY <2>1, <2>3, WccWorker
  <2>4. CASE UNCHANGED vars
    <3>1. UNCHANGED <<label, active_in, active_out, active_vertices, mainPc, pending, pc, edge,
                      b, c, written, components>>
      BY <2>4 DEF vars, wccVars, frontierVars
    <3>2. W!TypeOK' /\ WccInPlace' /\ WccLabels' /\ WccQuiet'
      BY <2>1, <3>1 DEF WccIInv, W!TypeOK, WccInPlace, WccLabels, WccQuiet
    <3>3. W!NothingForgotten'
      BY <2>1, <3>1 DEF WccIInv, W!NothingForgotten, W!Marking, W!InHand
    <3>4. QED
      BY <3>2, <3>3 DEF WccIInv
  <2>5. QED
    BY <2>1, <2>2, <2>3, <2>4, OneProgram DEF Ranks
<1>3. I => WccInv
  BY WccImplies DEF WccInv
<1>4. QED
  BY <1>1, <1>2, <1>3, PTL DEF Spec

-----------------------------------------------------------------------------
(* mis: the result is a kernel because an iteration is antitone: if the    *)
(* sets S and Unbeaten(S) of two iterations contain one another, so do     *)
(* Unbeaten of them, and then equal numbers of survivors are equal sets.   *)
LEMMA MisGraphFacts ==
    /\ IsFiniteSet(MisVertices) /\ MisVertices \subseteq Nat
    /\ MisSource \in [MisEdges -> MisVertices] /\ MisTarget \in [MisEdges -> MisVertices]
    /\ \A S : M!Cardinality(S) = Cardinality(S)
    /\ (CHOOSE e \in MisEdges : TRUE) \in MisEdges
<1>1. \A S : M!IsFiniteSet(S) <=> IsFiniteSet(S)
  BY DEF M!IsFiniteSet, IsFiniteSet
<1>2. \A S : M!Cardinality(S) = Cardinality(S)
  BY Zenon DEF M!Cardinality, Cardinality
<1>3. M!GraphAssumption
  BY GraphAssumptions
<1>4. QED
  BY <1>1, <1>2, <1>3 DEF M!GraphAssumption

MisComparable(S, T) == S \subseteq T \/ T \subseteq S

\* Between passes nobody holds an edge.
MisQuiet == pending = {} /\ \A w \in Workers : pc[w] = "idle"

\* The edges of the pass that no worker is done with.
MisHeld(e) == e \in pending \/ \E w \in Workers : pc[w] # "idle" /\ edge[w] = e

MisBetween ==
    mainPc = "while" =>
        /\ MisQuiet
        /\ \A v \in MisVertices : in_mis[v]
        /\ active_vertices = Cardinality(active_out)
        /\ MisComparable(active_out, M!Unbeaten(active_out))

MisDuring ==
    mainPc \in {"pass", "survivors"} =>
        /\ active_vertices = Cardinality(active_in)
        /\ MisComparable(active_in, M!Unbeaten(active_in))
        /\ \A v \in MisVertices : ~in_mis[v] => v \in M!Beaten(active_in)
        /\ \A e \in MisEdges :
              MisSource[e] \in active_in /\ MisSource[e] < MisTarget[e] /\ in_mis[MisTarget[e]] => MisHeld(e)
        /\ \A e \in pending : MisSource[e] \in active_in
        /\ \A w \in Workers : pc[w] # "idle" => MisSource[edge[w]] \in active_in
        /\ \A w \in Workers : pc[w] = "remove" => MisSource[edge[w]] < MisTarget[edge[w]]

MisAfter == mainPc = "survivors" => MisQuiet

MisIterated ==
    mainPc \in {"while", "done"} => MisComparable(active_in, active_out)

MisAtEnd ==
    mainPc = "done" =>
        /\ MisQuiet
        /\ active_out = M!Unbeaten(active_out)
        /\ active_vertices = Cardinality(active_out)

(* The inductive invariant: what an edge in a worker's hands may still do, *)
(* and the count and the nesting of the sets that main compares.           *)
MisIInv == M!TypeOK /\ MisBetween /\ MisDuring /\ MisAfter /\ MisIterated /\ MisAtEnd

-----------------------------------------------------------------------------
\* More vertices in the set beat more vertices.
LEMMA MisUnbeatenAntitone ==
    ASSUME NEW S, NEW T, S \subseteq T
    PROVE  M!Unbeaten(T) \subseteq M!Unbeaten(S)
BY DEF M!Unbeaten, M!Beaten

LEMMA MisComparableNext ==
    ASSUME NEW S, MisComparable(S, M!Unbeaten(S))
    PROVE  MisComparable(M!Unbeaten(S), M!Unbeaten(M!Unbeaten(S)))
BY MisUnbeatenAntitone DEF MisComparable

LEMMA MisUnbeatenInVertices == \A S : M!Unbeaten(S) \subseteq MisVertices
BY DEF M!Unbeaten

\* Of two finite sets that contain one another and are equally large.
LEMMA MisSameSizeSameSet ==
    ASSUME NEW S \in SUBSET MisVertices, NEW T \in SUBSET MisVertices,
           MisComparable(S, T), Cardinality(S) = Cardinality(T)
    PROVE  S = T
<1>1. IsFiniteSet(S) /\ IsFiniteSet(T)
  BY FS_Subset, MisGraphFacts
<1>2. CASE S \subseteq T
  BY <1>1, <1>2, FS_Subset
<1>3. CASE T \subseteq S
  BY <1>1, <1>3, FS_Subset
<1>4. QED
  BY <1>2, <1>3 DEF MisComparable

LEMMA MisCountIsNat == \A S \in SUBSET MisVertices : Cardinality(S) \in Nat
BY FS_Subset, FS_CardinalityType, MisGraphFacts

\* At the end of a pass the survivors are those no active vertex beats.
LEMMA MisSurvivorsAreUnbeaten ==
    ASSUME MisIInv, mainPc = "survivors"
    PROVE  M!Survivors = M!Unbeaten(active_in)
<1> USE DEF MisIInv, M!TypeOK, MisQuiet, MisHeld
<1>1. \A v \in MisVertices : in_mis[v] => v \notin M!Beaten(active_in)
  BY MisGraphFacts DEF MisDuring, MisAfter, M!Beaten
<1>2. \A v \in MisVertices : ~in_mis[v] => v \in M!Beaten(active_in)
  BY DEF MisDuring
<1>3. QED
  BY <1>1, <1>2 DEF M!Survivors, M!Unbeaten

-----------------------------------------------------------------------------
LEMMA MisInit == M!Init => MisIInv
<1> SUFFICES ASSUME M!Init PROVE MisIInv
  OBVIOUS
<1> USE DEF M!Init
<1>1. M!TypeOK
  BY MisCountIsNat, MisGraphFacts DEF M!TypeOK
<1>2. MisBetween
  BY MisGraphFacts, MisUnbeatenInVertices DEF MisBetween, MisQuiet, MisComparable
<1>3. MisIterated
  BY DEF MisIterated, MisComparable
<1>4. QED
  BY <1>1, <1>2, <1>3 DEF MisIInv, MisDuring, MisAfter, MisAtEnd

\* Main's steps.
LEMMA MisStartPass == MisIInv /\ M!StartPass => MisIInv'
<1> SUFFICES ASSUME MisIInv, M!StartPass PROVE MisIInv'
  OBVIOUS
<1> USE DEF MisIInv, M!StartPass, M!bitmaps
<1>1. M!TypeOK'
  BY DEF M!TypeOK
<1>2. MisDuring'
  <2>1. active_vertices' = Cardinality(active_in') /\ MisComparable(active_in', M!Unbeaten(active_in'))
    BY DEF MisBetween
  <2>2. \A v \in MisVertices : in_mis'[v]
    BY DEF MisBetween
  <2>3. \A e \in MisEdges : MisSource[e] \in active_in' => MisHeld(e)'
    BY DEF MisHeld
  <2>4. \A w \in Workers : pc'[w] = "idle"
    BY DEF MisBetween, MisQuiet
  <2>5. QED
    BY <2>1, <2>2, <2>3, <2>4 DEF MisDuring
<1>3. QED
  BY <1>1, <1>2 DEF MisBetween, MisAfter, MisIterated, MisAtEnd

LEMMA MisEndPass == MisIInv /\ M!EndPass => MisIInv'
<1> SUFFICES ASSUME MisIInv, M!EndPass PROVE MisIInv'
  OBVIOUS
<1> USE DEF MisIInv, M!EndPass, M!bitmaps
<1>1. M!TypeOK'
  BY DEF M!TypeOK
<1>2. MisDuring'
  BY DEF MisDuring, MisComparable, M!Unbeaten, M!Beaten, MisHeld
<1>3. QED
  BY <1>1, <1>2 DEF MisBetween, MisAfter, MisIterated, MisAtEnd, MisQuiet

LEMMA MisCountSurvivors == MisIInv /\ M!CountSurvivors => MisIInv'
<1> SUFFICES ASSUME MisIInv, M!CountSurvivors PROVE MisIInv'
  OBVIOUS
<1> USE DEF M!CountSurvivors, M!bitmaps
<1>1. active_out' = M!Unbeaten(active_in)
  BY MisSurvivorsAreUnbeaten
<1>2. active_vertices' = Cardinality(active_out')
  BY MisGraphFacts
<1>3. active_vertices = Cardinality(active_in) /\ MisComparable(active_in, M!Unbeaten(active_in))
  BY DEF MisIInv, MisDuring
<1>4. active_in \subseteq MisVertices /\ active_out' \subseteq MisVertices
  BY <1>1, MisUnbeatenInVertices DEF MisIInv, M!TypeOK
<1>5. M!TypeOK'
  BY <1>2, <1>4, MisCountIsNat DEF MisIInv, M!TypeOK
<1>6. MisQuiet'
  BY DEF MisIInv, MisAfter, MisQuiet
<1>7. MisBetween'
  BY <1>1, <1>2, <1>3, <1>6, MisComparableNext DEF MisBetween, MisComparable, M!Unbeaten, M!Beaten
<1>8. MisIterated'
  BY <1>1, <1>3 DEF MisIterated, MisComparable
<1>9. MisAtEnd'
  <2> SUFFICES ASSUME mainPc' = "done" PROVE MisAtEnd'
    BY DEF MisAtEnd
  <2>1. active_in = active_out'
    BY <1>1, <1>2, <1>3, <1>4, MisSameSizeSameSet
  <2>2. active_out' = M!Unbeaten(active_out')
    BY <1>1, <2>1
  <2>3. QED
    BY <1>2, <1>6, <2>2 DEF MisAtEnd, M!Unbeaten, M!Beaten
<1>10. QED
  BY <1>5, <1>7, <1>8, <1>9 DEF MisIInv, MisDuring, MisAfter

\* A worker's steps.
LEMMA MisTake == ASSUME MisIInv, NEW w \in Workers, M!Take(w) PROVE MisIInv'
<1> USE DEF MisIInv, M!Take, M!bitmaps
<1>1. M!TypeOK'
  BY DEF M!TypeOK
<1>2. mainPc = "pass"
  BY DEF M!TypeOK, MisBetween, MisAfter, MisAtEnd, MisQuiet
<1>3. MisDuring'
  <2>1. \A e \in MisEdges : MisHeld(e) => MisHeld(e)'
    BY DEF M!TypeOK, MisHeld
  <2>2. \A v \in Workers : pc'[v] # "idle" => MisSource[edge'[v]] \in active_in
    BY <1>2 DEF M!TypeOK, MisDuring
  <2>3. \A v \in Workers : pc'[v] = "remove" => pc[v] = "remove" /\ edge'[v] = edge[v]
    BY DEF M!TypeOK
  <2>4. QED
    BY <1>2, <2>1, <2>2, <2>3 DEF MisDuring, MisComparable, M!Unbeaten, M!Beaten
<1>4. QED
  BY <1>1, <1>2, <1>3 DEF MisBetween, MisAfter, MisIterated, MisAtEnd

LEMMA MisTest == ASSUME MisIInv, NEW w \in Workers, M!Test(w) PROVE MisIInv'
<1> USE DEF MisIInv, M!Test, M!bitmaps
<1>1. M!TypeOK'
  BY DEF M!TypeOK
<1>2. mainPc = "pass"
  BY DEF M!TypeOK, MisBetween, MisAfter, MisAtEnd, MisQuiet
<1>3. MisDuring'
  <2>1. \A e \in MisEdges : MisSource[e] < MisTarget[e] /\ in_mis[MisTarget[e]] /\ MisHeld(e) => MisHeld(e)'
    BY DEF M!TypeOK, MisHeld
  <2>2. \A v \in Workers : pc'[v] # "idle" => pc[v] # "idle"
    BY DEF M!TypeOK
  <2>3. \A v \in Workers : pc'[v] = "remove" =>
           pc[v] = "remove" \/ MisSource[edge[v]] < MisTarget[edge[v]]
    BY DEF M!TypeOK
  <2>4. QED
    BY <1>2, <2>1, <2>2, <2>3 DEF MisDuring, MisComparable, M!Unbeaten, M!Beaten
<1>4. QED
  BY <1>1, <1>2, <1>3 DEF MisBetween, MisAfter, MisIterated, MisAtEnd

LEMMA MisRemove == ASSUME MisIInv, NEW w \in Workers, M!Remove(w) PROVE MisIInv'
<1> USE DEF MisIInv, M!Remove, M!bitmaps
<1>1. M!TypeOK'
  BY DEF M!TypeOK
<1>2. mainPc = "pass"
  BY DEF M!TypeOK, MisBetween, MisAfter, MisAtEnd, MisQuiet
<1>3. MisDuring'
  <2>1. MisTarget[edge[w]] \in M!Beaten(active_in)
    BY <1>2, MisGraphFacts DEF M!TypeOK, MisDuring, M!Beaten
  <2>2. \A v \in MisVertices : ~in_mis'[v] => ~in_mis[v] \/ v = MisTarget[edge[w]]
    BY DEF M!TypeOK
  <2>3. \A e \in MisEdges : in_mis'[MisTarget[e]] => in_mis[MisTarget[e]] /\ MisTarget[e] # MisTarget[edge[w]]
    BY MisGraphFacts DEF M!TypeOK
  <2>4. \A e \in MisEdges : MisTarget[e] # MisTarget[edge[w]] /\ MisHeld(e) => MisHeld(e)'
    BY DEF M!TypeOK, MisHeld
  <2>5. \A v \in Workers : pc'[v] # "idle" => pc'[v] = pc[v]
    BY DEF M!TypeOK
  <2>6. QED
    BY <1>2, <2>1, <2>2, <2>3, <2>4, <2>5 DEF MisDuring, MisComparable, M!Unbeaten, M!Beaten
<1>4. QED
  BY <1>1, <1>2, <1>3 DEF MisBetween, MisAfter, MisIterated, MisAtEnd

LEMMA MisStutter == MisIInv /\ UNCHANGED M!vars => MisIInv'
BY DEF MisIInv, M!vars, M!bitmaps, M!TypeOK, MisBetween, MisDuring, MisAfter, MisIterated, MisAtEnd,
       MisQuiet, MisHeld, MisComparable, M!Unbeaten, M!Beaten

LEMMA MisSteps == Spec => [](program = "mis" => MisIInv)
<1> DEFINE I == program = "mis" => MisIInv
<1>1. Init => I
  BY FirstStates, MisInit DEF Ranks
<1>2. I /\ [Next]_vars => I'
  <2> SUFFICES ASSUME I, [Next]_vars, program' = "mis" PROVE MisIInv'
    OBVIOUS
  <2>1. program = "mis" /\ MisIInv
    BY OneProgram
  <2>2. CASE M!MainStep
    BY <2>1, <2>2, MisStartPass, MisEndPass, MisCountSurvivors DEF M!MainStep
  <2>3. CASE \E w \in Workers : M!WorkerStep(w)
    BY <2>1, <2>3, MisTake, MisTest, MisRemove DEF M!WorkerStep
  <2>4. CASE UNCHANGED vars
    <3>1. UNCHANGED M!vars
      BY <2>4 DEF vars, frontierVars, M!vars, M!bitmaps
    <3>2. QED
      BY <2>1, <3>1, MisStutter
  <2>5. QED
    BY <2>1, <2>2, <2>3, <2>4, OneProgram DEF Ranks
<1>3. QED
  BY <1>1, <1>2, PTL DEF Spec

(* mis: a pass removes the targets of edges from smaller vertices of       *)
(* active_in and no others, in any order of the edges, and the sets of     *)
(* consecutive iterations contain one another.                             *)
THEOREM MisPassesAreExact == Spec => []MisInv
<1>1. MisIInv => M!PassRemovesBeaten
  BY MisSurvivorsAreUnbeaten DEF M!PassRemovesBeaten
<1>2. MisIInv => M!IterationsNested
  BY DEF MisIInv, MisIterated, M!IterationsNested, MisComparable
<1>3. (program = "mis" => MisIInv) => MisInv
  BY <1>1, <1>2 DEF MisInv, M!Inv, MisIInv
<1>4. QED
  BY <1>3, MisSteps, PTL

(* mis: stopping when two COUNTS agree leaves a fixed point, which on an   *)
(* undirected graph is a maximal independent set.                          *)
THEOREM MisIsFound == Spec => []ResultIsMIS
<1>1. ASSUME MisIInv PROVE M!ResultIsKernel
  BY <1>1, MisGraphFacts DEF MisIInv, MisAtEnd, M!ResultIsKernel
<1>2. ASSUME MisIInv PROVE M!ResultIsMIS
  <2> SUFFICES ASSUME mainPc = "done", M!Undirected
               PROVE  /\ \A u, v \in active_out : ~M!Adjacent(u, v)
                      /\ \A v \in MisVertices \ active_out :
                            \E u \in active_out : M!Adjacent(u, v)
    BY DEF M!ResultIsMIS
  <2>1. active_out = M!Unbeaten(active_out)
    BY <1>2 DEF MisIInv, MisAtEnd
  <2>2. \A v \in MisVertices \ active_out : \E u \in active_out : M!Adjacent(u, v)
    BY <2>1 DEF M!Unbeaten, M!Beaten, M!Adjacent
  <2>3. ASSUME NEW u \in active_out, NEW v \in active_out, M!Adjacent(u, v)
        PROVE  FALSE
    <3>1. PICK e \in MisEdges : MisSource[e] = u /\ MisTarget[e] = v
      BY <2>3 DEF M!Adjacent
    <3>2. PICK f \in MisEdges : MisSource[f] = v /\ MisTarget[f] = u
      BY <3>1 DEF M!Undirected
    <3>3. u \in Nat /\ v \in Nat /\ u # v
      BY <3>1, MisGraphFacts DEF M!Undirected
    <3>4. u \in MisVertices /\ v \in MisVertices
      BY <3>1, MisGraphFacts
    <3>5. CASE u < v
      BY <2>1, <3>1, <3>4, <3>5 DEF M!Unbeaten, M!Beaten
    <3>6. CASE v < u
      BY <2>1, <3>2, <3>4, <3>6 DEF M!Unbeaten, M!Beaten
    <3>7. QED
      BY <3>3, <3>5, <3>6
  <2>4. QED
    BY <2>2, <2>3
<1>3. (program = "mis" => MisIInv) => ResultIsMIS
  BY <1>1, <1>2 DEF ResultIsMIS
<1>4. QED
  BY <1>3, MisSteps, PTL

-----------------------------------------------------------------------------
(* bfs                                                                     *)
LEMMA BfsGraphFacts ==
    /\ IsFiniteSet(BfsVertices) /\ BfsVertices \subseteq Nat
    /\ BfsSource \in [BfsEdges -> BfsVertices] /\ BfsTarget \in [BfsEdges -> BfsVertices]
    /\ \A S : B!Cardinality(S) = Cardinality(S)
    /\ (CHOOSE e \in BfsEdges : TRUE) \in BfsEdges
<1>1. \A S : B!IsFiniteSet(S) <=> IsFiniteSet(S)
  BY DEF B!IsFiniteSet, IsFiniteSet
<1>2. \A S : B!Cardinality(S) = Cardinality(S)
  BY Zenon DEF B!Cardinality, Cardinality
<1>3. B!GraphAssumption
  BY GraphAssumptions
<1>4. QED
  BY <1>1, <1>2, <1>3 DEF B!GraphAssumption

LEMMA BfsWithin ==
    ASSUME start_vid \in BfsVertices
    PROVE  /\ B!Within \in [Nat -> SUBSET BfsVertices]
           /\ B!Within[0] = {start_vid}
           /\ \A n \in Nat : \A v : v \in B!Within[n + 1] <=>
                 \/ v \in B!Within[n]
                 \/ \E e \in BfsEdges : BfsTarget[e] = v /\ BfsSource[e] \in B!Within[n]
<1> DEFINE S == SUBSET BfsVertices
           More(before) == before \union {BfsTarget[e] : e \in {d \in BfsEdges : BfsSource[d] \in before}}
           G == [before \in S |-> More(before)]
<1>1. {start_vid} \in S /\ G \in [S -> S]
  BY BfsGraphFacts
<1>2. PICK f \in [Nat -> S] : f[0] = {start_vid} /\ \A n \in Nat : f[n + 1] = G[f[n]]
  <2> HIDE DEF S, G
  <2>1. QED
    BY <1>1, RecursiveSequence
<1>3. \A n \in Nat : f[n] = IF n = 0 THEN {start_vid} ELSE G[f[n - 1]]
  <2> HIDE DEF S, G
  <2>1. \A n \in Nat : n # 0 => n - 1 \in Nat /\ n - 1 + 1 = n
    OBVIOUS
  <2>2. QED
    BY <1>2, <2>1
<1>4. f = [n \in Nat |-> IF n = 0 THEN {start_vid} ELSE More(f[n - 1])]
  <2> HIDE DEF More
  <2>1. \A n \in Nat : n # 0 => G[f[n - 1]] = More(f[n - 1])
    OBVIOUS
  <2> HIDE DEF G, S
  <2>2. QED
    BY <1>2, <1>3, <2>1
<1>5. B!Within = [n \in Nat |-> IF n = 0 THEN {start_vid} ELSE More(B!Within[n - 1])]
  BY <1>4 DEF B!Within
<1>6. B!Within[0] = {start_vid} /\ \A n \in Nat : B!Within[n + 1] = More(B!Within[n])
  <2> HIDE DEF More
  <2>1. ASSUME NEW n \in Nat PROVE B!Within[n + 1] = More(B!Within[n])
    <3>1. ASSUME NEW j \in Nat, j # 0, j - 1 = n PROVE B!Within[j] = More(B!Within[n])
      BY <1>5, <3>1
    <3>2. n + 1 \in Nat /\ n + 1 # 0 /\ n + 1 - 1 = n
      OBVIOUS
    <3>3. QED
      BY <3>1, <3>2
  <2>2. QED
    BY <1>5, <2>1
<1> DEFINE N == {n \in Nat : B!Within[n] \in S}
<1>7. Nat \subseteq N
  <2>1. 0 \in N
    BY <1>6
  <2>2. ASSUME NEW n \in Nat, n \in N PROVE n + 1 \in N
    BY <1>6, <2>2, BfsGraphFacts
  <2> HIDE DEF N
  <2>3. QED
    BY <2>1, <2>2, NatSet
<1>8. B!Within \in [Nat -> S]
  <2> HIDE DEF More, S
  <2>1. \A n \in Nat : B!Within[n] \in S
    BY <1>7
  <2>2. B!Within = [n \in Nat |-> B!Within[n]]
    BY <1>5
  <2>3. QED
    BY <2>1, <2>2
<1>9. ASSUME NEW n \in Nat, NEW v
      PROVE  v \in B!Within[n + 1] <=>
                 \/ v \in B!Within[n]
                 \/ \E e \in BfsEdges : BfsTarget[e] = v /\ BfsSource[e] \in B!Within[n]
  BY <1>6
<1>10. QED
  BY <1>6, <1>8, <1>9

LEMMA BfsWithinSame ==
    ASSUME start_vid' = start_vid
    PROVE  B!Within' = B!Within /\ \A n : B!Level(n)' = B!Level(n)
<1>1. B!Within' = B!Within
  BY DEF B!Within
<1>2. QED
  BY <1>1 DEF B!Level

(* The levels end before there are as many as vertices.                    *)
LEMMA BfsLevels ==
    ASSUME start_vid \in BfsVertices
    PROVE  /\ Cardinality(BfsVertices) \in Nat /\ B!Reachable = B!Within[Cardinality(BfsVertices)]
           /\ \A n \in Nat : /\ B!Level(n) = IF n = 0 THEN {start_vid} ELSE B!Within[n] \ B!Within[n - 1]
                             /\ B!Level(n) \subseteq B!Within[n] /\ B!Within[n] \subseteq B!Within[n + 1]
                             /\ B!Level(n + 1) = B!Within[n + 1] \ B!Within[n]
                             /\ B!Level(n) # {} => n + 1 <= Cardinality(BfsVertices)
                             /\ B!Level(n) = {} => n # 0 /\ B!Within[n] = B!Reachable
<1> DEFINE F == B!Within
           size == Cardinality(BfsVertices)
<1>1. /\ F \in [Nat -> SUBSET BfsVertices] /\ F[0] = {start_vid}
      /\ \A n \in Nat : \A v : v \in F[n + 1] <=>
             v \in F[n] \/ \E e \in BfsEdges : BfsTarget[e] = v /\ BfsSource[e] \in F[n]
  BY BfsWithin
<1>2. size \in Nat /\ B!Reachable = F[size]
  <2>1. size \in Nat
    BY BfsGraphFacts, FS_CardinalityType
  <2>2. B!Cardinality(BfsVertices) = size
    BY BfsGraphFacts
  <2>3. QED
    BY <2>1, <2>2 DEF B!Reachable
<1>3. \A n \in Nat : /\ B!Level(n) = IF n = 0 THEN {start_vid} ELSE F[n] \ F[n - 1]
                     /\ B!Level(n + 1) = F[n + 1] \ F[n]
  BY DEF B!Level
<1> HIDE DEF F
<1>4. \A n \in Nat : F[n] \subseteq F[n + 1]
  BY <1>1
<1>5. /\ \A n \in Nat : size <= n + 1 => F[n + 1] = F[n]
      /\ \A n, m \in Nat : F[n + 1] = F[n] /\ n <= m => F[m] = F[n]
  <2>1. F[0] # {}
    BY <1>1
  <2>2. Spreads(F, BfsVertices, BfsEdges, BfsSource, BfsTarget)
    BY <1>1, <2>1 DEF Spreads
  <2>3. QED
    BY <2>2, ReachStops, BfsGraphFacts
<1>6. size # 0
  BY <1>2, BfsGraphFacts, FS_EmptySet
<1>7. ASSUME NEW n \in Nat
      PROVE  /\ B!Level(n) # {} => n + 1 <= size
             /\ B!Level(n) = {} => n # 0 /\ F[n] = F[size]
  <2>1. CASE n = 0
    BY <1>2, <1>3, <1>6, <2>1
  <2>2. CASE n # 0
    <3> DEFINE m == n - 1
    <3>1. m \in Nat /\ m + 1 = n
      BY <2>2
    <3> HIDE DEF m
    <3>2. B!Level(n) = F[m + 1] \ F[m]
      BY <1>3, <3>1
    <3>3. F[m + 1] # F[m] => ~(size <= m + 1)
      BY <1>5, <3>1
    <3>4. B!Level(n) # {} => n + 1 <= size
      BY <1>2, <3>1, <3>2, <3>3
    <3>5. ASSUME B!Level(n) = {} PROVE F[n] = F[size]
      <4>1. F[m + 1] = F[m]
        BY <1>4, <3>1, <3>2, <3>5
      <4>2. F[n] = F[m]
        BY <3>1, <4>1
      <4>3. CASE m <= size
        BY <1>2, <1>5, <3>1, <4>1, <4>2, <4>3
      <4>4. CASE ~(m <= size)
        <5>1. size <= size + 1 /\ size <= m
          BY <1>2, <3>1, <4>4
        <5>2. F[size + 1] = F[size]
          BY <1>2, <1>5, <5>1
        <5>3. F[m] = F[size]
          BY <1>2, <1>5, <3>1, <5>1, <5>2
        <5>4. QED
          BY <4>2, <5>3
      <4>5. QED
        BY <4>3, <4>4
    <3>6. QED
      BY <2>2, <3>4, <3>5
  <2>3. QED
    BY <2>1, <2>2
<1>8. \A n \in Nat : B!Level(n) \subseteq F[n]
  BY <1>1, <1>3
<1>9. QED
  BY <1>2, <1>3, <1>4, <1>7, <1>8 DEF F

-----------------------------------------------------------------------------
(* Between two passes exactly the vertices at most n edges away have a     *)
(* parent, and the frontier is the level n.  During a pass the vertices    *)
(* that were given a parent in it are in the frontier or in the hands of   *)
(* the one worker that won them.                                           *)
BfsSeen == {v \in BfsVertices : parent[v] # -1}
BfsIdle == pending = {} /\ \A w \in BfsWorkers : pc[w] = "idle"

BfsBetween(n) ==
    /\ BfsSeen = B!Within[n] /\ active_out = B!Level(n)
    /\ n > 0 => active_in = B!Level(n - 1) /\ active_in # {}

BfsHere(n, w) ==
    pc[w] # "idle" =>
        /\ BfsSource[edge[w]] \in B!Level(n)
        /\ pc[w] = "set" =>
              /\ BfsTarget[edge[w]] \in BfsSeen /\ BfsTarget[edge[w]] \notin B!Within[n]
              /\ \A x \in BfsWorkers : pc[x] = "set" /\ x # w => BfsTarget[edge[x]] # BfsTarget[edge[w]]

BfsDuring(n) ==
    /\ active_in = B!Level(n) /\ active_in # {}
    /\ B!Within[n] \subseteq BfsSeen /\ BfsSeen \subseteq B!Within[n + 1]
    /\ active_out = {v \in BfsSeen : v \notin B!Within[n]
                        /\ \A w \in BfsWorkers : pc[w] = "set" => BfsTarget[edge[w]] # v}
    /\ \A w \in BfsWorkers : BfsHere(n, w)
    /\ pending \subseteq {e \in BfsEdges : BfsSource[e] \in B!Level(n)}
    /\ \A e \in BfsEdges : e \notin pending /\ BfsSource[e] \in B!Level(n) =>
          \/ BfsTarget[e] \in BfsSeen
          \/ \E w \in BfsWorkers : edge[w] = e /\ pc[w] \in {"check", "cas"}

BfsPlace ==
    \/ /\ mainPc = "while" /\ BfsIdle
       /\ \E n \in Nat : BfsBetween(n)
       /\ active_vertices = Cardinality(active_out)
    \/ /\ mainPc = "pass"
       /\ \E n \in Nat : BfsDuring(n)
       /\ found = Cardinality(active_out)
    \/ mainPc = "done" /\ BfsIdle /\ B!DiscoversReachable

BfsIInv == B!TypeOK /\ BfsPlace /\ parent[start_vid] # -1 /\ B!ParentOneLevelUp

LEMMA BfsInit == B!Init => BfsIInv
<1> SUFFICES ASSUME B!Init PROVE BfsIInv
  OBVIOUS
<1> USE DEF B!Init
<1>1. start_vid \in Nat /\ -1 \notin Nat /\ \A v \in BfsVertices : v \in Nat
  BY BfsGraphFacts
<1>2. B!TypeOK
  BY BfsGraphFacts DEF B!TypeOK
<1>3. BfsBetween(0)
  <2>1. BfsSeen = {start_vid}
    BY <1>1 DEF BfsSeen
  <2>2. QED
    BY <2>1, BfsWithin DEF BfsBetween, B!Level
<1>4. active_vertices = Cardinality(active_out)
  BY FS_Singleton
<1>5. BfsPlace
  BY <1>3, <1>4 DEF BfsPlace, BfsIdle
<1>6. parent[start_vid] # -1 /\ B!ParentOneLevelUp
  BY <1>1 DEF B!ParentOneLevelUp
<1>7. QED
  BY <1>2, <1>5, <1>6 DEF BfsIInv

\* What a step that leaves the parents alone keeps.
LEMMA BfsKeepsTree ==
    ASSUME B!ParentOneLevelUp, parent' = parent, start_vid' = start_vid
    PROVE  B!ParentOneLevelUp' /\ BfsSeen' = BfsSeen
<1>1. \A n : B!Level(n)' = B!Level(n)
  BY BfsWithinSame
<1>2. QED
  BY <1>1 DEF B!ParentOneLevelUp, BfsSeen, B!Cardinality

LEMMA BfsMain == BfsIInv /\ B!MainStep => BfsIInv'
<1> SUFFICES ASSUME BfsIInv, B!MainStep PROVE BfsIInv'
  OBVIOUS
<1> USE DEF BfsIInv
<1>1. start_vid' = start_vid /\ parent' = parent /\ pc' = pc /\ edge' = edge
  BY DEF B!MainStep, B!StartPass, B!EndPass, B!CountDiscovered
<1>2. (parent[start_vid] # -1)' /\ B!ParentOneLevelUp' /\ BfsSeen' = BfsSeen
  BY <1>1, BfsKeepsTree
<1>3. start_vid \in BfsVertices /\ B!Within' = B!Within /\ \A n : B!Level(n)' = B!Level(n)
  BY <1>1, BfsWithinSame DEF B!TypeOK
<1>4. IsFiniteSet(BfsSeen) /\ Cardinality(BfsSeen) \in Nat
  <2>1. BfsSeen \subseteq BfsVertices
    BY DEF BfsSeen
  <2>2. QED
    BY <2>1, BfsGraphFacts, FS_Subset, FS_CardinalityType
<1>5. CASE B!StartPass
  <2> USE <1>5 DEF B!StartPass
  <2>1. B!TypeOK'
    BY DEF B!TypeOK
  <2>2. PICK n \in Nat : BfsBetween(n)
    BY DEF BfsPlace
  <2>3. BfsIdle /\ active_vertices = Cardinality(active_out)
    BY DEF BfsPlace
  <2>4. active_out # {}
    BY <2>3, FS_EmptySet
  <2>5. BfsDuring(n)'
    <3>1. B!Within[n] \subseteq B!Within[n + 1]
      BY <1>3, BfsLevels
    <3>2. active_in' = B!Level(n) /\ BfsSeen = B!Within[n]
      BY <2>2 DEF BfsBetween
    <3>3. \A w \in BfsWorkers : pc[w] = "idle"
      BY <2>3 DEF BfsIdle
    <3>4. \A w \in BfsWorkers : BfsHere(n, w)'
      BY <3>3, <1>1 DEF BfsHere
    <3>5. pending' = {e \in BfsEdges : BfsSource[e] \in B!Level(n)}
      BY <2>2 DEF BfsBetween
    <3>6. QED
      BY <1>2, <1>3, <2>4, <3>1, <3>2, <3>4, <3>5 DEF BfsDuring
  <2>6. found' = Cardinality(active_out')
    BY FS_EmptySet
  <2>7. BfsPlace'
    BY <2>5, <2>6 DEF BfsPlace
  <2>8. QED
    BY <1>2, <2>1, <2>7
<1>6. CASE B!EndPass
  <2> USE <1>6 DEF B!EndPass
  <2>1. B!TypeOK'
    BY DEF B!TypeOK
  <2>2. PICK n \in Nat : BfsDuring(n)
    BY DEF BfsPlace
  <2>3. found = Cardinality(active_out)
    BY DEF BfsPlace
  <2>4. BfsSeen = B!Within[n + 1]
    <3> SUFFICES ASSUME NEW v \in B!Within[n + 1], v \notin B!Within[n] PROVE v \in BfsSeen
      BY <2>2 DEF BfsDuring
    <3>1. PICK e \in BfsEdges : BfsTarget[e] = v /\ BfsSource[e] \in B!Within[n]
      BY <1>3, BfsWithin
    <3>2. BfsSource[e] \in B!Level(n)
      <4>1. CASE n = 0
        BY <1>3, <3>1, <4>1, BfsWithin DEF B!Level
      <4>2. CASE n # 0
        <5> DEFINE m == n - 1
        <5>1. m \in Nat /\ m + 1 = n
          BY <4>2
        <5> HIDE DEF m
        <5>2. BfsSource[e] \notin B!Within[m]
          BY <1>3, <3>1, <5>1, BfsWithin
        <5>3. B!Level(n) = B!Within[n] \ B!Within[m]
          BY <1>3, <5>1, BfsLevels
        <5>4. QED
          BY <3>1, <5>2, <5>3
      <4>3. QED
        BY <4>1, <4>2
    <3>3. QED
      BY <2>2, <3>1, <3>2 DEF BfsDuring
  <2>5. active_out = B!Level(n + 1)
    <3>1. B!Level(n + 1) = B!Within[n + 1] \ B!Within[n]
      BY <1>3, BfsLevels
    <3>2. QED
      BY <2>2, <2>4, <3>1 DEF BfsDuring
  <2>6. BfsBetween(n + 1)'
    <3>1. n + 1 - 1 = n /\ active_in = B!Level(n) /\ active_in # {}
      BY <2>2 DEF BfsDuring
    <3>2. QED
      BY <1>2, <1>3, <2>4, <2>5, <3>1 DEF BfsBetween
  <2>7. BfsPlace'
    BY <2>3, <2>6 DEF BfsPlace, BfsIdle
  <2>8. QED
    BY <1>2, <2>1, <2>7
<1>7. CASE B!CountDiscovered
  <2> USE <1>7 DEF B!CountDiscovered
  <2>1. discovered_vertices' = Cardinality(BfsSeen)
    BY BfsGraphFacts DEF BfsSeen
  <2>2. B!TypeOK'
    BY <1>4, <2>1 DEF B!TypeOK
  <2>3. PICK n \in Nat : BfsBetween(n)
    BY DEF BfsPlace
  <2>4. BfsIdle /\ Cardinality(active_out) = 0
    BY DEF BfsPlace
  <2>5. active_out = {}
    <3>1. active_out \subseteq BfsVertices
      BY DEF B!TypeOK
    <3>2. IsFiniteSet(active_out)
      BY <3>1, BfsGraphFacts, FS_Subset
    <3>3. QED
      BY <2>4, <3>2, FS_EmptySet
  <2>6. BfsSeen = B!Reachable
    BY <1>3, <2>3, <2>5, BfsLevels DEF BfsBetween
  <2>7. B!DiscoversReachable'
    <3>1. B!Reachable' = B!Reachable
      BY <1>3 DEF B!Reachable
    <3>2. QED
      BY <2>1, <2>6, <3>1, BfsGraphFacts DEF B!DiscoversReachable
  <2>8. BfsPlace'
    BY <2>4, <2>7 DEF BfsPlace, BfsIdle
  <2>9. QED
    BY <1>2, <2>2, <2>8
<1>8. QED
  BY <1>5, <1>6, <1>7 DEF B!MainStep

LEMMA BfsWorker ==
    ASSUME BfsIInv, NEW w \in BfsWorkers, B!WorkerStep(w)
    PROVE  BfsIInv'
<1> USE DEF BfsIInv, B!mainVars
<1>1. mainPc = "pass" /\ mainPc' = mainPc /\ start_vid' = start_vid /\ active_in' = active_in
      /\ active_vertices' = active_vertices /\ discovered_vertices' = discovered_vertices
  <2>1. mainPc # "pass" => BfsIdle
    BY DEF BfsPlace
  <2>2. QED
    BY <2>1 DEF BfsIdle, B!WorkerStep, B!Take, B!Check, B!Cas, B!SetBit
<1>2. PICK n \in Nat : BfsDuring(n)
  BY <1>1 DEF BfsPlace
<1>3. found = Cardinality(active_out)
  BY <1>1 DEF BfsPlace
<1>4. start_vid \in BfsVertices /\ B!Within' = B!Within /\ \A m : B!Level(m)' = B!Level(m)
  BY <1>1, BfsWithinSame DEF B!TypeOK
<1>5. /\ parent \in [BfsVertices -> BfsVertices \union {-1}]
      /\ edge[w] \in BfsEdges /\ BfsSource[edge[w]] \in BfsVertices /\ BfsTarget[edge[w]] \in BfsVertices
      /\ -1 \notin BfsVertices
  BY BfsGraphFacts DEF B!TypeOK
<1>6. active_out \subseteq BfsVertices /\ IsFiniteSet(active_out) /\ Cardinality(active_out) \in Nat
  <2>1. active_out \subseteq BfsVertices
    BY DEF B!TypeOK
  <2>2. QED
    BY <2>1, BfsGraphFacts, FS_Subset, FS_CardinalityType
<1>7. ASSUME BfsDuring(n)', found' = Cardinality(active_out') PROVE BfsPlace'
  BY <1>1, <1>7 DEF BfsPlace
<1> DEFINE t == BfsTarget[edge[w]]
<1>8. CASE B!Take(w)
  <2> USE <1>8 DEF B!Take
  <2>1. PICK e \in pending : pending' = pending \ {e} /\ edge' = [edge EXCEPT ![w] = e]
    OBVIOUS
  <2>2. B!TypeOK'
    BY <2>1 DEF B!TypeOK
  <2>3. B!ParentOneLevelUp' /\ BfsSeen' = BfsSeen /\ (parent[start_vid] # -1)'
    BY <1>1, BfsKeepsTree
  <2>4. /\ edge'[w] = e /\ pc'[w] = "check"
        /\ \A x \in BfsWorkers : x # w => edge'[x] = edge[x] /\ pc'[x] = pc[x]
    BY <2>1 DEF B!TypeOK
  <2>5. \A x \in BfsWorkers : BfsHere(n, x)'
    <3> SUFFICES ASSUME NEW x \in BfsWorkers PROVE BfsHere(n, x)'
      OBVIOUS
    <3>1. BfsHere(n, x) /\ BfsSource[e] \in B!Level(n)
      BY <1>2, <2>1 DEF BfsDuring
    <3>2. QED
      BY <1>4, <2>3, <2>4, <3>1 DEF BfsHere
  <2>6. active_out = {v \in BfsSeen : v \notin B!Within[n]
                        /\ \A x \in BfsWorkers : pc'[x] = "set" => BfsTarget[edge'[x]] # v}
    BY <1>2, <2>4 DEF BfsDuring
  <2>7. \A d \in BfsEdges : d \notin pending' /\ BfsSource[d] \in B!Level(n) =>
            \/ BfsTarget[d] \in BfsSeen
            \/ \E x \in BfsWorkers : edge'[x] = d /\ pc'[x] \in {"check", "cas"}
    BY <1>2, <2>1, <2>4 DEF BfsDuring
  <2>8. BfsDuring(n)'
    BY <1>1, <1>2, <1>4, <2>1, <2>3, <2>5, <2>6, <2>7 DEF BfsDuring
  <2>9. QED
    BY <1>3, <1>7, <2>2, <2>3, <2>8
<1>9. CASE B!Check(w)
  <2> USE <1>9 DEF B!Check
  <2>1. B!TypeOK'
    BY DEF B!TypeOK
  <2>2. B!ParentOneLevelUp' /\ BfsSeen' = BfsSeen /\ (parent[start_vid] # -1)'
    BY <1>1, BfsKeepsTree
  <2>3. /\ pc'[w] \in {"cas", "idle"} /\ (pc'[w] = "idle" => t \in BfsSeen)
        /\ \A x \in BfsWorkers : x # w => pc'[x] = pc[x]
    BY <1>5 DEF B!TypeOK, BfsSeen
  <2>4. \A x \in BfsWorkers : BfsHere(n, x)'
    <3> SUFFICES ASSUME NEW x \in BfsWorkers PROVE BfsHere(n, x)'
      OBVIOUS
    <3>1. BfsHere(n, x)
      BY <1>2 DEF BfsDuring
    <3>2. QED
      BY <1>4, <2>2, <2>3, <3>1 DEF BfsHere
  <2>5. active_out = {v \in BfsSeen : v \notin B!Within[n]
                        /\ \A x \in BfsWorkers : pc'[x] = "set" => BfsTarget[edge[x]] # v}
    BY <1>2, <2>3 DEF BfsDuring
  <2>6. \A d \in BfsEdges : d \notin pending /\ BfsSource[d] \in B!Level(n) =>
            \/ BfsTarget[d] \in BfsSeen
            \/ \E x \in BfsWorkers : edge[x] = d /\ pc'[x] \in {"check", "cas"}
    BY <1>2, <2>3 DEF BfsDuring
  <2>7. BfsDuring(n)'
    BY <1>1, <1>2, <1>4, <2>2, <2>4, <2>5, <2>6 DEF BfsDuring
  <2>8. QED
    BY <1>3, <1>7, <2>1, <2>2, <2>7
<1>10. CASE B!Cas(w) /\ parent[t] # -1
  <2> USE <1>10 DEF B!Cas
  <2>1. B!TypeOK'
    BY DEF B!TypeOK
  <2>2. B!ParentOneLevelUp' /\ BfsSeen' = BfsSeen /\ (parent[start_vid] # -1)'
    BY <1>1, BfsKeepsTree
  <2>3. pc'[w] = "idle" /\ t \in BfsSeen /\ \A x \in BfsWorkers : x # w => pc'[x] = pc[x]
    BY <1>5 DEF B!TypeOK, BfsSeen
  <2>4. \A x \in BfsWorkers : BfsHere(n, x)'
    <3> SUFFICES ASSUME NEW x \in BfsWorkers PROVE BfsHere(n, x)'
      OBVIOUS
    <3>1. BfsHere(n, x)
      BY <1>2 DEF BfsDuring
    <3>2. QED
      BY <1>4, <2>2, <2>3, <3>1 DEF BfsHere
  <2>5. active_out = {v \in BfsSeen : v \notin B!Within[n]
                        /\ \A x \in BfsWorkers : pc'[x] = "set" => BfsTarget[edge[x]] # v}
    BY <1>2, <2>3 DEF BfsDuring
  <2>6. \A d \in BfsEdges : d \notin pending /\ BfsSource[d] \in B!Level(n) =>
            \/ BfsTarget[d] \in BfsSeen
            \/ \E x \in BfsWorkers : edge[x] = d /\ pc'[x] \in {"check", "cas"}
    BY <1>2, <2>3 DEF BfsDuring
  <2>7. BfsDuring(n)'
    BY <1>1, <1>2, <1>4, <2>2, <2>4, <2>5, <2>6 DEF BfsDuring
  <2>8. QED
    BY <1>3, <1>7, <2>1, <2>2, <2>7
<1>11. CASE B!Cas(w) /\ parent[t] = -1
  <2> USE <1>11 DEF B!Cas
  <2>1. parent' = [parent EXCEPT ![t] = BfsSource[edge[w]]] /\ pc' = [pc EXCEPT ![w] = "set"]
    OBVIOUS
  <2>2. B!TypeOK'
    BY <1>5, <2>1 DEF B!TypeOK
  <2>3. /\ t \notin BfsSeen /\ BfsSeen' = BfsSeen \union {t}
        /\ parent'[t] = BfsSource[edge[w]] /\ parent'[t] # -1
        /\ \A v \in BfsVertices : v # t => parent'[v] = parent[v]
    BY <1>5, <2>1 DEF BfsSeen
  <2>4. pc[w] = "cas" /\ pc'[w] = "set" /\ \A x \in BfsWorkers : x # w => pc'[x] = pc[x]
    BY <2>1 DEF B!TypeOK
  <2>5. BfsSource[edge[w]] \in B!Level(n)
    BY <1>2, <2>4 DEF BfsDuring, BfsHere
  <2>6. t \notin B!Within[n] /\ t \in B!Within[n + 1]
    <3>1. t \notin B!Within[n]
      BY <1>2, <2>3 DEF BfsDuring
    <3>2. BfsSource[edge[w]] \in B!Within[n]
      BY <1>4, <2>5, BfsLevels
    <3>3. t \in B!Within[n + 1]
      BY <1>4, <1>5, <3>2, BfsWithin
    <3>4. QED
      BY <3>1, <3>3
  <2>7. \A x \in BfsWorkers : BfsHere(n, x)'
    <3> SUFFICES ASSUME NEW x \in BfsWorkers PROVE BfsHere(n, x)'
      OBVIOUS
    <3>1. \A y \in BfsWorkers : BfsHere(n, y)
      BY <1>2 DEF BfsDuring
    <3>2. \A y \in BfsWorkers : pc[y] = "set" => BfsTarget[edge[y]] # t
      BY <2>3, <3>1 DEF BfsHere
    <3>3. CASE x = w
      BY <1>4, <2>3, <2>4, <2>5, <2>6, <3>2, <3>3 DEF BfsHere
    <3>4. CASE x # w
      BY <1>4, <2>3, <2>4, <3>1, <3>2, <3>4 DEF BfsHere
    <3>5. QED
      BY <3>3, <3>4
  <2>8. active_out = {v \in BfsSeen' : v \notin B!Within[n]
                        /\ \A x \in BfsWorkers : pc'[x] = "set" => BfsTarget[edge[x]] # v}
    BY <1>2, <2>3, <2>4 DEF BfsDuring
  <2>9. \A d \in BfsEdges : d \notin pending /\ BfsSource[d] \in B!Level(n) =>
            \/ BfsTarget[d] \in BfsSeen'
            \/ \E x \in BfsWorkers : edge[x] = d /\ pc'[x] \in {"check", "cas"}
    BY <1>2, <2>3, <2>4 DEF BfsDuring
  <2>10. BfsDuring(n)'
    <3>1. B!Within[n] \subseteq BfsSeen' /\ BfsSeen' \subseteq B!Within[n + 1]
      BY <1>2, <2>3, <2>6 DEF BfsDuring
    <3>2. QED
      BY <1>1, <1>2, <1>4, <2>7, <2>8, <2>9, <3>1 DEF BfsDuring
  <2>11. (parent[start_vid] # -1)'
    BY <1>1, <1>4, <1>5, <2>3
  <2>12. B!ParentOneLevelUp'
    <3>1. n + 1 \in 1 .. Cardinality(BfsVertices) /\ t \in B!Level(n + 1) /\ B!Level(n + 1 - 1) = B!Level(n)
      <4>1. t \in B!Level(n + 1)
        BY <1>4, <2>6, BfsLevels
      <4>2. n + 1 + 1 <= Cardinality(BfsVertices) /\ Cardinality(BfsVertices) \in Nat
        BY <1>4, <4>1, BfsLevels
      <4>3. QED
        BY <4>1, <4>2
    <3>2. B!Cardinality(BfsVertices) = Cardinality(BfsVertices)
      BY BfsGraphFacts
    <3> SUFFICES ASSUME NEW v \in BfsVertices \ {start_vid}, parent'[v] # -1
                 PROVE  /\ \E e \in BfsEdges : BfsSource[e] = parent'[v] /\ BfsTarget[e] = v
                        /\ \E m \in 1 .. Cardinality(BfsVertices) :
                              v \in B!Level(m) /\ parent'[v] \in B!Level(m - 1)
      BY <1>1, <1>4, <3>2 DEF B!ParentOneLevelUp, B!Cardinality
    <3>3. CASE v = t
      BY <1>5, <2>3, <2>5, <3>1, <3>3
    <3>4. CASE v # t
      BY <2>3, <3>2, <3>4 DEF B!ParentOneLevelUp
    <3>5. QED
      BY <3>3, <3>4
  <2>13. QED
    BY <1>3, <1>7, <2>2, <2>10, <2>11, <2>12
<1>12. CASE B!SetBit(w)
  <2> USE <1>12 DEF B!SetBit
  <2>1. B!TypeOK'
    BY <1>5 DEF B!TypeOK
  <2>2. B!ParentOneLevelUp' /\ BfsSeen' = BfsSeen /\ (parent[start_vid] # -1)'
    BY <1>1, BfsKeepsTree
  <2>3. pc[w] = "set" /\ pc'[w] = "idle" /\ \A x \in BfsWorkers : x # w => pc'[x] = pc[x]
    BY DEF B!TypeOK
  <2>4. \A x \in BfsWorkers : BfsHere(n, x)
    BY <1>2 DEF BfsDuring
  <2>5. \A x \in BfsWorkers : BfsHere(n, x)'
    BY <1>4, <2>2, <2>3, <2>4 DEF BfsHere
  <2>6. t \in BfsSeen /\ t \notin B!Within[n] /\ t \notin active_out
        /\ \A x \in BfsWorkers : pc[x] = "set" /\ x # w => BfsTarget[edge[x]] # t
    BY <1>2, <2>3, <2>4 DEF BfsHere, BfsDuring
  <2>7. active_out' = {v \in BfsSeen : v \notin B!Within[n]
                        /\ \A x \in BfsWorkers : pc'[x] = "set" => BfsTarget[edge[x]] # v}
    BY <1>2, <2>3, <2>6 DEF BfsDuring
  <2>8. found' = Cardinality(active_out')
    BY <1>3, <1>6, <2>6, FS_AddElement
  <2>9. \A d \in BfsEdges : d \notin pending /\ BfsSource[d] \in B!Level(n) =>
            \/ BfsTarget[d] \in BfsSeen
            \/ \E x \in BfsWorkers : edge[x] = d /\ pc'[x] \in {"check", "cas"}
    BY <1>2, <2>3 DEF BfsDuring
  <2>10. BfsDuring(n)'
    BY <1>1, <1>2, <1>4, <2>2, <2>5, <2>7, <2>9 DEF BfsDuring
  <2>11. QED
    BY <1>7, <2>1, <2>2, <2>8, <2>10
<1>13. QED
  BY <1>8, <1>9, <1>10, <1>11, <1>12 DEF B!WorkerStep

LEMMA BfsImplies == BfsIInv => B!Inv
<1> SUFFICES ASSUME BfsIInv PROVE B!FrontierIsLevel /\ B!DiscoversReachable
  BY DEF BfsIInv, B!Inv
<1> USE DEF BfsIInv
<1>1. start_vid \in BfsVertices
  BY DEF B!TypeOK
<1>2. B!DiscoversReachable
  BY DEF BfsPlace, B!DiscoversReachable
<1>3. ASSUME mainPc = "while" PROVE B!FrontierIsLevel
  <2>1. PICK n \in Nat : BfsBetween(n)
    BY <1>3 DEF BfsPlace
  <2>2. active_vertices = B!Cardinality(active_out)
    BY <1>3, BfsGraphFacts DEF BfsPlace
  <2>3. n \in 0 .. Cardinality(BfsVertices)
    <3>1. CASE n = 0
      BY <1>1, <3>1, BfsLevels
    <3>2. CASE n # 0
      <4>1. n - 1 \in Nat /\ B!Level(n - 1) # {}
        BY <2>1, <3>2 DEF BfsBetween
      <4>2. n - 1 + 1 <= Cardinality(BfsVertices) /\ Cardinality(BfsVertices) \in Nat
        BY <1>1, <4>1, BfsLevels
      <4>3. QED
        BY <4>2
    <3>3. QED
      BY <3>1, <3>2
  <2>4. n \in 0 .. B!Cardinality(BfsVertices)
    BY <2>3, BfsGraphFacts
  <2>5. QED
    BY <2>1, <2>2, <2>4 DEF B!FrontierIsLevel, BfsBetween
<1>4. QED
  BY <1>2, <1>3 DEF B!FrontierIsLevel

(* bfs: the frontier of every iteration is one level of the graph, the     *)
(* parents form a shortest-path tree whichever worker wins the race for a  *)
(* vertex, and the number printed is that of the reachable vertices.       *)
THEOREM BfsIsCorrect == Spec => []BfsInv
<1> DEFINE I == program = "bfs" => BfsIInv
<1>1. Init => I
  BY FirstStates, BfsInit DEF Ranks
<1>2. I /\ [Next]_vars => I'
  <2> SUFFICES ASSUME I, [Next]_vars, program' = "bfs" PROVE BfsIInv'
    OBVIOUS
  <2>1. program = "bfs" /\ BfsIInv
    BY OneProgram
  <2>2. CASE B!MainStep
    BY <2>1, <2>2, BfsMain
  <2>3. CASE \E w \in BfsWorkers : B!WorkerStep(w)
    BY <2>1, <2>3, BfsWorker
  <2>4. CASE UNCHANGED vars
    <3>1. UNCHANGED <<start_vid, parent, active_in, active_out, active_vertices, mainPc, pending,
                      pc, edge, found, discovered_vertices>>
      BY <2>4 DEF vars, bfsVars, frontierVars
    <3>2. B!TypeOK' /\ B!ParentOneLevelUp' /\ BfsSeen' = BfsSeen /\ (parent[start_vid] # -1)'
      BY <2>1, <3>1, BfsKeepsTree DEF BfsIInv, B!TypeOK
    <3>3. B!Within' = B!Within /\ \A n : B!Level(n)' = B!Level(n)
      BY <3>1, BfsWithinSame
    <3>4. B!DiscoversReachable => B!DiscoversReachable'
      BY <3>1, <3>3 DEF B!DiscoversReachable, B!Reachable
    <3>5. \A n \in Nat : (BfsBetween(n) => BfsBetween(n)') /\ (BfsDuring(n) => BfsDuring(n)')
      BY <3>1, <3>2, <3>3 DEF BfsBetween, BfsDuring, BfsHere
    <3>6. BfsPlace'
      BY <2>1, <3>1, <3>4, <3>5 DEF BfsIInv, BfsPlace, BfsIdle
    <3>7. QED
      BY <3>2, <3>6 DEF BfsIInv
  <2>5. QED
    BY <2>1, <2>2, <2>3, <2>4, OneProgram DEF Ranks
<1>3. I => BfsInv
  BY BfsImplies DEF BfsInv
<1>4. QED
  BY <1>1, <1>2, <1>3, PTL DEF Spec
-----------------------------------------------------------------------------
(* k-cores                                                                 *)
LEMMA KCoresGraphFacts ==
    /\ IsFiniteSet(KCoresVertices) /\ IsFiniteSet(KCoresEdges)
    /\ KCoresSource \in [KCoresEdges -> KCoresVertices]
    /\ KCoresTarget \in [KCoresEdges -> KCoresVertices]
    /\ \A S : C!Cardinality(S) = Cardinality(S)
    /\ (CHOOSE e \in KCoresEdges : TRUE) \in KCoresEdges
<1>1. \A S : C!IsFiniteSet(S) <=> IsFiniteSet(S)
  BY DEF C!IsFiniteSet, IsFiniteSet
<1>2. \A S : C!Cardinality(S) = Cardinality(S)
  BY Zenon DEF C!Cardinality, Cardinality
<1>3. C!GraphAssumption
  BY GraphAssumptions
<1>4. QED
  BY <1>1, <1>2, <1>3 DEF C!GraphAssumption

(* A set that has the empty set and every member's extensions by one       *)
(* element of V has all subsets of V.                                      *)
LEMMA SubsetInduction ==
    ASSUME NEW V, IsFiniteSet(V), NEW Q, {} \in Q,
           \A T \in SUBSET V : \A x \in V : T \in Q => T \union {x} \in Q
    PROVE  SUBSET V \subseteq Q
<1> DEFINE N == {n \in Nat : \A T \in SUBSET V : Cardinality(T) = n => T \in Q}
<1>1. \A T \in SUBSET V : IsFiniteSet(T) /\ Cardinality(T) \in Nat
  BY FS_Subset, FS_CardinalityType
<1>2. 0 \in N
  BY <1>1, FS_EmptySet
<1>3. ASSUME NEW n \in Nat, n \in N PROVE n + 1 \in N
  <2> SUFFICES ASSUME NEW T \in SUBSET V, Cardinality(T) = n + 1 PROVE T \in Q
    OBVIOUS
  <2>1. T # {}
    <3>1. Cardinality({}) # n + 1
      BY FS_EmptySet
    <3>2. QED
      BY <3>1
  <2>2. PICK x \in T : TRUE
    BY <2>1
  <2>3. Cardinality(T \ {x}) = n
    <3>1. Cardinality(T \ {x}) = Cardinality(T) - 1
      BY <1>1, <2>2, FS_RemoveElement
    <3>2. QED
      BY <3>1
  <2>4. T \ {x} \in Q
    BY <1>3, <2>3
  <2>5. (T \ {x}) \union {x} = T
    BY <2>2
  <2>6. QED
    BY <2>2, <2>4, <2>5
<1>4. Nat \subseteq N
  <2> HIDE DEF N
  <2>1. QED
    BY <1>2, <1>3, NatSet
<1>5. QED
  BY <1>1, <1>4

LEMMA KCoresSizes ==
    /\ \A S \in SUBSET KCoresEdges : IsFiniteSet(S) /\ Cardinality(S) \in Nat
    /\ \A S, T \in SUBSET KCoresEdges : S \subseteq T => Cardinality(S) <= Cardinality(T)
    /\ \A S, T \in SUBSET KCoresEdges :
          S \intersect T = {} => Cardinality(S \union T) = Cardinality(S) + Cardinality(T)
    /\ Cardinality({}) = 0
<1>1. \A S \in SUBSET KCoresEdges : IsFiniteSet(S) /\ Cardinality(S) \in Nat
  BY KCoresGraphFacts, FS_Subset, FS_CardinalityType
<1>2. \A S, T \in SUBSET KCoresEdges : S \subseteq T => Cardinality(S) <= Cardinality(T)
  BY <1>1, FS_Subset
<1>3. Cardinality({}) = 0
  BY FS_EmptySet
<1>4. ASSUME NEW S \in SUBSET KCoresEdges, NEW T \in SUBSET KCoresEdges, S \intersect T = {}
      PROVE  Cardinality(S \union T) = Cardinality(S) + Cardinality(T)
  <2>1. Cardinality(S \union T) = Cardinality(S) + Cardinality(T) - Cardinality(S \intersect T)
    BY <1>1, FS_Union
  <2>2. Cardinality(S \intersect T) = 0
    BY <1>3, <1>4
  <2>3. Cardinality(S) \in Nat /\ Cardinality(T) \in Nat
    BY <1>1
  <2>4. QED
    BY <2>1, <2>2, <2>3
<1>5. QED
  BY <1>1, <1>2, <1>3, <1>4

(* In an undirected graph as many edges lead from v into a set of vertices *)
(* as from there to v.                                                     *)
LEMMA KCoresBalance ==
    ASSUME C!Undirected, NEW v \in KCoresVertices, NEW S \in SUBSET KCoresVertices
    PROVE  Cardinality(C!EdgesInto(v, S)) = Cardinality(C!EdgesFrom(v, S))
<1> DEFINE Q == {T \in SUBSET KCoresVertices :
                    Cardinality(C!EdgesInto(v, T)) = Cardinality(C!EdgesFrom(v, T))}
<1>1. {} \in Q
  <2>1. C!EdgesInto(v, {}) = {} /\ C!EdgesFrom(v, {}) = {}
    BY DEF C!EdgesInto, C!EdgesFrom
  <2>2. QED
    BY <2>1
<1>2. ASSUME NEW T \in SUBSET KCoresVertices, NEW x \in KCoresVertices, T \in Q
      PROVE  T \union {x} \in Q
  <2>1. CASE x \in T
    <3>1. T \union {x} = T
      BY <2>1
    <3>2. QED
      BY <1>2, <3>1
  <2>2. CASE x \notin T
    <3>1. /\ C!EdgesInto(v, T) \in SUBSET KCoresEdges /\ C!EdgesInto(v, {x}) \in SUBSET KCoresEdges
          /\ C!EdgesFrom(v, T) \in SUBSET KCoresEdges /\ C!EdgesFrom(v, {x}) \in SUBSET KCoresEdges
      BY DEF C!EdgesInto, C!EdgesFrom
    <3>2. /\ C!EdgesInto(v, T \union {x}) = C!EdgesInto(v, T) \union C!EdgesInto(v, {x})
          /\ C!EdgesFrom(v, T \union {x}) = C!EdgesFrom(v, T) \union C!EdgesFrom(v, {x})
      BY DEF C!EdgesInto, C!EdgesFrom
    <3>3. /\ C!EdgesInto(v, T) \intersect C!EdgesInto(v, {x}) = {}
          /\ C!EdgesFrom(v, T) \intersect C!EdgesFrom(v, {x}) = {}
      BY <2>2 DEF C!EdgesInto, C!EdgesFrom
    <3>4. Cardinality(C!EdgesInto(v, {x})) = Cardinality(C!EdgesFrom(v, {x}))
      BY KCoresGraphFacts DEF C!Undirected
    <3>5. Cardinality(C!EdgesInto(v, T)) = Cardinality(C!EdgesFrom(v, T))
      BY <1>2
    <3> HIDE DEF Q
    <3>6. Cardinality(C!EdgesInto(v, T \union {x}))
             = Cardinality(C!EdgesInto(v, T)) + Cardinality(C!EdgesInto(v, {x}))
      BY <3>1, <3>2, <3>3, KCoresSizes
    <3>7. Cardinality(C!EdgesFrom(v, T \union {x}))
             = Cardinality(C!EdgesFrom(v, T)) + Cardinality(C!EdgesFrom(v, {x}))
      BY <3>1, <3>2, <3>3, KCoresSizes
    <3>8. Cardinality(C!EdgesInto(v, T \union {x})) = Cardinality(C!EdgesFrom(v, T \union {x}))
      BY <3>4, <3>5, <3>6, <3>7
    <3>9. T \union {x} \in SUBSET KCoresVertices
      OBVIOUS
    <3>10. QED
      BY <3>8, <3>9 DEF Q
  <2>3. QED
    BY <2>1, <2>2
<1>3. SUBSET KCoresVertices \subseteq Q
  <2> HIDE DEF Q
  <2>1. QED
    BY <1>1, <1>2, KCoresGraphFacts, SubsetInduction
<1>4. QED
  BY <1>3

(* The edges of the pass that no worker is done with; the edges of v that  *)
(* its degree no longer counts.  While the pass that counts is running a   *)
(* degree is the number of edges seen, after it what remains of them.      *)
KCoresOpen == pending \union {edge[w] : w \in {x \in Workers : pc[x] # "idle"}}
KCoresSeen(v) == {e \in KCoresEdges : KCoresSource[e] = v /\ e \notin KCoresOpen}
KCoresGone(v) ==
    {e \in KCoresEdges :
        /\ KCoresTarget[e] = v
        /\ KCoresSource[e] \in active => KCoresSource[e] \in to_remove /\ e \notin KCoresOpen}
KCoresCounted ==
    mainPc = "count" => \A v \in KCoresVertices : degree[v] = Cardinality(KCoresSeen(v))
KCoresRemaining ==
    mainPc # "count" => \A v \in active :
        degree[v] = Cardinality(C!EdgesInto(v, KCoresVertices)) - Cardinality(KCoresGone(v))
KCoresInPlace ==
    /\ C!InPass \/ (pending = {} /\ \A w \in Workers : pc[w] = "idle")
    /\ \A w \in Workers : pc[w] # "idle" =>
          /\ edge[w] \notin pending
          /\ \A x \in Workers : pc[x] # "idle" /\ edge[x] = edge[w] => x = w
          /\ pc[w] = "test" => mainPc = "discount"
          /\ pc[w] # "test" /\ mainPc = "discount" =>
                KCoresSource[edge[w]] \in to_remove /\ KCoresTarget[edge[w]] \in active
KCoresSets ==
    /\ mainPc = "count" => active = KCoresVertices /\ to_remove = {}
    /\ mainPc \in {"discount", "deactivate"} => to_remove \subseteq active
    /\ mainPc \in {"while", "done", "terminated"} => to_remove \intersect active = {}
KCoresIInv ==
    /\ C!TypeOK /\ KCoresInPlace /\ KCoresSets /\ KCoresCounted /\ KCoresRemaining
    /\ C!KeepsCore /\ C!ResultIsCore

LEMMA KCoresInit == C!Init => KCoresIInv
<1> SUFFICES ASSUME C!Init PROVE KCoresIInv
  OBVIOUS
<1> USE DEF C!Init
<1>1. C!TypeOK
  BY KCoresGraphFacts DEF C!TypeOK, C!AnyEdge
<1>2. KCoresInPlace /\ KCoresSets /\ KCoresRemaining /\ C!ResultIsCore
  BY DEF KCoresInPlace, KCoresSets, KCoresRemaining, C!ResultIsCore, C!InPass
<1>3. KCoresCounted
  <2>1. \A v \in KCoresVertices : KCoresSeen(v) = {}
    BY DEF KCoresSeen, KCoresOpen
  <2>2. QED
    BY <2>1, FS_EmptySet DEF KCoresCounted
<1>4. C!KeepsCore
  BY DEF C!KeepsCore, C!Core
<1>5. QED
  BY <1>1, <1>2, <1>3, <1>4 DEF KCoresIInv

(* Between rounds the degree of an active vertex is the number of its      *)
(* edges to active vertices.                                               *)
LEMMA KCoresDegree ==
    ASSUME KCoresIInv, C!Undirected, mainPc = "while", NEW v \in active
    PROVE  degree[v] = Cardinality(C!EdgesInto(v, active))
<1> USE DEF KCoresIInv
<1>1. active \subseteq KCoresVertices /\ v \in KCoresVertices
  BY DEF C!TypeOK
<1> DEFINE rest == KCoresVertices \ active
<1>2. KCoresGone(v) = C!EdgesFrom(v, rest)
  BY <1>1, KCoresGraphFacts DEF KCoresGone, KCoresSets, C!EdgesFrom
<1>3. Cardinality(C!EdgesInto(v, rest)) = Cardinality(C!EdgesFrom(v, rest))
  BY <1>1, KCoresBalance
<1>4. /\ C!EdgesInto(v, KCoresVertices) = C!EdgesInto(v, active) \union C!EdgesInto(v, rest)
      /\ C!EdgesInto(v, active) \intersect C!EdgesInto(v, rest) = {}
      /\ C!EdgesInto(v, active) \in SUBSET KCoresEdges /\ C!EdgesInto(v, rest) \in SUBSET KCoresEdges
  BY <1>1 DEF C!EdgesInto
<1> HIDE DEF rest
<1>5. degree[v] = Cardinality(C!EdgesInto(v, KCoresVertices)) - Cardinality(KCoresGone(v))
  BY DEF KCoresRemaining
<1>6. Cardinality(C!EdgesInto(v, KCoresVertices))
         = Cardinality(C!EdgesInto(v, active)) + Cardinality(C!EdgesInto(v, rest))
  BY <1>4, KCoresSizes
<1>7. QED
  BY <1>2, <1>3, <1>4, <1>5, <1>6, KCoresSizes

(* The k-core is the largest set with that many edges at every vertex.     *)
LEMMA KCoresCore ==
    /\ C!Core \subseteq KCoresVertices
    /\ \A S \in SUBSET KCoresVertices :
          (\A v \in S : Cardinality(C!EdgesInto(v, S)) >= k) => S \subseteq C!Core
    /\ \A v \in C!Core : \E S \in SUBSET KCoresVertices :
          v \in S /\ S \subseteq C!Core /\ Cardinality(C!EdgesInto(v, S)) >= k
<1> DEFINE Cores == {S \in SUBSET KCoresVertices : \A v \in S : Cardinality(C!EdgesInto(v, S)) >= k}
<1>1. C!Core = UNION Cores
  BY KCoresGraphFacts DEF C!Core
<1>2. QED
  BY <1>1

LEMMA KCoresKeeps ==
    ASSUME KCoresIInv, C!Undirected, mainPc = "while", NEW v \in C!Core
    PROVE  v \in active /\ ~(degree[v] < k)
<1>1. C!Core \subseteq active \ to_remove /\ active \subseteq KCoresVertices /\ k \in Int
  <2>1. k \in Ks /\ Ks \subseteq Int
    BY GraphAssumptions DEF KCoresIInv, C!TypeOK, C!GraphAssumption
  <2>2. QED
    BY <2>1 DEF KCoresIInv, C!KeepsCore, C!TypeOK
<1>2. PICK S \in SUBSET KCoresVertices :
         v \in S /\ S \subseteq C!Core /\ Cardinality(C!EdgesInto(v, S)) >= k
  BY KCoresCore
<1>3. /\ C!EdgesInto(v, S) \subseteq C!EdgesInto(v, active)
      /\ C!EdgesInto(v, S) \in SUBSET KCoresEdges /\ C!EdgesInto(v, active) \in SUBSET KCoresEdges
  BY <1>1, <1>2 DEF C!EdgesInto
<1>4. Cardinality(C!EdgesInto(v, active)) >= k
  BY <1>1, <1>2, <1>3, KCoresSizes
<1>5. degree[v] = Cardinality(C!EdgesInto(v, active))
  BY <1>1, KCoresDegree
<1>6. QED
  BY <1>1, <1>3, <1>4, <1>5, KCoresSizes

LEMMA KCoresMain == KCoresIInv /\ C!MainStep => KCoresIInv'
<1> SUFFICES ASSUME KCoresIInv, C!MainStep PROVE KCoresIInv'
  OBVIOUS
<1> USE DEF KCoresIInv, C!arguments, C!arrays, C!worker
<1>0. C!Undirected' = C!Undirected /\ (k' = k => C!Core' = C!Core)
  BY DEF C!Undirected, C!EdgesInto, C!EdgesFrom, C!Core
<1>1. CASE C!EndCount
  <2> USE <1>1 DEF C!EndCount, C!Joined
  <2>1. C!TypeOK' /\ KCoresInPlace' /\ KCoresSets' /\ KCoresCounted' /\ C!ResultIsCore'
    BY DEF C!TypeOK, KCoresInPlace, KCoresSets, KCoresCounted, C!ResultIsCore, C!InPass
  <2>2. C!KeepsCore'
    BY <1>0 DEF C!KeepsCore
  <2>3. KCoresRemaining'
    <3> SUFFICES ASSUME NEW v \in KCoresVertices
                 PROVE  degree[v] = Cardinality(C!EdgesInto(v, KCoresVertices)) - Cardinality(KCoresGone(v)')
      BY DEF KCoresRemaining, KCoresSets, C!EdgesInto
    <3>1. KCoresGone(v)' = {}
      BY KCoresGraphFacts DEF KCoresGone, KCoresSets
    <3>2. KCoresSeen(v) = C!EdgesInto(v, KCoresVertices)
      BY KCoresGraphFacts DEF KCoresSeen, KCoresOpen, C!EdgesInto
    <3>3. C!EdgesInto(v, KCoresVertices) \in SUBSET KCoresEdges
      BY DEF C!EdgesInto
    <3>4. QED
      BY <3>1, <3>2, <3>3, KCoresSizes DEF KCoresCounted
  <2>4. QED
    BY <2>1, <2>2, <2>3
<1>2. CASE C!Mark
  <2> USE <1>2 DEF C!Mark
  <2>1. C!TypeOK' /\ KCoresInPlace' /\ KCoresSets' /\ KCoresCounted'
    BY DEF C!TypeOK, KCoresInPlace, KCoresSets, KCoresCounted, C!InPass
  <2>2. C!KeepsCore'
    BY <1>0, KCoresKeeps DEF C!KeepsCore
  <2>3. KCoresRemaining'
    <3>1. \A v : KCoresGone(v)' = KCoresGone(v)
      BY KCoresGraphFacts DEF KCoresGone, KCoresSets, KCoresOpen
    <3>2. QED
      BY <3>1 DEF KCoresRemaining, C!EdgesInto
  <2>4. C!ResultIsCore'
    <3> SUFFICES ASSUME to_remove' = {}, C!Undirected PROVE active = C!Core
      BY <1>0 DEF C!ResultIsCore
    <3>1. active \subseteq KCoresVertices /\ k \in Int
      BY GraphAssumptions DEF C!TypeOK, C!GraphAssumption
    <3>2. \A v \in active : Cardinality(C!EdgesInto(v, active)) >= k
      <4> SUFFICES ASSUME NEW v \in active PROVE Cardinality(C!EdgesInto(v, active)) >= k
        OBVIOUS
      <4>1. ~(degree[v] < k) /\ degree[v] \in Int
        BY DEF C!TypeOK
      <4>2. degree[v] = Cardinality(C!EdgesInto(v, active))
        BY KCoresDegree
      <4>3. QED
        BY <3>1, <4>1, <4>2
    <3>3. active \subseteq C!Core
      BY <3>1, <3>2, KCoresCore
    <3>4. QED
      BY <3>3 DEF C!KeepsCore
  <2>5. QED
    BY <2>1, <2>2, <2>3, <2>4
<1>3. CASE C!EndDiscount
  <2> USE <1>3 DEF C!EndDiscount, C!Joined
  <2>1. C!TypeOK' /\ KCoresInPlace' /\ KCoresSets' /\ KCoresCounted' /\ C!ResultIsCore'
    BY DEF C!TypeOK, KCoresInPlace, KCoresSets, KCoresCounted, C!ResultIsCore, C!InPass
  <2>2. C!KeepsCore'
    BY <1>0 DEF C!KeepsCore
  <2>3. KCoresRemaining'
    <3>1. \A v : KCoresGone(v)' = KCoresGone(v)
      BY DEF KCoresGone, KCoresOpen
    <3>2. QED
      BY <3>1 DEF KCoresRemaining, C!EdgesInto
  <2>4. QED
    BY <2>1, <2>2, <2>3
<1>4. CASE C!Deactivate
  <2> USE <1>4 DEF C!Deactivate
  <2>1. C!TypeOK' /\ KCoresInPlace' /\ KCoresSets' /\ KCoresCounted' /\ C!ResultIsCore'
    BY DEF C!TypeOK, KCoresInPlace, KCoresSets, KCoresCounted, C!ResultIsCore, C!InPass
  <2>2. C!KeepsCore'
    BY <1>0 DEF C!KeepsCore
  <2>3. KCoresRemaining'
    <3>1. \A v : KCoresGone(v)' = KCoresGone(v)
      BY KCoresGraphFacts DEF KCoresGone, KCoresOpen, KCoresInPlace, C!InPass
    <3>2. QED
      BY <3>1 DEF KCoresRemaining, C!EdgesInto
  <2>4. QED
    BY <2>1, <2>2, <2>3
<1>5. CASE C!BadFunctionCall
  <2> USE <1>5 DEF C!BadFunctionCall
  <2>1. C!TypeOK' /\ KCoresInPlace' /\ KCoresSets' /\ KCoresCounted' /\ C!ResultIsCore'
    BY DEF C!TypeOK, KCoresInPlace, KCoresSets, KCoresCounted, C!ResultIsCore, C!InPass
  <2>2. C!KeepsCore'
    BY <1>0 DEF C!KeepsCore
  <2>3. KCoresRemaining'
    <3>1. \A v : KCoresGone(v)' = KCoresGone(v)
      BY DEF KCoresGone, KCoresOpen
    <3>2. QED
      BY <3>1 DEF KCoresRemaining, C!EdgesInto
  <2>4. QED
    BY <2>1, <2>2, <2>3
<1>6. QED
  BY <1>1, <1>2, <1>3, <1>4, <1>5 DEF C!MainStep

\* What a worker that ends with its edge leaves open.
LEMMA KCoresRelease ==
    ASSUME KCoresInPlace, NEW w \in Workers, pc[w] # "idle", pc'[w] = "idle", pending' = pending,
           \A x \in Workers : x # w => pc'[x] = pc[x] /\ edge'[x] = edge[x]
    PROVE  edge[w] \in KCoresOpen /\ KCoresOpen' = KCoresOpen \ {edge[w]}
BY DEF KCoresInPlace, KCoresOpen

LEMMA KCoresWorker ==
    ASSUME KCoresIInv, NEW w \in Workers, C!WorkerStep(w)
    PROVE  KCoresIInv'
<1> USE DEF KCoresIInv, C!arguments, C!arrays, C!worker
<1>0. C!Undirected' = C!Undirected /\ (k' = k => C!Core' = C!Core)
  BY DEF C!Undirected, C!EdgesInto, C!EdgesFrom, C!Core
<1>t. /\ edge[w] \in KCoresEdges /\ pc \in [Workers -> {"idle", "test", "load", "cas"}]
      /\ edge \in [Workers -> KCoresEdges] /\ degree \in [KCoresVertices -> Int]
      /\ KCoresSource[edge[w]] \in KCoresVertices /\ KCoresTarget[edge[w]] \in KCoresVertices
      /\ C!AnyEdge \in KCoresEdges
  BY KCoresGraphFacts DEF C!TypeOK, C!AnyEdge
<1>1. CASE C!Take(w)
  <2> USE <1>1 DEF C!Take
  <2>1. PICK e \in pending : pending' = pending \ {e} /\ edge' = [edge EXCEPT ![w] = e]
    OBVIOUS
  <2>2. e \in KCoresEdges
    BY DEF C!TypeOK
  <2>3. C!TypeOK'
    BY <2>1, <2>2 DEF C!TypeOK, C!Counting
  <2>4. KCoresOpen' = KCoresOpen
    BY <1>t, <2>1 DEF KCoresOpen, C!Counting
  <2>5. KCoresSets' /\ C!ResultIsCore'
    BY <1>0 DEF KCoresSets, C!ResultIsCore
  <2>6. KCoresCounted' /\ KCoresRemaining'
    BY <2>4 DEF KCoresCounted, KCoresRemaining, KCoresSeen, KCoresGone, C!EdgesInto
  <2>7. KCoresInPlace'
    BY <1>t, <2>1 DEF KCoresInPlace, C!InPass, C!Counting
  <2>8. C!KeepsCore'
    BY <1>0 DEF C!KeepsCore
  <2>9. QED
    BY <2>3, <2>5, <2>6, <2>7, <2>8
<1>2. CASE C!Test(w)
  <2> USE <1>2 DEF C!Test
  <2>1. C!TypeOK'
    BY <1>t DEF C!TypeOK, C!Done
  <2>2. mainPc = "discount"
    BY DEF KCoresInPlace
  <2>3. KCoresSets' /\ C!ResultIsCore' /\ KCoresCounted'
    BY <1>0, <2>2 DEF KCoresSets, C!ResultIsCore, KCoresCounted
  <2>4. C!KeepsCore'
    BY <1>0 DEF C!KeepsCore
  <2>5. CASE KCoresSource[edge[w]] \in to_remove /\ KCoresTarget[edge[w]] \in active
    <3>1. pc' = [pc EXCEPT ![w] = "load"] /\ edge' = edge
      BY <2>5
    <3>2. KCoresOpen' = KCoresOpen
      BY <1>t, <3>1 DEF KCoresOpen
    <3>3. KCoresRemaining'
      BY <3>2 DEF KCoresRemaining, KCoresGone, C!EdgesInto
    <3>4. KCoresInPlace'
      BY <1>t, <2>5, <3>1 DEF KCoresInPlace, C!InPass
    <3>5. QED
      BY <2>1, <2>3, <2>4, <3>3, <3>4
  <2>6. CASE ~(KCoresSource[edge[w]] \in to_remove /\ KCoresTarget[edge[w]] \in active)
    <3>1. pc' = [pc EXCEPT ![w] = "idle"] /\ edge' = [edge EXCEPT ![w] = C!AnyEdge]
      BY <2>6 DEF C!Done
    <3>2. KCoresOpen' = KCoresOpen \ {edge[w]}
      BY <1>t, <3>1, KCoresRelease
    <3>3. \A v \in active : KCoresGone(v)' = KCoresGone(v)
      BY <2>6, <3>2 DEF KCoresGone
    <3>4. KCoresRemaining'
      BY <3>3 DEF KCoresRemaining, C!EdgesInto
    <3>5. KCoresInPlace'
      BY <1>t, <3>1 DEF KCoresInPlace, C!InPass
    <3>6. QED
      BY <2>1, <2>3, <2>4, <3>4, <3>5
  <2>7. QED
    BY <2>5, <2>6
<1>3. CASE C!Load(w)
  <2> USE <1>3 DEF C!Load
  <2>1. C!TypeOK'
    BY <1>t DEF C!TypeOK, C!AddTo
  <2>2. KCoresOpen' = KCoresOpen
    BY <1>t DEF KCoresOpen
  <2>3. KCoresSets' /\ C!ResultIsCore'
    BY <1>0 DEF KCoresSets, C!ResultIsCore
  <2>4. KCoresCounted' /\ KCoresRemaining'
    BY <2>2 DEF KCoresCounted, KCoresRemaining, KCoresSeen, KCoresGone, C!EdgesInto
  <2>5. KCoresInPlace'
    BY <1>t DEF KCoresInPlace, C!InPass
  <2>6. C!KeepsCore'
    BY <1>0 DEF C!KeepsCore
  <2>7. QED
    BY <2>1, <2>3, <2>4, <2>5, <2>6
<1>4. CASE C!Cas(w)
  <2> USE <1>4 DEF C!Cas
  <2>t. C!TypeOK'
    BY <1>t DEF C!TypeOK, C!Done, C!AddTo, C!Delta
  <2>s. KCoresSets' /\ C!ResultIsCore'
    BY <1>0 DEF KCoresSets, C!ResultIsCore
  <2>c. C!KeepsCore'
    BY <1>0 DEF C!KeepsCore
  <2>i. mainPc \in {"count", "discount"}
    BY DEF KCoresInPlace, C!InPass
  <2>1. CASE degree[C!AddTo(w)] # oldV[w]
    <3>1. pc' = [pc EXCEPT ![w] = "load"] /\ degree' = degree /\ edge' = edge
      BY <2>1
    <3>2. KCoresOpen' = KCoresOpen
      BY <1>t, <3>1 DEF KCoresOpen
    <3>3. KCoresCounted' /\ KCoresRemaining'
      BY <3>1, <3>2 DEF KCoresCounted, KCoresRemaining, KCoresSeen, KCoresGone, C!EdgesInto
    <3>4. KCoresInPlace'
      BY <1>t, <3>1 DEF KCoresInPlace, C!InPass
    <3>5. QED
      BY <2>t, <2>s, <2>c, <3>3, <3>4
  <2>2. CASE degree[C!AddTo(w)] = oldV[w]
    <3>1. /\ pc' = [pc EXCEPT ![w] = "idle"] /\ edge' = [edge EXCEPT ![w] = C!AnyEdge]
          /\ degree' = [degree EXCEPT ![C!AddTo(w)] = degree[C!AddTo(w)] + C!Delta]
      BY <2>2 DEF C!Done
    <3>2. edge[w] \in KCoresOpen /\ KCoresOpen' = KCoresOpen \ {edge[w]}
      BY <1>t, <3>1, KCoresRelease
    <3>3. KCoresInPlace'
      BY <1>t, <3>1 DEF KCoresInPlace, C!InPass
    <3>4. KCoresCounted'
      <4> SUFFICES ASSUME mainPc = "count", NEW v \in KCoresVertices
                   PROVE  degree'[v] = Cardinality(KCoresSeen(v)')
        BY DEF KCoresCounted
      <4>1. C!AddTo(w) = KCoresSource[edge[w]] /\ C!Delta = 1
        BY DEF C!AddTo, C!Delta, C!Counting
      <4>2. degree[v] = Cardinality(KCoresSeen(v))
        BY DEF KCoresCounted
      <4>3. CASE v = KCoresSource[edge[w]]
        <5>1. KCoresSeen(v)' = KCoresSeen(v) \union {edge[w]} /\ edge[w] \notin KCoresSeen(v)
          BY <1>t, <3>2, <4>3 DEF KCoresSeen
        <5>2. KCoresSeen(v) \in SUBSET KCoresEdges
          BY DEF KCoresSeen
        <5>3. Cardinality(KCoresSeen(v) \union {edge[w]}) = Cardinality(KCoresSeen(v)) + 1
          BY <5>1, <5>2, KCoresSizes, FS_AddElement
        <5>4. degree'[v] = degree[v] + 1
          BY <1>t, <3>1, <4>1, <4>3
        <5>5. QED
          BY <4>2, <5>1, <5>3, <5>4
      <4>4. CASE v # KCoresSource[edge[w]]
        <5>1. KCoresSeen(v)' = KCoresSeen(v)
          BY <3>2, <4>4 DEF KCoresSeen
        <5>2. QED
          BY <1>t, <3>1, <4>1, <4>2, <4>4, <5>1
      <4>5. QED
        BY <4>3, <4>4
    <3>5. KCoresRemaining'
      <4> SUFFICES ASSUME mainPc = "discount", NEW v \in active
                   PROVE  degree'[v] = Cardinality(C!EdgesInto(v, KCoresVertices)) - Cardinality(KCoresGone(v)')
        BY <2>i DEF KCoresRemaining, C!EdgesInto
      <4>1. C!AddTo(w) = KCoresTarget[edge[w]] /\ C!Delta = -1
        BY DEF C!AddTo, C!Delta, C!Counting
      <4>2. degree[v] = Cardinality(C!EdgesInto(v, KCoresVertices)) - Cardinality(KCoresGone(v))
        BY DEF KCoresRemaining
      <4>3. C!EdgesInto(v, KCoresVertices) \in SUBSET KCoresEdges /\ KCoresGone(v) \in SUBSET KCoresEdges
        BY DEF C!EdgesInto, KCoresGone
      <4>4. KCoresSource[edge[w]] \in to_remove /\ KCoresSource[edge[w]] \in active
        BY DEF KCoresInPlace, KCoresSets
      <4>5. v \in KCoresVertices
        BY DEF C!TypeOK
      <4>6. CASE v = KCoresTarget[edge[w]]
        <5>1. KCoresGone(v)' = KCoresGone(v) \union {edge[w]} /\ edge[w] \notin KCoresGone(v)
          BY <1>t, <3>2, <4>4, <4>6 DEF KCoresGone
        <5>2. Cardinality(KCoresGone(v) \union {edge[w]}) = Cardinality(KCoresGone(v)) + 1
          BY <4>3, <5>1, KCoresSizes, FS_AddElement
        <5>3. degree'[v] = degree[v] - 1
          BY <1>t, <3>1, <4>1, <4>6
        <5>4. QED
          BY <4>2, <4>3, <5>1, <5>2, <5>3, KCoresSizes
      <4>7. CASE v # KCoresTarget[edge[w]]
        <5>1. KCoresGone(v)' = KCoresGone(v)
          BY <3>2, <4>7 DEF KCoresGone
        <5>2. QED
          BY <1>t, <3>1, <4>1, <4>2, <4>5, <4>7, <5>1
      <4>8. QED
        BY <4>6, <4>7
    <3>6. QED
      BY <2>t, <2>s, <2>c, <3>3, <3>4, <3>5
  <2>3. QED
    BY <2>1, <2>2
<1>5. QED
  BY <1>1, <1>2, <1>3, <1>4 DEF C!WorkerStep

LEMMA KCoresImplies == KCoresIInv => C!Inv
<1> SUFFICES ASSUME KCoresIInv PROVE C!DegreeIsRemaining
  BY DEF KCoresIInv, C!Inv
<1>1. QED
  BY KCoresDegree, KCoresGraphFacts DEF C!DegreeIsRemaining

-----------------------------------------------------------------------------
(* k-cores: the degrees are right whenever they are tested, no vertex of   *)
(* the k-core is given up, and the result is the k-core.                   *)
THEOREM KCoresIsCorrect == Spec => []KCoresInv
<1> DEFINE I == program = "k-cores" => KCoresIInv
<1>1. Init => I
  BY FirstStates, KCoresInit DEF Ranks
<1>2. I /\ [Next]_vars => I'
  <2> SUFFICES ASSUME I, [Next]_vars, program' = "k-cores" PROVE KCoresIInv'
    OBVIOUS
  <2>1. program = "k-cores" /\ KCoresIInv
    BY OneProgram
  <2>2. CASE C!MainStep
    BY <2>1, <2>2, KCoresMain
  <2>3. CASE \E w \in Workers : C!WorkerStep(w)
    BY <2>1, <2>3, KCoresWorker
  <2>4. CASE UNCHANGED vars
    <3>1. UNCHANGED <<k, fits, active, degree, to_remove, mainPc, pending, pc, edge, oldV>>
      BY <2>4 DEF vars, kcoresVars, addVars
    <3>2. C!TypeOK' /\ KCoresInPlace' /\ KCoresSets'
      BY <2>1, <3>1 DEF KCoresIInv, C!TypeOK, KCoresInPlace, KCoresSets, C!InPass
    <3>3. KCoresCounted' /\ KCoresRemaining'
      BY <2>1, <3>1 DEF KCoresIInv, KCoresCounted, KCoresRemaining, KCoresSeen, KCoresGone,
                        KCoresOpen, C!EdgesInto
    <3>4. C!KeepsCore' /\ C!ResultIsCore'
      <4>1. C!Undirected' = C!Undirected /\ C!Core' = C!Core
        BY <3>1 DEF C!Undirected, C!EdgesInto, C!EdgesFrom, C!Core
      <4>2. QED
        BY <2>1, <3>1, <4>1 DEF KCoresIInv, C!KeepsCore, C!ResultIsCore
    <3>5. QED
      BY <3>2, <3>3, <3>4 DEF KCoresIInv
  <2>5. QED
    BY <2>1, <2>2, <2>3, <2>4, OneProgram DEF Ranks
<1>3. I => KCoresInv
  BY KCoresImplies DEF KCoresInv
<1>4. QED
  BY <1>1, <1>2, <1>3, PTL DEF Spec
-----------------------------------------------------------------------------
(* radii                                                                   *)
LEMMA RadiiGraphFacts ==
    /\ IsFiniteSet(RadiiVertices) /\ RadiiVertices \subseteq Nat
    /\ RadiiSource \in [RadiiEdges -> RadiiVertices] /\ RadiiTarget \in [RadiiEdges -> RadiiVertices]
    /\ K \in Nat \ {0} /\ R!Samples = 1 .. K
    /\ \A S : R!Cardinality(S) = Cardinality(S)
    /\ \A S : R!IsFiniteSet(S) <=> IsFiniteSet(S)
    /\ (CHOOSE e \in RadiiEdges : TRUE) \in RadiiEdges
<1>1. \A S : R!IsFiniteSet(S) <=> IsFiniteSet(S)
  BY DEF R!IsFiniteSet, IsFiniteSet
<1>2. \A S : R!Cardinality(S) = Cardinality(S)
  BY Zenon DEF R!Cardinality, Cardinality
<1>3. R!GraphAssumption
  BY GraphAssumptions
<1>4. QED
  BY <1>1, <1>2, <1>3 DEF R!GraphAssumption, R!Samples

LEMMA RadiiWithin ==
    /\ R!Within \in [Nat -> [RadiiVertices -> SUBSET RadiiVertices]]
    /\ R!Within[0] = [u \in RadiiVertices |-> {u}]
    /\ \A n \in Nat : R!Within[n + 1] = [u \in RadiiVertices |-> R!Within[n][u] \union
           {RadiiTarget[e] : e \in {d \in RadiiEdges : RadiiSource[d] \in R!Within[n][u]}}]
<1> DEFINE S == [RadiiVertices -> SUBSET RadiiVertices]
           a == [u \in RadiiVertices |-> {u}]
           More(before) == [u \in RadiiVertices |-> before[u] \union
                {RadiiTarget[e] : e \in {d \in RadiiEdges : RadiiSource[d] \in before[u]}}]
           G == [before \in S |-> More(before)]
<1>1. a \in S
  OBVIOUS
<1>2. \A before \in S : More(before) \in S
  BY RadiiGraphFacts
<1>3. G \in [S -> S]
  <2> HIDE DEF S, More
  <2>1. QED
    BY <1>2
<1>4. PICK f \in [Nat -> S] : f[0] = a /\ \A n \in Nat : f[n + 1] = G[f[n]]
  <2> HIDE DEF S, a, G
  <2>1. QED
    BY <1>1, <1>3, RecursiveSequence
<1>5. f = [n \in Nat |-> IF n = 0 THEN a ELSE More(f[n - 1])]
  <2> HIDE DEF S, a, More
  <2>1. \A n \in Nat : n # 0 => n - 1 \in Nat /\ (n - 1) + 1 = n
    OBVIOUS
  <2>2. \A n \in Nat : n # 0 => G[f[n - 1]] = More(f[n - 1])
    BY <2>1
  <2> HIDE DEF G
  <2>3. \A n \in Nat : f[n] = IF n = 0 THEN a ELSE More(f[n - 1])
    BY <1>4, <2>1, <2>2
  <2>4. QED
    BY <2>3
<1>6. R!Within = [n \in Nat |-> IF n = 0 THEN a ELSE More(R!Within[n - 1])]
  BY <1>5 DEF R!Within
<1>7. R!Within[0] = a /\ \A n \in Nat : R!Within[n + 1] = More(R!Within[n])
  <2> HIDE DEF More
  <2>1. ASSUME NEW n \in Nat PROVE R!Within[n + 1] = More(R!Within[n])
    <3>1. ASSUME NEW j \in Nat, j # 0, j - 1 = n PROVE R!Within[j] = More(R!Within[n])
      BY <1>6, <3>1
    <3>2. n + 1 \in Nat /\ n + 1 # 0 /\ (n + 1) - 1 = n
      OBVIOUS
    <3>3. QED
      BY <3>1, <3>2
  <2>2. QED
    BY <1>6, <2>1
<1> DEFINE N == {n \in Nat : R!Within[n] \in S}
<1>8. Nat \subseteq N
  <2> HIDE DEF S, a, More
  <2>1. 0 \in N
    BY <1>1, <1>7
  <2>2. ASSUME NEW n \in Nat, n \in N PROVE n + 1 \in N
    BY <1>2, <1>7, <2>2
  <2> HIDE DEF N
  <2>3. QED
    BY <2>1, <2>2, NatSet
<1>9. R!Within \in [Nat -> S]
  <2> HIDE DEF More, S, a
  <2>1. \A n \in Nat : R!Within[n] \in S
    BY <1>8
  <2>2. R!Within = [n \in Nat |-> R!Within[n]]
    BY <1>6
  <2>3. QED
    BY <2>1, <2>2
<1>10. QED
  BY <1>7, <1>9

(* The vertices at most n edges from u.                                    *)
RadiiFrom(n, u) == R!Within[n][u]

LEMMA RadiiPaths ==
    ASSUME NEW n \in Nat, NEW u \in RadiiVertices
    PROVE  /\ RadiiFrom(n, u) \subseteq RadiiVertices
           /\ RadiiFrom(0, u) = {u}
           /\ \A v : v \in RadiiFrom(n + 1, u) <=>
                        \/ v \in RadiiFrom(n, u)
                        \/ \E e \in RadiiEdges : RadiiTarget[e] = v /\ RadiiSource[e] \in RadiiFrom(n, u)
<1>1. R!Within[n][u] \subseteq RadiiVertices /\ R!Within[0][u] = {u}
  BY RadiiWithin
<1>2. R!Within[n + 1] = [x \in RadiiVertices |-> R!Within[n][x] \union
           {RadiiTarget[e] : e \in {d \in RadiiEdges : RadiiSource[d] \in R!Within[n][x]}}]
  BY RadiiWithin
<1>3. R!Within[n + 1][u] = R!Within[n][u] \union
           {RadiiTarget[e] : e \in {d \in RadiiEdges : RadiiSource[d] \in R!Within[n][u]}}
  BY <1>2
<1>4. QED
  BY <1>1, <1>3 DEF RadiiFrom

LEMMA RadiiMonotone ==
    ASSUME NEW u \in RadiiVertices, NEW n \in Nat, NEW m \in Nat, n <= m
    PROVE  RadiiFrom(n, u) \subseteq RadiiFrom(m, u)
<1> DEFINE N == {i \in Nat : n <= i => RadiiFrom(n, u) \subseteq RadiiFrom(i, u)}
<1>1. 0 \in N
  <2>1. n <= 0 => n = 0
    OBVIOUS
  <2>2. QED
    BY <2>1
<1>2. ASSUME NEW i \in Nat, i \in N PROVE i + 1 \in N
  <2>1. n <= i + 1 => n = i + 1 \/ n <= i
    OBVIOUS
  <2>2. QED
    BY <1>2, <2>1, RadiiPaths
<1>3. Nat \subseteq N
  <2> HIDE DEF N
  <2>1. QED
    BY <1>1, <1>2, NatSet
<1>4. QED
  BY <1>3

(* Reaches is closed under edges, and paths longer than the number of      *)
(* vertices lead nowhere else.                                             *)
LEMMA RadiiReaches ==
    ASSUME NEW u \in RadiiVertices
    PROVE  /\ R!Reaches(u, u)
           /\ \A e \in RadiiEdges : R!Reaches(u, RadiiSource[e]) => R!Reaches(u, RadiiTarget[e])
           /\ \A n \in Nat : \A v : v \in RadiiFrom(n, u) => R!Reaches(u, v)
<1> DEFINE size == Cardinality(RadiiVertices)
           F == [n \in Nat |-> RadiiFrom(n, u)]
<1>1. \A v : R!Reaches(u, v) <=> v \in RadiiFrom(size, u)
  BY RadiiGraphFacts DEF R!Reaches, RadiiFrom
<1>2. Spreads(F, RadiiVertices, RadiiEdges, RadiiSource, RadiiTarget)
  <2>1. F \in [Nat -> SUBSET RadiiVertices] /\ F[0] # {}
    BY RadiiPaths
  <2>2. \A n \in Nat : F[n + 1] = RadiiFrom(n + 1, u) /\ F[n] = RadiiFrom(n, u)
    OBVIOUS
  <2> HIDE DEF F
  <2>3. ASSUME NEW n \in Nat, NEW v \in RadiiVertices
        PROVE  v \in F[n + 1] <=> v \in F[n] \/ \E e \in RadiiEdges : RadiiTarget[e] = v /\ RadiiSource[e] \in F[n]
    <3>1. n + 1 \in Nat
      OBVIOUS
    <3>2. /\ F[n + 1] = RadiiFrom(n + 1, u) /\ F[n] = RadiiFrom(n, u)
          /\ v \in RadiiFrom(n + 1, u) <=>
                v \in RadiiFrom(n, u)
                \/ \E e \in RadiiEdges : RadiiTarget[e] = v /\ RadiiSource[e] \in RadiiFrom(n, u)
      BY <2>2, <3>1, RadiiPaths
    <3>3. QED
      BY <3>2
  <2>4. QED
    BY <2>1, <2>3 DEF Spreads
<1>3. \A n \in Nat : F[n] = RadiiFrom(n, u)
  OBVIOUS
<1> HIDE DEF F
<1>4. /\ size \in Nat
      /\ \A n \in Nat : size <= n + 1 => F[n + 1] = F[n]
      /\ \A n, m \in Nat : F[n + 1] = F[n] /\ n <= m => F[m] = F[n]
      /\ \A e \in RadiiEdges : RadiiTarget[e] \in RadiiVertices /\ RadiiSource[e] \in F[size] => RadiiTarget[e] \in F[size]
  BY <1>2, ReachStops, RadiiGraphFacts
<1> HIDE DEF size
<1>5. \A e \in RadiiEdges : R!Reaches(u, RadiiSource[e]) => R!Reaches(u, RadiiTarget[e])
  BY <1>1, <1>3, <1>4, RadiiGraphFacts
<1>6. ASSUME NEW n \in Nat PROVE RadiiFrom(n, u) \subseteq RadiiFrom(size, u)
  <2>1. CASE n <= size
    BY <1>4, <2>1, RadiiMonotone
  <2>2. CASE ~(n <= size)
    <3>1. size <= size + 1 /\ size <= n
      BY <1>4, <2>2
    <3>2. F[size + 1] = F[size]
      BY <1>4, <3>1
    <3>3. F[n] = F[size]
      BY <1>4, <3>1, <3>2
    <3>4. QED
      BY <1>3, <1>4, <3>3
  <2>3. QED
    BY <2>1, <2>2
<1>7. u \in RadiiFrom(0, u)
  BY RadiiPaths
<1>8. QED
  BY <1>1, <1>5, <1>6, <1>7

(* A set with u that no edge leaves has everything u reaches.              *)
LEMMA RadiiClosed ==
    ASSUME NEW u \in RadiiVertices, NEW S, u \in S,
           \A e \in RadiiEdges : RadiiSource[e] \in S => RadiiTarget[e] \in S
    PROVE  \A v : R!Reaches(u, v) => v \in S
<1> DEFINE N == {n \in Nat : RadiiFrom(n, u) \subseteq S}
<1>1. 0 \in N
  BY RadiiPaths
<1>2. ASSUME NEW n \in Nat, n \in N PROVE n + 1 \in N
  BY <1>2, RadiiPaths
<1>3. Nat \subseteq N
  <2> HIDE DEF N
  <2>1. QED
    BY <1>1, <1>2, NatSet
<1>4. Cardinality(RadiiVertices) \in Nat
  BY RadiiGraphFacts, FS_CardinalityType
<1>5. RadiiFrom(Cardinality(RadiiVertices), u) \subseteq S
  BY <1>3, <1>4
<1>6. QED
  BY <1>5, RadiiGraphFacts DEF R!Reaches, RadiiFrom
-----------------------------------------------------------------------------
(* Between two passes a vertex is settled: it was never reached and has at *)
(* most its own bits, or both buffers agree; and a bit is at most as many  *)
(* edges from its start as the radius says.  During a pass a vertex whose  *)
(* bits changed is in active_out, or a worker is about to put it there.    *)
RadiiHas(v, i) == start[i] = v \/ i \in visited[v][0]

RadiiSettled(v) ==
    /\ radii[v] <= 0 => visited[v][0] = {} /\ visited[v][1] = {i \in R!Samples : start[i] = v}
    /\ radii[v] > 0 => visited[v][0] = visited[v][1]
    /\ \A i \in R!Samples, j \in {0, 1} : i \in visited[v][j] => v \in RadiiFrom(radii[v], start[i])

RadiiReached ==
    \A v \in RadiiVertices :
        /\ radii[v] <= iteration
        /\ radii[v] # -1 => \E i \in R!Samples : R!Reaches(start[i], v)
        /\ \A i \in R!Samples : start[i] = v => radii[v] # -1

(* A search that has come to a vertex has come to its successors, unless   *)
(* the vertex is active and the next pass is going to see to it.           *)
RadiiBetween ==
    /\ pending = {} /\ \A w \in Workers : pc[w] = "idle"
    /\ \A v \in RadiiVertices : RadiiSettled(v)
    /\ active_vertices = IF iteration = 0 THEN K ELSE Cardinality(active_out)
    /\ \A e \in RadiiEdges, i \in R!Samples :
          RadiiHas(RadiiSource[e], i) =>
              \/ RadiiHas(RadiiTarget[e], i)
              \/ RadiiSource[e] \in active_out /\ (iteration = 0 \/ start[i] # RadiiSource[e])

RadiiHere(w) ==
    pc[w] # "idle" =>
        /\ RadiiSource[edge[w]] \in active_in
        /\ pc[w] \in {"test", "cas"} => radii[RadiiTarget[edge[w]]] \in {old_radii[w], iteration}

RadiiBits ==
    \A v \in RadiiVertices, i \in R!Samples :
        /\ i \in visited[v][R!now] => v \in RadiiFrom(iteration - 1, start[i])
        /\ i \in visited[v][R!next] => v \in RadiiFrom(iteration, start[i])
        /\ i \in visited[v][R!now] => i \in visited[v][R!next] \/ start[i] = v

RadiiNoticed ==
    \A v \in RadiiVertices :
        \/ v \in active_out \/ RadiiSettled(v)
        \/ \E w \in Workers : pc[w] \in {"read", "test", "cas"} /\ RadiiTarget[edge[w]] = v

RadiiPassed ==
    \A e \in RadiiEdges, i \in R!Samples :
        start[i] = RadiiSource[e] \/ i \in visited[RadiiSource[e]][R!now] =>
            \/ start[i] = RadiiTarget[e] \/ i \in visited[RadiiTarget[e]][R!next]
            \/ /\ i \in visited[RadiiSource[e]][R!now]
               /\ e \in pending \/ \E w \in Workers : pc[w] = "compare" /\ edge[w] = e

RadiiDuring ==
    /\ iteration > 0
    /\ \A v \in active_in : \E i \in R!Samples : R!Reaches(start[i], v)
    /\ pending \subseteq {e \in RadiiEdges : RadiiSource[e] \in active_in}
    /\ \A w \in Workers : RadiiHere(w)
    /\ RadiiBits /\ RadiiNoticed /\ RadiiPassed

RadiiPlace ==
    /\ active_out = {v \in RadiiVertices : radii[v] = iteration}
    /\ mainPc = "pass" => RadiiDuring
    /\ mainPc # "pass" => RadiiBetween
    /\ mainPc \in {"candidates", "done"} => active_vertices = 0

(* The candidates are the vertices whose radius is above the threshold of  *)
(* the loop, each once and no smaller radius before a larger one.          *)
RadiiChosen ==
    /\ candidates \in Seq(RadiiVertices) /\ threshold \in Nat
    /\ mainPc = "candidates" =>
        /\ max_radii[1] \in Int
        /\ \A v \in RadiiVertices :
              radii[v] > max_radii[1] - threshold <=> \E i \in DOMAIN candidates : candidates[i] = v
        /\ \A i, j \in DOMAIN candidates : i < j =>
              candidates[i] # candidates[j] /\ radii[candidates[j]] <= radii[candidates[i]]
    /\ mainPc # "candidates" /\ round = 1 => candidates = << >> /\ threshold = 0 /\ max_radii = << >>

RadiiTypes ==
    /\ R!TypeOK
    /\ edge \in [Workers -> RadiiEdges] /\ old_radii \in [Workers -> Nat \union {-1}]

RadiiIInv == RadiiTypes /\ RadiiReached /\ RadiiPlace /\ RadiiChosen

LEMMA RadiiParity ==
    ASSUME iteration \in Nat
    PROVE  /\ R!now \in {0, 1} /\ R!next \in {0, 1} /\ R!now # R!next
           /\ (iteration' = iteration + 1 => R!now' = R!next /\ R!next' = R!now)
           /\ (iteration' = iteration => R!now' = R!now /\ R!next' = R!next)
           /\ \A j \in {0, 1} : j = R!now \/ j = R!next
           /\ (iteration = 0 => R!next = 1)
BY DEF R!now, R!next

LEMMA RadiiStarts ==
    ASSUME NEW s \in [R!Samples -> RadiiVertices], NEW vis, NEW rad, NEW out, R!Started(s, vis, rad, out)
    PROVE  /\ vis \in [RadiiVertices -> [{0, 1} -> SUBSET R!Samples]]
           /\ rad \in [RadiiVertices -> Nat \union {-1}]
           /\ out \subseteq RadiiVertices
           /\ \A v \in RadiiVertices :
                 /\ vis[v][0] = {} /\ vis[v][1] = {i \in R!Samples : s[i] = v}
                 /\ rad[v] \in {0, -1}
                 /\ rad[v] = 0 <=> \E i \in R!Samples : s[i] = v
                 /\ v \in out <=> rad[v] = 0
<1> USE DEF R!Started
<1>1. vis = [v \in RadiiVertices |->
                [j \in {0, 1} |-> IF j = 1 THEN {i \in R!Samples : s[i] = v} ELSE {}]]
  OBVIOUS
<1>2. \A v \in RadiiVertices :
          /\ vis[v] = [j \in {0, 1} |-> IF j = 1 THEN {i \in R!Samples : s[i] = v} ELSE {}]
          /\ vis[v][0] = {} /\ vis[v][1] = {i \in R!Samples : s[i] = v}
  BY <1>1
<1>3. vis \in [RadiiVertices -> [{0, 1} -> SUBSET R!Samples]]
  <2>1. \A v \in RadiiVertices : vis[v] \in [{0, 1} -> SUBSET R!Samples]
    BY <1>2
  <2>2. QED
    BY <1>1, <2>1
<1>4. \A v \in RadiiVertices : rad[v] = IF \E i \in R!Samples : s[i] = v THEN 0 ELSE -1
  OBVIOUS
<1>5. QED
  BY <1>2, <1>3, <1>4

LEMMA RadiiInit == R!Init => RadiiIInv
<1> SUFFICES ASSUME R!Init PROVE RadiiIInv
  OBVIOUS
<1> USE DEF R!Init
<1>1. /\ visited \in [RadiiVertices -> [{0, 1} -> SUBSET R!Samples]]
      /\ radii \in [RadiiVertices -> Nat \union {-1}]
      /\ active_out \subseteq RadiiVertices
      /\ \A v \in RadiiVertices :
            /\ visited[v][0] = {} /\ visited[v][1] = {i \in R!Samples : start[i] = v}
            /\ radii[v] \in {0, -1}
            /\ radii[v] = 0 <=> \E i \in R!Samples : start[i] = v
            /\ v \in active_out <=> radii[v] = 0
  BY RadiiStarts
<1>2. RadiiTypes
  BY <1>1, RadiiGraphFacts DEF RadiiTypes, R!TypeOK, R!AnyEdge
<1>3. RadiiReached
  BY <1>1, RadiiReaches DEF RadiiReached
<1>4. RadiiBetween
  <2>1. ASSUME NEW v \in RadiiVertices PROVE RadiiSettled(v)
    <3>1. ASSUME NEW i \in R!Samples, NEW j \in {0, 1}, i \in visited[v][j]
          PROVE  v \in RadiiFrom(radii[v], start[i])
      BY <1>1, <3>1, RadiiPaths
    <3>2. QED
      BY <1>1, <3>1 DEF RadiiSettled
  <2>2. ASSUME NEW e \in RadiiEdges, NEW i \in R!Samples, RadiiHas(RadiiSource[e], i)
        PROVE  RadiiSource[e] \in active_out
    BY <1>1, <2>2, RadiiGraphFacts DEF RadiiHas
  <2>3. QED
    BY <2>1, <2>2 DEF RadiiBetween
<1>5. RadiiPlace
  BY <1>1, <1>4 DEF RadiiPlace
<1>6. RadiiChosen
  BY DEF RadiiChosen
<1>7. QED
  BY <1>2, <1>3, <1>5, <1>6 DEF RadiiIInv
-----------------------------------------------------------------------------
\* A vertex whose bits and radius a step leaves alone stays settled.
LEMMA RadiiSame ==
    ASSUME NEW v, start' = start, visited'[v] = visited[v], radii'[v] = radii[v]
    PROVE  RadiiSettled(v)' <=> RadiiSettled(v)
BY DEF RadiiSettled, RadiiFrom, R!Samples

\* What a step that leaves the bits alone keeps.
LEMMA RadiiKeepsBits ==
    ASSUME iteration \in Nat, UNCHANGED <<start, visited, iteration>>
    PROVE  RadiiBits' <=> RadiiBits
BY RadiiParity DEF RadiiBits, RadiiFrom, R!Samples

(* The steps of the workers.                                               *)
LEMMA RadiiTake ==
    ASSUME RadiiIInv, NEW w \in Workers, R!Take(w)
    PROVE  RadiiIInv'
<1> USE DEF RadiiIInv
<1>1. /\ UNCHANGED <<round, start, visited, radii, active_in, active_out, active_vertices, iteration,
                     candidates, threshold, max_radii, mainPc, old_radii>>
      /\ mainPc = "pass" /\ pc[w] = "idle" /\ pc' = [pc EXCEPT ![w] = "compare"]
  BY DEF R!Take, R!roundVars, R!bitmaps
<1>2. PICK d \in pending : pending' = pending \ {d} /\ edge' = [edge EXCEPT ![w] = d]
  BY DEF R!Take
<1>3. RadiiDuring
  BY <1>1 DEF RadiiPlace
<1>4. d \in RadiiEdges /\ RadiiSource[d] \in active_in
  BY <1>3 DEF RadiiDuring
<1>5. RadiiTypes'
  BY <1>1, <1>2 DEF RadiiTypes, R!TypeOK
<1>6. iteration \in Nat /\ R!now' = R!now /\ R!next' = R!next
  BY <1>1, RadiiParity DEF RadiiTypes, R!TypeOK
<1>7. RadiiReached'
  BY <1>1 DEF RadiiReached, R!Samples
<1>8. RadiiDuring'
  <2>1. pending' \subseteq {e \in RadiiEdges : RadiiSource[e] \in active_in'}
    BY <1>1, <1>2, <1>3 DEF RadiiDuring
  <2>2. ASSUME NEW x \in Workers PROVE RadiiHere(x)'
    <3>1. CASE x = w
      BY <1>1, <1>2, <1>4, <3>1 DEF RadiiHere, RadiiTypes, R!TypeOK
    <3>2. CASE x # w
      BY <1>1, <1>2, <1>3, <3>2 DEF RadiiHere, RadiiDuring, RadiiTypes, R!TypeOK
    <3>3. QED
      BY <3>1, <3>2
  <2>3. RadiiBits'
    BY <1>1, <1>3, <1>6, RadiiKeepsBits DEF RadiiDuring
  <2>4. RadiiNoticed'
    <3> SUFFICES ASSUME NEW v \in RadiiVertices, v \notin active_out', ~RadiiSettled(v)'
                 PROVE  \E x \in Workers : pc'[x] \in {"read", "test", "cas"} /\ RadiiTarget[edge'[x]] = v
      BY DEF RadiiNoticed
    <3>1. ~RadiiSettled(v) /\ v \notin active_out
      BY <1>1, RadiiSame
    <3>2. PICK x \in Workers : pc[x] \in {"read", "test", "cas"} /\ RadiiTarget[edge[x]] = v
      BY <1>3, <3>1 DEF RadiiDuring, RadiiNoticed
    <3>3. x # w
      BY <1>1, <3>2
    <3>4. QED
      BY <1>1, <1>2, <3>2, <3>3 DEF RadiiTypes, R!TypeOK
  <2>5. RadiiPassed'
    <3> SUFFICES ASSUME NEW e \in RadiiEdges, NEW i \in R!Samples,
                        start[i] = RadiiSource[e] \/ i \in visited[RadiiSource[e]][R!now],
                        ~(start[i] = RadiiTarget[e] \/ i \in visited[RadiiTarget[e]][R!next])
                 PROVE  /\ i \in visited[RadiiSource[e]][R!now]
                        /\ e \in pending' \/ \E x \in Workers : pc'[x] = "compare" /\ edge'[x] = e
      <4>1. R!Samples' = R!Samples
        BY DEF R!Samples
      <4>2. QED
        BY <1>1, <1>6, <4>1 DEF RadiiPassed
    <3> SUFFICES ASSUME e \notin pending'
                 PROVE  /\ i \in visited[RadiiSource[e]][R!now]
                        /\ \E x \in Workers : pc'[x] = "compare" /\ edge'[x] = e
      BY <1>3 DEF RadiiDuring, RadiiPassed
    <3>p. RadiiPassed
      BY <1>3 DEF RadiiDuring
    <3>a. i \in visited[RadiiSource[e]][R!now]
      BY <3>p DEF RadiiPassed
    <3>1. CASE e = d
      BY <1>1, <1>2, <3>a, <3>1 DEF RadiiTypes, R!TypeOK
    <3>2. CASE e # d
      <4>1. PICK x \in Workers : pc[x] = "compare" /\ edge[x] = e
        BY <1>2, <1>3, <3>2 DEF RadiiDuring, RadiiPassed
      <4>2. QED
        BY <1>1, <1>2, <3>a, <4>1 DEF RadiiTypes, R!TypeOK
    <3>3. QED
      BY <3>1, <3>2
  <2>6. QED
    BY <1>1, <1>3, <2>1, <2>2, <2>3, <2>4, <2>5 DEF RadiiDuring, R!Samples
<1>9. RadiiPlace'
  BY <1>1, <1>8 DEF RadiiPlace
<1>10. RadiiChosen'
  BY <1>1 DEF RadiiChosen
<1>11. QED
  BY <1>5, <1>7, <1>9, <1>10

(* A step of one worker that changes neither bits nor radii: a vertex it   *)
(* gives up is in active_out, and an edge it drops has nothing to pass on. *)
RadiiOthers(w) ==
    /\ \A x \in Workers : x # w => pc'[x] = pc[x] /\ edge'[x] = edge[x] /\ old_radii'[x] = old_radii[x]
    /\ UNCHANGED <<round, start, candidates, threshold, max_radii, active_in, active_vertices, iteration,
                   mainPc, pending>>
    /\ mainPc = "pass"

RadiiHolds(w) ==
    /\ pc'[w] \in {"read", "test", "cas"} => edge'[w] = edge[w] /\ pc[w] # "idle"
    /\ pc[w] \in {"read", "test", "cas"} =>
          pc'[w] \in {"read", "test", "cas"} \/ RadiiTarget[edge[w]] \in active_out'

LEMMA RadiiQuietStep ==
    ASSUME RadiiIInv, NEW w \in Workers, RadiiOthers(w), RadiiHolds(w), RadiiTypes',
           UNCHANGED <<visited, radii, active_out>>, RadiiHere(w)',
           pc[w] = "compare" => \A i \in R!Samples :
              i \in visited[RadiiSource[edge[w]]][R!now] =>
                  start[i] = RadiiTarget[edge[w]] \/ i \in visited[RadiiTarget[edge[w]]][R!next]
    PROVE  RadiiIInv'
<1> USE DEF RadiiIInv, RadiiOthers
<1>1. RadiiDuring
  BY DEF RadiiPlace
<1>2. iteration \in Nat /\ R!now' = R!now /\ R!next' = R!next
  BY RadiiParity DEF RadiiTypes, R!TypeOK
<1>3. RadiiReached'
  BY DEF RadiiReached, R!Samples
<1>4. RadiiDuring'
  <2>1. ASSUME NEW x \in Workers PROVE RadiiHere(x)'
    BY <1>1 DEF RadiiHere, RadiiDuring
  <2>2. RadiiBits'
    BY <1>1, <1>2, RadiiKeepsBits DEF RadiiDuring
  <2>3. RadiiNoticed'
    <3> SUFFICES ASSUME NEW v \in RadiiVertices, v \notin active_out, ~RadiiSettled(v)'
                 PROVE  \E x \in Workers : pc'[x] \in {"read", "test", "cas"} /\ RadiiTarget[edge'[x]] = v
      BY DEF RadiiNoticed
    <3>1. ~RadiiSettled(v)
      BY RadiiSame
    <3>2. PICK x \in Workers : pc[x] \in {"read", "test", "cas"} /\ RadiiTarget[edge[x]] = v
      BY <1>1, <3>1 DEF RadiiDuring, RadiiNoticed
    <3>3. pc'[x] \in {"read", "test", "cas"} /\ edge'[x] = edge[x]
      BY <3>2 DEF RadiiHolds
    <3>4. QED
      BY <3>2, <3>3
  <2>4. RadiiPassed'
    <3> SUFFICES ASSUME NEW e \in RadiiEdges, NEW i \in R!Samples,
                        start[i] = RadiiSource[e] \/ i \in visited[RadiiSource[e]][R!now],
                        ~(start[i] = RadiiTarget[e] \/ i \in visited[RadiiTarget[e]][R!next])
                 PROVE  /\ i \in visited[RadiiSource[e]][R!now]
                        /\ e \in pending \/ \E x \in Workers : pc'[x] = "compare" /\ edge'[x] = e
      <4>1. R!Samples' = R!Samples
        BY DEF R!Samples
      <4>2. QED
        BY <1>2, <4>1 DEF RadiiPassed
    <3> SUFFICES ASSUME e \notin pending
                 PROVE  /\ i \in visited[RadiiSource[e]][R!now]
                        /\ \E x \in Workers : pc'[x] = "compare" /\ edge'[x] = e
      BY <1>1 DEF RadiiDuring, RadiiPassed
    <3>p. RadiiPassed
      BY <1>1 DEF RadiiDuring
    <3>1. PICK x \in Workers : /\ i \in visited[RadiiSource[e]][R!now]
                               /\ pc[x] = "compare" /\ edge[x] = e
      BY <3>p DEF RadiiPassed
    <3>2. x # w
      BY <3>1
    <3>3. QED
      BY <3>1, <3>2
  <2>5. QED
    BY <1>1, <2>1, <2>2, <2>3, <2>4 DEF RadiiDuring, R!Samples
<1>5. RadiiPlace'
  BY <1>4 DEF RadiiPlace
<1>6. RadiiChosen'
  BY DEF RadiiChosen
<1>7. QED
  BY <1>3, <1>5, <1>6
-----------------------------------------------------------------------------
\* The lambda returns: the worker is idle, the other workers are where they were.
LEMMA RadiiDone ==
    ASSUME RadiiTypes, NEW w \in Workers, R!Done(w)
    PROVE  /\ pc' \in [Workers -> {"idle", "compare", "read", "test", "cas"}]
           /\ edge' \in [Workers -> RadiiEdges] /\ old_radii' \in [Workers -> Nat \union {-1}]
           /\ pc'[w] = "idle"
           /\ \A x \in Workers : x # w => pc'[x] = pc[x] /\ edge'[x] = edge[x] /\ old_radii'[x] = old_radii[x]
BY RadiiGraphFacts DEF R!Done, R!AnyEdge, RadiiTypes, R!TypeOK

LEMMA RadiiCompare ==
    ASSUME RadiiIInv, NEW w \in Workers, R!Compare(w)
    PROVE  RadiiIInv'
<1> DEFINE s == RadiiSource[edge[w]]
           t == RadiiTarget[edge[w]]
<1> USE DEF RadiiIInv
<1>1. /\ UNCHANGED <<round, start, radii, active_in, active_out, active_vertices, iteration,
                     candidates, threshold, max_radii, mainPc, pending>>
      /\ pc[w] = "compare"
  BY DEF R!Compare, R!roundVars, R!bitmaps
<1>2. mainPc = "pass" /\ RadiiDuring
  <2>1. mainPc = "pass"
    BY <1>1 DEF RadiiPlace, RadiiBetween
  <2>2. QED
    BY <2>1 DEF RadiiPlace
<1>3. s \in RadiiVertices /\ t \in RadiiVertices /\ edge[w] \in RadiiEdges /\ s \in active_in
  BY <1>1, <1>2, RadiiGraphFacts DEF RadiiTypes, RadiiDuring, RadiiHere
<1>4. /\ iteration \in Nat /\ iteration - 1 \in Nat
      /\ R!now' = R!now /\ R!next' = R!next
      /\ R!now \in {0, 1} /\ R!next \in {0, 1} /\ R!now # R!next
  BY <1>1, <1>2, RadiiParity DEF RadiiTypes, R!TypeOK, RadiiDuring
<1>5. R!Samples' = R!Samples
  BY DEF R!Samples
<1>6. CASE visited[t][R!now] = visited[s][R!now]
  <2>1. R!Done(w) /\ visited' = visited
    BY <1>6 DEF R!Compare
  <2>2. RadiiOthers(w) /\ RadiiHolds(w)
    BY <1>1, <1>2, <2>1, RadiiDone DEF RadiiOthers, RadiiHolds
  <2>3. RadiiTypes'
    BY <1>1, <2>1, RadiiDone DEF RadiiTypes, R!TypeOK, R!Samples
  <2>4. RadiiHere(w)'
    BY <2>1, RadiiDone DEF RadiiHere
  <2>5. \A i \in R!Samples : i \in visited[s][R!now] => start[i] = t \/ i \in visited[t][R!next]
    BY <1>2, <1>3, <1>6 DEF RadiiDuring, RadiiBits
  <2>6. QED
    BY <1>1, <2>1, <2>2, <2>3, <2>4, <2>5, RadiiQuietStep
<1>7. CASE visited[t][R!now] # visited[s][R!now]
  <2>1. /\ visited' = [visited EXCEPT ![t][R!next] = @ \union visited[s][R!now]]
        /\ pc' = [pc EXCEPT ![w] = "read"] /\ UNCHANGED <<edge, old_radii>>
    BY <1>7 DEF R!Compare
  <2>2. visited \in [RadiiVertices -> [{0, 1} -> SUBSET R!Samples]]
    BY DEF RadiiTypes, R!TypeOK
  <2> HIDE DEF s, t
  <2>3. /\ visited'[t][R!next] = visited[t][R!next] \union visited[s][R!now]
        /\ \A v \in RadiiVertices : v # t => visited'[v] = visited[v]
        /\ \A v \in RadiiVertices : visited'[v][R!now] = visited[v][R!now]
        /\ visited' \in [RadiiVertices -> [{0, 1} -> SUBSET R!Samples]]
    BY <1>3, <1>4, <2>1, <2>2
  <2>4. RadiiTypes'
    BY <1>1, <1>5, <2>1, <2>3 DEF RadiiTypes, R!TypeOK
  <2>5. RadiiReached'
    BY <1>1, <1>5 DEF RadiiReached
  <2>6. \A x \in Workers : x # w => pc'[x] = pc[x]
    BY <2>1 DEF RadiiTypes, R!TypeOK
  <2>7. pc'[w] = "read"
    BY <2>1 DEF RadiiTypes, R!TypeOK
  <2>8. \A x \in Workers : RadiiHere(x)'
    BY <1>1, <1>2, <2>1, <2>6, <2>7 DEF RadiiHere, RadiiDuring
  <2>9. RadiiBits'
    <3>1. RadiiBits
      BY <1>2 DEF RadiiDuring
    <3> SUFFICES ASSUME NEW v \in RadiiVertices, NEW i \in R!Samples
                 PROVE  /\ i \in visited'[v][R!now] => v \in RadiiFrom(iteration - 1, start[i])
                        /\ i \in visited'[v][R!next] => v \in RadiiFrom(iteration, start[i])
                        /\ i \in visited'[v][R!now] => i \in visited'[v][R!next] \/ start[i] = v
      BY <1>1, <1>4, <1>5 DEF RadiiBits, RadiiFrom
    <3>2. CASE v # t
      BY <2>3, <3>1, <3>2 DEF RadiiBits
    <3>3. CASE v = t
      <4>1. ASSUME i \in visited[s][R!now] PROVE t \in RadiiFrom(iteration, start[i])
        <5>1. start[i] \in RadiiVertices
          BY DEF RadiiTypes, R!TypeOK
        <5>2. s \in RadiiFrom(iteration - 1, start[i])
          BY <1>3, <3>1, <4>1 DEF RadiiBits
        <5>3. t \in RadiiFrom((iteration - 1) + 1, start[i])
          BY <1>3, <1>4, <5>1, <5>2, RadiiPaths DEF s, t
        <5>4. (iteration - 1) + 1 = iteration
          BY <1>4
        <5>5. QED
          BY <5>3, <5>4
      <4>2. QED
        BY <2>3, <3>1, <3>3, <4>1 DEF RadiiBits
    <3>4. QED
      BY <3>2, <3>3
  <2>10. RadiiNoticed'
    <3> SUFFICES ASSUME NEW v \in RadiiVertices, v \notin active_out, ~RadiiSettled(v)'
                 PROVE  \E x \in Workers : pc'[x] \in {"read", "test", "cas"} /\ RadiiTarget[edge[x]] = v
      BY <1>1, <2>1 DEF RadiiNoticed
    <3>1. CASE v = t
      BY <2>7, <3>1 DEF t
    <3>2. CASE v # t
      <4>1. ~RadiiSettled(v)
        BY <1>1, <2>3, <3>2, RadiiSame
      <4>2. PICK x \in Workers : pc[x] \in {"read", "test", "cas"} /\ RadiiTarget[edge[x]] = v
        BY <1>2, <4>1 DEF RadiiDuring, RadiiNoticed
      <4>3. x # w
        BY <1>1, <4>2
      <4>4. QED
        BY <2>6, <4>2, <4>3
    <3>3. QED
      BY <3>1, <3>2
  <2>11. RadiiPassed'
    <3> SUFFICES ASSUME NEW e \in RadiiEdges, NEW i \in R!Samples,
                        start[i] = RadiiSource[e] \/ i \in visited'[RadiiSource[e]][R!now],
                        ~(start[i] = RadiiTarget[e] \/ i \in visited'[RadiiTarget[e]][R!next])
                 PROVE  /\ i \in visited'[RadiiSource[e]][R!now]
                        /\ e \in pending \/ \E x \in Workers : pc'[x] = "compare" /\ edge[x] = e
      BY <1>1, <1>4, <1>5, <2>1 DEF RadiiPassed
    <3>1. RadiiSource[e] \in RadiiVertices /\ RadiiTarget[e] \in RadiiVertices
      BY RadiiGraphFacts
    <3>2. visited'[RadiiSource[e]][R!now] = visited[RadiiSource[e]][R!now]
      BY <2>3, <3>1
    <3>3. i \notin visited[RadiiTarget[e]][R!next]
      BY <2>3, <3>1
    <3>4. RadiiPassed
      BY <1>2 DEF RadiiDuring
    <3>5. /\ i \in visited[RadiiSource[e]][R!now]
          /\ e \in pending \/ \E x \in Workers : pc[x] = "compare" /\ edge[x] = e
      BY <3>2, <3>3, <3>4 DEF RadiiPassed
    <3>6. e # edge[w]
      BY <2>3, <3>5 DEF s, t
    <3>7. QED
      BY <2>6, <3>2, <3>5, <3>6
  <2>12. RadiiDuring'
    BY <1>1, <1>2, <1>5, <2>8, <2>9, <2>10, <2>11 DEF RadiiDuring
  <2>13. RadiiPlace'
    BY <1>1, <1>2, <2>12 DEF RadiiPlace
  <2>14. RadiiChosen'
    BY <1>1 DEF RadiiChosen
  <2>15. QED
    BY <2>4, <2>5, <2>13, <2>14
<1>8. QED
  BY <1>6, <1>7

LEMMA RadiiReadAndTest ==
    ASSUME RadiiIInv, NEW w \in Workers, R!ReadRadii(w) \/ R!Test(w)
    PROVE  RadiiIInv'
<1> DEFINE t == RadiiTarget[edge[w]]
<1> USE DEF RadiiIInv
<1>1. /\ UNCHANGED <<round, start, visited, radii, active_in, active_out, active_vertices, iteration,
                     candidates, threshold, max_radii, mainPc, pending>>
      /\ pc[w] \in {"read", "test"}
  BY DEF R!ReadRadii, R!Test, R!roundVars, R!bitmaps
<1>2. mainPc = "pass" /\ RadiiDuring
  <2>1. mainPc = "pass"
    BY <1>1 DEF RadiiPlace, RadiiBetween
  <2>2. QED
    BY <2>1 DEF RadiiPlace
<1>3. t \in RadiiVertices /\ RadiiHere(w)
  BY <1>2, RadiiGraphFacts DEF RadiiTypes, RadiiDuring
<1>4. /\ RadiiTypes' /\ RadiiHere(w)'
      /\ \A x \in Workers : x # w => pc'[x] = pc[x] /\ edge'[x] = edge[x] /\ old_radii'[x] = old_radii[x]
      /\ pc'[w] # "idle" => pc'[w] \in {"test", "cas"} /\ edge'[w] = edge[w]
      /\ pc'[w] = "idle" => t \in active_out
  <2>1. CASE R!ReadRadii(w)
    <3>1. /\ old_radii' = [old_radii EXCEPT ![w] = radii[t]] /\ pc' = [pc EXCEPT ![w] = "test"]
          /\ edge' = edge
      BY <2>1 DEF R!ReadRadii
    <3> HIDE DEF t
    <3>2. /\ \A x \in Workers : x # w => pc'[x] = pc[x] /\ edge'[x] = edge[x] /\ old_radii'[x] = old_radii[x]
          /\ pc'[w] = "test" /\ edge'[w] = edge[w] /\ old_radii'[w] = radii[t]
      BY <3>1 DEF RadiiTypes, R!TypeOK
    <3>3. RadiiTypes'
      BY <1>1, <1>3, <3>1 DEF RadiiTypes, R!TypeOK, R!Samples
    <3>4. pc[w] = "read"
      BY <2>1 DEF R!ReadRadii
    <3>5. RadiiHere(w)'
      BY <1>1, <1>3, <3>2, <3>4 DEF RadiiHere, t
    <3>6. QED
      BY <3>2, <3>3, <3>5
  <2>2. CASE R!Test(w) /\ radii[t] # iteration
    <3>1. pc' = [pc EXCEPT ![w] = "cas"] /\ UNCHANGED <<edge, old_radii>> /\ pc[w] = "test"
      BY <2>2 DEF R!Test
    <3>2. (\A x \in Workers : x # w => pc'[x] = pc[x]) /\ pc'[w] = "cas"
      BY <3>1 DEF RadiiTypes, R!TypeOK
    <3>3. RadiiTypes'
      BY <1>1, <3>1 DEF RadiiTypes, R!TypeOK, R!Samples
    <3>4. RadiiHere(w)'
      BY <1>1, <1>3, <3>1, <3>2 DEF RadiiHere
    <3>5. QED
      BY <3>1, <3>2, <3>3, <3>4
  <2>3. CASE R!Test(w) /\ radii[t] = iteration
    <3>1. R!Done(w)
      BY <2>3 DEF R!Test
    <3>2. RadiiTypes'
      BY <1>1, <3>1, RadiiDone DEF RadiiTypes, R!TypeOK, R!Samples
    <3>3. t \in active_out
      BY <1>3, <2>3 DEF RadiiPlace
    <3>4. QED
      BY <3>1, <3>2, <3>3, RadiiDone DEF RadiiHere
  <2>4. QED
    BY <2>1, <2>2, <2>3
<1>5. RadiiOthers(w) /\ RadiiHolds(w)
  <2>1. pc'[w] = "idle" \/ pc'[w] \in {"test", "cas"}
    BY <1>4
  <2>2. RadiiHolds(w)
    BY <1>1, <1>4, <2>1 DEF RadiiHolds
  <2>3. QED
    BY <1>1, <1>2, <1>4, <2>2 DEF RadiiOthers
<1>6. QED
  BY <1>1, <1>4, <1>5, RadiiQuietStep

LEMMA RadiiCas ==
    ASSUME RadiiIInv, NEW w \in Workers, R!Cas(w)
    PROVE  RadiiIInv'
<1> DEFINE t == RadiiTarget[edge[w]]
<1> USE DEF RadiiIInv
<1>1. /\ UNCHANGED <<round, start, visited, active_in, active_vertices, iteration,
                     candidates, threshold, max_radii, mainPc, pending>>
      /\ pc[w] = "cas" /\ R!Done(w)
  BY DEF R!Cas, R!roundVars
<1>2. mainPc = "pass" /\ RadiiDuring
  <2>1. mainPc = "pass"
    BY <1>1 DEF RadiiPlace, RadiiBetween
  <2>2. QED
    BY <2>1 DEF RadiiPlace
<1>3. t \in RadiiVertices /\ RadiiHere(w) /\ edge[w] \in RadiiEdges
  BY <1>2, RadiiGraphFacts DEF RadiiTypes, RadiiDuring
<1>4. /\ pc'[w] = "idle" /\ RadiiHere(w)'
      /\ \A x \in Workers : x # w => pc'[x] = pc[x] /\ edge'[x] = edge[x] /\ old_radii'[x] = old_radii[x]
  BY <1>1, RadiiDone DEF RadiiHere
<1>5. iteration \in Nat /\ R!now' = R!now /\ R!next' = R!next
  BY <1>1, RadiiParity DEF RadiiTypes, R!TypeOK
<1>6. R!Samples' = R!Samples
  BY DEF R!Samples
<1>7. CASE radii[t] # old_radii[w]
  <2>1. UNCHANGED <<radii, active_out>>
    BY <1>7 DEF R!Cas
  <2>2. radii[t] = iteration
    BY <1>1, <1>3, <1>7 DEF RadiiHere
  <2>3. t \in active_out
    BY <1>3, <2>2 DEF RadiiPlace
  <2>4. RadiiTypes'
    BY <1>1, <1>6, <2>1, RadiiDone DEF RadiiTypes, R!TypeOK
  <2>5. RadiiOthers(w) /\ RadiiHolds(w)
    BY <1>1, <1>2, <1>4, <2>1, <2>3 DEF RadiiOthers, RadiiHolds
  <2>6. QED
    BY <1>1, <1>4, <2>1, <2>4, <2>5, RadiiQuietStep
<1>8. CASE radii[t] = old_radii[w]
  <2>1. radii' = [radii EXCEPT ![t] = iteration] /\ active_out' = active_out \union {t}
    BY <1>8 DEF R!Cas
  <2>2. /\ \A v \in RadiiVertices : radii'[v] = IF v = t THEN iteration ELSE radii[v]
        /\ radii' \in [RadiiVertices -> Nat \union {-1}]
    BY <1>3, <1>5, <2>1 DEF RadiiTypes, R!TypeOK
  <2>3. RadiiTypes'
    BY <1>1, <1>3, <1>6, <2>1, <2>2, RadiiDone DEF RadiiTypes, R!TypeOK
  <2>4. RadiiReached'
    <3>1. \E i \in R!Samples : R!Reaches(start[i], t)
      <4>1. RadiiSource[edge[w]] \in active_in
        BY <1>1, <1>3 DEF RadiiHere
      <4>2. PICK i \in R!Samples : R!Reaches(start[i], RadiiSource[edge[w]])
        BY <1>2, <4>1 DEF RadiiDuring
      <4>3. start[i] \in RadiiVertices
        BY DEF RadiiTypes, R!TypeOK
      <4>4. QED
        BY <1>3, <4>2, <4>3, RadiiReaches
    <3> HIDE DEF t
    <3>2. iteration # -1 /\ iteration <= iteration
      BY <1>5
    <3>3. QED
      BY <1>1, <1>6, <2>2, <3>1, <3>2 DEF RadiiReached
  <2>5. active_out' = {v \in RadiiVertices : radii'[v] = iteration}
    <3> HIDE DEF t
    <3>1. active_out = {v \in RadiiVertices : radii[v] = iteration}
      BY DEF RadiiPlace
    <3>2. QED
      BY <1>3, <2>1, <2>2, <3>1
  <2>6. ASSUME NEW x \in Workers PROVE RadiiHere(x)'
    <3>1. CASE x = w
      BY <1>4, <3>1
    <3>2. CASE x # w
      <4>1. RadiiHere(x) /\ RadiiTarget[edge[x]] \in RadiiVertices
        BY <1>2, RadiiGraphFacts DEF RadiiDuring, RadiiTypes
      <4>2. QED
        BY <1>1, <1>4, <2>2, <3>2, <4>1 DEF RadiiHere
    <3>3. QED
      BY <3>1, <3>2
  <2>7. RadiiBits'
    BY <1>1, <1>2, <1>5, RadiiKeepsBits DEF RadiiDuring
  <2>8. RadiiNoticed'
    <3> SUFFICES ASSUME NEW v \in RadiiVertices, v \notin active_out', ~RadiiSettled(v)'
                 PROVE  \E x \in Workers : pc'[x] \in {"read", "test", "cas"} /\ RadiiTarget[edge'[x]] = v
      BY DEF RadiiNoticed
    <3>1. v # t /\ v \notin active_out
      BY <2>1
    <3>2. ~RadiiSettled(v)
      BY <1>1, <2>2, <3>1, RadiiSame
    <3>3. PICK x \in Workers : pc[x] \in {"read", "test", "cas"} /\ RadiiTarget[edge[x]] = v
      BY <1>2, <3>1, <3>2 DEF RadiiDuring, RadiiNoticed
    <3>4. x # w
      BY <3>1, <3>3
    <3>5. QED
      BY <1>4, <3>3, <3>4
  <2>9. RadiiPassed'
    <3> SUFFICES ASSUME NEW e \in RadiiEdges, NEW i \in R!Samples,
                        start[i] = RadiiSource[e] \/ i \in visited[RadiiSource[e]][R!now],
                        ~(start[i] = RadiiTarget[e] \/ i \in visited[RadiiTarget[e]][R!next])
                 PROVE  /\ i \in visited[RadiiSource[e]][R!now]
                        /\ e \in pending \/ \E x \in Workers : pc'[x] = "compare" /\ edge'[x] = e
      BY <1>1, <1>5, <1>6 DEF RadiiPassed
    <3>1. RadiiPassed
      BY <1>2 DEF RadiiDuring
    <3>2. /\ i \in visited[RadiiSource[e]][R!now]
          /\ e \in pending \/ \E x \in Workers : pc[x] = "compare" /\ edge[x] = e
      BY <3>1 DEF RadiiPassed
    <3>3. \A x \in Workers : pc[x] = "compare" => pc'[x] = pc[x] /\ edge'[x] = edge[x]
      BY <1>1, <1>4
    <3>4. QED
      BY <3>2, <3>3
  <2>10. RadiiDuring'
    BY <1>1, <1>2, <1>6, <2>6, <2>7, <2>8, <2>9 DEF RadiiDuring
  <2>11. RadiiPlace'
    BY <1>1, <1>2, <2>5, <2>10 DEF RadiiPlace
  <2>12. RadiiChosen'
    BY <1>1, <1>2 DEF RadiiChosen
  <2>13. QED
    BY <2>3, <2>4, <2>11, <2>12
<1>9. QED
  BY <1>7, <1>8
-----------------------------------------------------------------------------
\* A nonempty set of numbers has a least one.
LEMMA LeastNumber ==
    ASSUME NEW S \in SUBSET Nat, S # {}
    PROVE  \E m \in S : \A x \in S : m <= x
<1>1. PICK m \in S : \A y \in S : ~(<<y, m>> \in Less)
  <2>1. S \subseteq Nat /\ S # {}
    OBVIOUS
  <2>2. QED
    BY <2>1, LessIsWellFounded, WFMin
<1>2. ASSUME NEW x \in S PROVE m <= x
  <2>1. x \in Nat /\ m \in Nat /\ <<x, m>> \notin Less
    BY <1>1
  <2>2. QED
    BY <2>1 DEF Less
<1>3. QED
  BY <1>2

(* Every set of vertices has an ascending enumeration, and it has all of   *)
(* them.                                                                   *)
Increasing(s) == \A i, j \in DOMAIN s : i < j => s[i] < s[j]

LEMMA Enumerable ==
    ASSUME NEW S \in SUBSET Nat, IsFiniteSet(S)
    PROVE  \E s \in [1 .. Cardinality(S) -> S] : Increasing(s)
<1> DEFINE N == {n \in Nat : \A T \in SUBSET Nat : IsFiniteSet(T) /\ Cardinality(T) = n =>
                                \E s \in [1 .. n -> T] : Increasing(s)}
<1>1. 0 \in N
  <2> SUFFICES ASSUME NEW T \in SUBSET Nat PROVE \E s \in [1 .. 0 -> T] : Increasing(s)
    OBVIOUS
  <2>1. [i \in 1 .. 0 |-> 0] \in [1 .. 0 -> T] /\ Increasing([i \in 1 .. 0 |-> 0])
    BY DEF Increasing
  <2>2. QED
    BY <2>1
<1>2. ASSUME NEW n \in Nat, n \in N PROVE n + 1 \in N
  <2> SUFFICES ASSUME NEW T \in SUBSET Nat, IsFiniteSet(T), Cardinality(T) = n + 1
               PROVE  \E s \in [1 .. n + 1 -> T] : Increasing(s)
    OBVIOUS
  <2>1. T # {}
    BY FS_EmptySet
  <2>2. PICK m \in T : \A x \in T : m <= x
    BY <2>1, LeastNumber
  <2>3. T \ {m} \in SUBSET Nat /\ IsFiniteSet(T \ {m}) /\ Cardinality(T \ {m}) = n
    <3>1. Cardinality(T \ {m}) = Cardinality(T) - 1 /\ IsFiniteSet(T \ {m})
      BY FS_RemoveElement
    <3>2. QED
      BY <3>1
  <2>4. PICK r \in [1 .. n -> T \ {m}] : Increasing(r)
    BY <1>2, <2>3
  <2> DEFINE s == [i \in 1 .. n + 1 |-> IF i = 1 THEN m ELSE r[i - 1]]
  <2>5. \A i \in 1 .. n + 1 : i # 1 => i - 1 \in 1 .. n /\ s[i] = r[i - 1] /\ s[i] \in T /\ s[i] # m
    BY <2>4
  <2>6. s[1] = m /\ DOMAIN s = 1 .. n + 1
    OBVIOUS
  <2>7. s \in [1 .. n + 1 -> T]
    <3>1. \A i \in 1 .. n + 1 : s[i] \in T
      BY <2>5, <2>6
    <3>2. QED
      BY <3>1
  <2> HIDE DEF s
  <2>8. ASSUME NEW i \in 1 .. n + 1, NEW j \in 1 .. n + 1, i < j PROVE s[i] < s[j]
    <3>1. j # 1
      BY <2>8
    <3>2. CASE i = 1
      <4>1. s[j] \in T /\ s[j] # m /\ s[j] \in Nat /\ m \in Nat /\ m <= s[j]
        BY <2>2, <2>5, <3>1
      <4>2. QED
        BY <2>6, <3>2, <4>1
    <3>3. CASE i # 1
      <4>1. i - 1 \in 1 .. n /\ j - 1 \in 1 .. n /\ i - 1 < j - 1
        BY <2>5, <2>8, <3>1, <3>3
      <4>2. r[i - 1] < r[j - 1]
        BY <2>4, <4>1 DEF Increasing
      <4>3. QED
        BY <2>5, <3>1, <3>3, <4>2
    <3>4. QED
      BY <3>2, <3>3
  <2>9. Increasing(s)
    BY <2>6, <2>8 DEF Increasing
  <2>10. QED
    BY <2>7, <2>9
<1>3. Nat \subseteq N
  <2> HIDE DEF N
  <2>1. QED
    BY <1>1, <1>2, NatSet
<1>4. Cardinality(S) \in Nat
  BY FS_CardinalityType
<1>5. QED
  BY <1>3, <1>4

LEMMA RadiiAscending ==
    ASSUME NEW S \in SUBSET RadiiVertices
    PROVE  /\ Cardinality(S) \in Nat
           /\ R!Ascending(S) \in [1 .. Cardinality(S) -> S]
           /\ \A i, j \in 1 .. Cardinality(S) : i < j => R!Ascending(S)[i] # R!Ascending(S)[j]
           /\ \A v \in S : \E i \in 1 .. Cardinality(S) : R!Ascending(S)[i] = v
<1> DEFINE n == Cardinality(S)
           s == R!Ascending(S)
<1>1. IsFiniteSet(S) /\ n \in Nat /\ S \subseteq Nat
  BY RadiiGraphFacts, FS_Subset, FS_CardinalityType
<1>2. R!Cardinality(S) = n
  BY RadiiGraphFacts
<1>3. s = CHOOSE r \in [1 .. n -> S] : \A i, j \in DOMAIN r : i < j => r[i] < r[j]
  BY <1>2 DEF R!Ascending
<1>4. \E r \in [1 .. n -> S] : \A i, j \in DOMAIN r : i < j => r[i] < r[j]
  BY <1>1, Enumerable DEF Increasing
<1> HIDE DEF s
<1>5. s \in [1 .. n -> S] /\ \A i, j \in DOMAIN s : i < j => s[i] < s[j]
  BY <1>3, <1>4
<1>6. \A i, j \in 1 .. n : i < j => s[i] # s[j]
  <2>1. \A i \in 1 .. n : s[i] \in Nat
    BY <1>1, <1>5
  <2>2. \A i, j \in 1 .. n : i < j => s[i] < s[j]
    BY <1>5
  <2>3. QED
    BY <2>1, <2>2
<1>7. s \in Injection(1 .. n, S)
  <2>1. \A i, j \in 1 .. n : s[i] = s[j] => i = j
    <3>1. \A i, j \in 1 .. n : i < j \/ j < i \/ i = j
      BY <1>1
    <3>2. QED
      BY <1>6, <3>1
  <2>2. QED
    BY <1>5, <2>1 DEF Injection, IsInjective
<1>8. IsFiniteSet(1 .. n) /\ Cardinality(1 .. n) = n
  <2>1. IsFiniteSet(1 .. n) /\ Cardinality(1 .. n) = IF 1 > n THEN 0 ELSE n - 1 + 1
    BY <1>1, FS_Interval
  <2>2. QED
    BY <1>1, <2>1
<1>9. s \in Surjection(1 .. n, S)
  <2>1. n = Cardinality(S)
    OBVIOUS
  <2> HIDE DEF n
  <2>2. Cardinality(1 .. n) = Cardinality(S) <=> s \in Surjection(1 .. n, S)
    BY <1>1, <1>7, FS_Injection
  <2>3. QED
    BY <1>8, <2>1, <2>2
<1>10. \A v \in S : \E i \in 1 .. n : s[i] = v
  BY <1>9 DEF Surjection
<1>11. QED
  BY <1>1, <1>5, <1>6, <1>10 DEF s

(* max_radii is the largest radius.                                        *)
LEMMA RadiiLargest ==
    ASSUME radii \in [RadiiVertices -> Nat \union {-1}], NEW top \in Nat,
           \A v \in RadiiVertices : radii[v] <= top
    PROVE  R!Largest \in Int /\ \A v \in RadiiVertices : radii[v] <= R!Largest
<1> DEFINE S == {m \in Nat : \A v \in RadiiVertices : radii[v] <= m}
           A == {0} \union {radii[v] : v \in RadiiVertices}
<1>1. PICK m \in S : \A x \in S : m <= x
  BY LeastNumber
<1>2. m \in A
  <2> SUFFICES ASSUME m # 0, \A v \in RadiiVertices : radii[v] # m PROVE FALSE
    OBVIOUS
  <2>1. m - 1 \in Nat /\ \A v \in RadiiVertices : radii[v] <= m - 1
    <3>1. \A v \in RadiiVertices : radii[v] \in Int /\ radii[v] <= m
      OBVIOUS
    <3>2. QED
      BY <3>1
  <2>2. QED
    BY <1>1, <2>1
<1>3. \E x \in A : \A v \in RadiiVertices : radii[v] <= x
  BY <1>2
<1>4. R!Largest \in A /\ \A v \in RadiiVertices : radii[v] <= R!Largest
  BY <1>3 DEF R!Largest
<1>5. QED
  BY <1>4
-----------------------------------------------------------------------------
\* What a settled vertex says of the bits in its two buffers.
LEMMA RadiiAgree ==
    ASSUME RadiiTypes, RadiiReached, NEW v \in RadiiVertices, RadiiSettled(v),
           NEW i \in R!Samples, NEW j \in {0, 1}, i \in visited[v][j]
    PROVE  /\ start[i] = v \/ \A l \in {0, 1} : i \in visited[v][l]
           /\ v \in RadiiFrom(iteration, start[i])
<1>1. radii[v] \in Nat \union {-1} /\ iteration \in Nat /\ start[i] \in RadiiVertices
  BY DEF RadiiTypes, R!TypeOK
<1>2. radii[v] <= 0 \/ radii[v] > 0
  BY <1>1
<1>3. start[i] = v \/ \A l \in {0, 1} : i \in visited[v][l]
  BY <1>2 DEF RadiiSettled
<1>4. radii[v] \in Nat /\ radii[v] <= iteration
  <2>1. radii[v] <= 0 => start[i] = v
    BY DEF RadiiSettled
  <2>2. radii[v] # -1
    BY <1>1, <2>1 DEF RadiiReached
  <2>3. QED
    BY <1>1, <2>2 DEF RadiiReached
<1>5. v \in RadiiFrom(radii[v], start[i])
  BY DEF RadiiSettled
<1>6. QED
  BY <1>1, <1>3, <1>4, <1>5, RadiiMonotone

LEMMA RadiiStartPass ==
    ASSUME RadiiIInv, R!StartPass
    PROVE  RadiiIInv'
<1> USE DEF RadiiIInv
<1>1. /\ UNCHANGED <<round, start, candidates, threshold, max_radii, visited, radii, active_vertices,
                     pc, edge, old_radii>>
      /\ mainPc = "while" /\ mainPc' = "pass"
      /\ iteration' = iteration + 1
      /\ active_in' = active_out /\ active_out' = {}
      /\ pending' = {e \in RadiiEdges : RadiiSource[e] \in active_out}
  BY DEF R!StartPass, R!roundVars, R!worker
<1>2. /\ RadiiBetween /\ active_out = {v \in RadiiVertices : radii[v] = iteration}
      /\ RadiiTypes /\ RadiiReached
  BY <1>1 DEF RadiiPlace
<1>3. R!Samples' = R!Samples
  BY DEF R!Samples
<1>4. /\ iteration \in Nat /\ radii \in [RadiiVertices -> Nat \union {-1}]
      /\ start \in [R!Samples -> RadiiVertices]
  BY DEF RadiiTypes, R!TypeOK
<1>5. RadiiTypes'
  BY <1>1, <1>3 DEF RadiiTypes, R!TypeOK
<1>6. RadiiReached'
  <2>1. \A v \in RadiiVertices : radii[v] <= iteration + 1
    BY <1>4 DEF RadiiReached
  <2>2. QED
    BY <1>1, <1>3, <2>1 DEF RadiiReached
<1>7. /\ R!now \in {0, 1} /\ R!next \in {0, 1}
      /\ R!now' = R!next /\ R!next' = R!now
      /\ iteration = 0 => R!next = 1
  BY <1>1, <1>4, RadiiParity
<1>8. \A v \in RadiiVertices : RadiiSettled(v) /\ (RadiiSettled(v))'
  BY <1>1, <1>2, RadiiSame DEF RadiiBetween
<1>9. RadiiDuring'
  <2>1. iteration' > 0
    BY <1>1, <1>4
  <2>2. ASSUME NEW v \in active_in' PROVE \E i \in R!Samples' : R!Reaches(start[i], v)'
    <3>1. v \in RadiiVertices /\ radii[v] # -1
      BY <1>1, <1>2, <1>4
    <3>2. QED
      BY <1>1, <1>3, <3>1 DEF RadiiReached
  <2>3. \A w \in Workers : RadiiHere(w)'
    BY <1>1, <1>2 DEF RadiiBetween, RadiiHere
  <2>4. RadiiBits'
    <3> SUFFICES ASSUME NEW v \in RadiiVertices, NEW i \in R!Samples
                 PROVE  /\ i \in visited[v][R!next] => v \in RadiiFrom((iteration + 1) - 1, start[i])
                        /\ i \in visited[v][R!now] => v \in RadiiFrom(iteration + 1, start[i])
                        /\ i \in visited[v][R!next] => i \in visited[v][R!now] \/ start[i] = v
      BY <1>1, <1>3, <1>7 DEF RadiiBits, RadiiFrom
    <3>1. (iteration + 1) - 1 = iteration /\ iteration + 1 \in Nat /\ iteration <= iteration + 1
      BY <1>4
    <3>2. \A j \in {0, 1} : i \in visited[v][j] =>
             /\ start[i] = v \/ \A l \in {0, 1} : i \in visited[v][l]
             /\ v \in RadiiFrom(iteration, start[i])
      BY <1>8, RadiiAgree
    <3>3. RadiiFrom(iteration, start[i]) \subseteq RadiiFrom(iteration + 1, start[i])
      BY <1>4, <3>1, RadiiMonotone
    <3>4. QED
      BY <1>7, <3>1, <3>2, <3>3
  <2>5. RadiiNoticed'
    BY <1>8 DEF RadiiNoticed
  <2>6. RadiiPassed'
    <3> SUFFICES ASSUME NEW e \in RadiiEdges, NEW i \in R!Samples,
                        start[i] = RadiiSource[e] \/ i \in visited[RadiiSource[e]][R!next],
                        ~(start[i] = RadiiTarget[e] \/ i \in visited[RadiiTarget[e]][R!now])
                 PROVE  /\ i \in visited[RadiiSource[e]][R!next]
                        /\ e \in pending' \/ \E x \in Workers : pc'[x] = "compare" /\ edge'[x] = e
      BY <1>1, <1>3, <1>7 DEF RadiiPassed
    <3> DEFINE s == RadiiSource[e]
               t == RadiiTarget[e]
    <3>1. s \in RadiiVertices /\ t \in RadiiVertices
      BY RadiiGraphFacts
    <3>2. RadiiHas(s, i)
      BY <1>7, <1>8, <3>1, RadiiAgree DEF RadiiHas
    <3>3. ~RadiiHas(t, i)
      BY <1>7, <1>8, <3>1, RadiiAgree DEF RadiiHas
    <3>4. s \in active_out /\ (iteration = 0 \/ start[i] # s)
      BY <1>2, <3>2, <3>3 DEF RadiiBetween
    <3>5. ASSUME start[i] = s PROVE i \in visited[s][R!next]
      <4>1. iteration = 0 /\ radii[s] <= 0
        BY <1>2, <3>4, <3>5
      <4>2. i \in visited[s][1]
        BY <1>8, <3>1, <3>5, <4>1 DEF RadiiSettled
      <4>3. QED
        BY <1>7, <4>1, <4>2
    <3>6. QED
      BY <1>1, <3>4, <3>5
  <2>7. QED
    BY <1>1, <2>1, <2>2, <2>3, <2>4, <2>5, <2>6 DEF RadiiDuring
<1>10. RadiiPlace'
  <2>1. active_out' = {v \in RadiiVertices : radii[v] = iteration + 1}
    <3>1. \A v \in RadiiVertices : radii[v] # iteration + 1
      BY <1>4 DEF RadiiReached
    <3>2. QED
      BY <1>1, <3>1
  <2>2. QED
    BY <1>1, <1>9, <2>1 DEF RadiiPlace
<1>11. RadiiChosen'
  BY <1>1 DEF RadiiChosen
<1>12. QED
  BY <1>5, <1>6, <1>10, <1>11

LEMMA RadiiCopyBack ==
    ASSUME RadiiIInv, R!CopyBack
    PROVE  RadiiIInv'
<1> USE DEF RadiiIInv
<1>1. /\ UNCHANGED <<round, start, candidates, threshold, max_radii, radii, active_in, active_out,
                     iteration, pending, pc, edge, old_radii>>
      /\ mainPc = "pass" /\ mainPc' = "while"
      /\ pending = {} /\ \A w \in Workers : pc[w] = "idle"
      /\ active_vertices' = Cardinality(active_out)
  BY RadiiGraphFacts DEF R!CopyBack, R!roundVars, R!worker, R!bitmaps
<1>2. /\ RadiiDuring /\ active_out = {v \in RadiiVertices : radii[v] = iteration}
      /\ RadiiTypes /\ RadiiReached
  BY <1>1 DEF RadiiPlace
<1>3. R!Samples' = R!Samples
  BY DEF R!Samples
<1>4. /\ iteration \in Nat /\ radii \in [RadiiVertices -> Nat \union {-1}]
      /\ start \in [R!Samples -> RadiiVertices]
      /\ visited \in [RadiiVertices -> [{0, 1} -> SUBSET R!Samples]]
      /\ active_out \subseteq RadiiVertices /\ iteration > 0
  BY <1>2 DEF RadiiTypes, R!TypeOK, RadiiDuring
<1>5. R!now \in {0, 1} /\ R!next \in {0, 1}
  BY <1>4, RadiiParity
<1>6. /\ \A v \in RadiiVertices : v \notin active_out => visited'[v] = visited[v]
      /\ \A v \in active_out, j \in {0, 1} : visited'[v][j] = visited[v][R!next]
      /\ visited' \in [RadiiVertices -> [{0, 1} -> SUBSET R!Samples]]
  <2>1. visited' = [v \in RadiiVertices |-> IF v \in active_out
                                      THEN [j \in {0, 1} |-> visited[v][R!next]] ELSE visited[v]]
    BY DEF R!CopyBack
  <2>2. \A v \in active_out : [j \in {0, 1} |-> visited[v][R!next]] \in [{0, 1} -> SUBSET R!Samples]
    BY <1>4, <1>5
  <2>3. \A v \in active_out, j \in {0, 1} : visited'[v][j] = visited[v][R!next]
    BY <1>4, <2>1
  <2>4. QED
    BY <1>4, <2>1, <2>2, <2>3
<1>7. RadiiTypes'
  <2>1. Cardinality(active_out) \in Nat
    BY <1>4, RadiiGraphFacts, FS_Subset, FS_CardinalityType
  <2>2. QED
    BY <1>1, <1>3, <1>6, <2>1 DEF RadiiTypes, R!TypeOK
<1>8. RadiiReached'
  BY <1>1, <1>3 DEF RadiiReached
<1>9. \A v \in RadiiVertices : v \notin active_out => RadiiSettled(v)
  BY <1>1, <1>2 DEF RadiiDuring, RadiiNoticed
<1>10. RadiiBetween'
  <2>1. ASSUME NEW v \in RadiiVertices PROVE RadiiSettled(v)'
    <3>1. CASE v \notin active_out
      BY <1>1, <1>6, <1>9, <3>1, RadiiSame
    <3>2. CASE v \in active_out
      <4>1. radii[v] = iteration /\ radii[v] > 0 /\ ~(radii[v] <= 0)
        BY <1>2, <1>4, <3>2
      <4>2. \A i \in R!Samples : i \in visited[v][R!next] => v \in RadiiFrom(iteration, start[i])
        BY <1>2 DEF RadiiDuring, RadiiBits
      <4>3. \A i \in R!Samples, j \in {0, 1} : i \in visited'[v][j] => v \in RadiiFrom(radii[v], start[i])
        BY <1>6, <3>2, <4>1, <4>2
      <4>4. visited'[v][0] = visited'[v][1]
        BY <1>6, <3>2
      <4>5. QED
        BY <1>1, <1>3, <4>1, <4>3, <4>4 DEF RadiiSettled, RadiiFrom
    <3>3. QED
      BY <3>1, <3>2
  <2>2. ASSUME NEW e \in RadiiEdges, NEW i \in R!Samples, RadiiHas(RadiiSource[e], i)',
               ~RadiiHas(RadiiTarget[e], i)'
        PROVE  RadiiSource[e] \in active_out /\ start[i] # RadiiSource[e]
    <3> DEFINE s == RadiiSource[e]
               t == RadiiTarget[e]
    <3>1. s \in RadiiVertices /\ t \in RadiiVertices
      BY RadiiGraphFacts
    <3>2. start[i] = t \/ i \in visited[t][R!next] => RadiiHas(t, i)'
      <4>1. CASE t \in active_out
        BY <1>1, <1>6, <4>1 DEF RadiiHas
      <4>2. CASE t \notin active_out
        <5>1. visited'[t] = visited[t] /\ RadiiSettled(t)
          BY <1>6, <1>9, <3>1, <4>2
        <5>2. i \in visited[t][R!next] => start[i] = t \/ i \in visited[t][0]
          BY <1>2, <1>5, <3>1, <5>1, RadiiAgree
        <5>3. QED
          BY <1>1, <5>1, <5>2 DEF RadiiHas
      <4>3. QED
        BY <4>1, <4>2
    <3>3. ~(start[i] = s \/ i \in visited[s][R!now])
      <4>1. RadiiPassed
        BY <1>2 DEF RadiiDuring
      <4>2. start[i] = s \/ i \in visited[s][R!now] => start[i] = t \/ i \in visited[t][R!next]
        BY <1>1, <4>1 DEF RadiiPassed
      <4>3. QED
        BY <2>2, <3>2, <4>2
    <3>4. CASE s \notin active_out
      <4>1. visited'[s] = visited[s] /\ RadiiSettled(s)
        BY <1>6, <1>9, <3>1, <3>4
      <4>2. i \in visited[s][0]
        BY <1>1, <2>2, <3>3, <4>1 DEF RadiiHas
      <4>3. QED
        BY <1>2, <1>5, <3>1, <3>3, <4>1, <4>2, RadiiAgree
    <3>5. QED
      BY <3>3, <3>4
  <2>3. iteration # 0
    BY <1>4
  <2>4. QED
    BY <1>1, <1>3, <2>1, <2>2, <2>3 DEF RadiiBetween
<1>11. RadiiPlace'
  BY <1>1, <1>2, <1>10 DEF RadiiPlace
<1>12. RadiiChosen'
  BY <1>1 DEF RadiiChosen
<1>13. QED
  BY <1>7, <1>8, <1>11, <1>12
-----------------------------------------------------------------------------
\* What a step of the main thread between two passes keeps.
LEMMA RadiiStill ==
    ASSUME RadiiIInv, UNCHANGED <<start, visited, radii, active_in, active_out, active_vertices,
                                  iteration, pending, pc, edge, old_radii>>,
           mainPc # "pass", mainPc' \in {"while", "candidates", "done"},
           active_vertices = 0, round' \in {1, 2}
    PROVE  RadiiTypes' /\ RadiiReached' /\ RadiiPlace'
<1> USE DEF RadiiIInv
<1>1. R!Samples' = R!Samples
  BY DEF R!Samples
<1>2. RadiiBetween'
  <2>1. \A v \in RadiiVertices : RadiiSettled(v)'
    BY RadiiSame DEF RadiiPlace, RadiiBetween
  <2>2. QED
    BY <1>1, <2>1 DEF RadiiPlace, RadiiBetween, RadiiHas
<1>3. QED
  BY <1>1, <1>2 DEF RadiiTypes, R!TypeOK, RadiiReached, RadiiPlace

LEMMA RadiiEndRound ==
    ASSUME RadiiIInv, R!EndRound
    PROVE  RadiiIInv'
<1> USE DEF RadiiIInv
<1>1. /\ UNCHANGED <<round, start, candidates, threshold, visited, radii, active_in, active_out,
                     active_vertices, iteration, pending, pc, edge, old_radii>>
      /\ mainPc = "while" /\ mainPc' \in {"candidates", "done"} /\ active_vertices = 0
      /\ mainPc' = "candidates" => round = 1
      /\ mainPc' = "done" => round # 1
      /\ max_radii' = Append(max_radii, R!Largest)
  BY DEF R!EndRound, R!worker, R!bitmaps
<1>2. RadiiTypes' /\ RadiiReached' /\ RadiiPlace'
  BY <1>1, RadiiStill DEF RadiiTypes, R!TypeOK
<1>3. RadiiChosen'
  <2>1. CASE mainPc' = "done"
    BY <1>1, <2>1 DEF RadiiChosen
  <2>2. CASE mainPc' = "candidates"
    <3>1. round = 1 /\ candidates = << >> /\ threshold = 0 /\ max_radii = << >>
      BY <1>1, <2>2 DEF RadiiChosen
    <3>2. max_radii'[1] = R!Largest
      BY <1>1, <3>1
    <3>3. R!Largest \in Int /\ \A v \in RadiiVertices : radii[v] <= R!Largest
      BY RadiiLargest DEF RadiiTypes, R!TypeOK, RadiiReached
    <3>4. \A v \in RadiiVertices : radii[v] \in Int /\ ~(radii[v] > R!Largest - 0)
      BY <3>3 DEF RadiiTypes, R!TypeOK
    <3>5. candidates' = << >> /\ threshold' = 0 /\ radii' = radii /\ DOMAIN << >> = {}
      BY <1>1, <3>1
    <3>6. << >> \in Seq(RadiiVertices)
      OBVIOUS
    <3>7. QED
      BY <1>1, <2>2, <3>2, <3>3, <3>4, <3>5, <3>6 DEF RadiiChosen
  <2>3. QED
    BY <1>1, <2>1, <2>2
<1>4. QED
  BY <1>2, <1>3

LEMMA RadiiAddCandidates ==
    ASSUME RadiiIInv, R!AddCandidates
    PROVE  RadiiIInv'
<1> DEFINE Top == max_radii[1]
           S == R!OfRadius(Top - threshold)
           n == Cardinality(S)
           s == R!Ascending(S)
           l == Len(candidates)
<1> USE DEF RadiiIInv
<1>1. /\ UNCHANGED <<round, start, max_radii, visited, radii, active_in, active_out,
                     active_vertices, iteration, mainPc, pending, pc, edge, old_radii>>
      /\ mainPc = "candidates" /\ threshold' = threshold + 1
      /\ candidates' = candidates \o s
  BY DEF R!AddCandidates, R!worker, R!bitmaps
<1>2. RadiiTypes' /\ RadiiReached' /\ RadiiPlace'
  <2>1. active_vertices = 0
    BY <1>1 DEF RadiiPlace
  <2>2. QED
    BY <1>1, <2>1, RadiiStill DEF RadiiTypes, R!TypeOK
<1>3. /\ candidates \in Seq(RadiiVertices) /\ threshold \in Nat /\ Top \in Int
      /\ \A v \in RadiiVertices : radii[v] > Top - threshold <=> \E i \in DOMAIN candidates : candidates[i] = v
      /\ \A i, j \in DOMAIN candidates : i < j =>
             candidates[i] # candidates[j] /\ radii[candidates[j]] <= radii[candidates[i]]
  BY <1>1 DEF RadiiChosen
<1>4. S = {v \in RadiiVertices : radii[v] = Top - threshold}
  BY DEF R!OfRadius
<1>5. /\ n \in Nat /\ s \in [1 .. n -> S]
      /\ \A i, j \in 1 .. n : i < j => s[i] # s[j]
      /\ \A v \in S : \E i \in 1 .. n : s[i] = v
  BY <1>4, RadiiAscending
<1>6. /\ l \in Nat /\ DOMAIN candidates = 1 .. l /\ \A i \in 1 .. l : candidates[i] \in RadiiVertices
      /\ \A i \in 1 .. n : s[i] \in RadiiVertices /\ radii[s[i]] = Top - threshold
  BY <1>3, <1>4, <1>5
<1>7. \A v \in RadiiVertices : radii[v] \in Int
  BY DEF RadiiTypes, R!TypeOK
<1> HIDE DEF Top, S, n, s, l
<1>8. s \in Seq(RadiiVertices) /\ Len(s) = n
  <2>1. s \in [1 .. n -> RadiiVertices]
    BY <1>5, <1>6
  <2>2. QED
    BY <1>5, <2>1
<1>9. /\ candidates' \in Seq(RadiiVertices) /\ DOMAIN candidates' = 1 .. l + n
      /\ \A i \in 1 .. l + n : candidates'[i] = IF i <= l THEN candidates[i] ELSE s[i - l]
  BY <1>1, <1>3, <1>8 DEF l
<1>10. \A i \in 1 .. l + n :
          /\ i <= l => i \in 1 .. l /\ candidates'[i] = candidates[i]
          /\ ~(i <= l) => i - l \in 1 .. n /\ candidates'[i] = s[i - l]
  BY <1>5, <1>6, <1>9
<1>11. ASSUME NEW v \in RadiiVertices
       PROVE  radii[v] > Top - (threshold + 1) <=> \E i \in 1 .. l + n : candidates'[i] = v
  <2>1. radii[v] > Top - (threshold + 1) <=> radii[v] > Top - threshold \/ radii[v] = Top - threshold
    <3>1. radii[v] \in Int /\ Top \in Int /\ threshold \in Int
      BY <1>3, <1>7
    <3>2. QED
      BY <3>1
  <2>2. radii[v] > Top - threshold <=> \E i \in 1 .. l : candidates[i] = v
    BY <1>3, <1>6
  <2>3. radii[v] = Top - threshold <=> \E i \in 1 .. n : s[i] = v
    BY <1>4, <1>5, <1>6
  <2>4. (\E i \in 1 .. l : candidates[i] = v) => \E i \in 1 .. l + n : candidates'[i] = v
    <3>1. \A i \in 1 .. l : i \in 1 .. l + n /\ i <= l
      BY <1>5, <1>6
    <3>2. QED
      BY <1>10, <3>1
  <2>5. (\E i \in 1 .. n : s[i] = v) => \E i \in 1 .. l + n : candidates'[i] = v
    <3>1. \A i \in 1 .. n : i + l \in 1 .. l + n /\ ~(i + l <= l) /\ (i + l) - l = i
      BY <1>5, <1>6
    <3>2. \A i \in 1 .. n : candidates'[i + l] = s[i]
      BY <1>10, <3>1
    <3>3. QED
      BY <3>1, <3>2
  <2>6. (\E i \in 1 .. l + n : candidates'[i] = v) =>
            (\E i \in 1 .. l : candidates[i] = v) \/ \E i \in 1 .. n : s[i] = v
    BY <1>10
  <2>7. QED
    BY <2>1, <2>2, <2>3, <2>4, <2>5, <2>6
<1>12. ASSUME NEW i \in 1 .. l + n, NEW j \in 1 .. l + n, i < j
       PROVE  candidates'[i] # candidates'[j] /\ radii[candidates'[j]] <= radii[candidates'[i]]
  <2>1. CASE j <= l
    <3>1. i <= l /\ i \in DOMAIN candidates /\ j \in DOMAIN candidates
      BY <1>6, <1>12, <2>1
    <3>2. QED
      BY <1>3, <1>10, <1>12, <2>1, <3>1
  <2>2. CASE i <= l /\ ~(j <= l)
    <3>1. /\ candidates'[i] = candidates[i] /\ i \in DOMAIN candidates /\ candidates[i] \in RadiiVertices
          /\ candidates'[j] = s[j - l] /\ radii[s[j - l]] = Top - threshold
      BY <1>6, <1>10, <2>2
    <3>2. radii[candidates[i]] > Top - threshold
      BY <1>3, <3>1
    <3>3. radii[candidates[i]] \in Int /\ Top - threshold \in Int
      BY <1>3, <1>7, <3>1
    <3>4. QED
      BY <3>1, <3>2, <3>3
  <2>3. CASE ~(i <= l)
    <3>1. ~(j <= l)
      BY <1>6, <1>12, <2>3
    <3>2. i - l \in 1 .. n /\ j - l \in 1 .. n /\ i - l < j - l
      BY <1>6, <1>10, <1>12, <2>3, <3>1
    <3>3. /\ candidates'[i] = s[i - l] /\ candidates'[j] = s[j - l]
          /\ radii[s[i - l]] = Top - threshold /\ radii[s[j - l]] = Top - threshold
      BY <1>6, <1>10, <2>3, <3>1, <3>2
    <3>4. s[i - l] # s[j - l] /\ Top - threshold \in Int
      BY <1>3, <1>5, <3>2
    <3>5. QED
      BY <3>3, <3>4
  <2>4. QED
    BY <2>1, <2>2, <2>3
<1>13. RadiiChosen'
  <2>1. max_radii'[1] = Top /\ threshold' = threshold + 1 /\ threshold + 1 \in Nat
    BY <1>1, <1>3 DEF Top
  <2>2. \A v \in RadiiVertices :
           radii'[v] > max_radii'[1] - threshold' <=> \E i \in DOMAIN candidates' : candidates'[i] = v
    BY <1>1, <1>9, <1>11, <2>1
  <2>3. \A i, j \in DOMAIN candidates' : i < j =>
           candidates'[i] # candidates'[j] /\ radii'[candidates'[j]] <= radii'[candidates'[i]]
    <3> SUFFICES ASSUME NEW i \in DOMAIN candidates', NEW j \in DOMAIN candidates', i < j
                 PROVE  candidates'[i] # candidates'[j] /\ radii'[candidates'[j]] <= radii'[candidates'[i]]
      OBVIOUS
    <3>1. i \in 1 .. l + n /\ j \in 1 .. l + n /\ radii' = radii
      BY <1>1, <1>9
    <3>2. QED
      BY <1>12, <3>1
  <2>4. max_radii'[1] \in Int
    BY <1>3, <2>1
  <2>5. QED
    BY <1>1, <1>9, <2>1, <2>2, <2>3, <2>4 DEF RadiiChosen
<1>14. QED
  BY <1>2, <1>13

LEMMA RadiiSecondRound ==
    ASSUME RadiiIInv, R!SecondRound
    PROVE  RadiiIInv'
<1> USE DEF RadiiIInv
<1>1. /\ UNCHANGED <<candidates, threshold, max_radii, active_in, pending, pc, edge, old_radii>>
      /\ mainPc = "candidates" /\ mainPc' = "while" /\ round' = 2
      /\ active_vertices' = K /\ iteration' = 0 /\ Len(candidates) >= K
      /\ start' = [i \in R!Samples |-> candidates[i]]
      /\ R!Started(start', visited', radii', active_out')
  BY DEF R!SecondRound, R!worker
<1>2. R!Samples = 1 .. K /\ R!Samples' = R!Samples /\ K \in Nat \ {0}
  BY RadiiGraphFacts DEF R!Samples
<1>3. start' \in [R!Samples -> RadiiVertices]
  <2>1. candidates \in Seq(RadiiVertices)
    BY DEF RadiiChosen
  <2>2. \A i \in R!Samples : candidates[i] \in RadiiVertices
    BY <1>1, <1>2, <2>1
  <2>3. QED
    BY <1>1, <2>2
<1>4. /\ visited' \in [RadiiVertices -> [{0, 1} -> SUBSET R!Samples]]
      /\ radii' \in [RadiiVertices -> Nat \union {-1}]
      /\ active_out' \subseteq RadiiVertices
      /\ \A v \in RadiiVertices :
            /\ visited'[v][0] = {} /\ visited'[v][1] = {i \in R!Samples : start'[i] = v}
            /\ radii'[v] \in {0, -1}
            /\ radii'[v] = 0 <=> \E i \in R!Samples : start'[i] = v
            /\ v \in active_out' <=> radii'[v] = 0
  BY <1>1, <1>3, RadiiStarts
<1>5. RadiiTypes'
  BY <1>1, <1>2, <1>3, <1>4 DEF RadiiTypes, R!TypeOK
<1>6. RadiiReached'
  <2>1. ASSUME NEW v \in RadiiVertices, radii'[v] # -1 PROVE \E i \in R!Samples : R!Reaches(start'[i], v)
    <3>1. PICK i \in R!Samples : start'[i] = v
      BY <1>4, <2>1
    <3>2. QED
      BY <3>1, RadiiReaches
  <2>2. QED
    BY <1>1, <1>2, <1>4, <2>1 DEF RadiiReached
<1>7. RadiiBetween'
  <2>1. ASSUME NEW v \in RadiiVertices PROVE RadiiSettled(v)'
    <3>1. ASSUME NEW i \in R!Samples, NEW j \in {0, 1}, i \in visited'[v][j]
          PROVE  v \in RadiiFrom(radii'[v], start'[i])
      <4>1. start'[i] = v /\ radii'[v] = 0
        BY <1>4, <3>1
      <4>2. QED
        BY <4>1, RadiiPaths
    <3>2. QED
      BY <1>2, <1>4, <3>1 DEF RadiiSettled, RadiiFrom
  <2>2. ASSUME NEW e \in RadiiEdges, NEW i \in R!Samples, RadiiHas(RadiiSource[e], i)'
        PROVE  RadiiSource[e] \in active_out'
    BY <1>4, <2>2, RadiiGraphFacts DEF RadiiHas
  <2>3. pending' = {} /\ \A w \in Workers : pc'[w] = "idle"
    BY <1>1 DEF RadiiPlace, RadiiBetween
  <2>4. QED
    BY <1>1, <1>2, <2>1, <2>2, <2>3 DEF RadiiBetween
<1>8. RadiiPlace'
  BY <1>1, <1>4, <1>7 DEF RadiiPlace
<1>9. RadiiChosen'
  BY <1>1 DEF RadiiChosen
<1>10. QED
  BY <1>5, <1>6, <1>8, <1>9

LEMMA RadiiNext ==
    ASSUME RadiiIInv, R!MainStep \/ \E w \in Workers : R!WorkerStep(w)
    PROVE  RadiiIInv'
<1>1. CASE R!MainStep
  BY <1>1, RadiiStartPass, RadiiCopyBack, RadiiEndRound, RadiiAddCandidates, RadiiSecondRound
     DEF R!MainStep
<1>2. CASE \E w \in Workers : R!WorkerStep(w)
  BY <1>2, RadiiTake, RadiiCompare, RadiiReadAndTest, RadiiCas DEF R!WorkerStep
<1>3. QED
  BY <1>1, <1>2

(* At the end of a round no vertex is active, so that what a search has    *)
(* reached is closed under edges.                                          *)
LEMMA RadiiImplies == RadiiIInv => R!Inv /\ R!StartsAreFarthest
<1> SUFFICES ASSUME RadiiIInv PROVE R!Inv /\ R!StartsAreFarthest
  OBVIOUS
<1> USE DEF RadiiIInv
<1>1. /\ RadiiTypes /\ RadiiReached /\ R!TypeOK
      /\ iteration \in Nat /\ radii \in [RadiiVertices -> Nat \union {-1}]
      /\ start \in [R!Samples -> RadiiVertices]
  BY DEF RadiiTypes, R!TypeOK
<1>2. ASSUME R!RoundOver
      PROVE  /\ \A v \in RadiiVertices : RadiiSettled(v)
             /\ \A v \in RadiiVertices, i \in R!Samples, j \in {0, 1} :
                   /\ i \in visited[v][j] => R!Reaches(start[i], v)
                   /\ R!Reaches(start[i], v) /\ start[i] # v => i \in visited[v][j]
  <2>1. mainPc # "pass" /\ active_vertices = 0
    BY <1>2 DEF R!RoundOver, RadiiPlace
  <2>2. RadiiBetween
    BY <2>1 DEF RadiiPlace
  <2>3. active_out = {}
    <3>1. IsFiniteSet(active_out)
      BY <1>1, RadiiGraphFacts, FS_Subset DEF R!TypeOK
    <3>2. Cardinality(active_out) = 0
      BY <2>1, <2>2, RadiiGraphFacts DEF RadiiBetween
    <3>3. QED
      BY <3>1, <3>2, FS_EmptySet
  <2>4. ASSUME NEW i \in R!Samples, NEW v \in RadiiVertices, R!Reaches(start[i], v)
        PROVE  RadiiHas(v, i)
    <3> DEFINE S == {u \in RadiiVertices : RadiiHas(u, i)}
    <3>1. start[i] \in S /\ start[i] \in RadiiVertices
      BY <1>1 DEF RadiiHas
    <3>2. \A e \in RadiiEdges : RadiiSource[e] \in S => RadiiTarget[e] \in S
      BY <2>2, <2>3, RadiiGraphFacts DEF RadiiBetween
    <3>3. v \in S
      <4> HIDE DEF S
      <4>1. QED
        BY <2>4, <3>1, <3>2, RadiiClosed
    <3>4. QED
      BY <3>3
  <2>5. ASSUME NEW v \in RadiiVertices, NEW i \in R!Samples, NEW j \in {0, 1}
        PROVE  /\ i \in visited[v][j] => R!Reaches(start[i], v)
               /\ R!Reaches(start[i], v) /\ start[i] # v => i \in visited[v][j]
    <3>1. RadiiSettled(v)
      BY <2>2 DEF RadiiBetween
    <3>2. \A l \in {0, 1} : i \in visited[v][l] =>
             /\ start[i] = v \/ i \in visited[v][j]
             /\ v \in RadiiFrom(iteration, start[i])
      BY <1>1, <3>1, RadiiAgree
    <3>3. start[i] \in RadiiVertices
      BY <1>1
    <3>4. i \in visited[v][j] => R!Reaches(start[i], v)
      BY <1>1, <3>2, <3>3, RadiiReaches
    <3>5. R!Reaches(start[i], v) /\ start[i] # v => i \in visited[v][j]
      BY <2>4, <3>2 DEF RadiiHas
    <3>6. QED
      BY <3>4, <3>5
  <2>6. QED
    BY <2>2, <2>5 DEF RadiiBetween
<1>3. R!BitsExact
  BY <1>2 DEF R!BitsExact
<1>4. R!RadiiAreBounds
  <2> SUFFICES ASSUME R!RoundOver, NEW v \in RadiiVertices
               PROVE  /\ \A i \in R!Samples, n \in 1 .. Cardinality(RadiiVertices) :
                            R!AtLeast(n, start[i], v) => radii[v] >= n
                      /\ (\A i \in R!Samples : ~R!Reaches(start[i], v)) => radii[v] = -1
    BY RadiiGraphFacts DEF R!RadiiAreBounds
  <2>1. ASSUME NEW i \in R!Samples, NEW n \in 1 .. Cardinality(RadiiVertices), R!AtLeast(n, start[i], v)
        PROVE  radii[v] >= n
    <3>1. n \in Nat /\ n > 0 /\ n - 1 \in Nat /\ start[i] \in RadiiVertices
      BY <1>1
    <3>2. R!Reaches(start[i], v) /\ v \notin RadiiFrom(n - 1, start[i])
      BY <2>1, <3>1 DEF R!AtLeast, RadiiFrom
    <3>3. start[i] # v
      <4>1. start[i] \in RadiiFrom(0, start[i])
        BY <3>1, RadiiPaths
      <4>2. start[i] \in RadiiFrom(n - 1, start[i])
        BY <3>1, <4>1, RadiiMonotone
      <4>3. QED
        BY <3>2, <4>2
    <3>4. i \in visited[v][0] /\ RadiiSettled(v)
      BY <1>2, <3>2, <3>3
    <3>5. v \in RadiiFrom(radii[v], start[i])
      BY <3>4 DEF RadiiSettled
    <3>6. radii[v] \in Nat
      <4>1. ~(radii[v] <= 0)
        BY <3>4 DEF RadiiSettled
      <4>2. QED
        BY <1>1, <4>1
    <3>7. ~(radii[v] <= n - 1)
      BY <3>1, <3>2, <3>5, <3>6, RadiiMonotone
    <3>8. QED
      BY <3>1, <3>6, <3>7
  <2>2. (\A i \in R!Samples : ~R!Reaches(start[i], v)) => radii[v] = -1
    BY <1>1 DEF RadiiReached
  <2>3. QED
    BY <2>1, <2>2
<1>5. R!StartsAreFarthest
  <2> SUFFICES ASSUME mainPc = "candidates", Len(candidates) >= K,
                      NEW i \in 1 .. K, NEW v \in RadiiVertices
               PROVE  /\ \A j \in 1 .. K : candidates[i] = candidates[j] => i = j
                      /\ (\A j \in 1 .. K : candidates[j] # v) => radii[v] <= radii[candidates[i]]
    BY DEF R!StartsAreFarthest
  <2>1. /\ candidates \in Seq(RadiiVertices) /\ threshold \in Nat /\ max_radii[1] \in Int
        /\ \A u \in RadiiVertices :
              radii[u] > max_radii[1] - threshold <=> \E j \in DOMAIN candidates : candidates[j] = u
        /\ \A j, l \in DOMAIN candidates : j < l =>
              candidates[j] # candidates[l] /\ radii[candidates[l]] <= radii[candidates[j]]
    BY DEF RadiiChosen
  <2>2. /\ DOMAIN candidates = 1 .. Len(candidates) /\ Len(candidates) \in Nat /\ K \in Nat
        /\ \A j \in 1 .. K : j \in DOMAIN candidates /\ j \in Nat
        /\ i \in DOMAIN candidates /\ candidates[i] \in RadiiVertices
    BY <2>1, RadiiGraphFacts
  <2>3. ASSUME NEW j \in 1 .. K, candidates[i] = candidates[j] PROVE i = j
    <3>1. ~(i < j) /\ ~(j < i)
      BY <2>1, <2>2, <2>3
    <3>2. QED
      BY <3>1
  <2>4. ASSUME \A j \in 1 .. K : candidates[j] # v PROVE radii[v] <= radii[candidates[i]]
    <3>1. radii[v] \in Int /\ radii[candidates[i]] \in Int
      BY <1>1, <2>2
    <3>2. CASE \E j \in DOMAIN candidates : candidates[j] = v
      <4>1. PICK j \in DOMAIN candidates : candidates[j] = v
        BY <3>2
      <4>2. i < j
        BY <2>2, <2>4, <4>1
      <4>3. QED
        BY <2>1, <2>2, <4>1, <4>2
    <3>3. CASE ~\E j \in DOMAIN candidates : candidates[j] = v
      <4>1. ~(radii[v] > max_radii[1] - threshold) /\ radii[candidates[i]] > max_radii[1] - threshold
        BY <2>1, <2>2, <3>3
      <4>2. QED
        BY <2>1, <3>1, <4>1
    <3>4. QED
      BY <3>2, <3>3
  <2>5. QED
    BY <2>3, <2>4
<1>6. QED
  BY <1>1, <1>3, <1>4, <1>5 DEF R!Inv
-----------------------------------------------------------------------------
\* Every step of the programs, those of the others and the stuttering ones included.
LEMMA RadiiSteps ==
    ASSUME program = "radii" => RadiiIInv, [Next]_vars, program' = "radii"
    PROVE  RadiiIInv'
<1>1. program = "radii" /\ RadiiIInv
  BY OneProgram
<1>2. CASE R!MainStep \/ \E w \in Workers : R!WorkerStep(w)
  BY <1>1, <1>2, RadiiNext
<1>3. CASE UNCHANGED vars
  <2> USE <1>1, <1>3 DEF RadiiIInv
  <2>1. UNCHANGED <<round, start, visited, radii, active_in, active_out, active_vertices, iteration,
                    candidates, threshold, max_radii, mainPc, pending, pc, edge, old_radii>>
    BY DEF vars, radiiVars, frontierVars
  <2>2. R!Samples' = R!Samples
    BY DEF R!Samples
  <2>3. RadiiTypes' /\ RadiiReached' /\ RadiiChosen'
    BY <2>1, <2>2 DEF RadiiTypes, R!TypeOK, RadiiReached, RadiiChosen
  <2>4. RadiiPlace'
    <3>1. iteration \in Nat /\ R!now' = R!now /\ R!next' = R!next
      BY <2>1, RadiiParity DEF RadiiTypes, R!TypeOK
    <3>2. \A v : RadiiSettled(v)' <=> RadiiSettled(v)
      BY <2>1, RadiiSame
    <3>3. (RadiiBits' <=> RadiiBits) /\ (RadiiNoticed' <=> RadiiNoticed) /\ (RadiiPassed' <=> RadiiPassed)
      <4>1. RadiiBits' <=> RadiiBits
        BY <2>1, <3>1, RadiiKeepsBits
      <4>2. RadiiNoticed' <=> RadiiNoticed
        BY <2>1, <3>2 DEF RadiiNoticed
      <4>3. RadiiPassed' <=> RadiiPassed
        BY <2>1, <2>2, <3>1 DEF RadiiPassed
      <4>4. QED
        BY <4>1, <4>2, <4>3
    <3>4. RadiiDuring => RadiiDuring'
      BY <2>1, <2>2, <3>3 DEF RadiiDuring, RadiiHere
    <3>5. RadiiBetween => RadiiBetween'
      BY <2>1, <2>2, <3>2 DEF RadiiBetween, RadiiHas
    <3>6. QED
      BY <2>1, <3>4, <3>5 DEF RadiiPlace
  <2>5. QED
    BY <2>3, <2>4
<1>4. QED
  BY <1>1, <1>2, <1>3, OneProgram DEF Ranks

(* radii: at the end of both rounds the bits are those of the searches     *)
(* that reach the vertex, although both buffers are written by the passes  *)
(* in turn, and no radius is below the distance from a start.              *)
THEOREM RadiiIsExact == Spec => []RadiiInv
<1> DEFINE I == program = "radii" => RadiiIInv
<1>1. Init => I
  BY FirstStates, RadiiInit DEF Ranks
<1>2. I /\ [Next]_vars => I'
  BY RadiiSteps
<1>3. I => RadiiInv
  BY RadiiImplies DEF RadiiInv
<1>4. QED
  BY <1>1, <1>2, <1>3, PTL DEF Spec

(* radii: the second round starts at K different vertices, none of which   *)
(* has a smaller radius than a vertex left out.                            *)
THEOREM SecondStartsAreFarthest == Spec => []StartsAreFarthest
<1> DEFINE I == program = "radii" => RadiiIInv
<1>1. Init => I
  BY FirstStates, RadiiInit DEF Ranks
<1>2. I /\ [Next]_vars => I'
  BY RadiiSteps
<1>3. I => StartsAreFarthest
  BY RadiiImplies DEF StartsAreFarthest
<1>4. QED
  BY <1>1, <1>2, <1>3, PTL DEF Spec
-----------------------------------------------------------------------------
(* The rank programs.  A sum over a set is a fold that takes the elements  *)
(* out in the order in which CHOOSE picks them; for numbers it does not    *)
(* matter which is taken out first.                                        *)
Picked(T) == CHOOSE x \in T : TRUE
Summing(f, T, s) == IF T = {} THEN 0 ELSE f[Picked(T)] + s[T \ {Picked(T)}]
IsSum(s, f, S) == s = [T \in SUBSET S |-> Summing(f, T, s)]

LEMMA SumIsChosen ==
    ASSUME NEW f, NEW S
    PROVE  P!SumFunctionOnSet(f, S) = (CHOOSE s : IsSum(s, f, S))[S]
BY DEF P!SumFunctionOnSet, P!FoldFunctionOnSet, P!MapThenFoldSet, IsSum, Summing, Picked

LEMMA SmallerSubset ==
    ASSUME NEW D, IsFiniteSet(D), NEW T \in SUBSET D, NEW x \in T
    PROVE  /\ T \ {x} \in SUBSET D
           /\ Cardinality(T) \in Nat /\ Cardinality(T \ {x}) \in Nat
           /\ Cardinality(T \ {x}) = Cardinality(T) - 1
<1>1. IsFiniteSet(T) /\ T \ {x} \in SUBSET D
  BY FS_Subset
<1>2. IsFiniteSet(T \ {x}) /\ Cardinality(T \ {x}) = Cardinality(T) - 1
  BY <1>1, FS_RemoveElement, FS_Subset
<1>3. QED
  BY <1>1, <1>2, FS_CardinalityType

\* h is the sequence of a, G[a], G[G[a]], ...
Iterates(h, a, G) ==
    h[0] = a /\ \A n \in Nat : h[n + 1] = G[h[n]]

LEMMA IterationExists ==
    ASSUME NEW S, NEW a \in S, NEW G \in [S -> S]
    PROVE  \E h \in [Nat -> S] : Iterates(h, a, G)
  BY RecursiveSequence DEF Iterates

LEMMA SumExists ==
    ASSUME NEW D, IsFiniteSet(D), NEW value \in [D -> Nat], NEW S \in SUBSET D
    PROVE  \E s \in [SUBSET S -> Nat] : IsSum(s, value, S)
<1> DEFINE A == [SUBSET S -> Nat]
           G == [s \in A |-> [T \in SUBSET S |-> Summing(value, T, s)]]
           a == [T \in SUBSET S |-> 0]
<1>0. IsFiniteSet(S)
  BY FS_Subset
<1>1. \A T \in SUBSET S : T # {} => Picked(T) \in T /\ T \ {Picked(T)} \in SUBSET S
  BY DEF Picked
<1>2. \A s \in A : \A T \in SUBSET S : Summing(value, T, s) \in Nat
  <2> SUFFICES ASSUME NEW s \in A, NEW T \in SUBSET S PROVE Summing(value, T, s) \in Nat
    OBVIOUS
  <2>1. CASE T = {}
    BY <2>1 DEF Summing
  <2>2. CASE T # {}
    <3>1. value[Picked(T)] \in Nat /\ s[T \ {Picked(T)}] \in Nat
      BY <1>1, <2>2
    <3>2. QED
      BY <2>2, <3>1 DEF Summing
  <2>3. QED
    BY <2>1, <2>2
<1>3. a \in A /\ G \in [A -> A]
  BY <1>2
<1>4. PICK h \in [Nat -> A] : h[0] = a /\ \A n \in Nat : h[n + 1] = G[h[n]]
  <2>1. \E h \in [Nat -> A] : Iterates(h, a, G)
    <3> HIDE DEF A, G, a
    <3>1. QED
      BY <1>3, IterationExists
  <2> HIDE DEF A, G, a
  <2>2. QED
    BY <2>1 DEF Iterates
<1>5. ASSUME NEW n \in Nat, NEW T \in SUBSET S PROVE h[n + 1][T] = Summing(value, T, h[n])
  <2>1. h[n] \in A /\ h[n + 1] = G[h[n]]
    BY <1>4
  <2>2. G[h[n]] = [U \in SUBSET S |-> Summing(value, U, h[n])]
    BY <2>1
  <2>3. QED
    BY <2>1, <2>2
<1> DEFINE N == {n \in Nat : \A T \in SUBSET S : Cardinality(T) <= n => h[n + 1][T] = h[n][T]}
<1>6. 0 \in N
  <2> SUFFICES ASSUME NEW T \in SUBSET S, Cardinality(T) <= 0 PROVE h[0 + 1][T] = h[0][T]
    OBVIOUS
  <2>1. T = {}
    BY <1>0, FS_Subset, FS_CardinalityType, FS_EmptySet
  <2>2. h[0 + 1][T] = Summing(value, T, h[0])
    BY <1>5
  <2>3. h[0][T] = 0
    BY <1>4
  <2>4. QED
    BY <2>1, <2>2, <2>3 DEF Summing
<1>7. ASSUME NEW n \in Nat, n \in N PROVE n + 1 \in N
  <2> SUFFICES ASSUME NEW T \in SUBSET S, Cardinality(T) <= n + 1
               PROVE  h[n + 1 + 1][T] = h[n + 1][T]
    OBVIOUS
  <2>1. h[n + 1 + 1][T] = Summing(value, T, h[n + 1]) /\ h[n + 1][T] = Summing(value, T, h[n])
    BY <1>5
  <2>2. CASE T = {}
    BY <2>1, <2>2 DEF Summing
  <2>3. CASE T # {}
    <3> DEFINE U == T \ {Picked(T)}
    <3>1. U \in SUBSET S /\ Cardinality(U) <= n
      BY <1>0, <1>1, <2>3, SmallerSubset
    <3>2. h[n + 1][U] = h[n][U]
      BY <1>7, <3>1
    <3>3. QED
      BY <2>1, <2>3, <3>2 DEF Summing
  <2>4. QED
    BY <2>2, <2>3
<1>8. Nat \subseteq N
  <2> HIDE DEF N
  <2>1. QED
    BY <1>6, <1>7, NatSet
<1> DEFINE n == Cardinality(S)
<1>9. n \in Nat /\ \A T \in SUBSET S : Cardinality(T) <= n
  BY <1>0, FS_CardinalityType, FS_Subset
<1> HIDE DEF n
<1>10. h[n] \in A /\ h[n + 1] \in A
  BY <1>4, <1>9
<1>11. \A T \in SUBSET S : h[n + 1][T] = h[n][T]
  BY <1>8, <1>9
<1>12. \A T \in SUBSET S : h[n][T] = Summing(value, T, h[n])
  BY <1>5, <1>9, <1>11
<1>13. h[n] = [T \in SUBSET S |-> Summing(value, T, h[n])]
  BY <1>10, <1>12
<1>14. QED
  BY <1>10, <1>13 DEF IsSum

LEMMA SumsAgree ==
    ASSUME NEW D, IsFiniteSet(D), NEW f \in [D -> Nat], NEW S \in SUBSET D, NEW s, NEW t,
           IsSum(s, f, D), IsSum(t, f, S)
    PROVE  s[S] = t[S]
<1> DEFINE N == {n \in Nat : \A T \in SUBSET S : Cardinality(T) = n => s[T] = t[T]}
<1>1. \A T \in SUBSET S : s[T] = Summing(f, T, s) /\ t[T] = Summing(f, T, t)
  BY DEF IsSum
<1>2. 0 \in N
  <2> SUFFICES ASSUME NEW T \in SUBSET S, Cardinality(T) = 0 PROVE s[T] = t[T]
    OBVIOUS
  <2>1. T = {}
    BY FS_Subset, FS_EmptySet
  <2>2. QED
    BY <1>1, <2>1 DEF Summing
<1>3. ASSUME NEW n \in Nat, n \in N PROVE n + 1 \in N
  <2> SUFFICES ASSUME NEW T \in SUBSET S, Cardinality(T) = n + 1 PROVE s[T] = t[T]
    OBVIOUS
  <2> DEFINE U == T \ {Picked(T)}
  <2>1. CASE T = {}
    BY <1>1, <2>1 DEF Summing
  <2>2. CASE T # {}
    <3>1. Picked(T) \in T
      BY <2>2 DEF Picked
    <3>2. U \in SUBSET S /\ Cardinality(U) = n
      BY <3>1, SmallerSubset
    <3>3. s[U] = t[U]
      BY <1>3, <3>2
    <3>4. QED
      BY <1>1, <2>2, <3>3 DEF Summing
  <2>3. QED
    BY <2>1, <2>2
<1>4. Nat \subseteq N
  <2> HIDE DEF N
  <2>1. QED
    BY <1>2, <1>3, NatSet
<1>5. Cardinality(S) \in Nat
  BY FS_Subset, FS_CardinalityType
<1>6. QED
  BY <1>4, <1>5

AnyOrder(s, f, D) == \A T \in SUBSET D : \A e \in T : s[T] = f[e] + s[T \ {e}]

LEMMA SumAnyOrder ==
    ASSUME NEW D, IsFiniteSet(D), NEW f \in [D -> Nat], NEW s \in [SUBSET D -> Nat], IsSum(s, f, D)
    PROVE  AnyOrder(s, f, D)
<1> DEFINE N == {n \in Nat : \A T \in SUBSET D : Cardinality(T) = n =>
                                \A e \in T : s[T] = f[e] + s[T \ {e}]}
<1>1. \A T \in SUBSET D : s[T] = Summing(f, T, s)
  BY DEF IsSum
<1>2. 0 \in N
  <2> SUFFICES ASSUME NEW T \in SUBSET D, Cardinality(T) = 0, NEW e \in T PROVE FALSE
    OBVIOUS
  <2>1. QED
    BY FS_Subset, FS_EmptySet
<1>3. ASSUME NEW n \in Nat, n \in N PROVE n + 1 \in N
  <2> SUFFICES ASSUME NEW T \in SUBSET D, Cardinality(T) = n + 1, NEW e \in T
               PROVE  s[T] = f[e] + s[T \ {e}]
    OBVIOUS
  <2> DEFINE p == Picked(T)
             rest == (T \ {p}) \ {e}
  <2>1. p \in T
    BY DEF Picked
  <2>2. s[T] = f[p] + s[T \ {p}]
    BY <1>1 DEF Summing
  <2> HIDE DEF p
  <2>3. CASE e = p
    BY <2>2, <2>3
  <2>4. CASE e # p
    <3>1. /\ T \ {p} \in SUBSET D /\ Cardinality(T \ {p}) = n
          /\ T \ {e} \in SUBSET D /\ Cardinality(T \ {e}) = n
      BY <2>1, SmallerSubset
    <3>2. s[T \ {p}] = f[e] + s[rest]
      BY <1>3, <2>4, <3>1
    <3>3. (T \ {e}) \ {p} = rest
      OBVIOUS
    <3>4. s[T \ {e}] = f[p] + s[rest]
      BY <1>3, <2>1, <2>4, <3>1, <3>3
    <3>5. f[e] \in Nat /\ f[p] \in Nat /\ rest \in SUBSET D
      BY <2>1
    <3>6. s[rest] \in Nat
      BY <3>5
    <3>7. QED
      BY <2>2, <3>2, <3>4, <3>5, <3>6
  <2>5. QED
    BY <2>3, <2>4
<1>4. Nat \subseteq N
  <2> HIDE DEF N
  <2>1. QED
    BY <1>2, <1>3, NatSet
<1>5. \A T \in SUBSET D : Cardinality(T) \in Nat
  BY FS_Subset, FS_CardinalityType
<1>6. QED
  BY <1>4, <1>5 DEF AnyOrder

\* The sum of nothing, and that of a set with one element more.
LEMMA Sums ==
    ASSUME NEW D, IsFiniteSet(D), NEW f \in [D -> Nat]
    PROVE  /\ P!SumFunctionOnSet(f, {}) = 0
           /\ \A S \in SUBSET D : P!SumFunctionOnSet(f, S) \in Nat
           /\ \A S \in SUBSET D : \A e \in D \ S :
                 P!SumFunctionOnSet(f, S \union {e}) = P!SumFunctionOnSet(f, S) + f[e]
<1>1. PICK s \in [SUBSET D -> Nat] : IsSum(s, f, D)
  BY SumExists
<1>2. ASSUME NEW S \in SUBSET D PROVE P!SumFunctionOnSet(f, S) = s[S]
  <2> DEFINE t == CHOOSE t : IsSum(t, f, S)
  <2>1. IsSum(t, f, S)
    <3>1. \E u : IsSum(u, f, S)
      BY SumExists
    <3>2. QED
      BY Zenon, <3>1
  <2>2. P!SumFunctionOnSet(f, S) = t[S]
    BY SumIsChosen
  <2> HIDE DEF t
  <2>3. QED
    BY <1>1, <2>1, <2>2, SumsAgree
<1>3. s[{}] = 0
  BY <1>1 DEF IsSum, Summing
<1>4. AnyOrder(s, f, D)
  BY <1>1, SumAnyOrder
<1>5. ASSUME NEW S \in SUBSET D, NEW e \in D \ S
      PROVE  P!SumFunctionOnSet(f, S \union {e}) = P!SumFunctionOnSet(f, S) + f[e]
  <2> DEFINE T == S \union {e}
  <2>1. T \in SUBSET D /\ e \in T /\ T \ {e} = S
    OBVIOUS
  <2> HIDE DEF T
  <2>2. s[T] = f[e] + s[S]
    <3>1. s[T] = f[e] + s[T \ {e}]
      BY <1>4, <2>1 DEF AnyOrder
    <3>2. QED
      BY Zenon, <2>1, <3>1
  <2>3. f[e] \in Nat /\ s[S] \in Nat
    OBVIOUS
  <2>4. P!SumFunctionOnSet(f, T) = P!SumFunctionOnSet(f, S) + f[e]
    BY <1>2, <2>1, <2>2, <2>3
  <2>5. QED
    BY <2>4 DEF T
<1>6. QED
  BY <1>2, <1>3, <1>5
-----------------------------------------------------------------------------
LEMMA RankGraphFacts ==
    /\ IsFiniteSet(RankVertices) /\ RankVertices \subseteq Nat /\ IsFiniteSet(RankEdges)
    /\ RankSource \in [RankEdges -> RankVertices] /\ RankTarget \in [RankEdges -> RankVertices]
    /\ Weight \in [RankEdges -> Nat] /\ MaxIterations \in Nat /\ Unit \in Nat \ {0}
    /\ \A S : P!Cardinality(S) = Cardinality(S)
    /\ P!AnyEdge \in RankEdges
<1>1. \A S : P!IsFiniteSet(S) <=> IsFiniteSet(S)
  BY DEF P!IsFiniteSet, IsFiniteSet
<1>2. \A S : P!Cardinality(S) = Cardinality(S)
  BY Zenon DEF P!Cardinality, Cardinality
<1>3. P!GraphAssumption
  BY GraphAssumptions
<1>4. QED
  BY <1>1, <1>2, <1>3 DEF P!GraphAssumption, P!AnyEdge

LEMMA NaturalQuotient ==
    ASSUME NEW n \in Nat, NEW d \in Nat \ {0}
    PROVE  n \div d \in Nat
OBVIOUS

LEMMA RankDegreeFacts ==
    /\ \A v \in RankVertices : P!OutDegree(v) \in Nat
    /\ \A e \in RankEdges : P!OutDegree(RankSource[e]) \in Nat \ {0}
<1> DEFINE Out(v) == {e \in RankEdges : RankSource[e] = v}
<1>1. \A v : Out(v) \subseteq RankEdges /\ P!OutDegree(v) = Cardinality(Out(v))
  BY RankGraphFacts DEF P!OutDegree
<1>2. \A v : IsFiniteSet(Out(v))
  BY <1>1, RankGraphFacts, FS_Subset
<1>3. \A v : Cardinality(Out(v)) \in Nat /\ (Cardinality(Out(v)) = 0 <=> Out(v) = {})
  BY <1>2, FS_CardinalityType, FS_EmptySet
<1>4. \A e \in RankEdges : Out(RankSource[e]) # {}
  OBVIOUS
<1> HIDE DEF Out
<1>5. QED
  BY <1>1, <1>3, <1>4, RankGraphFacts

\* What the edges of a set bring to v: nothing without edges, and one more edge its value.
LEMMA RankGathered ==
    ASSUME NEW value \in [RankEdges -> Nat], NEW v
    PROVE  /\ \A S \in SUBSET RankEdges : P!Gathered(v, S, value) \in Nat
           /\ P!Gathered(v, {}, value) = 0
           /\ \A S \in SUBSET RankEdges : \A e \in RankEdges \ S :
                 P!Gathered(v, S \union {e}, value)
                    = IF RankTarget[e] = v THEN P!Gathered(v, S, value) + value[e]
                      ELSE P!Gathered(v, S, value)
<1> DEFINE Into(S) == {e \in S : RankTarget[e] = v}
<1>1. \A S \in SUBSET RankEdges : Into(S) \in SUBSET RankEdges
  OBVIOUS
<1>2. \A S : P!Gathered(v, S, value) = P!SumFunctionOnSet(value, Into(S))
  BY DEF P!Gathered
<1>3. Into({}) = {}
  OBVIOUS
<1>4. \A S \in SUBSET RankEdges : \A e \in RankEdges \ S :
         /\ e \in RankEdges \ Into(S)
         /\ RankTarget[e] = v => Into(S \union {e}) = Into(S) \union {e}
         /\ RankTarget[e] # v => Into(S \union {e}) = Into(S)
  OBVIOUS
<1> HIDE DEF Into
<1>5. P!Gathered(v, {}, value) = 0
  BY <1>2, <1>3, RankGraphFacts, Sums
<1>6. \A S \in SUBSET RankEdges : P!Gathered(v, S, value) \in Nat
  BY <1>1, <1>2, RankGraphFacts, Sums
<1>7. ASSUME NEW S \in SUBSET RankEdges, NEW e \in RankEdges \ S
      PROVE  P!Gathered(v, S \union {e}, value)
                = IF RankTarget[e] = v THEN P!Gathered(v, S, value) + value[e]
                  ELSE P!Gathered(v, S, value)
  <2>1. CASE RankTarget[e] = v
    <3>1. P!SumFunctionOnSet(value, Into(S) \union {e}) = P!SumFunctionOnSet(value, Into(S)) + value[e]
      <4>1. \A T \in SUBSET RankEdges : \A d \in RankEdges \ T :
               P!SumFunctionOnSet(value, T \union {d}) = P!SumFunctionOnSet(value, T) + value[d]
        BY RankGraphFacts, Sums
      <4>2. Into(S) \in SUBSET RankEdges /\ e \in RankEdges \ Into(S)
        BY <1>1, <1>4
      <4>3. QED
        BY Zenon, <4>1, <4>2
    <3>2. P!Gathered(v, S \union {e}, value) = P!SumFunctionOnSet(value, Into(S \union {e}))
      BY <1>2
    <3>3. Into(S \union {e}) = Into(S) \union {e}
      BY <1>4, <2>1
    <3>4. P!Gathered(v, S \union {e}, value) = P!SumFunctionOnSet(value, Into(S) \union {e})
      BY Zenon, <3>2, <3>3
    <3>5. QED
      BY <1>2, <2>1, <3>1, <3>4
  <2>2. CASE RankTarget[e] # v
    <3>1. Into(S \union {e}) = Into(S)
      BY <1>4, <2>2
    <3>2. P!Gathered(v, S \union {e}, value) = P!Gathered(v, S, value)
      BY Zenon, <1>2, <3>1
    <3>3. QED
      BY <2>2, <3>2
  <2>3. QED
    BY <2>1, <2>2
<1>8. QED
  BY <1>5, <1>6, <1>7

-----------------------------------------------------------------------------
(* The recursive definitions: one iteration of the formulas.               *)
RankShare(r) == [e \in RankEdges |-> r[RankSource[e]] \div P!OutDegree(RankSource[e])]
RankAgain(r) ==
    [v \in RankVertices |-> (3 * Unit + 17 * P!Gathered(v, RankEdges, RankShare(r))) \div 20]

LEMMA RankAgainType ==
    ASSUME NEW r \in [RankVertices -> Nat]
    PROVE  RankShare(r) \in [RankEdges -> Nat] /\ RankAgain(r) \in [RankVertices -> Nat]
<1>1. RankShare(r) \in [RankEdges -> Nat]
  <2> SUFFICES ASSUME NEW e \in RankEdges
               PROVE  r[RankSource[e]] \div P!OutDegree(RankSource[e]) \in Nat
    BY DEF RankShare
  <2>1. r[RankSource[e]] \in Nat /\ P!OutDegree(RankSource[e]) \in Nat \ {0}
    BY RankGraphFacts, RankDegreeFacts
  <2>2. QED
    BY <2>1, NaturalQuotient
<1>2. ASSUME NEW v \in RankVertices
      PROVE  (3 * Unit + 17 * P!Gathered(v, RankEdges, RankShare(r))) \div 20 \in Nat
  <2>1. P!Gathered(v, RankEdges, RankShare(r)) \in Nat /\ Unit \in Nat
    BY <1>1, RankGathered, RankGraphFacts
  <2>2. QED
    BY <2>1
<1>3. QED
  BY <1>1, <1>2 DEF RankAgain

LEMMA RankIterates ==
    /\ P!Rank[0] = [v \in RankVertices |-> Unit]
    /\ \A n \in Nat : P!Rank[n] \in [RankVertices -> Nat] /\ P!Rank[n + 1] = RankAgain(P!Rank[n])
<1> DEFINE S == [RankVertices -> Nat]
           a == [v \in RankVertices |-> Unit]
           G == [r \in S |-> RankAgain(r)]
<1>1. a \in S
  BY RankGraphFacts
<1>2. \A r \in S : RankAgain(r) \in S
  BY RankAgainType
<1>3. G \in [S -> S]
  <2> HIDE DEF S
  <2>1. QED
    BY <1>2
<1>4. PICK f \in [Nat -> S] : f[0] = a /\ \A n \in Nat : f[n + 1] = G[f[n]]
  <2> HIDE DEF S, a, G
  <2>1. QED
    BY <1>1, <1>3, RecursiveSequence
<1>5. f = [n \in Nat |-> IF n = 0 THEN a ELSE RankAgain(f[n - 1])]
  <2> HIDE DEF S, a
  <2>1. \A n \in Nat : n # 0 => n - 1 \in Nat /\ (n - 1) + 1 = n
    OBVIOUS
  <2>2. \A n \in Nat : n # 0 => G[f[n - 1]] = RankAgain(f[n - 1])
    BY <2>1
  <2> HIDE DEF G
  <2>3. \A n \in Nat : f[n] = IF n = 0 THEN a ELSE RankAgain(f[n - 1])
    BY <1>4, <2>1, <2>2
  <2>4. QED
    BY <2>3
<1>6. P!Rank = [n \in Nat |-> IF n = 0 THEN a ELSE RankAgain(P!Rank[n - 1])]
  BY <1>5 DEF P!Rank, RankAgain, RankShare
<1>7. P!Rank[0] = a
  <2> HIDE DEF a
  <2>1. QED
    BY <1>6
<1>8. ASSUME NEW n \in Nat PROVE P!Rank[n + 1] = RankAgain(P!Rank[n])
  <2> HIDE DEF a
  <2>1. ASSUME NEW j \in Nat, j # 0, j - 1 = n PROVE P!Rank[j] = RankAgain(P!Rank[n])
    BY <1>6, <2>1
  <2>2. n + 1 \in Nat /\ n + 1 # 0 /\ (n + 1) - 1 = n
    OBVIOUS
  <2>3. QED
    BY <2>1, <2>2
<1> DEFINE N == {n \in Nat : P!Rank[n] \in S}
<1>9. Nat \subseteq N
  <2> HIDE DEF S, a
  <2>1. 0 \in N
    BY <1>1, <1>7
  <2>2. ASSUME NEW n \in Nat, n \in N PROVE n + 1 \in N
    BY <1>2, <1>8, <2>2
  <2> HIDE DEF N
  <2>3. QED
    BY <2>1, <2>2, NatSet
<1>10. QED
  BY <1>7, <1>8, <1>9

SpreadPassed(before) ==
    [e \in RankEdges |-> (17 * (before.delta[RankSource[e]] \div P!OutDegree(RankSource[e]))) \div 20]
SpreadGained(before) ==
    [v \in RankVertices |->
        P!Gathered(v, {e \in RankEdges : RankSource[e] \in before.active}, SpreadPassed(before))]
SpreadRank(before) == [v \in RankVertices |-> before.rank[v] + SpreadGained(before)[v]]
SpreadAgain(before) ==
    [rank |-> SpreadRank(before), delta |-> SpreadGained(before),
     active |-> {v \in RankVertices : 20 * SpreadGained(before)[v] > 3 * SpreadRank(before)[v]}]
SpreadStart ==
    [rank |-> [v \in RankVertices |-> Unit],
     delta |-> [v \in RankVertices |-> IF P!OutDegree(v) > 0 THEN Unit \div P!OutDegree(v) ELSE 0],
     active |-> RankVertices]
SpreadStates ==
    [rank : [RankVertices -> Nat], delta : [RankVertices -> Nat], active : SUBSET RankVertices]

LEMMA SpreadAgainType ==
    ASSUME NEW s \in SpreadStates
    PROVE  /\ SpreadPassed(s) \in [RankEdges -> Nat] /\ SpreadGained(s) \in [RankVertices -> Nat]
           /\ SpreadAgain(s) \in SpreadStates
<1>1. SpreadPassed(s) \in [RankEdges -> Nat]
  <2> SUFFICES ASSUME NEW e \in RankEdges
               PROVE  (17 * (s.delta[RankSource[e]] \div P!OutDegree(RankSource[e]))) \div 20 \in Nat
    BY DEF SpreadPassed
  <2>1. s.delta[RankSource[e]] \in Nat /\ P!OutDegree(RankSource[e]) \in Nat \ {0}
    BY RankGraphFacts, RankDegreeFacts DEF SpreadStates
  <2>2. s.delta[RankSource[e]] \div P!OutDegree(RankSource[e]) \in Nat
    BY <2>1, NaturalQuotient
  <2>3. QED
    BY <2>2
<1>2. SpreadGained(s) \in [RankVertices -> Nat]
  BY <1>1, RankGathered DEF SpreadGained
<1>3. SpreadAgain(s) \in SpreadStates
  BY <1>2 DEF SpreadAgain, SpreadRank, SpreadStates
<1>4. QED
  BY <1>1, <1>2, <1>3

LEMMA SpreadIterates ==
    /\ P!Spread[0] = SpreadStart
    /\ \A n \in Nat : P!Spread[n] \in SpreadStates /\ P!Spread[n + 1] = SpreadAgain(P!Spread[n])
<1> DEFINE G == [s \in SpreadStates |-> SpreadAgain(s)]
<1>1. SpreadStart \in SpreadStates
  <2>1. \A v \in RankVertices : (IF P!OutDegree(v) > 0 THEN Unit \div P!OutDegree(v) ELSE 0) \in Nat
    BY RankGraphFacts, RankDegreeFacts, NaturalQuotient
  <2>2. QED
    BY <2>1, RankGraphFacts DEF SpreadStart, SpreadStates
<1>2. \A s \in SpreadStates : SpreadAgain(s) \in SpreadStates
  BY SpreadAgainType
<1>3. G \in [SpreadStates -> SpreadStates]
  BY <1>2
<1>4. PICK f \in [Nat -> SpreadStates] : f[0] = SpreadStart /\ \A n \in Nat : f[n + 1] = G[f[n]]
  <2> HIDE DEF G
  <2>1. QED
    BY <1>1, <1>3, RecursiveSequence
<1>5. f = [n \in Nat |-> IF n = 0 THEN SpreadStart ELSE SpreadAgain(f[n - 1])]
  <2>1. \A n \in Nat : n # 0 => n - 1 \in Nat /\ (n - 1) + 1 = n
    OBVIOUS
  <2>2. \A n \in Nat : n # 0 => G[f[n - 1]] = SpreadAgain(f[n - 1])
    BY <2>1
  <2> HIDE DEF G
  <2>3. \A n \in Nat : f[n] = IF n = 0 THEN SpreadStart ELSE SpreadAgain(f[n - 1])
    BY <1>4, <2>1, <2>2
  <2>4. QED
    BY <2>3
<1>6. P!Spread = [n \in Nat |-> IF n = 0 THEN SpreadStart ELSE SpreadAgain(P!Spread[n - 1])]
  <2> DEFINE Fixed(g) == g = [n \in Nat |-> IF n = 0 THEN SpreadStart ELSE SpreadAgain(g[n - 1])]
  <2>1. P!Spread = CHOOSE g : Fixed(g)
    BY DEF P!Spread, SpreadStart, SpreadAgain, SpreadRank, SpreadGained, SpreadPassed
  <2>2. Fixed(f)
    BY <1>5
  <2> HIDE DEF Fixed
  <2>3. Fixed(P!Spread)
    BY Zenon, <2>1, <2>2
  <2>4. QED
    BY <2>3 DEF Fixed
<1>7. P!Spread[0] = SpreadStart
  BY <1>6
<1>8. ASSUME NEW n \in Nat PROVE P!Spread[n + 1] = SpreadAgain(P!Spread[n])
  <2>1. ASSUME NEW j \in Nat, j # 0, j - 1 = n PROVE P!Spread[j] = SpreadAgain(P!Spread[n])
    BY <1>6, <2>1
  <2>2. n + 1 \in Nat /\ n + 1 # 0 /\ (n + 1) - 1 = n
    OBVIOUS
  <2>3. QED
    BY <2>1, <2>2
<1> DEFINE N == {n \in Nat : P!Spread[n] \in SpreadStates}
<1>9. Nat \subseteq N
  <2>1. 0 \in N
    BY <1>1, <1>7
  <2>2. ASSUME NEW n \in Nat, n \in N PROVE n + 1 \in N
    BY <1>2, <1>8, <2>2
  <2> HIDE DEF N
  <2>3. QED
    BY <2>1, <2>2, NatSet
<1>10. QED
  BY <1>7, <1>8, <1>9
-----------------------------------------------------------------------------
(* The edges of the pass that no worker is done with; those among the      *)
(* others that count for v; and in the pass of an iteration, the edges     *)
(* that add something and what they add, which does not change meanwhile.  *)
RankOpen == pending \union {edge[w] : w \in {x \in Workers : pc[x] # "idle"}}
RankCounted(v) == {e \in RankEdges : RankSource[e] = v /\ e \notin RankOpen}
RankUseful ==
    {e \in RankEdges :
        program = "pagerank-Delta" => RankSource[e] \in active /\ degree[RankSource[e]] > 0}
RankValue == [e \in RankEdges |-> P!Contribution(e)]
RankProduct == [e \in RankEdges |-> RankSource[e] * Weight[e]]
RankTypes ==
    /\ P!TypeOK /\ program \in {"pagerank", "spmv", "pagerank-Delta"} /\ iterations \in Nat
    /\ program = "spmv" => iterations = 1 /\ mainPc # "degree"
    /\ edge \in [Workers -> RankEdges] /\ oldV \in [Workers -> Nat]
RankInPlace ==
    /\ P!InPass \/ (pending = {} /\ \A w \in Workers : pc[w] = "idle")
    /\ \A w \in Workers : pc[w] # "idle" =>
          /\ edge[w] \notin pending
          /\ \A x \in Workers : pc[x] # "idle" /\ edge[x] = edge[w] => x = w
          /\ mainPc = "pass" => edge[w] \in RankUseful
RankDegrees ==
    /\ mainPc = "degree" => \A v \in RankVertices : degree[v] = Cardinality(RankCounted(v))
    /\ mainPc # "degree" /\ program # "spmv" =>
          \A v \in RankVertices : degree[v] = P!OutDegree(v)
RankSums ==
    /\ mainPc = "pass" =>
          \A v \in RankVertices : sum[v] = P!Gathered(v, RankUseful \ RankOpen, RankValue)
    /\ mainPc = "while" /\ program # "pagerank-Delta" /\ iter < iterations => sum = P!Zero
    /\ program = "spmv" /\ mainPc \in {"while", "done"} /\ iter = iterations =>
          \A v \in RankVertices : sum[v] = P!Gathered(v, RankEdges, RankProduct)
RankArrays ==
    mainPc \in {"while", "pass", "done"} =>
        /\ program = "pagerank" => \A v \in RankVertices :
              IF iter = iterations /\ iter > 0 THEN pagerank[v] = P!Rank[iter][v]
              ELSE P!OutDegree(v) > 0 => pagerank[v] = P!Rank[iter][v] \div P!OutDegree(v)
        /\ program = "spmv" => pagerank = [v \in RankVertices |-> v]
        /\ program = "pagerank-Delta" =>
              /\ pagerank = P!Spread[iter].rank
              /\ delta = P!Spread[iter].delta
              /\ active = P!Spread[iter].active
RankIteration ==
    /\ mainPc \in {"degree", "init"} => iter = 0
    /\ mainPc = "pass" => iter < iterations
    /\ mainPc = "done" /\ program = "spmv" => iter = iterations
RankIInv == RankTypes /\ RankInPlace /\ RankDegrees /\ RankSums /\ RankArrays /\ RankIteration

LEMMA RankInit == P!Init => RankIInv
<1> SUFFICES ASSUME P!Init PROVE RankIInv
  OBVIOUS
<1> USE RankGraphFacts DEF P!Init
<1>1. RankTypes
  BY DEF RankTypes, P!TypeOK, P!Zero
<1>2. RankInPlace /\ RankSums /\ RankArrays /\ RankIteration
  BY DEF RankInPlace, RankSums, RankArrays, RankIteration, P!InPass
<1>3. RankDegrees
  <2>1. mainPc = "degree" => \A v \in RankVertices : RankCounted(v) = {} /\ degree[v] = 0
    BY DEF RankCounted, RankOpen, P!Zero
  <2>2. mainPc # "degree" => program = "spmv"
    OBVIOUS
  <2>3. QED
    BY <2>1, <2>2, FS_EmptySet DEF RankDegrees
<1>4. QED
  BY <1>1, <1>2, <1>3 DEF RankIInv

LEMMA RankContribution ==
    ASSUME NEW e
    PROVE  /\ program = "pagerank" => P!Contribution(e) = pagerank[RankSource[e]]
           /\ program = "spmv" => P!Contribution(e) = pagerank[RankSource[e]] * Weight[e]
           /\ program = "pagerank-Delta" =>
                 P!Contribution(e) = (17 * (delta[RankSource[e]] \div degree[RankSource[e]])) \div 20
BY Zenon DEF P!Contribution

\* What an edge adds is a number.
LEMMA RankValueType ==
    ASSUME RankIInv, mainPc \in {"while", "pass"}
    PROVE  RankValue \in [RankEdges -> Nat]
<1> USE DEF RankIInv
<1> SUFFICES ASSUME NEW e \in RankEdges PROVE P!Contribution(e) \in Nat
  BY DEF RankValue
<1>1. RankSource[e] \in RankVertices /\ Weight[e] \in Nat
  BY RankGraphFacts
<1>2. pagerank[RankSource[e]] \in Nat /\ delta[RankSource[e]] \in Nat
  BY <1>1 DEF RankTypes, P!TypeOK
<1>3. CASE program = "pagerank"
  BY <1>2, <1>3, RankContribution
<1>4. CASE program = "spmv"
  BY <1>1, <1>2, <1>4, RankContribution
<1>5. CASE program = "pagerank-Delta"
  <2>1. degree[RankSource[e]] \in Nat \ {0}
    BY <1>1, <1>5, RankDegreeFacts DEF RankDegrees
  <2>2. delta[RankSource[e]] \div degree[RankSource[e]] \in Nat
    BY <1>2, <2>1, NaturalQuotient
  <2>3. QED
    BY <1>5, <2>2, RankContribution
<1>6. QED
  BY <1>3, <1>4, <1>5 DEF RankTypes

LEMMA RankRelease ==
    ASSUME RankInPlace, NEW w \in Workers, pc[w] # "idle", pc'[w] = "idle", pending' = pending,
           \A x \in Workers : x # w => pc'[x] = pc[x] /\ edge'[x] = edge[x]
    PROVE  edge[w] \in RankOpen /\ RankOpen' = RankOpen \ {edge[w]}
BY DEF RankInPlace, RankOpen

\* What a worker's step leaves alone keeps the parts that speak of nothing else.
LEMMA RankQuiet ==
    ASSUME RankIInv, P!InPass, UNCHANGED <<program, iterations, iter, pagerank, delta, active, mainPc>>
    PROVE  /\ RankArrays' /\ RankIteration'
           /\ degree' = degree => RankValue' = RankValue /\ RankUseful' = RankUseful
           /\ RankOpen' = RankOpen /\ degree' = degree /\ sum' = sum => RankDegrees' /\ RankSums'
<1> USE DEF RankIInv
<1>1. RankArrays' /\ RankIteration'
  BY DEF RankArrays, RankIteration
<1>2. degree' = degree => RankValue' = RankValue
  <2> SUFFICES ASSUME degree' = degree PROVE \A e : P!Contribution(e)' = P!Contribution(e)
    BY DEF RankValue
  <2>1. QED
    BY Zenon DEF P!Contribution
<1>3. degree' = degree => RankUseful' = RankUseful
  BY DEF RankUseful
<1>4. RankOpen' = RankOpen /\ degree' = degree => RankDegrees'
  BY DEF RankDegrees, RankCounted
<1>5. RankOpen' = RankOpen /\ degree' = degree /\ sum' = sum => RankSums'
  BY <1>2, <1>3 DEF RankSums, P!InPass
<1>6. QED
  BY <1>1, <1>2, <1>3, <1>4, <1>5

LEMMA RankTake ==
    ASSUME RankIInv, NEW w \in Workers, P!Take(w)
    PROVE  RankIInv'
<1> USE DEF RankIInv, P!arguments, P!arrays
<1>1. /\ P!InPass /\ pc[w] = "idle" /\ oldV' = oldV
      /\ UNCHANGED <<program, iterations, iter, degree, pagerank, sum, delta, active, mainPc>>
  BY DEF P!Take
<1>2. PICK e \in pending :
         /\ pending' = pending \ {e}
         /\ IF program = "pagerank-Delta" /\ ~P!Counting
               /\ ~(RankSource[e] \in active /\ degree[RankSource[e]] > 0)
            THEN UNCHANGED <<pc, edge>>
            ELSE edge' = [edge EXCEPT ![w] = e] /\ pc' = [pc EXCEPT ![w] = "load"]
  BY DEF P!Take
<1>3. e \in RankEdges
  BY DEF RankTypes, P!TypeOK
<1>4. pc \in [Workers -> {"idle", "load", "cas"}] /\ edge \in [Workers -> RankEdges]
  BY DEF RankTypes, P!TypeOK
<1>5. RankTypes'
  BY <1>1, <1>2, <1>3 DEF RankTypes, P!TypeOK
<1>6. RankArrays' /\ RankIteration' /\ RankValue' = RankValue /\ RankUseful' = RankUseful
  BY <1>1, RankQuiet
<1>7. CASE /\ program = "pagerank-Delta" /\ ~P!Counting
           /\ ~(RankSource[e] \in active /\ degree[RankSource[e]] > 0)
  <2>1. UNCHANGED <<pc, edge>> /\ mainPc = "pass" /\ e \notin RankUseful
    BY <1>1, <1>2, <1>7 DEF P!Counting, P!InPass, RankUseful
  <2>2. RankOpen' = RankOpen \ {e}
    BY <1>2, <2>1 DEF RankOpen, RankInPlace
  <2>3. RankUseful \ RankOpen' = RankUseful \ RankOpen
    BY <2>1, <2>2
  <2>4. RankInPlace'
    BY <1>1, <1>2, <1>6, <2>1 DEF RankInPlace, P!InPass
  <2>5. RankSums'
    <3>1. \A v \in RankVertices : sum[v] = P!Gathered(v, RankUseful \ RankOpen, RankValue)
      BY <2>1 DEF RankSums
    <3>2. (RankUseful \ RankOpen)' = RankUseful \ RankOpen
      BY <1>6, <2>3
    <3>3. \A v \in RankVertices : sum'[v] = P!Gathered(v, (RankUseful \ RankOpen)', RankValue')
      BY Zenon, <1>1, <1>6, <3>1, <3>2
    <3>4. QED
      BY <1>1, <2>1, <3>3 DEF RankSums
  <2>6. RankDegrees'
    BY <1>1, <2>1 DEF RankDegrees
  <2>7. QED
    BY <1>5, <1>6, <2>4, <2>5, <2>6
<1>8. CASE ~(/\ program = "pagerank-Delta" /\ ~P!Counting
             /\ ~(RankSource[e] \in active /\ degree[RankSource[e]] > 0))
  <2>1. edge' = [edge EXCEPT ![w] = e] /\ pc' = [pc EXCEPT ![w] = "load"]
    BY <1>2, <1>8
  <2>2. mainPc = "pass" => e \in RankUseful
    BY <1>3, <1>8 DEF P!Counting, RankUseful
  <2>3. RankOpen' = RankOpen
    BY <1>1, <1>2, <1>4, <2>1 DEF RankOpen
  <2>4. RankInPlace'
    BY <1>1, <1>2, <1>4, <1>6, <2>1, <2>2 DEF RankInPlace, P!InPass
  <2>5. RankSums' /\ RankDegrees'
    BY <1>1, <2>3, RankQuiet
  <2>6. QED
    BY <1>5, <1>6, <2>4, <2>5
<1>9. QED
  BY <1>7, <1>8

LEMMA RankLoad ==
    ASSUME RankIInv, NEW w \in Workers, P!Load(w)
    PROVE  RankIInv'
<1> USE DEF RankIInv, P!arguments, P!arrays
<1>1. /\ pc[w] = "load" /\ oldV' = [oldV EXCEPT ![w] = P!At(w)] /\ pc' = [pc EXCEPT ![w] = "cas"]
      /\ UNCHANGED <<program, iterations, iter, degree, pagerank, sum, delta, active, mainPc, pending, edge>>
  BY DEF P!Load
<1>2. P!InPass /\ pc \in [Workers -> {"idle", "load", "cas"}] /\ edge \in [Workers -> RankEdges]
  BY <1>1 DEF RankInPlace, RankTypes, P!TypeOK
<1>3. P!At(w) \in Nat
  BY <1>2, RankGraphFacts DEF RankTypes, P!TypeOK, P!At
<1>4. RankTypes'
  BY <1>1, <1>3 DEF RankTypes, P!TypeOK
<1>5. RankOpen' = RankOpen
  BY <1>1, <1>2 DEF RankOpen
<1>6. RankArrays' /\ RankIteration' /\ RankSums' /\ RankDegrees' /\ RankUseful' = RankUseful
  BY <1>1, <1>2, <1>5, RankQuiet
<1>7. RankInPlace'
  BY <1>1, <1>2, <1>6 DEF RankInPlace, P!InPass
<1>8. QED
  BY <1>4, <1>6, <1>7

LEMMA RankCas ==
    ASSUME RankIInv, NEW w \in Workers, P!Cas(w)
    PROVE  RankIInv'
<1> USE DEF RankIInv, P!arguments
<1>1. /\ pc[w] = "cas"
      /\ UNCHANGED <<program, iterations, iter, pagerank, delta, active, mainPc, pending>>
      /\ IF P!At(w) = oldV[w] THEN P!Store(w) /\ P!Done(w)
         ELSE pc' = [pc EXCEPT ![w] = "load"] /\ UNCHANGED <<degree, sum, edge, oldV>>
  BY DEF P!Cas
<1>2. /\ P!InPass /\ pc \in [Workers -> {"idle", "load", "cas"}] /\ edge \in [Workers -> RankEdges]
      /\ oldV \in [Workers -> Nat] /\ degree \in [RankVertices -> Nat] /\ sum \in [RankVertices -> Nat]
      /\ edge[w] \in RankEdges /\ RankSource[edge[w]] \in RankVertices
      /\ RankTarget[edge[w]] \in RankVertices /\ P!AnyEdge \in RankEdges
  BY <1>1, RankGraphFacts DEF RankInPlace, RankTypes, P!TypeOK
<1>3. CASE P!At(w) # oldV[w]
  <2>1. pc' = [pc EXCEPT ![w] = "load"] /\ UNCHANGED <<degree, sum, edge, oldV>>
    BY <1>1, <1>3
  <2>2. RankTypes'
    BY <1>1, <2>1 DEF RankTypes, P!TypeOK
  <2>3. RankOpen' = RankOpen
    BY <1>1, <1>2, <2>1 DEF RankOpen
  <2>4. RankArrays' /\ RankIteration' /\ RankSums' /\ RankDegrees' /\ RankUseful' = RankUseful
    BY <1>1, <1>2, <2>1, <2>3, RankQuiet
  <2>5. RankInPlace'
    BY <1>1, <1>2, <2>1, <2>4 DEF RankInPlace, P!InPass
  <2>6. QED
    BY <2>2, <2>4, <2>5
<1>4. CASE P!At(w) = oldV[w]
  <2>1. P!Store(w) /\ pc' = [pc EXCEPT ![w] = "idle"]
        /\ edge' = [edge EXCEPT ![w] = P!AnyEdge] /\ oldV' = [oldV EXCEPT ![w] = 0]
    BY <1>1, <1>4 DEF P!Done
  <2>2. edge[w] \in RankOpen /\ RankOpen' = RankOpen \ {edge[w]}
    BY <1>1, <1>2, <2>1, RankRelease
  <2>3. RankArrays' /\ RankIteration'
    BY <1>1, <1>2, RankQuiet
  <2>4. CASE mainPc = "degree"
    <3>1. sum' = sum /\ degree' = [degree EXCEPT ![RankSource[edge[w]]] = degree[RankSource[edge[w]]] + 1]
      BY <1>4, <2>1, <2>4 DEF P!Store, P!At, P!Counting
    <3>2. RankTypes'
      BY <1>1, <1>2, <2>1, <3>1 DEF RankTypes, P!TypeOK
    <3>3. RankInPlace'
      BY <1>1, <1>2, <2>1, <2>4 DEF RankInPlace, P!InPass
    <3>4. RankSums'
      BY <1>1, <2>4 DEF RankSums
    <3>5. RankDegrees'
      <4> SUFFICES ASSUME NEW v \in RankVertices PROVE degree'[v] = Cardinality(RankCounted(v)')
        BY <1>1, <2>4 DEF RankDegrees
      <4>1. degree[v] = Cardinality(RankCounted(v))
        BY <2>4 DEF RankDegrees
      <4>2. CASE v = RankSource[edge[w]]
        <5>1. RankCounted(v)' = RankCounted(v) \union {edge[w]} /\ edge[w] \notin RankCounted(v)
          BY <1>2, <2>2, <4>2 DEF RankCounted
        <5>2. IsFiniteSet(RankCounted(v))
          <6>1. RankCounted(v) \subseteq RankEdges
            BY DEF RankCounted
          <6>2. QED
            BY <6>1, RankGraphFacts, FS_Subset
        <5>3. Cardinality(RankCounted(v) \union {edge[w]}) = Cardinality(RankCounted(v)) + 1
          BY <5>1, <5>2, FS_AddElement
        <5>4. degree'[v] = degree[v] + 1
          BY <1>2, <3>1, <4>2
        <5>5. QED
          BY <4>1, <5>1, <5>3, <5>4
      <4>3. CASE v # RankSource[edge[w]]
        <5>1. RankCounted(v)' = RankCounted(v)
          BY <2>2, <4>3 DEF RankCounted
        <5>2. QED
          BY <1>2, <3>1, <4>1, <4>3, <5>1
      <4>4. QED
        BY <4>2, <4>3
    <3>6. QED
      BY <2>3, <3>2, <3>3, <3>4, <3>5
  <2>5. CASE mainPc = "pass"
    <3> DEFINE t == RankTarget[edge[w]]
               added == RankValue[edge[w]]
               before == RankUseful \ RankOpen
    <3>1. degree' = degree /\ sum' = [sum EXCEPT ![t] = sum[t] + added]
      BY <1>2, <1>4, <2>1, <2>5 DEF P!Store, P!At, P!Counting, RankValue
    <3>2. RankValue' = RankValue /\ RankUseful' = RankUseful /\ RankValue \in [RankEdges -> Nat]
      BY <1>1, <1>2, <2>5, <3>1, RankQuiet, RankValueType
    <3>3. added \in Nat /\ edge[w] \in RankUseful /\ RankUseful \subseteq RankEdges
      BY <1>1, <1>2, <2>5, <3>2 DEF RankInPlace, RankUseful
    <3>4. (RankUseful \ RankOpen)' = before \union {edge[w]}
      BY <2>2, <3>2, <3>3
    <3>5. before \in SUBSET RankEdges /\ edge[w] \in RankEdges \ before
      BY <1>2, <2>2, <3>3
    <3>6. \A v \in RankVertices : sum[v] = P!Gathered(v, before, RankValue)
      BY <2>5 DEF RankSums
    <3>7. RankTypes'
      <4> HIDE DEF added
      <4>1. QED
        BY <1>1, <1>2, <2>1, <3>1, <3>3 DEF RankTypes, P!TypeOK
    <3>8. RankInPlace'
      BY <1>1, <1>2, <2>1, <2>5, <3>2 DEF RankInPlace, P!InPass
    <3> HIDE DEF before, added
    <3>9. ASSUME NEW v \in RankVertices
          PROVE  sum'[v] = P!Gathered(v, before \union {edge[w]}, RankValue)
      <4>1. P!Gathered(v, before \union {edge[w]}, RankValue)
               = IF t = v THEN P!Gathered(v, before, RankValue) + added
                 ELSE P!Gathered(v, before, RankValue)
        BY <3>2, <3>5, RankGathered DEF added
      <4>2. sum'[v] = IF t = v THEN sum[v] + added ELSE sum[v]
        BY <1>2, <3>1
      <4>3. QED
        BY <3>6, <4>1, <4>2
    <3>10. \A v \in RankVertices : sum'[v] = P!Gathered(v, (RankUseful \ RankOpen)', RankValue')
      BY Zenon, <3>2, <3>4, <3>9
    <3>11. RankSums'
      BY <1>1, <2>5, <3>10 DEF RankSums
    <3>12. RankDegrees'
      BY <1>1, <2>5, <3>1 DEF RankDegrees
    <3>13. QED
      BY <2>3, <3>7, <3>8, <3>11, <3>12
  <2>6. QED
    BY <1>2, <2>4, <2>5 DEF P!InPass
<1>5. QED
  BY <1>3, <1>4
-----------------------------------------------------------------------------
(* The main thread's steps leave the workers idle.                         *)
LEMMA RankEndDegree == RankIInv /\ P!EndDegree => RankIInv'
<1> SUFFICES ASSUME RankIInv, P!EndDegree PROVE RankIInv'
  OBVIOUS
<1> USE DEF RankIInv, P!EndDegree, P!arguments, P!arrays, P!worker
<1>1. RankTypes' /\ RankInPlace' /\ RankIteration' /\ RankArrays'
  BY DEF RankTypes, P!TypeOK, RankInPlace, P!Joined, RankIteration, RankArrays
<1>2. RankSums'
  BY DEF RankSums
<1>3. \A v \in RankVertices : RankCounted(v) = {e \in RankEdges : RankSource[e] = v}
  BY DEF RankCounted, RankOpen, P!Joined
<1>4. \A v \in RankVertices : degree[v] = P!OutDegree(v)
  <2>1. \A v \in RankVertices : degree[v] = Cardinality(RankCounted(v))
    BY DEF RankDegrees
  <2>2. \A v \in RankVertices :
           P!OutDegree(v) = Cardinality({e \in RankEdges : RankSource[e] = v})
    BY RankGraphFacts DEF P!OutDegree
  <2>3. QED
    BY Zenon, <1>3, <2>1, <2>2
<1>5. RankDegrees'
  BY <1>4 DEF RankDegrees
<1>6. QED
  BY <1>1, <1>2, <1>5

LEMMA RankInitVertices == RankIInv /\ P!InitVertices => RankIInv'
<1> SUFFICES ASSUME RankIInv, P!InitVertices PROVE RankIInv'
  OBVIOUS
<1> USE DEF RankIInv, P!arguments, P!worker
<1>1. /\ mainPc = "init" /\ mainPc' = "while" /\ iter = 0
      /\ UNCHANGED <<program, iterations, iter, degree, pending, pc, edge, oldV>>
  BY DEF P!InitVertices, RankIteration
<1>2. RankInPlace' /\ RankIteration'
  BY <1>1 DEF RankInPlace, P!InPass, RankIteration
<1>3. RankDegrees'
  BY <1>1 DEF RankDegrees
<1>4. P!InitPagerank \/ P!InitSpmv \/ P!InitDelta
  BY DEF P!InitVertices
<1>5. \A v \in RankVertices : degree[v] \in Nat /\ P!OneOver(v) \in Nat
  <2>1. \A v \in RankVertices : degree[v] \in Nat
    BY DEF RankTypes, P!TypeOK
  <2>2. QED
    BY <2>1, RankGraphFacts, NaturalQuotient DEF P!OneOver
<1>6. P!Zero \in [RankVertices -> Nat] /\ Unit \in Nat
  BY RankGraphFacts DEF P!Zero
<1>7. CASE P!InitPagerank
  <2>1. /\ program = "pagerank" /\ sum' = P!Zero /\ UNCHANGED <<delta, active>>
        /\ pagerank' = [v \in RankVertices |-> P!OneOver(v)]
    BY <1>7 DEF P!InitPagerank
  <2>2. RankTypes'
    BY <1>1, <1>5, <1>6, <2>1 DEF RankTypes, P!TypeOK
  <2>3. RankSums'
    BY <1>1, <2>1 DEF RankSums, P!Zero
  <2>4. ASSUME NEW v \in RankVertices, P!OutDegree(v) > 0
        PROVE  pagerank'[v] = P!Rank[0][v] \div P!OutDegree(v)
    <3>1. degree[v] = P!OutDegree(v)
      BY <1>1, <2>1 DEF RankDegrees
    <3>2. P!Rank[0][v] = Unit
      BY RankIterates
    <3>3. pagerank'[v] = Unit \div P!OutDegree(v)
      BY <2>1, <2>4, <3>1 DEF P!OneOver
    <3>4. QED
      BY <3>2, <3>3
  <2>5. RankArrays'
    BY <1>1, <2>1, <2>4 DEF RankArrays
  <2>6. QED
    BY <1>2, <1>3, <2>2, <2>3, <2>5
<1>8. CASE P!InitSpmv
  <2>1. /\ program = "spmv" /\ sum' = P!Zero /\ UNCHANGED <<delta, active>>
        /\ pagerank' = [v \in RankVertices |-> v]
    BY <1>8 DEF P!InitSpmv
  <2>2. RankTypes'
    BY <1>1, <1>6, <2>1, RankGraphFacts DEF RankTypes, P!TypeOK
  <2>3. RankSums'
    BY <1>1, <2>1 DEF RankSums, P!Zero, RankTypes
  <2>4. RankArrays'
    BY <1>1, <2>1 DEF RankArrays
  <2>5. QED
    BY <1>2, <1>3, <2>2, <2>3, <2>4
<1>9. CASE P!InitDelta
  <2>1. /\ program = "pagerank-Delta" /\ sum' = sum /\ active' = RankVertices
        /\ pagerank' = [v \in RankVertices |-> Unit]
        /\ delta' = [v \in RankVertices |-> P!OneOver(v)]
    BY <1>9 DEF P!InitDelta
  <2>2. RankTypes'
    BY <1>1, <1>5, <1>6, <2>1 DEF RankTypes, P!TypeOK
  <2>3. RankSums'
    BY <1>1, <2>1 DEF RankSums
  <2>4. delta' = SpreadStart.delta
    <3>1. \A v \in RankVertices : degree[v] = P!OutDegree(v)
      BY <1>1, <2>1 DEF RankDegrees
    <3>2. QED
      BY <2>1, <3>1 DEF SpreadStart, P!OneOver
  <2>5. RankArrays'
    BY <1>1, <2>1, <2>4, SpreadIterates DEF RankArrays, SpreadStart
  <2>6. QED
    BY <1>2, <1>3, <2>2, <2>3, <2>5
<1>10. QED
  BY <1>4, <1>7, <1>8, <1>9

LEMMA RankStartPass == RankIInv /\ P!StartPass => RankIInv'
<1> SUFFICES ASSUME RankIInv, P!StartPass PROVE RankIInv'
  OBVIOUS
<1> USE DEF RankIInv, P!arguments, P!worker
<1>1. /\ mainPc = "while" /\ mainPc' = "pass" /\ iter < iterations /\ pending' = RankEdges
      /\ sum' = IF program = "pagerank-Delta" THEN P!Zero ELSE sum
      /\ UNCHANGED <<program, iterations, iter, degree, pagerank, delta, active, pc, edge, oldV>>
  BY DEF P!StartPass
<1>2. \A w \in Workers : pc[w] = "idle"
  BY <1>1 DEF RankInPlace, P!InPass
<1>3. RankTypes'
  BY <1>1 DEF RankTypes, P!TypeOK, P!Zero
<1>4. RankInPlace' /\ RankIteration'
  BY <1>1, <1>2 DEF RankInPlace, P!InPass, RankIteration
<1>5. RankDegrees' /\ RankArrays'
  BY <1>1 DEF RankDegrees, RankArrays
<1>6. sum' = P!Zero
  BY <1>1 DEF RankSums
<1>7. (RankUseful \ RankOpen)' = {}
  BY <1>1 DEF RankOpen, RankUseful
<1>8. RankValue' \in [RankEdges -> Nat]
  <2>1. RankValue' = RankValue
    <3>1. \A e : P!Contribution(e)' = P!Contribution(e)
      BY Zenon, <1>1 DEF P!Contribution
    <3>2. QED
      BY <3>1 DEF RankValue
  <2>2. QED
    BY <1>1, <2>1, RankValueType
<1>9. \A v \in RankVertices : sum'[v] = P!Gathered(v, (RankUseful \ RankOpen)', RankValue')
  <2>1. \A v : P!Gathered(v, {}, RankValue') = 0
    BY <1>8, RankGathered
  <2>2. \A v \in RankVertices : sum'[v] = 0
    BY <1>6 DEF P!Zero
  <2>3. QED
    BY Zenon, <1>7, <2>1, <2>2
<1>10. RankSums'
  BY <1>1, <1>9 DEF RankSums
<1>11. QED
  BY <1>3, <1>4, <1>5, <1>10

LEMMA RankEndPass == RankIInv /\ P!EndPass => RankIInv'
<1> SUFFICES ASSUME RankIInv, P!EndPass PROVE RankIInv'
  OBVIOUS
<1> USE DEF RankIInv, P!arguments, P!worker
<1>1. /\ mainPc = "pass" /\ P!Joined /\ iter' = iter + 1 /\ iter < iterations
      /\ UNCHANGED <<program, iterations, degree, pending, pc, edge, oldV>>
  BY DEF P!EndPass, RankIteration
<1>2. P!ApplyPagerank \/ P!ApplyDelta \/ P!ApplySpmv
  BY DEF P!EndPass
<1>3. /\ iter \in Nat /\ iterations \in Nat /\ iter' \in 0 .. iterations /\ Unit \in Nat
      /\ sum \in [RankVertices -> Nat] /\ pagerank \in [RankVertices -> Nat]
      /\ degree \in [RankVertices -> Nat] /\ active \subseteq RankVertices
      /\ delta \in [RankVertices -> Nat]
  BY <1>1, RankGraphFacts DEF RankTypes, P!TypeOK
<1>4. mainPc' \in {"while", "done"}
  BY DEF P!EndPass, P!ApplyPagerank, P!ApplyDelta, P!ApplySpmv
<1>5. RankInPlace' /\ RankDegrees'
  BY <1>1, <1>4 DEF RankInPlace, P!Joined, RankDegrees
<1>6. \A v \in RankVertices : sum[v] = P!Gathered(v, RankUseful, RankValue)
  <2>1. RankUseful \ RankOpen = RankUseful
    BY <1>1 DEF RankOpen, P!Joined
  <2>2. \A v \in RankVertices : sum[v] = P!Gathered(v, RankUseful \ RankOpen, RankValue)
    BY <1>1 DEF RankSums
  <2>3. QED
    BY Zenon, <2>1, <2>2
<1>7. program # "spmv" => \A v \in RankVertices : degree[v] = P!OutDegree(v)
  BY <1>1 DEF RankDegrees
<1>8. CASE P!ApplyPagerank
  <2>1. /\ program = "pagerank" /\ mainPc' = "while" /\ UNCHANGED <<delta, active>>
        /\ pagerank' = [v \in RankVertices |-> P!Updated(v)]
        /\ sum' = IF iter = iterations - 1 THEN sum ELSE P!Zero
    BY <1>8 DEF P!ApplyPagerank
  <2> DEFINE r == P!Rank[iter]
             score(v) == (3 * Unit + 17 * sum[v]) \div 20
  <2>2. r \in [RankVertices -> Nat] /\ P!Rank[iter'] = RankAgain(r)
    BY <1>1, <1>3, RankIterates
  <2> HIDE DEF r
  <2>3. RankUseful = RankEdges
    BY <2>1 DEF RankUseful
  <2>4. RankValue = RankShare(r)
    <3> SUFFICES ASSUME NEW e \in RankEdges
                 PROVE  P!Contribution(e) = r[RankSource[e]] \div P!OutDegree(RankSource[e])
      BY DEF RankValue, RankShare
    <3>1. RankSource[e] \in RankVertices /\ P!OutDegree(RankSource[e]) > 0
      BY RankGraphFacts, RankDegreeFacts
    <3>2. pagerank[RankSource[e]] = r[RankSource[e]] \div P!OutDegree(RankSource[e])
      BY <1>1, <1>3, <2>1, <3>1 DEF RankArrays, r
    <3>3. QED
      BY <2>1, <3>2, RankContribution
  <2>5. \A v \in RankVertices : sum[v] = P!Gathered(v, RankEdges, RankShare(r))
    BY Zenon, <1>6, <2>3, <2>4
  <2>6. \A v \in RankVertices : score(v) = P!Rank[iter'][v] /\ score(v) \in Nat
    BY <1>3, <2>2, <2>5 DEF RankAgain
  <2>7. \A v \in RankVertices :
           P!Updated(v) = IF iter = iterations - 1 THEN score(v)
                          ELSE IF degree[v] > 0 THEN score(v) \div degree[v] ELSE 0
    BY DEF P!Updated
  <2> HIDE DEF score
  <2>8. \A v \in RankVertices : P!Updated(v) \in Nat
    <3> SUFFICES ASSUME NEW v \in RankVertices PROVE P!Updated(v) \in Nat
      OBVIOUS
    <3>1. degree[v] > 0 => score(v) \div degree[v] \in Nat
      BY <1>3, <2>6, NaturalQuotient
    <3>2. QED
      BY <2>6, <2>7, <3>1
  <2>9. RankTypes'
    BY <1>1, <1>3, <2>1, <2>8 DEF RankTypes, P!TypeOK, P!Zero
  <2>10. RankIteration' /\ RankSums'
    BY <1>1, <1>3, <2>1 DEF RankIteration, RankSums
  <2>11. RankArrays'
    <3> SUFFICES ASSUME NEW v \in RankVertices
                 PROVE  IF iter' = iterations /\ iter' > 0 THEN pagerank'[v] = P!Rank[iter'][v]
                        ELSE P!OutDegree(v) > 0 => pagerank'[v] = P!Rank[iter'][v] \div P!OutDegree(v)
      BY <1>1, <2>1 DEF RankArrays
    <3>1. pagerank'[v] = P!Updated(v)
      BY <2>1
    <3>2. CASE iter = iterations - 1
      BY <1>1, <1>3, <2>6, <2>7, <3>1, <3>2
    <3>3. CASE iter # iterations - 1
      <4>1. P!OutDegree(v) > 0 => pagerank'[v] = P!Rank[iter'][v] \div P!OutDegree(v)
        BY <1>7, <2>1, <2>6, <2>7, <3>1, <3>3
      <4>2. iter' # iterations
        BY <1>1, <1>3, <3>3
      <4>3. QED
        BY <4>1, <4>2
    <3>4. QED
      BY <3>2, <3>3
  <2>12. QED
    BY <1>5, <2>9, <2>10, <2>11
<1>9. CASE P!ApplyDelta
  <2>1. /\ program = "pagerank-Delta" /\ sum' = sum /\ delta' = sum
        /\ pagerank' = [v \in RankVertices |-> pagerank[v] + sum[v]]
        /\ active' = {v \in RankVertices : 20 * sum[v] > 3 * pagerank'[v]}
    BY <1>9 DEF P!ApplyDelta
  <2> DEFINE s == P!Spread[iter]
             useful == {e \in RankEdges : RankSource[e] \in s.active}
  <2>2. s \in SpreadStates /\ P!Spread[iter'] = SpreadAgain(s)
    BY <1>1, <1>3, SpreadIterates
  <2>3. pagerank = s.rank /\ delta = s.delta /\ active = s.active
    BY <1>1, <2>1 DEF RankArrays
  <2> HIDE DEF s
  <2>4. RankUseful = useful
    <3>1. \A e \in RankEdges : degree[RankSource[e]] > 0
      <4> SUFFICES ASSUME NEW e \in RankEdges PROVE degree[RankSource[e]] > 0
        OBVIOUS
      <4>1. P!OutDegree(RankSource[e]) \in Nat \ {0} /\ RankSource[e] \in RankVertices
        BY RankGraphFacts, RankDegreeFacts
      <4>2. QED
        BY <1>7, <2>1, <4>1
    <3>2. QED
      BY <2>1, <2>3, <3>1 DEF RankUseful
  <2>5. RankValue = SpreadPassed(s)
    <3> SUFFICES ASSUME NEW e \in RankEdges
                 PROVE  P!Contribution(e)
                           = (17 * (s.delta[RankSource[e]] \div P!OutDegree(RankSource[e]))) \div 20
      BY DEF RankValue, SpreadPassed
    <3>1. degree[RankSource[e]] = P!OutDegree(RankSource[e])
      BY <1>7, <2>1, RankGraphFacts
    <3>2. P!Contribution(e) = (17 * (delta[RankSource[e]] \div degree[RankSource[e]])) \div 20
      BY <2>1, RankContribution
    <3>3. QED
      BY Zenon, <2>3, <3>1, <3>2
  <2>6. \A v \in RankVertices : sum[v] = P!Gathered(v, useful, SpreadPassed(s))
    <3> HIDE DEF useful
    <3>1. QED
      BY Zenon, <1>6, <2>4, <2>5
  <2>7. sum = SpreadGained(s)
    BY <1>3, <2>6 DEF SpreadGained
  <2>8. pagerank' = SpreadRank(s)
    BY <2>1, <2>3, <2>7 DEF SpreadRank
  <2>9. active' = {v \in RankVertices : 20 * SpreadGained(s)[v] > 3 * SpreadRank(s)[v]}
    BY <2>1, <2>7, <2>8
  <2>10. /\ pagerank' = P!Spread[iter'].rank /\ delta' = P!Spread[iter'].delta
         /\ active' = P!Spread[iter'].active
    BY <2>1, <2>2, <2>7, <2>8, <2>9 DEF SpreadAgain
  <2>11. RankArrays'
    BY <1>1, <2>1, <2>10 DEF RankArrays
  <2>12. RankTypes'
    BY <1>1, <1>3, <1>4, <2>1 DEF RankTypes, P!TypeOK
  <2>13. RankIteration' /\ RankSums'
    BY <1>1, <1>4, <2>1 DEF RankIteration, RankSums
  <2>14. QED
    BY <1>5, <2>11, <2>12, <2>13
<1>10. CASE P!ApplySpmv
  <2>1. program = "spmv" /\ mainPc' = "while" /\ UNCHANGED <<pagerank, sum, delta, active>>
    BY <1>10 DEF P!ApplySpmv
  <2>2. RankTypes'
    BY <1>1, <1>3, <2>1 DEF RankTypes, P!TypeOK
  <2>3. RankArrays' /\ RankIteration'
    BY <1>1, <2>1 DEF RankArrays, RankIteration
  <2>4. RankUseful = RankEdges
    BY <2>1 DEF RankUseful
  <2>5. RankValue = RankProduct
    <3>1. \A e \in RankEdges : P!Contribution(e) = RankSource[e] * Weight[e]
      BY <1>1, <2>1, RankGraphFacts, RankContribution DEF RankArrays
    <3>2. QED
      BY <3>1 DEF RankValue, RankProduct
  <2>6. \A v \in RankVertices : sum[v] = P!Gathered(v, RankEdges, RankProduct)
    BY Zenon, <1>6, <2>4, <2>5
  <2>7. iter' = iterations
    BY <1>1, <1>3, <2>1 DEF RankTypes
  <2>8. RankSums'
    <3>1. \A v \in RankVertices : sum'[v] = P!Gathered(v, RankEdges, RankProduct)
      BY <2>1, <2>6
    <3>2. ~(iter' < iterations') /\ program' = "spmv" /\ mainPc' = "while"
      BY <1>1, <1>3, <2>1, <2>7
    <3>3. \A v \in RankVertices : sum'[v] = P!Gathered(v, RankEdges, RankProduct)'
      BY <3>1 DEF RankProduct, P!Gathered
    <3>4. QED
      BY <3>2, <3>3 DEF RankSums
  <2>9. QED
    BY <1>5, <2>2, <2>3, <2>8
<1>11. QED
  BY <1>2, <1>8, <1>9, <1>10

LEMMA RankLeave == RankIInv /\ P!Leave => RankIInv'
<1> SUFFICES ASSUME RankIInv, P!Leave PROVE RankIInv'
  OBVIOUS
<1> USE DEF RankIInv, P!Leave, P!arguments, P!arrays, P!worker
<1>1. RankTypes' /\ RankInPlace' /\ RankDegrees' /\ RankIteration'
  BY DEF RankTypes, P!TypeOK, RankInPlace, P!InPass, RankDegrees, RankIteration
<1>2. RankSums' /\ RankArrays'
  BY DEF RankSums, RankArrays
<1>3. QED
  BY <1>1, <1>2

LEMMA RankNext ==
    ASSUME RankIInv, P!MainStep \/ \E w \in Workers : P!WorkerStep(w)
    PROVE  RankIInv'
BY RankEndDegree, RankInitVertices, RankStartPass, RankEndPass, RankLeave, RankTake, RankLoad, RankCas
   DEF P!MainStep, P!WorkerStep

LEMMA RankImplies == RankIInv => P!Inv
<1> SUFFICES ASSUME RankIInv PROVE P!Inv
  OBVIOUS
<1> USE DEF RankIInv
<1>1. P!TypeOK
  BY DEF RankTypes
<1>2. P!RanksExact /\ P!DeltaExact
  BY DEF RankArrays, P!RanksExact, P!DeltaExact
<1>3. P!ProductExact
  BY DEF RankSums, RankProduct, RankIteration, P!ProductExact
<1>4. QED
  BY <1>1, <1>2, <1>3 DEF P!Inv

LEMMA RankSteps ==
    ASSUME program \in Ranks => RankIInv, [Next]_vars, program' \in Ranks
    PROVE  RankIInv'
<1>1. program \in Ranks /\ RankIInv
  BY OneProgram
<1>2. CASE P!MainStep \/ \E w \in Workers : P!WorkerStep(w)
  BY <1>1, <1>2, RankNext
<1>3. CASE UNCHANGED vars
  <2> USE <1>1, <1>3 DEF RankIInv
  <2>1. UNCHANGED <<program, iterations, iter, degree, pagerank, sum, delta, active, mainPc, pending,
                    pc, edge, oldV>>
    BY DEF vars, rankVars, addVars
  <2>2. RankOpen' = RankOpen /\ RankUseful' = RankUseful
    BY <2>1 DEF RankOpen, RankUseful
  <2>3. RankValue' = RankValue
    <3>1. \A e : P!Contribution(e)' = P!Contribution(e)
      BY Zenon, <2>1 DEF P!Contribution
    <3>2. QED
      BY <3>1 DEF RankValue
  <2>4. RankTypes' /\ RankInPlace' /\ RankDegrees' /\ RankArrays' /\ RankIteration'
    BY <2>1, <2>2 DEF RankTypes, P!TypeOK, RankInPlace, P!InPass, RankDegrees, RankCounted,
                      RankArrays, RankIteration
  <2>5. RankSums'
    BY <2>1, <2>2, <2>3 DEF RankSums
  <2>6. QED
    BY <2>4, <2>5
<1>4. QED
  BY <1>1, <1>2, <1>3, OneProgram DEF Ranks

(* pagerank, spmv and pagerank-Delta: after n iterations the array holds   *)
(* what the formula gives after n, although the workers race for the sums  *)
(* and take the edges in any order: for every graph, every number of       *)
(* iterations and every unit in which the quotients are rounded down.      *)
THEOREM RanksAreExact == Spec => []RankInv
<1> DEFINE I == program \in Ranks => RankIInv
<1>1. Init => I
  BY FirstStates, RankInit DEF Ranks
<1>2. I /\ [Next]_vars => I'
  BY RankSteps DEF Ranks
<1>3. I => RankInv
  BY RankImplies DEF RankInv, Ranks
<1>4. QED
  BY <1>1, <1>2, <1>3, PTL DEF Spec
=============================================================================
