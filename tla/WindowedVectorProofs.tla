------------------------ MODULE WindowedVectorProofs ------------------------
(***************************************************************************)
(* Theorems about the ranges of vertices, the passes over them, and the    *)
(* vectors in files the passes update: for every number of vertices,       *)
(* partitions and threads, every bitmap, and every size of word, window    *)
(* and page.                                                               *)
(***************************************************************************)
EXTENDS WindowedVector, FiniteSetTheorems, TLAPS

-----------------------------------------------------------------------------
(* The two functions of core/partition.hpp agree, for every number of      *)
(* vertices and of partitions: what one computes by division, the other    *)
(* computes by multiplication.                                             *)

(* Euclidean division, in the form the proofs below use.                   *)
LEMMA Division ==
    ASSUME NEW a \in Nat, NEW d \in Nat \ {0}
    PROVE  /\ a \div d \in Nat
           /\ a % d \in 0 .. d - 1
           /\ a = (a \div d) * d + (a % d)
           /\ (a \div d) * d <= a
           /\ a < (a \div d) * d + d
OBVIOUS

(* A product grows with its first factor.                                  *)
LEMMA ProductGrows ==
    ASSUME NEW x \in Nat, NEW y \in Nat, NEW d \in Nat, x <= y
    PROVE  x * d <= y * d
<1>1. y * d = x * d + (y - x) * d
  OBVIOUS
<1>2. (y - x) * d >= 0
  OBVIOUS
<1>3. QED
  BY <1>1, <1>2

(* A quotient is below a bound when the dividend is below its multiple.    *)
LEMMA QuotientBelow ==
    ASSUME NEW a \in Nat, NEW d \in Nat \ {0}, NEW n \in Nat, a < n * d
    PROVE  a \div d < n
<1>1. SUFFICES ASSUME n <= a \div d PROVE FALSE
  BY Division
<1>2. n * d <= (a \div d) * d
  BY <1>1, Division, ProductGrows
<1>3. QED
  BY <1>2, Division

(* The vertices and partitions of a grid.                                  *)
Grid(V, P) == V \in Nat /\ P \in Nat \ {0}

(* The two sizes of partition: long ones of size vertices and short ones,  *)
(* together all the vertices.                                              *)
LEMMA PartitionSizes ==
    ASSUME NEW V, NEW P, Grid(V, P)
    PROVE  /\ V \div P \in Nat
           /\ V % P \in 0 .. P - 1
           /\ V = (V % P) * (V \div P + 1) + (P - (V % P)) * (V \div P)
<1> DEFINE q == V \div P
           m == V % P
<1>1. q \in Nat /\ m \in 0 .. P - 1 /\ V = q * P + m
  BY Division DEF Grid
<1> HIDE DEF q, m
<1>2. q * P = q * m + q * (P - m)
  BY <1>1 DEF Grid
<1>3. m * (q + 1) = q * m + m
  BY <1>1
<1>4. (P - m) * q = q * (P - m)
  BY <1>1 DEF Grid
<1>5. V = m * (q + 1) + (P - m) * q
  BY <1>1, <1>2, <1>3, <1>4 DEF Grid
<1>6. QED
  BY <1>1, <1>5 DEF q, m

(* The ranges follow each other without a gap: each one ends where the     *)
(* next begins.                                                            *)
THEOREM RangesTouch ==
    ASSUME NEW V, NEW P, Grid(V, P), NEW id \in 0 .. P - 1
    PROVE  get_partition_range(V, P, id).end = RangeAt(V, P, id + 1)
<1> DEFINE q == V \div P
           m == V % P
<1>1. q \in Nat /\ m \in 0 .. P - 1
  BY PartitionSizes
<1>2. get_partition_range(V, P, id).end
        = IF id < m THEN (id + 1) * (q + 1) ELSE m * (q + 1) + (id - m + 1) * ((q + 1) - 1)
  BY DEF get_partition_range
<1>3. \A n : RangeAt(V, P, n) = IF n < m THEN n * (q + 1)
                               ELSE m * (q + 1) + (n - m) * ((q + 1) - 1)
  BY Zenon DEF RangeAt
<1> HIDE DEF q, m
<1>4. CASE id + 1 < m
  BY <1>1, <1>2, <1>3, <1>4
<1>5. CASE id + 1 = m
  <2>1. m * (q + 1) + (id + 1 - m) * ((q + 1) - 1) = m * (q + 1)
    BY <1>1, <1>5
  <2>2. QED
    BY <1>1, <1>2, <1>3, <1>5, <2>1
<1>6. CASE id + 1 > m
  <2>1. id - m + 1 = id + 1 - m
    BY <1>1
  <2>2. QED
    BY <1>1, <1>2, <1>3, <1>6, <2>1
<1>7. QED
  BY <1>1, <1>4, <1>5, <1>6

(* The first range begins at vertex 0 and the last one ends after the last *)
(* vertex.                                                                 *)
THEOREM RangesCover ==
    ASSUME NEW V, NEW P, Grid(V, P)
    PROVE  RangeAt(V, P, 0) = 0 /\ RangeAt(V, P, P) = V
<1> DEFINE q == V \div P
           m == V % P
<1>1. q \in Nat /\ m \in 0 .. P - 1 /\ V = m * (q + 1) + (P - m) * q
  BY PartitionSizes
<1>2. RangeAt(V, P, 0) = IF 0 < m THEN 0 * (q + 1) ELSE m * (q + 1) + (0 - m) * ((q + 1) - 1)
  BY DEF RangeAt
<1>3. RangeAt(V, P, P) = IF P < m THEN P * (q + 1) ELSE m * (q + 1) + (P - m) * ((q + 1) - 1)
  BY DEF RangeAt
<1> HIDE DEF q, m
<1>4. (q + 1) - 1 = q
  BY <1>1
<1>5. RangeAt(V, P, 0) = 0
  <2>1. CASE 0 < m
    BY <1>1, <1>2, <2>1
  <2>2. CASE m = 0
    <3>1. m * (q + 1) = 0 /\ (0 - m) * q = 0
      BY <1>1, <2>2
    <3>2. QED
      BY <1>1, <1>2, <1>4, <2>2, <3>1
  <2>3. QED
    BY <1>1, <2>1, <2>2
<1>6. RangeAt(V, P, P) = V
  BY <1>1, <1>3, <1>4 DEF Grid
<1>7. QED
  BY <1>5, <1>6

(* A quotient is at least a bound when the dividend is.                    *)
LEMMA QuotientAtLeast ==
    ASSUME NEW a \in Nat, NEW d \in Nat \ {0}, NEW n \in Nat, n * d <= a
    PROVE  n <= a \div d
<1>1. SUFFICES ASSUME (a \div d) + 1 <= n PROVE FALSE
  BY Division
<1> DEFINE k == a \div d
<1>2. k \in Nat /\ a < k * d + d
  BY Division
<1> HIDE DEF k
<1>3. k + 1 \in Nat /\ k + 1 <= n
  BY <1>1, <1>2 DEF k
<1>4. (k + 1) * d <= n * d
  BY <1>3, ProductGrows
<1>5. (k + 1) * d = k * d + d
  BY <1>2
<1>6. QED
  BY <1>2, <1>4, <1>5

(* get_partition_id puts every vertex into the range that                  *)
(* get_partition_range gives its partition, so the block an edge is filed  *)
(* in by tools/preprocess.cpp is the shard core/graph.hpp looks for it in. *)
THEOREM IdIsInRange ==
    ASSUME NEW V, NEW P, Grid(V, P), NEW v \in 0 .. V - 1
    PROVE  /\ get_partition_id(V, P, v) \in 0 .. P - 1
           /\ RangeAt(V, P, get_partition_id(V, P, v)) <= v
           /\ v < get_partition_range(V, P, get_partition_id(V, P, v)).end
<1> DEFINE q == V \div P
           m == V % P
           split == m * (q + 1)
           id == get_partition_id(V, P, v)
<1>1. q \in Nat /\ m \in 0 .. P - 1 /\ V = m * (q + 1) + (P - m) * q
  BY PartitionSizes
<1>2. id = IF m = 0 THEN v \div q
           ELSE IF v < split THEN v \div (q + 1)
                ELSE (v - split) \div ((q + 1) - 1) + m
  BY Zenon DEF get_partition_id
<1>3. \A n : RangeAt(V, P, n) = IF n < m THEN n * (q + 1)
                               ELSE split + (n - m) * ((q + 1) - 1)
  BY Zenon DEF RangeAt
<1>4. \A n : get_partition_range(V, P, n).end
               = IF n < m THEN (n + 1) * (q + 1)
                 ELSE split + (n - m + 1) * ((q + 1) - 1)
  BY DEF get_partition_range
<1> HIDE DEF q, m, id
<1>5. v \in Nat /\ P \in Nat \ {0} /\ split \in Nat
  BY <1>1 DEF Grid
<1>6. (q + 1) - 1 = q
  BY <1>1
<1>7. CASE v < split
  <2>1. m # 0 /\ id = v \div (q + 1)
    <3>1. m # 0
      BY <1>1, <1>5, <1>7
    <3>2. QED
      BY <1>2, <1>7, <3>1
  <2>2. id < m
    BY <2>1, <1>1, <1>5, <1>7, QuotientBelow
  <2>3. id \in Nat /\ id * (q + 1) <= v /\ v < id * (q + 1) + (q + 1)
    <3>1. q + 1 \in Nat \ {0}
      BY <1>1
    <3>2. QED
      BY <2>1, <3>1, <1>5, Division
  <2>4. (id + 1) * (q + 1) = id * (q + 1) + (q + 1)
    BY <2>3, <1>1
  <2>5. RangeAt(V, P, id) = id * (q + 1) /\ get_partition_range(V, P, id).end = (id + 1) * (q + 1)
    BY <1>3, <1>4, <2>2
  <2>6. QED
    BY <1>1, <1>5, <2>2, <2>3, <2>4, <2>5 DEF id
<1>8. CASE v >= split
  <2> DEFINE a == v - split
             k == a \div q
  <2>1. q # 0
    <3>1. SUFFICES ASSUME q = 0 PROVE FALSE
      OBVIOUS
    <3>2. (P - m) * q = 0
      BY <3>1, <1>1, <1>5
    <3>3. QED
      BY <1>1, <1>5, <1>8, <3>2 DEF Grid
  <2>2. a \in Nat /\ a < (P - m) * q
    BY <1>1, <1>5, <1>8 DEF Grid
  <2>3. k \in Nat /\ k * q <= a /\ a < k * q + q /\ k < P - m
    <3>1. q \in Nat \ {0} /\ P - m \in Nat
      BY <2>1, <1>1, <1>5
    <3> HIDE DEF a
    <3>2. k \in Nat /\ k * q <= a /\ a < k * q + q
      BY <2>2, <3>1, Division
    <3>3. k < P - m
      BY <2>2, <3>1, QuotientBelow
    <3>4. QED
      BY <3>2, <3>3
  <2>4. id = k + m
    <3>1. CASE m = 0
      <4>1. split = 0 /\ a = v
        BY <3>1, <1>1, <1>5
      <4>2. QED
        BY <1>2, <3>1, <4>1, <2>3
    <3>2. CASE m # 0
      BY <1>2, <1>5, <1>6, <1>8, <3>2
    <3>3. QED
      BY <3>1, <3>2
  <2> HIDE DEF k
  <2>5. ~(id < m) /\ id - m = k /\ id \in 0 .. P - 1
    BY <2>3, <2>4, <1>1, <1>5
  <2>6. RangeAt(V, P, id) = split + k * q
    BY <1>3, <1>6, <2>5
  <2>7. get_partition_range(V, P, id).end = split + (k + 1) * q
    BY <1>4, <1>6, <2>5
  <2>8. (k + 1) * q = k * q + q
    BY <2>3, <1>1
  <2>9. v = split + a
    BY <1>5
  <2>10. split + k * q <= v /\ v < split + (k + 1) * q
    <3>1. k * q \in Nat
      BY <2>3, <1>1
    <3>2. QED
      BY <1>1, <1>5, <2>2, <2>3, <2>8, <2>9, <3>1
  <2>11. QED
    BY <2>5, <2>6, <2>7, <2>10 DEF id
<1>9. QED
  BY <1>5, <1>7, <1>8

(* Ranges ascend, and a vertex is in one of them only.                     *)
LEMMA RangesGrow ==
    ASSUME NEW V, NEW P, Grid(V, P), NEW x \in 0 .. P, NEW y \in 0 .. P, x <= y
    PROVE  RangeAt(V, P, x) \in Nat /\ RangeAt(V, P, x) <= RangeAt(V, P, y)
<1> DEFINE q == V \div P
           m == V % P
<1>1. q \in Nat /\ m \in 0 .. P - 1 /\ P \in Nat
  BY PartitionSizes DEF Grid
<1>2. \A n : RangeAt(V, P, n) = IF n < m THEN n * (q + 1)
                               ELSE m * (q + 1) + (n - m) * ((q + 1) - 1)
  BY Zenon DEF RangeAt
<1> HIDE DEF q, m
<1>3. (q + 1) - 1 = q
  BY <1>1
<1>4. \A n \in Nat : /\ n < m => RangeAt(V, P, n) = n * (q + 1)
                     /\ ~(n < m) => RangeAt(V, P, n) = m * (q + 1) + (n - m) * q
  BY <1>2, <1>3
<1>5. m * (q + 1) \in Nat /\ x * (q + 1) \in Nat
  BY <1>1
<1>6. CASE y < m
  <2>1. x < m /\ x * (q + 1) <= y * (q + 1)
    BY <1>1, <1>6, ProductGrows
  <2>2. QED
    BY <1>1, <1>4, <1>5, <1>6, <2>1
<1>7. CASE x < m /\ ~(y < m)
  <2>1. x * (q + 1) <= m * (q + 1)
    BY <1>1, <1>7, ProductGrows
  <2>2. (y - m) * q \in Nat
    BY <1>1, <1>7
  <2>3. QED
    BY <1>1, <1>4, <1>5, <1>7, <2>1, <2>2
<1>8. CASE ~(x < m)
  <2>1. (x - m) * q \in Nat /\ (y - m) * q \in Nat /\ (x - m) * q <= (y - m) * q
    <3>1. x - m \in Nat /\ y - m \in Nat /\ x - m <= y - m
      BY <1>1, <1>8
    <3>2. (x - m) * q <= (y - m) * q
      BY <1>1, <3>1, ProductGrows
    <3>3. QED
      BY <1>1, <3>1, <3>2
  <2>2. QED
    BY <1>1, <1>4, <1>5, <1>8, <2>1
<1>9. QED
  BY <1>6, <1>7, <1>8

LEMMA RangeEnds ==
    ASSUME NEW V, NEW P, Grid(V, P), NEW p \in 0 .. P - 1
    PROVE  /\ get_partition_range(V, P, p).begin = RangeAt(V, P, p)
           /\ get_partition_range(V, P, p).end = RangeAt(V, P, p + 1)
           /\ RangeAt(V, P, p) \in Nat /\ RangeAt(V, P, p + 1) \in Nat
           /\ RangeAt(V, P, p) <= RangeAt(V, P, p + 1)
           /\ RangeAt(V, P, p + 1) <= V
<1>1. P \in Nat /\ p \in 0 .. P /\ p + 1 \in 0 .. P /\ P \in 0 .. P
  BY DEF Grid
<1>2. get_partition_range(V, P, p).begin = RangeAt(V, P, p)
  BY DEF get_partition_range
<1>3. RangeAt(V, P, P) = V
  BY RangesCover
<1>4. QED
  BY <1>1, <1>2, <1>3, RangesGrow, RangesTouch

LEMMA OneRange ==
    ASSUME NEW V, NEW P, Grid(V, P), NEW p \in 0 .. P - 1, NEW v \in 0 .. V - 1
    PROVE  RangeAt(V, P, p) <= v /\ v < RangeAt(V, P, p + 1) <=> p = get_partition_id(V, P, v)
<1> DEFINE id == get_partition_id(V, P, v)
<1>1. id \in 0 .. P - 1 /\ RangeAt(V, P, id) <= v /\ v < RangeAt(V, P, id + 1)
  BY IdIsInRange, RangesTouch
<1> HIDE DEF id
<1>2. V \in Nat /\ P \in Nat /\ v \in Nat
  BY DEF Grid
<1>3. CASE p = id
  BY <1>1, <1>3 DEF id
<1>4. CASE p < id
  <2>1. p + 1 \in 0 .. P /\ id \in 0 .. P /\ p + 1 <= id
    BY <1>1, <1>2, <1>4
  <2>2. RangeAt(V, P, p + 1) \in Nat /\ RangeAt(V, P, id) \in Nat
        /\ RangeAt(V, P, p + 1) <= RangeAt(V, P, id)
    BY <2>1, RangesGrow
  <2>3. ~(v < RangeAt(V, P, p + 1))
    BY <1>1, <1>2, <2>2
  <2>4. QED
    BY <1>1, <1>2, <1>4, <2>3 DEF id
<1>5. CASE id < p
  <2>1. id + 1 \in 0 .. P /\ p \in 0 .. P /\ id + 1 <= p
    BY <1>1, <1>2, <1>5
  <2>2. RangeAt(V, P, id + 1) \in Nat /\ RangeAt(V, P, p) \in Nat
        /\ RangeAt(V, P, id + 1) <= RangeAt(V, P, p)
    BY <2>1, RangesGrow
  <2>3. ~(RangeAt(V, P, p) <= v)
    BY <1>1, <1>2, <2>2
  <2>4. QED
    BY <1>1, <1>2, <1>5, <2>3 DEF id
<1>6. QED
  BY <1>1, <1>2, <1>3, <1>4, <1>5

(* Bits of a word and the vertices they stand for.                         *)
LEMMA QuotientIs ==
    ASSUME NEW a \in Nat, NEW d \in Nat \ {0}, NEW n \in Nat, n * d <= a, a < n * d + d
    PROVE  a \div d = n /\ a % d = a - n * d
<1>1. n <= a \div d
  BY QuotientAtLeast
<1>2. a < (n + 1) * d
  OBVIOUS
<1>3. n + 1 \in Nat
  OBVIOUS
<1>4. a \div d < n + 1
  BY <1>2, <1>3, QuotientBelow
<1>5. a \div d \in Nat
  BY Division
<1>6. a \div d = n
  BY <1>1, <1>4, <1>5
<1>7. a = (a \div d) * d + (a % d) /\ a % d \in Int
  BY Division
<1>8. n * d \in Nat
  OBVIOUS
<1>9. (a \div d) * d = n * d
  BY <1>6
<1>10. QED
  BY <1>6, <1>7, <1>8, <1>9

LEMMA ProductOfQuotient ==
    ASSUME NEW a \in Nat, NEW d \in Nat \ {0}
    PROVE  (a \div d) * d \in Nat
<1> DEFINE k == a \div d
<1>1. k \in Nat
  BY Division
<1> HIDE DEF k
<1>2. k * d \in Nat
  BY <1>1
<1>3. QED
  BY <1>2 DEF k

LEMMA SameWord ==
    ASSUME NEW v \in Nat, NEW u \in Nat, NEW d \in Nat \ {0}, NEW n \in Nat
    PROVE  u \div d = v \div d /\ u % d = (v % d) + n <=> u = v + n /\ (v % d) + n < d
<1> DEFINE k == v \div d
           r == v % d
<1>1. k \in Nat /\ r \in 0 .. d - 1 /\ v = k * d + r /\ k * d \in Nat
  BY Division, ProductOfQuotient
<1>2. (u \div d) \in Nat /\ u = (u \div d) * d + (u % d) /\ u % d \in 0 .. d - 1
  BY Division
<1> HIDE DEF k, r
<1>3. ASSUME u \div d = k, u % d = r + n PROVE u = v + n /\ r + n < d
  BY <1>1, <1>2, <1>3
<1>4. ASSUME u = v + n, r + n < d PROVE u \div d = k /\ u % d = r + n
  <2>1. k * d <= u /\ u < k * d + d /\ u - k * d = r + n
    BY <1>1, <1>4
  <2>2. QED
    BY <1>1, <2>1, QuotientIs
<1>5. QED
  BY <1>3, <1>4 DEF k, r

-----------------------------------------------------------------------------
(* The inductive invariant of a pass.  A vertex is called while its        *)
(* partition is held by a thread that walks over it; before the partition  *)
(* is taken no wanted vertex of it has been called, afterwards all have.   *)
Part(v) == get_partition_id(vertices, partitions, v)
Busy(t) == pc[t] # "idle"
Holds(t, v) == Busy(t) /\ partition_id[t] = Part(v)

\* The partitions from here on have not been opened.
Limit ==
    IF mainPc # "loop" THEN cur_partition
    ELSE IF ByWindow THEN cur_partition + partition_batch ELSE partitions
Later(p) == p \in todo \/ p >= Limit

Arguments ==
    /\ Grid(vertices, partitions)
    /\ partition_batch \in Nat /\ windowed \in BOOLEAN
    /\ bitmap # NoBitmap => bitmap \in SUBSET VertexIds

Windows ==
    /\ \A p \in todo : cur_partition <= p /\ p < Limit
    /\ mainPc # "loop" => todo = {}
    /\ ~ByWindow => \/ cur_partition = 0
                    \/ mainPc # "loop" /\ cur_partition = partitions
    /\ mainPc = "returned" => cur_partition >= partitions
    /\ mainPc = "loop" => cur_partition < partitions

\* In its word a thread sees the bits of the vertices from i on.
SeesBits(t) ==
    \A n \in Nat : n \in word[t] <=> n + j[t] < WordBits /\ i[t] + n \in bitmap

Place(t) ==
    Busy(t) =>
        /\ mainPc = "loop" /\ partition_id[t] \notin todo
        /\ cur_partition <= partition_id[t] /\ partition_id[t] < Limit
        /\ \A u \in Threads : Busy(u) /\ partition_id[u] = partition_id[t] => u = t
        /\ RangeOf(partition_id[t]).begin <= i[t]
        /\ pc[t] = "each" => bitmap = NoBitmap
        /\ pc[t] \in {"word", "bit", "next"} => bitmap # NoBitmap
        /\ pc[t] = "bit" => i[t] < RangeOf(partition_id[t]).end /\ SeesBits(t)
        /\ pc[t] \in {"next", "add"} => i[t] >= RangeOf(partition_id[t]).end

CalledIn(v) ==
    /\ Later(Part(v)) => calls[v] = 0
    /\ \A t \in Threads : Holds(t, v) => calls[v] = IF v \in Wanted /\ v < i[t] THEN 1 ELSE 0
    /\ ~Later(Part(v)) /\ (\A t \in Threads : ~Holds(t, v)) =>
           calls[v] = IF v \in Wanted THEN 1 ELSE 0

\* The calls that are in the value already, and those a thread has counted.
Added == {v \in VertexIds : calls[v] = 1 /\ \A t \in Threads : ~Holds(t, v)}
Counted(t) == {v \in VertexIds : calls[v] = 1 /\ Holds(t, v)}

Types ==
    /\ cur_partition \in Nat
    /\ todo \subseteq 0 .. partitions - 1
    /\ mainPc \in {"window", "loop", "returned"}
    /\ pc \in [Threads -> {"idle", "each", "word", "bit", "next", "add"}]
    /\ partition_id \in [Threads -> 0 .. partitions - 1]
    /\ i \in [Threads -> Nat]
    /\ j \in [Threads -> 0 .. WordBits]
    /\ word \in [Threads -> SUBSET (0 .. WordBits - 1)]
    /\ local_value \in [Threads -> 0 .. vertices]
    /\ calls \in [VertexIds -> Nat]

Called == \A v \in VertexIds : CalledIn(v)
Counts ==
    /\ value = Cardinality(Added)
    /\ \A t \in Threads : Busy(t) => local_value[t] = Cardinality(Counted(t))

IInv == Arguments /\ Types /\ Windows /\ (\A t \in Threads : Place(t)) /\ Called /\ Counts

LEMMA VertexFacts ==
    ASSUME Arguments
    PROVE  /\ vertices \in Nat /\ partitions \in Nat \ {0} /\ WordBits \in Nat \ {0}
           /\ \A v \in VertexIds : Part(v) \in 0 .. partitions - 1
           /\ \A p \in 0 .. partitions - 1 :
                 /\ RangeOf(p).begin \in Nat /\ RangeOf(p).end \in Nat
                 /\ RangeOf(p).end <= vertices
                 /\ \A v \in VertexIds : RangeOf(p).begin <= v /\ v < RangeOf(p).end <=> p = Part(v)
<1>1. vertices \in Nat /\ partitions \in Nat \ {0} /\ WordBits \in Nat \ {0}
  BY VerticesAssumption DEF Arguments, Grid
<1>2. \A v \in VertexIds : Part(v) \in 0 .. partitions - 1
  BY IdIsInRange DEF Arguments, Part, VertexIds
<1>3. ASSUME NEW p \in 0 .. partitions - 1
      PROVE  /\ RangeOf(p).begin \in Nat /\ RangeOf(p).end \in Nat
             /\ RangeOf(p).end <= vertices
             /\ \A v \in VertexIds : RangeOf(p).begin <= v /\ v < RangeOf(p).end <=> p = Part(v)
  <2>1. /\ RangeOf(p).begin = RangeAt(vertices, partitions, p)
        /\ RangeOf(p).end = RangeAt(vertices, partitions, p + 1)
        /\ RangeAt(vertices, partitions, p) \in Nat /\ RangeAt(vertices, partitions, p + 1) \in Nat
        /\ RangeAt(vertices, partitions, p + 1) <= vertices
    BY RangeEnds DEF Arguments, RangeOf
  <2>2. \A v \in VertexIds : RangeAt(vertices, partitions, p) <= v
            /\ v < RangeAt(vertices, partitions, p + 1) <=> p = Part(v)
    BY OneRange DEF Arguments, VertexIds, Part
  <2>3. QED
    BY <2>1, <2>2
<1>4. QED
  BY <1>1, <1>2, <1>3

LEMMA VertexSets ==
    ASSUME Arguments
    PROVE  /\ \A S \in SUBSET VertexIds : IsFiniteSet(S) /\ Cardinality(S) \in 0 .. vertices
           /\ Cardinality({}) = 0
           /\ \A S \in SUBSET VertexIds : \A v \in VertexIds \ S :
                 Cardinality(S \union {v}) = Cardinality(S) + 1
           /\ \A S, T \in SUBSET VertexIds :
                 S \intersect T = {} => Cardinality(S \union T) = Cardinality(S) + Cardinality(T)
<1>1. vertices \in Nat
  BY VertexFacts
<1>2. IsFiniteSet(VertexIds) /\ Cardinality(VertexIds) = vertices
  <2>1. /\ IsFiniteSet(0 .. vertices - 1)
        /\ Cardinality(0 .. vertices - 1) = IF 0 > vertices - 1 THEN 0 ELSE vertices - 1 - 0 + 1
    BY <1>1, FS_Interval
  <2>2. QED
    BY <1>1, <2>1 DEF VertexIds
<1>3. \A S \in SUBSET VertexIds : IsFiniteSet(S) /\ Cardinality(S) \in 0 .. vertices
  BY <1>1, <1>2, FS_Subset, FS_CardinalityType
<1>4. Cardinality({}) = 0
  BY FS_EmptySet
<1>5. \A S \in SUBSET VertexIds : \A v \in VertexIds \ S : Cardinality(S \union {v}) = Cardinality(S) + 1
  BY <1>3, FS_AddElement
<1>6. ASSUME NEW S \in SUBSET VertexIds, NEW T \in SUBSET VertexIds, S \intersect T = {}
      PROVE  Cardinality(S \union T) = Cardinality(S) + Cardinality(T)
  <2>1. Cardinality(S \union T) = Cardinality(S) + Cardinality(T) - Cardinality(S \intersect T)
    BY <1>3, FS_Union
  <2>2. Cardinality(S \intersect T) = 0
    BY <1>4, <1>6
  <2>3. Cardinality(S) \in Nat /\ Cardinality(T) \in Nat
    BY <1>1, <1>3
  <2>4. QED
    BY <2>1, <2>2, <2>3
<1>7. QED
  BY <1>3, <1>4, <1>5, <1>6

(* The word that is loaded shows the bits from the vertex on; a zero word  *)
(* has no bit up to the first vertex of the next one.                      *)
LEMMA WordBitsAreVertices ==
    ASSUME Arguments, bitmap # NoBitmap, NEW v \in Nat
    PROVE  /\ \A n \in Nat : n \in ShiftRight(data(v \div WordBits), v % WordBits) <=>
                                n + (v % WordBits) < WordBits /\ v + n \in bitmap
           /\ data(v \div WordBits) = {} =>
                 \A u \in bitmap : v <= u => (v \div WordBits + 1) * WordBits <= u
           /\ data(v \div WordBits) \subseteq 0 .. WordBits - 1
           /\ v < (v \div WordBits + 1) * WordBits
           /\ (v \div WordBits + 1) * WordBits \in Nat
           /\ v % WordBits \in 0 .. WordBits - 1
<1> DEFINE k == v \div WordBits
           r == v % WordBits
<1>1. WordBits \in Nat \ {0} /\ bitmap \subseteq Nat
  BY VertexFacts DEF Arguments, VertexIds
<1>2. k \in Nat /\ r \in 0 .. WordBits - 1 /\ v = k * WordBits + r /\ k * WordBits \in Nat
  BY <1>1, Division, ProductOfQuotient
<1>3. \A u, n \in Nat : u \div WordBits = k /\ u % WordBits = r + n <=> u = v + n /\ r + n < WordBits
  BY <1>1, SameWord
<1>4. \A u \in Nat : u % WordBits \in 0 .. WordBits - 1
  BY <1>1, Division
<1> HIDE DEF r
<1>5. \A n \in Nat : n \in ShiftRight(data(k), r) <=> n + r < WordBits /\ v + n \in bitmap
  <2> SUFFICES ASSUME NEW n \in Nat
               PROVE  n \in ShiftRight(data(k), r) <=> n + r < WordBits /\ v + n \in bitmap
    OBVIOUS
  <2> HIDE DEF k
  <2>1. n \in ShiftRight(data(k), r) <=> r + n \in data(k)
    <3>1. \A x \in data(k) : x \in Nat
      BY <1>1, <1>4 DEF data
    <3>2. QED
      BY <1>1, <1>2, <3>1 DEF ShiftRight
  <2>2. r + n \in data(k) <=> \E u \in bitmap : u \div WordBits = k /\ u % WordBits = r + n
    BY DEF data
  <2>3. (\E u \in bitmap : u \div WordBits = k /\ u % WordBits = r + n)
            <=> r + n < WordBits /\ v + n \in bitmap
    <3>1. v + n \in Nat
      OBVIOUS
    <3>2. QED
      BY <1>1, <1>3, <3>1
  <2>4. r + n = n + r
    BY <1>1, <1>2
  <2>5. QED
    BY <2>1, <2>2, <2>3, <2>4
<1>6. ASSUME data(k) = {}, NEW u \in bitmap, v <= u PROVE (k + 1) * WordBits <= u
  <2>1. u \div WordBits # k /\ u \in Nat
    BY <1>1, <1>6 DEF data
  <2> HIDE DEF k
  <2>2. k * WordBits <= u
    BY <1>1, <1>2, <1>6, <2>1
  <2>3. ~(u < k * WordBits + WordBits)
    BY <1>1, <1>2, <2>1, <2>2, QuotientIs
  <2>4. (k + 1) * WordBits = k * WordBits + WordBits
    BY <1>1, <1>2
  <2>5. QED
    BY <1>1, <1>2, <2>1, <2>3, <2>4
<1>7. data(k) \subseteq 0 .. WordBits - 1
  BY <1>1, <1>4 DEF data
<1>8. v < (k + 1) * WordBits /\ (k + 1) * WordBits \in Nat
  <2> HIDE DEF k
  <2>1. (k + 1) * WordBits = k * WordBits + WordBits
    BY <1>1, <1>2
  <2>2. QED
    BY <1>1, <1>2, <2>1
<1>9. QED
  BY <1>2, <1>5, <1>6, <1>7, <1>8 DEF r

LEMMA PassInit == Init => IInv
<1> SUFFICES ASSUME Init PROVE IInv
  OBVIOUS
<1> USE DEF Init
<1>1. Arguments
  <2>1. PICK size \in Sizes : vertices = size[1] /\ partitions = size[2]
    OBVIOUS
  <2>2. vertices \in Nat /\ partitions \in Nat \ {0}
    BY <2>1, VerticesAssumption
  <2>3. PICK x \in Ratios : partition_batch = partitions \div x
    BY DEF set_partition_batch
  <2>4. partition_batch \in Nat
    BY <2>2, <2>3, VerticesAssumption, Division
  <2>5. QED
    BY <2>2, <2>4 DEF Arguments, Grid
<1>2. vertices \in Nat /\ partitions \in Nat \ {0} /\ WordBits \in Nat \ {0}
  BY <1>1, VertexFacts
<1>3. Types
  BY <1>2 DEF Types
<1>4. Windows /\ \A t \in Threads : Place(t)
  BY DEF Windows, Place, Busy
<1>5. Called
  BY <1>1, <1>2, VertexFacts DEF Called, CalledIn, Later, Limit, Holds, Busy
<1>6. Counts
  <2>1. Added = {}
    BY DEF Added
  <2>2. QED
    BY <2>1, FS_EmptySet DEF Counts, Busy
<1>7. QED
  BY <1>1, <1>3, <1>4, <1>5, <1>6 DEF IInv

(* The main thread.                                                        *)
LEMMA PassMain == IInv /\ MainStep => IInv'
<1> SUFFICES ASSUME IInv, MainStep PROVE IInv'
  OBVIOUS
<1> USE DEF IInv, argVars, walkVars
<1>1. /\ vertices \in Nat /\ partitions \in Nat \ {0} /\ partition_batch \in Nat
      /\ \A v \in VertexIds : Part(v) \in 0 .. partitions - 1
      /\ cur_partition \in Nat
  BY VertexFacts DEF Arguments, Types
<1>2. UNCHANGED <<vertices, partitions, partition_batch, bitmap, windowed, pc, partition_id,
                  i, j, word, local_value, value, calls>>
  BY DEF MainStep, OpenWindow, CloseWindow, Return
<1>3. /\ Arguments' /\ VertexIds' = VertexIds /\ Wanted' = Wanted /\ ByWindow' = ByWindow
      /\ \A v : Part(v)' = Part(v)
      /\ \A t, v : Holds(t, v)' = Holds(t, v)
      /\ \A t : Busy(t)' = Busy(t)
  BY <1>2 DEF Arguments, VertexIds, Wanted, ByWindow, Part, Holds, Busy
<1>4. Added' = Added /\ \A t : Counted(t)' = Counted(t)
  BY <1>2, <1>3 DEF Added, Counted
<1>5. Counts'
  BY <1>2, <1>3, <1>4 DEF Counts
<1>6. ASSUME \A p \in 0 .. partitions - 1 : Later(p)' <=> Later(p) PROVE Called'
  <2>1. \A v \in VertexIds : Later(Part(v))' <=> Later(Part(v))
    BY <1>1, <1>3, <1>6 DEF Later
  <2>2. \A v \in VertexIds : CalledIn(v)'
    BY <1>2, <1>3, <2>1 DEF Called, CalledIn
  <2>3. QED
    BY <1>3, <2>2 DEF Called
<1>7. CASE OpenWindow
  <2> USE <1>7 DEF OpenWindow
  <2>1. \A t \in Threads : ~Busy(t)
    BY DEF Place
  <2>2. ~ByWindow => cur_partition = 0
    BY <1>1 DEF Windows
  <2>3. Types'
    BY <1>1, <1>2, <1>3 DEF Types
  <2>4. Windows'
    BY <1>1, <1>3, <1>2, <2>2 DEF Windows, Limit
  <2>5. \A t \in Threads : Place(t)'
    BY <1>3, <2>1 DEF Place
  <2>6. ASSUME NEW p \in 0 .. partitions - 1 PROVE Later(p)' <=> Later(p)
    BY <1>1, <1>2, <1>3, <2>2 DEF Later, Limit, Windows
  <2>7. QED
    BY <1>3, <1>5, <1>6, <2>3, <2>4, <2>5, <2>6
<1>8. CASE CloseWindow
  <2> USE <1>8 DEF CloseWindow
  <2>1. \A t \in Threads : ~Busy(t)
    BY DEF Busy
  <2>2. Limit' = Limit /\ todo = {} /\ todo' = {}
    BY <1>2, <1>3 DEF Limit
  <2>3. Types'
    BY <1>1, <1>2, <1>3 DEF Types
  <2>4. Windows'
    BY <1>2, <1>3, <2>2 DEF Windows
  <2>5. \A t \in Threads : Place(t)'
    BY <1>3, <2>1 DEF Place
  <2>6. \A p \in 0 .. partitions - 1 : Later(p)' <=> Later(p)
    BY <2>2 DEF Later
  <2>7. QED
    BY <1>3, <1>5, <1>6, <2>3, <2>4, <2>5, <2>6
<1>9. CASE Return
  <2> USE <1>9 DEF Return
  <2>1. \A t \in Threads : ~Busy(t)
    BY DEF Place
  <2>2. Limit' = Limit /\ todo' = todo
    BY DEF Limit
  <2>3. Types'
    BY <1>1, <1>2, <1>3 DEF Types
  <2>4. Windows'
    BY <1>2, <1>3, <2>2 DEF Windows
  <2>5. \A t \in Threads : Place(t)'
    BY <1>3, <2>1 DEF Place
  <2>6. \A p \in 0 .. partitions - 1 : Later(p)' <=> Later(p)
    BY <2>2 DEF Later
  <2>7. QED
    BY <1>3, <1>5, <1>6, <2>3, <2>4, <2>5, <2>6
<1>10. QED
  BY <1>7, <1>8, <1>9 DEF MainStep

(* A step of the walk that calls nothing: only the walker's place changes, *)
(* and it passes no wanted vertex.                                         *)
LEMMA WalkKeeps ==
    ASSUME IInv, NEW t \in Threads, Busy(t), pc'[t] # "idle",
           UNCHANGED <<vertices, partitions, partition_batch, bitmap, windowed, cur_partition,
                       todo, mainPc, partition_id, local_value, value, calls>>,
           \A x \in Threads : x # t => pc'[x] = pc[x] /\ i'[x] = i[x],
           \A v \in VertexIds : Holds(t, v) /\ v \in Wanted => (v < i[t] <=> v < i'[t])
    PROVE  Arguments' /\ Windows' /\ Called' /\ Counts'
<1> USE DEF IInv
<1>1. /\ VertexIds' = VertexIds /\ Wanted' = Wanted /\ ByWindow' = ByWindow
      /\ Limit' = Limit
      /\ \A v : Part(v)' = Part(v)
  BY DEF VertexIds, Wanted, ByWindow, Part, Limit
<1>2. \A x \in Threads : \A v : Holds(x, v)' = Holds(x, v)
  BY <1>1 DEF Holds, Busy
<1>3. Arguments' /\ Windows'
  BY <1>1 DEF Arguments, Windows
<1>4. \A v \in VertexIds : CalledIn(v)'
  <2> SUFFICES ASSUME NEW v \in VertexIds PROVE CalledIn(v)'
    OBVIOUS
  <2>1. CalledIn(v)
    BY DEF Called
  <2>2. Later(Part(v))' = Later(Part(v))
    BY <1>1 DEF Later
  <2>3. ASSUME NEW x \in Threads, Holds(x, v)
        PROVE  calls[v] = IF v \in Wanted /\ v < i'[x] THEN 1 ELSE 0
    <3>1. calls[v] = IF v \in Wanted /\ v < i[x] THEN 1 ELSE 0
      BY <2>1, <2>3 DEF CalledIn
    <3>2. v \in Wanted => (v < i[x] <=> v < i'[x])
      BY <2>3
    <3>3. QED
      BY <3>1, <3>2
  <2>4. QED
    BY <1>1, <1>2, <2>1, <2>2, <2>3 DEF CalledIn
<1>5. Called'
  BY <1>1, <1>4 DEF Called
<1>6. Added' = Added /\ \A x \in Threads : Counted(x)' = Counted(x)
  BY <1>1, <1>2 DEF Added, Counted
<1>7. Counts'
  BY <1>6 DEF Counts, Busy
<1>8. QED
  BY <1>3, <1>5, <1>7

(* The step that calls process on the walker's vertex.                     *)
LEMMA ProcessCounts ==
    ASSUME IInv, NEW t \in Threads, Busy(t), pc'[t] # "idle",
           UNCHANGED <<vertices, partitions, partition_batch, bitmap, windowed, cur_partition,
                       todo, mainPc, partition_id, value>>,
           \A x \in Threads : x # t => pc'[x] = pc[x] /\ i'[x] = i[x],
           i[t] \in Wanted, i[t] < RangeOf(partition_id[t]).end,
           i'[t] = i[t] + 1, process(t, i[t])
    PROVE  /\ Arguments' /\ Windows' /\ Called' /\ Counts'
           /\ local_value' \in [Threads -> 0 .. vertices]
           /\ calls' \in [VertexIds -> Nat]
           /\ i[t] \in VertexIds /\ Part(i[t]) = partition_id[t]
<1> USE DEF IInv
<1> DEFINE v0 == i[t]
<1>1. /\ VertexIds' = VertexIds /\ Wanted' = Wanted /\ ByWindow' = ByWindow
      /\ Limit' = Limit
      /\ \A v : Part(v)' = Part(v)
  BY DEF VertexIds, Wanted, ByWindow, Part, Limit
<1>2. \A x \in Threads : \A v : Holds(x, v)' = Holds(x, v)
  BY <1>1 DEF Holds, Busy
<1>3. Arguments' /\ Windows'
  BY <1>1 DEF Arguments, Windows
<1>4. /\ v0 \in VertexIds /\ Part(v0) = partition_id[t] /\ Holds(t, v0)
      /\ ~Later(Part(v0)) /\ \A x \in Threads : Holds(x, v0) => x = t
  <2>1. partition_id[t] \in 0 .. partitions - 1 /\ v0 \in Nat
    BY DEF Types
  <2>2. RangeOf(partition_id[t]).begin <= v0 /\ v0 < RangeOf(partition_id[t]).end
    BY DEF Place
  <2>3. v0 \in VertexIds
    BY <2>1, <2>2, VertexFacts DEF VertexIds
  <2>4. partition_id[t] = Part(v0)
    BY <2>1, <2>2, <2>3, VertexFacts
  <2>5. /\ partition_id[t] \notin todo /\ partition_id[t] < Limit
        /\ \A u \in Threads : Busy(u) /\ partition_id[u] = partition_id[t] => u = t
    BY DEF Place
  <2>6. Limit \in Int
    BY DEF Limit, Arguments, Types, Grid
  <2>7. QED
    BY <2>1, <2>3, <2>4, <2>5, <2>6 DEF Holds, Later
<1>5. calls[v0] = 0
  <2>1. CalledIn(v0)
    BY <1>4 DEF Called
  <2>2. calls[v0] = IF v0 \in Wanted /\ v0 < i[t] THEN 1 ELSE 0
    BY <1>4, <2>1 DEF CalledIn
  <2>3. QED
    BY <2>2 DEF Types
<1>6. /\ calls' = [calls EXCEPT ![v0] = calls[v0] + 1]
      /\ local_value' = [local_value EXCEPT ![t] = local_value[t] + 1]
  BY DEF process
<1>7. /\ calls' \in [VertexIds -> Nat] /\ calls'[v0] = 1
      /\ \A v \in VertexIds : v # v0 => calls'[v] = calls[v]
  BY <1>4, <1>5, <1>6 DEF Types
<1>8. ASSUME NEW v \in VertexIds PROVE CalledIn(v)'
  <2>1. CalledIn(v)
    BY DEF Called
  <2>2. Later(Part(v))' = Later(Part(v))
    BY <1>1 DEF Later
  <2>3. v \in Nat /\ i[t] \in Nat
    BY DEF VertexIds, Types
  <2>4. CASE v = v0
    <3>1. calls'[v] = IF v \in Wanted /\ v < i'[t] THEN 1 ELSE 0
      BY <1>7, <2>3, <2>4
    <3>2. QED
      BY <1>1, <1>2, <1>4, <2>2, <2>4, <3>1 DEF CalledIn
  <2>5. CASE v # v0
    <3>1. ASSUME NEW x \in Threads, Holds(x, v)
          PROVE  calls'[v] = IF v \in Wanted /\ v < i'[x] THEN 1 ELSE 0
      <4>1. calls[v] = IF v \in Wanted /\ v < i[x] THEN 1 ELSE 0
        BY <2>1, <3>1 DEF CalledIn
      <4>2. v < i[x] <=> v < i'[x]
        BY <2>3, <2>5
      <4>3. QED
        BY <1>7, <2>5, <4>1, <4>2
    <3>2. QED
      BY <1>1, <1>2, <1>7, <2>1, <2>2, <2>5, <3>1 DEF CalledIn
  <2>6. QED
    BY <2>4, <2>5
<1>9. Called'
  BY <1>1, <1>8 DEF Called
<1>10. Added' = Added
  BY <1>1, <1>2, <1>4, <1>7 DEF Added
<1>11. /\ Counted(t)' = Counted(t) \union {v0} /\ v0 \notin Counted(t)
       /\ \A x \in Threads : x # t => Counted(x)' = Counted(x)
  BY <1>1, <1>2, <1>4, <1>5, <1>7 DEF Counted
<1>12. /\ local_value'[t] = Cardinality(Counted(t)') /\ local_value'[t] \in 0 .. vertices
  <2>1. Counted(t) \in SUBSET VertexIds /\ Counted(t)' \in SUBSET VertexIds
    BY <1>1 DEF Counted
  <2>2. local_value[t] = Cardinality(Counted(t))
    BY DEF Counts
  <2>3. Cardinality(Counted(t) \union {v0}) = Cardinality(Counted(t)) + 1
    BY <1>4, <1>11, <2>1, VertexSets
  <2>4. local_value'[t] = local_value[t] + 1
    BY <1>6 DEF Types
  <2>5. Cardinality(Counted(t)') \in 0 .. vertices
    BY <2>1, VertexSets
  <2>6. QED
    BY <1>11, <2>2, <2>3, <2>4, <2>5
<1>13. Counts' /\ local_value' \in [Threads -> 0 .. vertices]
  <2>1. \A x \in Threads : x # t => local_value'[x] = local_value[x]
    BY <1>6 DEF Types
  <2>2. local_value' \in [Threads -> 0 .. vertices]
    BY <1>6, <1>12 DEF Types
  <2>3. \A x \in Threads : Busy(x)' => local_value'[x] = Cardinality(Counted(x)')
    BY <1>11, <1>12, <2>1 DEF Counts, Busy
  <2>4. QED
    BY <1>10, <2>2, <2>3 DEF Counts
<1>14. QED
  BY <1>3, <1>4, <1>7, <1>9, <1>13

\* Where the others are does not depend on the step of one thread.
LEMMA OthersStay ==
    ASSUME IInv, NEW t \in Threads, Busy(t),
           UNCHANGED <<vertices, partitions, partition_batch, bitmap, windowed, cur_partition,
                       todo, mainPc, partition_id>>,
           NEW x \in Threads, x # t, pc'[x] = pc[x], i'[x] = i[x], j'[x] = j[x], word'[x] = word[x],
           \A u \in Threads : pc'[u] # "idle" => pc[u] # "idle"
    PROVE  Place(x)'
<1>1. Limit' = Limit
  BY DEF Limit, ByWindow
<1>2. Place(x)
  BY DEF IInv
<1>3. SeesBits(x) => SeesBits(x)'
  BY DEF SeesBits
<1>4. QED
  BY <1>1, <1>2, <1>3 DEF Place, Busy, RangeOf

LEMMA PassThread ==
    ASSUME IInv, NEW t \in Threads, ThreadStep(t)
    PROVE  IInv'
<1> USE DEF IInv
<1>0. /\ pc \in [Threads -> {"idle", "each", "word", "bit", "next", "add"}]
      /\ i \in [Threads -> Nat] /\ j \in [Threads -> 0 .. WordBits]
      /\ word \in [Threads -> SUBSET (0 .. WordBits - 1)]
      /\ partition_id \in [Threads -> 0 .. partitions - 1]
      /\ WordBits \in Nat \ {0} /\ vertices \in Nat /\ partitions \in Nat
      /\ RangeOf(partition_id[t]).end \in Nat /\ RangeOf(partition_id[t]).begin \in Nat
  <2>1. partition_id \in [Threads -> 0 .. partitions - 1]
    BY DEF Types
  <2>2. QED
    BY <2>1, VertexFacts DEF Types
<1>1. CASE TakePartition(t)
  <2> USE <1>1 DEF TakePartition, argVars
  <2>1. PICK p \in todo : /\ todo' = todo \ {p}
                          /\ partition_id' = [partition_id EXCEPT ![t] = p]
                          /\ i' = [i EXCEPT ![t] = RangeOf(p).begin]
    OBVIOUS
  <2>2. /\ p \in 0 .. partitions - 1 /\ RangeOf(p).begin \in Nat
        /\ cur_partition <= p /\ p < Limit /\ ~Busy(t)
    <3>1. p \in 0 .. partitions - 1
      BY DEF Types
    <3>2. QED
      BY <3>1, VertexFacts DEF Windows, Busy
  <2>3. /\ Arguments' /\ VertexIds' = VertexIds /\ Wanted' = Wanted /\ ByWindow' = ByWindow
        /\ Limit' = Limit /\ \A v : Part(v)' = Part(v)
    BY DEF Arguments, VertexIds, Wanted, ByWindow, Limit, Part
  <2>4. \A x \in Threads : x # t => /\ Busy(x)' = Busy(x) /\ pc'[x] = pc[x]
                                    /\ partition_id'[x] = partition_id[x] /\ i'[x] = i[x]
                                    /\ local_value'[x] = local_value[x]
    BY <1>0, <2>1 DEF Busy, Types
  <2>5. /\ partition_id'[t] = p /\ i'[t] = RangeOf(p).begin /\ local_value'[t] = 0
        /\ pc'[t] \in {"each", "word"} /\ Busy(t)'
        /\ pc'[t] = IF bitmap = NoBitmap THEN "each" ELSE "word"
    BY <1>0, <2>1 DEF Busy, Types
  <2>6. Types'
    BY <1>0, <2>1, <2>2, <2>3 DEF Types
  <2>7. Windows'
    BY <2>1, <2>3 DEF Windows
  <2>8. \A x \in Threads : Busy(x) => partition_id[x] # p
    BY <2>1 DEF Place
  <2>9. ASSUME NEW x \in Threads PROVE Place(x)'
    <3>1. CASE x = t
      <4>1. /\ p \notin todo' /\ RangeOf(p)' = RangeOf(p)
            /\ \A u \in Threads : Busy(u)' /\ partition_id'[u] = p => u = t
        BY <2>1, <2>4, <2>8 DEF RangeOf
      <4>2. RangeOf(p).begin <= i'[t]
        BY <2>2, <2>5
      <4>3. QED
        BY <2>2, <2>3, <2>5, <3>1, <4>1, <4>2 DEF Place, RangeOf
    <3>2. CASE x # t
      <4>1. SeesBits(x) => SeesBits(x)'
        BY <2>4, <3>2 DEF SeesBits
      <4>2. Place(x)
        OBVIOUS
      <4>3. Busy(x) => partition_id'[x] \notin todo' /\ partition_id'[x] # p
        BY <2>1, <2>4, <2>8, <3>2, <4>2 DEF Place
      <4>4. QED
        BY <2>3, <2>4, <2>5, <3>2, <4>1, <4>2, <4>3 DEF Place, RangeOf
    <3>3. QED
      BY <3>1, <3>2
  <2>10. ASSUME NEW v \in VertexIds PROVE CalledIn(v)'
    <3>1. CalledIn(v) /\ Part(v) \in 0 .. partitions - 1 /\ v \in Nat
      BY VertexFacts DEF Called, VertexIds
    <3>2. CASE Part(v) = p
      <4>1. Later(Part(v)) /\ calls[v] = 0
        BY <3>1, <3>2 DEF Later, CalledIn
      <4>2. ~Later(Part(v))'
        <5>1. Limit \in Int
          BY DEF Limit, Arguments, Types, Grid
        <5>2. QED
          BY <2>1, <2>2, <2>3, <3>2, <5>1 DEF Later
      <4>3. Holds(t, v)' /\ \A x \in Threads : Holds(x, v)' => x = t
        BY <2>3, <2>4, <2>5, <2>8, <3>2 DEF Holds
      <4>4. ~(v < i'[t])
        <5>1. RangeOf(p).begin <= v
          BY <2>2, <3>2, VertexFacts
        <5>2. QED
          BY <2>2, <2>5, <3>1, <5>1
      <4>5. QED
        BY <2>3, <4>1, <4>2, <4>3, <4>4 DEF CalledIn
    <3>3. CASE Part(v) # p
      <4>1. Later(Part(v))' <=> Later(Part(v))
        BY <2>1, <2>3, <3>3 DEF Later
      <4>2. /\ ~Holds(t, v)' /\ ~Holds(t, v)
            /\ \A x \in Threads : x # t => Holds(x, v)' = Holds(x, v)
        BY <2>2, <2>3, <2>4, <2>5, <3>3 DEF Holds
      <4>3. QED
        BY <2>3, <2>4, <3>1, <4>1, <4>2 DEF CalledIn
    <3>4. QED
      BY <3>2, <3>3
  <2>11. Called'
    BY <2>3, <2>10 DEF Called
  <2>12. Counts'
    <3>1. \A v \in VertexIds : Part(v) = p => calls[v] = 0
      BY DEF Called, CalledIn, Later
    <3>2. /\ \A v : Holds(t, v)' <=> Part(v) = p
          /\ \A v : ~Holds(t, v)
          /\ \A x \in Threads : x # t => \A v : Holds(x, v)' = Holds(x, v)
      BY <2>2, <2>3, <2>4, <2>5 DEF Holds
    <3>3. Added' = Added
      BY <2>3, <3>1, <3>2 DEF Added
    <3>4. Counted(t)' = {} /\ \A x \in Threads : x # t => Counted(x)' = Counted(x)
      BY <2>3, <3>1, <3>2 DEF Counted
    <3>5. QED
      BY <2>4, <2>5, <3>3, <3>4, FS_EmptySet DEF Counts
  <2>13. QED
    BY <2>3, <2>6, <2>7, <2>9, <2>11, <2>12
<1>2. CASE EachVertex(t)
  <2> USE <1>2 DEF EachVertex, argVars
  <2>1. Busy(t) /\ bitmap = NoBitmap /\ pc'[t] \in {"each", "add"}
    BY <1>0 DEF Busy, Place
  <2>2. ASSUME NEW x \in Threads, x # t PROVE pc'[x] = pc[x] /\ i'[x] = i[x]
    BY <1>0, <2>2
  <2>3. ASSUME NEW x \in Threads, x # t PROVE Place(x)'
    <3>1. \A u \in Threads : pc'[u] # "idle" => pc[u] # "idle"
      BY <2>1, <2>2 DEF Busy
    <3>2. QED
      BY <2>1, <2>2, <2>3, <3>1, OthersStay
  <2>4. CASE i[t] < RangeOf(partition_id[t]).end
    <3>1. process(t, i[t]) /\ i' = [i EXCEPT ![t] = i[t] + 1] /\ pc' = pc
      BY <2>4
    <3>2. i[t] \in Wanted
      <4>1. RangeOf(partition_id[t]).end <= vertices
        BY <1>0, VertexFacts
      <4>2. QED
        BY <1>0, <2>1, <2>4, <4>1 DEF Wanted, VertexIds
    <3>3. i'[t] = i[t] + 1 /\ pc'[t] # "idle"
      BY <1>0, <3>1
    <3>4. /\ Arguments' /\ Windows' /\ Called' /\ Counts'
          /\ local_value' \in [Threads -> 0 .. vertices] /\ calls' \in [VertexIds -> Nat]
      BY <2>1, <2>2, <2>4, <3>1, <3>2, <3>3, ProcessCounts
    <3>5. Types'
      <4>1. VertexIds' = VertexIds /\ i' \in [Threads -> Nat]
        BY <1>0, <3>1 DEF VertexIds
      <4>2. QED
        BY <1>0, <3>1, <3>4, <4>1 DEF Types
    <3>6. Place(t)'
      <4>1. Place(t) /\ pc'[t] = "each" /\ RangeOf(partition_id[t])' = RangeOf(partition_id[t])
        BY <3>1 DEF RangeOf
      <4>2. Limit' = Limit
        BY DEF Limit, ByWindow
      <4>3. QED
        BY <1>0, <2>1, <3>1, <3>3, <4>1, <4>2 DEF Place, Busy, RangeOf
    <3>7. QED
      BY <2>3, <3>4, <3>5, <3>6
  <2>5. CASE ~(i[t] < RangeOf(partition_id[t]).end)
    <3>1. pc' = [pc EXCEPT ![t] = "add"] /\ UNCHANGED <<i, calls, local_value>>
      BY <2>5
    <3>2. Arguments' /\ Windows' /\ Called' /\ Counts'
      BY <2>1, <2>2, <3>1, WalkKeeps
    <3>3. Types'
      BY <1>0, <3>1 DEF Types, VertexIds
    <3>4. Place(t)'
      <4>1. Place(t) /\ RangeOf(partition_id[t])' = RangeOf(partition_id[t]) /\ Limit' = Limit
        BY DEF RangeOf, Limit, ByWindow
      <4>2. QED
        BY <1>0, <2>1, <2>5, <3>1, <4>1 DEF Place, Busy, RangeOf
    <3>5. QED
      BY <2>3, <3>2, <3>3, <3>4
  <2>6. QED
    BY <2>4, <2>5
<1>3. CASE LoadWord(t)
  <2> USE <1>3 DEF LoadWord, argVars
  <2>1. Busy(t) /\ bitmap # NoBitmap /\ pc' = [pc EXCEPT ![t] = "bit"]
    BY <1>0 DEF Busy, Place
  <2>2. ASSUME NEW x \in Threads, x # t
        PROVE  pc'[x] = pc[x] /\ i'[x] = i[x] /\ j'[x] = j[x] /\ word'[x] = word[x]
    BY <1>0, <2>1, <2>2
  <2>3. Arguments' /\ Windows' /\ Called' /\ Counts'
    BY <1>0, <2>1, <2>2, WalkKeeps
  <2>4. /\ j'[t] = i[t] % WordBits /\ i[t] % WordBits \in 0 .. WordBits - 1
        /\ word'[t] = ShiftRight(data(i[t] \div WordBits), i[t] % WordBits)
        /\ data(i[t] \div WordBits) \subseteq 0 .. WordBits - 1
        /\ \A n \in Nat : n \in word'[t] <=> n + j'[t] < WordBits /\ i[t] + n \in bitmap
    BY <1>0, <2>1, WordBitsAreVertices
  <2>5. word'[t] \subseteq 0 .. WordBits - 1
    BY <1>0, <2>4 DEF ShiftRight
  <2>6. Types'
    <3>1. j' \in [Threads -> 0 .. WordBits]
      BY <1>0, <2>4
    <3>2. word' \in [Threads -> SUBSET (0 .. WordBits - 1)]
      BY <1>0, <2>4, <2>5
    <3>3. QED
      BY <1>0, <2>1, <3>1, <3>2 DEF Types, VertexIds
  <2>7. Place(t)'
    <3>1. Place(t) /\ RangeOf(partition_id[t])' = RangeOf(partition_id[t]) /\ Limit' = Limit
      BY DEF RangeOf, Limit, ByWindow
    <3>2. SeesBits(t)'
      BY <2>4 DEF SeesBits
    <3>3. QED
      BY <1>0, <2>1, <3>1, <3>2 DEF Place, Busy, RangeOf
  <2>8. ASSUME NEW x \in Threads, x # t PROVE Place(x)'
    <3>1. \A u \in Threads : pc'[u] # "idle" => pc[u] # "idle"
      BY <2>1, <2>2 DEF Busy
    <3>2. QED
      BY <2>1, <2>2, <2>8, <3>1, OthersStay
  <2>9. QED
    BY <2>3, <2>6, <2>7, <2>8
<1>4. CASE SkipWord(t)
  <2> USE <1>4 DEF SkipWord, argVars
  <2>1. Busy(t) /\ bitmap # NoBitmap /\ pc' = pc
    BY <1>0 DEF Busy, Place
  <2> DEFINE k == (i[t] \div WordBits + 1) * WordBits
  <2>2. /\ i' = [i EXCEPT ![t] = k] /\ k \in Nat /\ i[t] < k
        /\ \A u \in bitmap : i[t] <= u => k <= u
    BY <1>0, <2>1, WordBitsAreVertices
  <2> HIDE DEF k
  <2>3. ASSUME NEW x \in Threads, x # t
        PROVE  pc'[x] = pc[x] /\ i'[x] = i[x] /\ j'[x] = j[x] /\ word'[x] = word[x]
    BY <1>0, <2>1, <2>2, <2>3
  <2>4. Arguments' /\ Windows' /\ Called' /\ Counts'
    <3>1. \A v \in VertexIds : Holds(t, v) /\ v \in Wanted => (v < i[t] <=> v < i'[t])
      BY <1>0, <2>1, <2>2 DEF Wanted, VertexIds
    <3>2. pc'[t] # "idle"
      BY <2>1 DEF Busy
    <3>3. QED
      BY <2>1, <2>3, <3>1, <3>2, WalkKeeps
  <2>5. Types'
    BY <1>0, <2>1, <2>2 DEF Types, VertexIds
  <2>6. Place(t)'
    <3>1. Place(t) /\ RangeOf(partition_id[t])' = RangeOf(partition_id[t]) /\ Limit' = Limit
      BY DEF RangeOf, Limit, ByWindow
    <3>2. RangeOf(partition_id[t]).begin <= i'[t]
      BY <1>0, <2>1, <2>2, <3>1 DEF Place
    <3>3. QED
      BY <1>0, <2>1, <3>1, <3>2 DEF Place, Busy, RangeOf
  <2>7. ASSUME NEW x \in Threads, x # t PROVE Place(x)'
    BY <2>1, <2>3, <2>7, OthersStay
  <2>8. QED
    BY <2>4, <2>5, <2>6, <2>7
<1>5. CASE TestBit(t)
  <2> USE <1>5 DEF TestBit, argVars
  <2>1. /\ Busy(t) /\ bitmap # NoBitmap /\ i[t] < RangeOf(partition_id[t]).end /\ SeesBits(t)
        /\ bitmap \in SUBSET VertexIds
    BY <1>0 DEF Busy, Place, Arguments
  <2>2. ASSUME NEW x \in Threads, x # t
        PROVE  pc'[x] = pc[x] /\ i'[x] = i[x] /\ j'[x] = j[x] /\ word'[x] = word[x]
    BY <1>0, <2>2
  <2>3. /\ i' = [i EXCEPT ![t] = i[t] + 1] /\ i'[t] = i[t] + 1
        /\ j' = [j EXCEPT ![t] = j[t] + 1] /\ j'[t] = j[t] + 1
        /\ word' = [word EXCEPT ![t] = ShiftRight(word[t], 1)] /\ word'[t] = ShiftRight(word[t], 1)
        /\ pc'[t] = (IF i[t] + 1 = RangeOf(partition_id[t]).end THEN "next" ELSE "bit")
        /\ pc' \in [Threads -> {"idle", "each", "word", "bit", "next", "add"}]
    BY <1>0
  <2>4. j[t] < WordBits
    <3>1. PICK n \in word[t] : TRUE
      OBVIOUS
    <3>2. n \in Nat /\ n + j[t] < WordBits
      BY <1>0, <2>1, <3>1 DEF SeesBits
    <3>3. QED
      BY <1>0, <3>2
  <2>5. 0 \in word[t] <=> i[t] \in bitmap
    <3>1. 0 \in word[t] <=> 0 + j[t] < WordBits /\ i[t] + 0 \in bitmap
      BY <2>1 DEF SeesBits
    <3>2. QED
      BY <1>0, <2>4, <3>1
  <2>6. SeesBits(t)'
    <3> SUFFICES ASSUME NEW n \in Nat
                 PROVE  n \in word'[t] <=> n + j'[t] < WordBits /\ i'[t] + n \in bitmap
      BY DEF SeesBits
    <3>1. n \in word'[t] <=> n + 1 \in word[t]
      BY <1>0, <2>3 DEF ShiftRight
    <3>2. n + 1 \in word[t] <=> n + 1 + j[t] < WordBits /\ i[t] + (n + 1) \in bitmap
      BY <2>1 DEF SeesBits
    <3>3. n + j'[t] = n + 1 + j[t] /\ i'[t] + n = i[t] + (n + 1)
      BY <1>0, <2>3
    <3>4. QED
      BY <3>1, <3>2, <3>3
  <2>7. word' \in [Threads -> SUBSET (0 .. WordBits - 1)]
    <3>1. ShiftRight(word[t], 1) \subseteq 0 .. WordBits - 1
      BY <1>0 DEF ShiftRight
    <3>2. QED
      BY <1>0, <2>3, <3>1
  <2>8. /\ Arguments' /\ Windows' /\ Called' /\ Counts'
        /\ local_value' \in [Threads -> 0 .. vertices] /\ calls' \in [VertexIds -> Nat]
    <3>1. CASE 0 \in word[t]
      <4>1. i[t] \in Wanted
        BY <2>1, <2>5, <3>1 DEF Wanted
      <4>2. pc'[t] # "idle"
        BY <2>3
      <4>3. process(t, i[t])
        BY <3>1
      <4>4. QED
        BY <2>1, <2>2, <2>3, <4>1, <4>2, <4>3, ProcessCounts
    <3>2. CASE 0 \notin word[t]
      <4>1. UNCHANGED <<calls, local_value>>
        BY <3>2
      <4>2. \A v \in VertexIds : Holds(t, v) /\ v \in Wanted => (v < i[t] <=> v < i'[t])
        BY <1>0, <2>1, <2>3, <2>5, <3>2 DEF Wanted, VertexIds
      <4>3. pc'[t] # "idle"
        BY <2>3
      <4>4. QED
        BY <2>1, <2>2, <4>1, <4>2, <4>3, WalkKeeps DEF Types
    <3>3. QED
      BY <3>1, <3>2
  <2>9. Types'
    <3>1. VertexIds' = VertexIds
      BY DEF VertexIds
    <3>2. i' \in [Threads -> Nat] /\ j' \in [Threads -> 0 .. WordBits]
      BY <1>0, <2>3, <2>4
    <3>3. QED
      BY <1>0, <2>3, <2>7, <2>8, <3>1, <3>2 DEF Types
  <2>10. Place(t)'
    <3>1. Place(t) /\ RangeOf(partition_id[t])' = RangeOf(partition_id[t]) /\ Limit' = Limit
      BY DEF RangeOf, Limit, ByWindow
    <3>2. \A u \in Threads : Busy(u)' <=> Busy(u)
      BY <2>1, <2>2, <2>3 DEF Busy
    <3>3. /\ RangeOf(partition_id[t]).begin <= i'[t]
          /\ pc'[t] = "bit" => i'[t] < RangeOf(partition_id[t]).end
          /\ pc'[t] = "next" => i'[t] >= RangeOf(partition_id[t]).end
      <4> DEFINE b == RangeOf(partition_id[t]).begin
                 e == RangeOf(partition_id[t]).end
      <4>1. b \in Nat /\ e \in Nat /\ i[t] \in Nat /\ b <= i[t] /\ i[t] < e
        BY <1>0, <2>1 DEF Place
      <4>2. i'[t] = i[t] + 1 /\ pc'[t] = (IF i[t] + 1 = e THEN "next" ELSE "bit")
        BY <2>3
      <4> HIDE DEF b, e
      <4>3. b <= i'[t] /\ (pc'[t] = "bit" => i'[t] < e) /\ (pc'[t] = "next" => i'[t] >= e)
        BY <4>1, <4>2
      <4>4. QED
        BY <4>3 DEF b, e
    <3>4. QED
      BY <2>1, <2>3, <2>6, <3>1, <3>2, <3>3 DEF Place, RangeOf
  <2>11. ASSUME NEW x \in Threads, x # t PROVE Place(x)'
    <3>1. \A u \in Threads : pc'[u] # "idle" => pc[u] # "idle"
      BY <2>1, <2>2 DEF Busy
    <3>2. QED
      BY <2>1, <2>2, <2>11, <3>1, OthersStay
  <2>12. QED
    BY <2>8, <2>9, <2>10, <2>11
<1>6. CASE NextWord(t)
  <2> USE <1>6 DEF NextWord, argVars
  <2>1. Busy(t) /\ bitmap # NoBitmap /\ pc' = [pc EXCEPT ![t] = "word"]
    BY <1>0 DEF Busy, Place
  <2>2. ASSUME NEW x \in Threads, x # t
        PROVE  pc'[x] = pc[x] /\ i'[x] = i[x] /\ j'[x] = j[x] /\ word'[x] = word[x]
    BY <1>0, <2>1, <2>2
  <2>3. i' = [i EXCEPT ![t] = i[t] + (WordBits - j[t])] /\ i'[t] = i[t] + (WordBits - j[t])
    BY <1>0
  <2>4. \A v \in VertexIds : Holds(t, v) /\ v \in Wanted => (v < i[t] <=> v < i'[t])
    <3> SUFFICES ASSUME NEW v \in VertexIds, Holds(t, v), v \in bitmap
                 PROVE  v < i[t] <=> v < i'[t]
      BY <2>1 DEF Wanted
    <3>1. v \in Nat
      BY DEF VertexIds
    <3>2. CASE pc[t] = "next"
      <4>1. v < RangeOf(partition_id[t]).end
        BY <1>0, VertexFacts DEF Holds
      <4>2. i[t] >= RangeOf(partition_id[t]).end
        BY <3>2 DEF Place, Busy
      <4>3. QED
        BY <1>0, <2>3, <3>1, <4>1, <4>2
    <3>3. CASE pc[t] = "bit" /\ word[t] = {}
      <4>1. SeesBits(t)
        BY <3>3 DEF Place, Busy
      <4>2. ASSUME i[t] <= v, v < i'[t] PROVE FALSE
        <5>1. v - i[t] \in Nat /\ (v - i[t]) + j[t] < WordBits /\ i[t] + (v - i[t]) = v
          BY <1>0, <2>3, <3>1, <4>2
        <5>2. v - i[t] \in word[t]
          BY <4>1, <5>1 DEF SeesBits
        <5>3. QED
          BY <3>3, <5>2
      <4>3. QED
        BY <1>0, <2>3, <3>1, <4>2
    <3>4. QED
      BY <3>2, <3>3
  <2>5. Arguments' /\ Windows' /\ Called' /\ Counts'
    <3>1. pc'[t] # "idle"
      BY <1>0, <2>1
    <3>2. QED
      BY <2>1, <2>2, <2>4, <3>1, WalkKeeps
  <2>6. Types'
    BY <1>0, <2>1, <2>3 DEF Types, VertexIds
  <2>7. Place(t)'
    <3>1. Place(t) /\ RangeOf(partition_id[t])' = RangeOf(partition_id[t]) /\ Limit' = Limit
      BY DEF RangeOf, Limit, ByWindow
    <3>2. RangeOf(partition_id[t]).begin <= i'[t]
      BY <1>0, <2>1, <2>3, <3>1 DEF Place
    <3>3. QED
      BY <1>0, <2>1, <3>1, <3>2 DEF Place, Busy, RangeOf
  <2>8. ASSUME NEW x \in Threads, x # t PROVE Place(x)'
    <3>1. \A u \in Threads : pc'[u] # "idle" => pc[u] # "idle"
      BY <2>1, <2>2 DEF Busy
    <3>2. QED
      BY <2>1, <2>2, <2>8, <3>1, OthersStay
  <2>9. QED
    BY <2>5, <2>6, <2>7, <2>8
<1>7. CASE WalkEnds(t)
  <2> USE <1>7 DEF WalkEnds, argVars, walkVars
  <2>1. Busy(t) /\ pc' = [pc EXCEPT ![t] = "add"]
    BY <1>0 DEF Busy
  <2>2. ASSUME NEW x \in Threads, x # t PROVE pc'[x] = pc[x]
    BY <1>0, <2>1, <2>2
  <2>3. Arguments' /\ Windows' /\ Called' /\ Counts'
    BY <1>0, <2>1, <2>2, WalkKeeps
  <2>4. Types'
    BY <1>0, <2>1 DEF Types, VertexIds
  <2>5. Place(t)'
    <3>1. Place(t) /\ RangeOf(partition_id[t])' = RangeOf(partition_id[t]) /\ Limit' = Limit
      BY DEF RangeOf, Limit, ByWindow
    <3>2. QED
      BY <1>0, <2>1, <3>1 DEF Place, Busy, RangeOf
  <2>6. ASSUME NEW x \in Threads, x # t PROVE Place(x)'
    <3>1. \A u \in Threads : pc'[u] # "idle" => pc[u] # "idle"
      BY <2>1, <2>2 DEF Busy
    <3>2. QED
      BY <2>1, <2>2, <2>6, <3>1, OthersStay
  <2>7. QED
    BY <2>3, <2>4, <2>5, <2>6
<1>8. CASE AddValue(t)
  <2> USE <1>8 DEF AddValue, argVars, walkVars
  <2>1. Busy(t) /\ ~Busy(t)' /\ pc' = [pc EXCEPT ![t] = "idle"]
    BY <1>0 DEF Busy
  <2>2. ASSUME NEW x \in Threads, x # t PROVE pc'[x] = pc[x]
    BY <1>0, <2>1, <2>2
  <2>3. /\ Arguments' /\ VertexIds' = VertexIds /\ Wanted' = Wanted /\ Limit' = Limit
        /\ ByWindow' = ByWindow /\ \A v : Part(v)' = Part(v)
    BY DEF Arguments, VertexIds, Wanted, ByWindow, Limit, Part
  <2>4. /\ \A v : ~Holds(t, v)'
        /\ \A x \in Threads : x # t => \A v : Holds(x, v)' = Holds(x, v)
    BY <2>1, <2>2, <2>3 DEF Holds, Busy
  <2>5. Types'
    BY <1>0, <2>1, <2>3 DEF Types
  <2>6. Windows'
    BY <2>3 DEF Windows
  <2>7. ASSUME NEW x \in Threads PROVE Place(x)'
    <3>1. CASE x = t
      BY <2>1, <3>1 DEF Place
    <3>2. CASE x # t
      <4>1. \A u \in Threads : pc'[u] # "idle" => pc[u] # "idle"
        BY <2>1, <2>2 DEF Busy
      <4>2. QED
        BY <2>1, <2>2, <3>2, <4>1, OthersStay
    <3>3. QED
      BY <3>1, <3>2
  <2>8. \A v \in VertexIds : Holds(t, v) =>
            /\ calls[v] = IF v \in Wanted THEN 1 ELSE 0
            /\ ~Later(Part(v)) /\ \A x \in Threads : Holds(x, v) => x = t
    <3> SUFFICES ASSUME NEW v \in VertexIds, Holds(t, v)
                 PROVE  /\ calls[v] = IF v \in Wanted THEN 1 ELSE 0
                        /\ ~Later(Part(v)) /\ \A x \in Threads : Holds(x, v) => x = t
      OBVIOUS
    <3>1. v < i[t]
      <4>1. v < RangeOf(partition_id[t]).end /\ v \in Nat
        BY <1>0, VertexFacts DEF Holds, VertexIds
      <4>2. i[t] >= RangeOf(partition_id[t]).end
        BY DEF Place, Busy
      <4>3. QED
        BY <1>0, <4>1, <4>2
    <3>2. calls[v] = IF v \in Wanted /\ v < i[t] THEN 1 ELSE 0
      BY DEF Called, CalledIn
    <3>3. /\ partition_id[t] \notin todo /\ partition_id[t] < Limit /\ partition_id[t] = Part(v)
          /\ \A u \in Threads : Busy(u) /\ partition_id[u] = partition_id[t] => u = t
      BY DEF Place, Holds
    <3>4. Limit \in Int
      BY DEF Limit, Arguments, Types, Grid
    <3>5. QED
      BY <1>0, <3>1, <3>2, <3>3, <3>4 DEF Later, Holds
  <2>9. ASSUME NEW v \in VertexIds PROVE CalledIn(v)'
    <3>1. CalledIn(v)
      BY DEF Called
    <3>2. Later(Part(v))' <=> Later(Part(v))
      BY <2>3 DEF Later
    <3>3. CASE Holds(t, v)
      BY <2>3, <2>4, <2>8, <3>2, <3>3 DEF CalledIn
    <3>4. CASE ~Holds(t, v)
      <4>1. \A x \in Threads : Holds(x, v)' <=> Holds(x, v)
        BY <2>4, <3>4
      <4>2. \A x \in Threads : Holds(x, v)' => x # t
        BY <2>4
      <4>3. QED
        BY <2>3, <3>1, <3>2, <4>1, <4>2 DEF CalledIn
    <3>5. QED
      BY <3>3, <3>4
  <2>10. Called'
    BY <2>3, <2>9 DEF Called
  <2>11. Counts'
    <3>1. Added' = Added \union Counted(t) /\ Added \intersect Counted(t) = {}
      BY <2>3, <2>4, <2>8 DEF Added, Counted
    <3>2. \A x \in Threads : x # t => Counted(x)' = Counted(x)
      BY <2>3, <2>4 DEF Counted
    <3>3. Added \in SUBSET VertexIds /\ Counted(t) \in SUBSET VertexIds
      BY DEF Added, Counted
    <3>4. Cardinality(Added \union Counted(t)) = Cardinality(Added) + Cardinality(Counted(t))
      BY <3>1, <3>3, VertexSets
    <3>5. value' = Cardinality(Added')
      BY <2>1, <3>1, <3>4 DEF Counts
    <3>6. QED
      BY <2>1, <2>2, <3>2, <3>5 DEF Counts, Busy
  <2>12. QED
    BY <2>3, <2>5, <2>6, <2>7, <2>10, <2>11
<1>9. QED
  BY <1>1, <1>2, <1>3, <1>4, <1>5, <1>6, <1>7, <1>8 DEF ThreadStep

LEMMA PassImplies == IInv => Inv
<1> SUFFICES ASSUME IInv PROVE Inv
  OBVIOUS
<1> USE DEF IInv
<1>0. vertices \in Nat /\ partitions \in Nat /\ \A v \in VertexIds : Part(v) \in 0 .. partitions - 1
  BY VertexFacts
<1>1. TypeOK
  <2>1. value \in 0 .. vertices
    BY VertexSets DEF Added, Counts
  <2>2. QED
    BY <2>1 DEF TypeOK, Types
<1>2. \A v \in VertexIds : calls[v] <= IF v \in Wanted THEN 1 ELSE 0
  <2> SUFFICES ASSUME NEW v \in VertexIds PROVE calls[v] <= IF v \in Wanted THEN 1 ELSE 0
    OBVIOUS
  <2>1. CalledIn(v)
    BY DEF Called
  <2>2. QED
    BY <2>1 DEF CalledIn
<1>3. ASSUME mainPc = "returned"
      PROVE  (\A v \in Wanted : calls[v] = 1) /\ value = Cardinality(Wanted)
  <2>1. \A t \in Threads : ~Busy(t)
    BY <1>3 DEF Place
  <2>2. \A p \in 0 .. partitions - 1 : ~Later(p)
    BY <1>0, <1>3 DEF Windows, Later, Limit, Types
  <2>3. \A v \in VertexIds : calls[v] = IF v \in Wanted THEN 1 ELSE 0
    BY <1>0, <2>1, <2>2 DEF Called, CalledIn, Holds
  <2>4. Wanted \subseteq VertexIds
    BY DEF Wanted, Arguments
  <2>5. Added = Wanted
    BY <2>1, <2>3, <2>4 DEF Added, Holds
  <2>6. QED
    BY <2>3, <2>4, <2>5 DEF Counts
<1>4. QED
  BY <1>1, <1>2, <1>3 DEF Inv, NeverTwice, AllProcessed

LEMMA PassNext == IInv /\ [Next]_vars => IInv'
<1> SUFFICES ASSUME IInv, [Next]_vars PROVE IInv'
  OBVIOUS
<1>1. CASE MainStep
  BY <1>1, PassMain
<1>2. CASE \E t \in Threads : ThreadStep(t)
  BY <1>2, PassThread
<1>3. CASE UNCHANGED vars
  <2> USE <1>3 DEF vars, argVars, walkVars, IInv
  <2>1. /\ Limit' = Limit /\ VertexIds' = VertexIds /\ Wanted' = Wanted /\ ByWindow' = ByWindow
        /\ \A v : Part(v)' = Part(v)
        /\ \A t, v : Holds(t, v)' = Holds(t, v)
    BY DEF Limit, VertexIds, Wanted, ByWindow, Part, Holds, Busy
  <2>2. Arguments' /\ Types' /\ Windows'
    BY <2>1 DEF Arguments, Types, Windows
  <2>3. \A t \in Threads : Place(t)'
    BY <2>1 DEF Place, Busy, SeesBits, RangeOf
  <2>4. Called'
    <3>1. \A v \in VertexIds : CalledIn(v)'
      BY <2>1 DEF Called, CalledIn, Later
    <3>2. QED
      BY <2>1, <3>1 DEF Called
  <2>5. Counts'
    <3>1. Added' = Added /\ \A t : Counted(t)' = Counted(t)
      BY <2>1 DEF Added, Counted
    <3>2. QED
      BY <3>1 DEF Counts, Busy
  <2>6. QED
    BY <2>2, <2>3, <2>4, <2>5
<1>4. QED
  BY <1>1, <1>2, <1>3 DEF Next, Finished

-----------------------------------------------------------------------------
(* stream_vertices: process runs at most once per vertex and only where it *)
(* is wanted, for all wanted vertices before the call returns, and the     *)
(* value counts the calls.                                                 *)
THEOREM PassIsComplete == Spec => []Inv
<1>1. Init => IInv
  BY PassInit
<1>2. IInv /\ [Next]_vars => IInv'
  BY PassNext
<1>3. IInv => Inv
  BY PassImplies
<1>4. QED
  BY <1>1, <1>2, <1>3, PTL DEF Spec

-----------------------------------------------------------------------------
(* The vector in a file.                                                   *)
IsSeq(s) == Len(s) \in Nat /\ s = [k \in 1 .. Len(s) |-> s[k]]

LEMMA FunctionIsSeq ==
    ASSUME NEW n \in Nat, NEW f, f = [k \in 1 .. n |-> f[k]]
    PROVE  IsSeq(f) /\ Len(f) = n
<1>1. f \in [1 .. n -> {f[k] : k \in 1 .. n}]
  OBVIOUS
<1> DEFINE S == {f[k] : k \in 1 .. n}
<1> HIDE DEF S
<1>2. f \in Seq(S)
  BY <1>1 DEF S
<1>3. Len(f) \in Nat /\ DOMAIN f = 1 .. Len(f)
  BY <1>2
<1>4. DOMAIN f = 1 .. n
  BY <1>1
<1>5. Len(f) = n
  BY <1>3, <1>4
<1>6. QED
  BY <1>5 DEF IsSeq

LEMMA Joined ==
    ASSUME NEW f, IsSeq(f), NEW g, IsSeq(g)
    PROVE  /\ IsSeq(f \o g) /\ Len(f \o g) = Len(f) + Len(g)
           /\ \A k \in 1 .. Len(f) : (f \o g)[k] = f[k]
<1> DEFINE S == {f[k] : k \in 1 .. Len(f)} \union {g[k] : k \in 1 .. Len(g)}
<1>1. f \in [1 .. Len(f) -> S] /\ g \in [1 .. Len(g) -> S]
  BY DEF IsSeq
<1> HIDE DEF S
<1>2. Len(f) \in Nat /\ Len(g) \in Nat
  BY DEF IsSeq
<1>3. f \in Seq(S) /\ g \in Seq(S)
  BY <1>1, <1>2
<1>4. f \o g \in Seq(S) /\ Len(f \o g) = Len(f) + Len(g)
      /\ \A k \in 1 .. Len(f) : (f \o g)[k] = f[k]
  BY <1>3
<1>5. IsSeq(f \o g)
  <2>1. \A h \in Seq(S) : Len(h) \in Nat /\ DOMAIN h = 1 .. Len(h) /\ h \in [1 .. Len(h) -> S]
    OBVIOUS
  <2>2. \A h \in Seq(S) : Len(h) \in Nat /\ h = [k \in 1 .. Len(h) |-> h[k]]
    BY <2>1
  <2>3. QED
    BY <1>4, <2>2 DEF IsSeq
<1>6. QED
  BY <1>4, <1>5

LEMMA Pages ==
    ASSUME NEW n \in Nat
    PROVE  /\ PageOf(n) \in Nat /\ PageOf(n) <= n /\ n < PageOf(n) + PageEntries
           /\ WholePages(n) \in Nat /\ n <= WholePages(n) /\ WholePages(n) < n + PageEntries
<1>1. PageEntries \in Nat \ {0}
  BY PageAssumption
<1>2. \A m \in Nat : PageOf(m) \in Nat /\ PageOf(m) <= m /\ m < PageOf(m) + PageEntries
  BY <1>1, Division, ProductOfQuotient DEF PageOf
<1>3. n + PageEntries - 1 \in Nat
  BY <1>1
<1>4. QED
  BY <1>1, <1>2, <1>3 DEF WholePages

InOpenWindow(v) == begin_vid <= v /\ v < end_vid

(* The window's copy has the updates of the window's entries; the pages it *)
(* shares with other windows are as in the file, which has all the others. *)
VectorInv ==
    /\ IsSeq(file) /\ vertices <= Len(file)
    /\ in_memory = (ByWindow /\ mainPc = "loop")
    /\ in_memory =>
          /\ begin_i = PageOf(begin_vid) /\ end_i = end_vid
          /\ IsSeq(data_in_memory) /\ WholePages(end_i - begin_i) <= Len(data_in_memory)
          /\ \A v \in VertexIds : InOpenWindow(v) => data_in_memory[v - begin_i + 1] = <<v, calls[v]>>
          /\ \A v \in VertexIds :
                begin_i <= v /\ v < begin_i + WholePages(end_i - begin_i) /\ ~InOpenWindow(v) =>
                    data_in_memory[v - begin_i + 1] = file[v + 1]
    /\ \A v \in VertexIds : ~(in_memory /\ InOpenWindow(v)) => file[v + 1] = <<v, calls[v]>>

LEMMA VectorFirst == VectorInit => IInv /\ VectorInv
<1> SUFFICES ASSUME VectorInit PROVE IInv /\ VectorInv
  OBVIOUS
<1>1. Init /\ IInv
  BY PassInit DEF VectorInit
<1>2. vertices \in Nat
  BY <1>1, VertexFacts DEF IInv
<1>3. PICK n \in {vertices, WholePages(vertices)} : Opened(Entries(n))
  BY DEF VectorInit
<1>4. n \in Nat /\ vertices <= n
  BY <1>2, <1>3, Pages
<1>5. file = Entries(n) /\ in_memory = FALSE
  BY <1>3 DEF Opened
<1>6. IsSeq(file) /\ Len(file) = n
  <2>1. file = [k \in 1 .. n |-> file[k]]
    BY <1>5 DEF Entries
  <2>2. QED
    BY <1>4, <2>1, FunctionIsSeq
<1>7. \A v \in VertexIds : file[v + 1] = <<v, calls[v]>>
  <2> SUFFICES ASSUME NEW v \in VertexIds PROVE file[v + 1] = <<v, calls[v]>>
    OBVIOUS
  <2>1. v + 1 \in 1 .. n /\ v + 1 <= vertices /\ (v + 1) - 1 = v
    BY <1>2, <1>4 DEF VertexIds
  <2>2. calls[v] = 0
    BY <1>1 DEF Init
  <2>3. file[v + 1] = <<(v + 1) - 1, 0>>
    <3>1. \A k \in 1 .. n : k <= vertices => file[k] = <<k - 1, 0>>
      BY <1>5 DEF Entries
    <3>2. QED
      BY <2>1, <3>1
  <2>4. QED
    BY <2>1, <2>2, <2>3
<1>8. mainPc # "loop"
  BY <1>1 DEF Init
<1>9. QED
  BY <1>1, <1>4, <1>5, <1>6, <1>7, <1>8 DEF VectorInv

(* The window of pre and post, and that no thread works outside it.        *)
LEMMA WindowFacts ==
    ASSUME IInv, cur_partition < partitions
    PROVE  /\ begin_vid \in Nat /\ end_vid \in Nat /\ begin_vid <= end_vid /\ end_vid <= vertices
           /\ \A p \in 0 .. partitions - 1 :
                 cur_partition <= p /\ p < cur_partition + partition_batch =>
                     begin_vid <= RangeOf(p).begin /\ RangeOf(p).end <= end_vid
<1> USE DEF IInv
<1>1. /\ Grid(vertices, partitions) /\ partitions \in Nat \ {0} /\ vertices \in Nat
      /\ cur_partition \in Nat /\ partition_batch \in Nat
  BY VertexFacts DEF Arguments, Types
<1> DEFINE last == IF cur_partition + partition_batch >= partitions THEN partitions
                   ELSE cur_partition + partition_batch
           At(n) == RangeAt(vertices, partitions, n)
<1>2. last \in 0 .. partitions /\ cur_partition \in 0 .. partitions /\ cur_partition <= last
  BY <1>1
<1>3. \A x, y \in 0 .. partitions : x <= y => At(x) \in Nat /\ At(x) <= At(y)
  BY <1>1, RangesGrow
<1>4. At(partitions) = vertices
  BY <1>1, RangesCover
<1>5. begin_vid = At(cur_partition)
  BY DEF begin_vid, RangeOf, get_partition_range
<1>6. end_vid = At(last)
  <2>1. \A n : RangeOf(n).begin = At(n)
    BY DEF RangeOf, get_partition_range
  <2>2. QED
    BY <1>1, <1>4, <2>1 DEF end_vid
<1>7. ASSUME NEW p \in 0 .. partitions - 1, cur_partition <= p, p < cur_partition + partition_batch
      PROVE  begin_vid <= RangeOf(p).begin /\ RangeOf(p).end <= end_vid
  <2>1. RangeOf(p).begin = At(p) /\ RangeOf(p).end = At(p + 1)
    BY <1>1, RangeEnds DEF RangeOf
  <2>2. p \in 0 .. partitions /\ p + 1 \in 0 .. partitions /\ p + 1 <= last
    BY <1>1, <1>7
  <2> HIDE DEF last, At
  <2>3. QED
    BY <1>2, <1>3, <1>5, <1>6, <1>7, <2>1, <2>2
<1> HIDE DEF last, At
<1>8. last <= partitions /\ partitions \in 0 .. partitions
  BY <1>1, <1>2
<1>9. QED
  BY <1>2, <1>3, <1>4, <1>5, <1>6, <1>7, <1>8

LEMMA HeldIsInWindow ==
    ASSUME IInv, ByWindow, NEW t \in Threads, NEW v \in VertexIds, Holds(t, v)
    PROVE  InOpenWindow(v)
<1> USE DEF IInv
<1>1. /\ partition_id[t] \in 0 .. partitions - 1 /\ partition_id[t] = Part(v)
      /\ cur_partition <= partition_id[t] /\ partition_id[t] < cur_partition + partition_batch
      /\ cur_partition \in Nat /\ partitions \in Nat
  BY VertexFacts DEF Place, Holds, Limit, Types
<1>2. RangeOf(partition_id[t]).begin <= v /\ v < RangeOf(partition_id[t]).end
  BY <1>1, VertexFacts
<1>3. cur_partition < partitions
  BY <1>1
<1>4. /\ begin_vid <= RangeOf(partition_id[t]).begin /\ RangeOf(partition_id[t]).end <= end_vid
      /\ begin_vid \in Nat /\ end_vid \in Nat
  BY <1>1, <1>3, WindowFacts
<1>5. RangeOf(partition_id[t]).begin \in Nat /\ RangeOf(partition_id[t]).end \in Nat /\ v \in Nat
  BY <1>1, VertexFacts DEF VertexIds
<1>6. QED
  BY <1>2, <1>4, <1>5 DEF InOpenWindow

(* What load brings into memory, and what save leaves in the file.         *)
LEMMA LoadEffect ==
    ASSUME NEW begin \in Nat, NEW end \in Nat, begin <= end, IsSeq(file), load(begin, end)
    PROVE  /\ in_memory' = TRUE /\ begin_i' = PageOf(begin) /\ end_i' = end /\ file' = file
           /\ PageOf(begin) \in Nat /\ PageOf(begin) <= begin
           /\ IsSeq(data_in_memory')
           /\ WholePages(end - PageOf(begin)) <= Len(data_in_memory')
           /\ \A k \in 1 .. WholePages(end - PageOf(begin)) :
                 PageOf(begin) + k <= Len(file) => data_in_memory'[k] = file[PageOf(begin) + k]
<1> DEFINE page == PageOf(begin)
           n == WholePages(end - page)
           entries == Read(page, n)
           rest == [k \in 1 .. (end - page + PageEntries) - Len(entries) |-> Zero]
<1>1. page \in Nat /\ page <= begin /\ PageEntries \in Nat \ {0}
  BY Pages, PageAssumption
<1>2. end - page \in Nat
  BY <1>1
<1>3. n \in Nat /\ n < (end - page) + PageEntries
  BY <1>2, Pages
<1>4. /\ in_memory' = TRUE /\ begin_i' = page /\ end_i' = end /\ file' = file
      /\ data_in_memory' = entries \o rest
  BY DEF load
<1> HIDE DEF n, page
<1>5. IsSeq(entries) /\ Len(entries) = n
  <2>1. entries = [k \in 1 .. n |-> entries[k]]
    BY DEF Read
  <2> HIDE DEF entries
  <2>2. QED
    BY <1>3, <2>1, FunctionIsSeq
<1>6. \A k \in 1 .. n : page + k <= Len(file) => entries[k] = file[page + k]
  BY DEF Read
<1> HIDE DEF entries
<1>7. IsSeq(rest)
  <2>1. (end - page + PageEntries) - Len(entries) \in Nat
    BY <1>1, <1>2, <1>3, <1>5
  <2>2. rest = [k \in 1 .. (end - page + PageEntries) - Len(entries) |-> rest[k]]
    OBVIOUS
  <2> HIDE DEF rest
  <2>3. QED
    BY <2>1, <2>2, FunctionIsSeq
<1> HIDE DEF rest
<1>8. /\ IsSeq(entries \o rest) /\ Len(entries \o rest) = Len(entries) + Len(rest)
      /\ \A k \in 1 .. Len(entries) : (entries \o rest)[k] = entries[k]
  BY <1>5, <1>7, Joined
<1>9. Len(rest) \in Nat /\ Len(entries) + Len(rest) >= n
  BY <1>3, <1>5, <1>7 DEF IsSeq
<1>10. IsSeq(data_in_memory') /\ n <= Len(data_in_memory')
  BY <1>4, <1>5, <1>8, <1>9
<1>11. ASSUME NEW k \in 1 .. n, page + k <= Len(file) PROVE data_in_memory'[k] = file[page + k]
  <2>1. data_in_memory'[k] = entries[k]
    BY <1>4, <1>5, <1>8
  <2>2. QED
    BY <1>6, <1>11, <2>1
<1>12. QED
  BY <1>1, <1>4, <1>10, <1>11 DEF n, page

LEMMA SaveEffect ==
    ASSUME IsSeq(file), begin_i \in Nat, end_i \in Nat, begin_i <= end_i, save
    PROVE  /\ in_memory' = FALSE /\ IsSeq(file') /\ Len(file) <= Len(file')
           /\ \A k \in 1 .. Len(file) :
                 file'[k] = IF begin_i < k /\ k <= begin_i + WholePages(end_i - begin_i)
                            THEN data_in_memory[k - begin_i] ELSE file[k]
<1> DEFINE n == WholePages(end_i - begin_i)
           size == IF begin_i + n > Len(file) /\ n > 0 THEN begin_i + n ELSE Len(file)
           new == [k \in 1 .. size |-> IF begin_i < k /\ k <= begin_i + n
                                       THEN data_in_memory[k - begin_i] ELSE file[k]]
<1>1. in_memory' = FALSE /\ file' = new
  BY DEF save
<1>2. n \in Nat
  <2>1. end_i - begin_i \in Nat
    OBVIOUS
  <2>2. QED
    BY <2>1, Pages
<1> HIDE DEF n
<1>3. Len(file) \in Nat
  BY DEF IsSeq
<1>4. size \in Nat /\ Len(file) <= size
  BY <1>2, <1>3
<1>5. \A k \in 1 .. Len(file) : new[k] = IF begin_i < k /\ k <= begin_i + n
                                         THEN data_in_memory[k - begin_i] ELSE file[k]
  <2> HIDE DEF size
  <2>1. \A k \in 1 .. Len(file) : k \in 1 .. size
    BY <1>3, <1>4
  <2>2. QED
    BY <2>1
<1>6. IsSeq(new) /\ Len(new) = size
  <2>1. new = [k \in 1 .. size |-> new[k]]
    OBVIOUS
  <2> HIDE DEF new, size
  <2>2. QED
    BY <1>4, <2>1, FunctionIsSeq
<1> HIDE DEF new, size
<1>7. QED
  BY <1>1, <1>4, <1>5, <1>6 DEF n

LEMMA VectorOpen ==
    ASSUME IInv, VectorInv, OpenAndLoad
    PROVE  VectorInv'
<1> USE DEF VectorInv
<1>1. /\ vertices' = vertices /\ calls' = calls /\ VertexIds' = VertexIds /\ ByWindow' = ByWindow
      /\ begin_vid' = begin_vid /\ end_vid' = end_vid
      /\ mainPc = "window" /\ mainPc' = "loop" /\ cur_partition < partitions
  BY DEF OpenAndLoad, OpenWindow, argVars, VertexIds, ByWindow, begin_vid, end_vid, RangeOf
<1>2. \A v : InOpenWindow(v)' <=> InOpenWindow(v)
  BY <1>1 DEF InOpenWindow
<1>3. in_memory = FALSE
  BY <1>1
<1>4. CASE ~ByWindow
  <2>1. UNCHANGED vectorVars
    BY <1>4 DEF OpenAndLoad
  <2>2. file' = file /\ in_memory' = in_memory
    BY <2>1 DEF vectorVars
  <2>3. IsSeq(file')
    BY <2>2
  <2>4. QED
    BY <1>1, <1>3, <1>4, <2>2, <2>3
<1>5. CASE ByWindow
  <2> DEFINE page == PageOf(begin_vid)
             n == WholePages(end_vid - page)
  <2>1. begin_vid \in Nat /\ end_vid \in Nat /\ begin_vid <= end_vid /\ end_vid <= vertices
    BY <1>1, WindowFacts
  <2>2. load(begin_vid, end_vid)
    BY <1>5 DEF OpenAndLoad
  <2>3. /\ in_memory' = TRUE /\ begin_i' = page /\ end_i' = end_vid /\ file' = file
        /\ page \in Nat /\ page <= begin_vid
        /\ IsSeq(data_in_memory') /\ n <= Len(data_in_memory')
        /\ \A k \in 1 .. n : page + k <= Len(file) => data_in_memory'[k] = file[page + k]
    BY <2>1, <2>2, LoadEffect
  <2>4. end_vid - page \in Nat /\ n \in Nat /\ end_vid - page <= n
    <3>1. end_vid - page \in Nat
      BY <2>1, <2>3
    <3>2. QED
      BY <3>1, Pages
  <2> HIDE DEF page, n
  <2>5. /\ IsSeq(file') /\ vertices' <= Len(file') /\ in_memory' = (ByWindow' /\ mainPc' = "loop")
    BY <1>1, <1>5, <2>3
  <2>6. n = WholePages(end_i' - begin_i') /\ begin_i' = PageOf(begin_vid') /\ end_i' = end_vid'
    BY <1>1, <2>3 DEF n, page
  <2>7. vertices \in Nat /\ Len(file) \in Nat
    BY VertexFacts DEF IInv, IsSeq
  <2>8. ASSUME NEW v \in VertexIds, begin_i' <= v, v < begin_i' + n
        PROVE  data_in_memory'[v - begin_i' + 1] = file'[v + 1]
    <3>1. (v - page) + 1 \in 1 .. n /\ page + ((v - page) + 1) = v + 1 /\ v + 1 <= Len(file)
      BY <2>3, <2>4, <2>7, <2>8 DEF VertexIds
    <3>2. QED
      BY <2>3, <3>1
  <2>9. ASSUME NEW v \in VertexIds, InOpenWindow(v)
        PROVE  begin_i' <= v /\ v < begin_i' + n
    BY <2>1, <2>3, <2>4, <2>7, <2>9 DEF VertexIds, InOpenWindow
  <2>10. \A v \in VertexIds : file'[v + 1] = <<v, calls'[v]>>
    BY <1>1, <1>3, <2>3
  <2>11. \A v \in VertexIds : InOpenWindow(v) => data_in_memory'[v - begin_i' + 1] = <<v, calls'[v]>>
    BY <2>8, <2>9, <2>10
  <2>12. QED
    BY <1>1, <1>2, <2>3, <2>5, <2>6, <2>8, <2>10, <2>11
<1>6. QED
  BY <1>4, <1>5

LEMMA VectorClose ==
    ASSUME IInv, VectorInv, CloseAndSave
    PROVE  VectorInv'
<1> USE DEF VectorInv
<1>1. /\ vertices' = vertices /\ calls' = calls /\ VertexIds' = VertexIds /\ ByWindow' = ByWindow
      /\ mainPc = "loop" /\ mainPc' = "window"
  BY DEF CloseAndSave, CloseWindow, argVars, VertexIds, ByWindow
<1>2. CASE ~ByWindow
  <2>1. UNCHANGED vectorVars
    BY <1>2 DEF CloseAndSave
  <2>2. file' = file /\ in_memory' = in_memory /\ in_memory = FALSE
    BY <1>2, <2>1 DEF vectorVars
  <2>3. IsSeq(file')
    BY <2>2
  <2>4. QED
    BY <1>1, <1>2, <2>2, <2>3
<1>3. CASE ByWindow
  <2> DEFINE n == WholePages(end_i - begin_i)
  <2>1. in_memory /\ save
    BY <1>1, <1>3 DEF CloseAndSave
  <2>2. cur_partition < partitions
    BY <1>1 DEF IInv, Windows
  <2>3. begin_vid \in Nat /\ end_vid \in Nat /\ begin_vid <= end_vid /\ end_vid <= vertices
    BY <2>2, WindowFacts
  <2>4. begin_i \in Nat /\ end_i = end_vid /\ begin_i <= begin_vid
    BY <2>1, <2>3, Pages
  <2>5. n \in Nat /\ end_i - begin_i <= n
    <3>1. end_i - begin_i \in Nat
      BY <2>3, <2>4
    <3>2. QED
      BY <3>1, Pages
  <2>6. /\ in_memory' = FALSE /\ IsSeq(file') /\ Len(file) <= Len(file')
        /\ \A k \in 1 .. Len(file) :
              file'[k] = IF begin_i < k /\ k <= begin_i + n THEN data_in_memory[k - begin_i]
                         ELSE file[k]
    <3>1. IsSeq(file) /\ begin_i \in Nat /\ end_i \in Nat /\ begin_i <= end_i
      BY <2>3, <2>4
    <3>2. QED
      BY <2>1, <3>1, SaveEffect
  <2>7. vertices \in Nat /\ Len(file) \in Nat /\ Len(file') \in Nat
    BY <2>6, VertexFacts DEF IInv, IsSeq
  <2>8. /\ \A v \in VertexIds : InOpenWindow(v) => data_in_memory[v - begin_i + 1] = <<v, calls[v]>>
        /\ \A v \in VertexIds : begin_i <= v /\ v < begin_i + n /\ ~InOpenWindow(v) =>
              data_in_memory[v - begin_i + 1] = file[v + 1]
        /\ \A v \in VertexIds : ~InOpenWindow(v) => file[v + 1] = <<v, calls[v]>>
    BY <2>1
  <2> HIDE DEF n
  <2>9. ASSUME NEW v \in VertexIds PROVE file'[v + 1] = <<v, calls[v]>>
    <3>1. v + 1 \in 1 .. Len(file) /\ (v + 1) - begin_i = (v - begin_i) + 1
      BY <2>4, <2>7 DEF VertexIds
    <3>2. CASE begin_i <= v /\ v < begin_i + n
      <4>1. begin_i < v + 1 /\ v + 1 <= begin_i + n
        BY <2>4, <2>5, <3>2 DEF VertexIds
      <4>2. file'[v + 1] = data_in_memory[(v - begin_i) + 1]
        BY <2>6, <3>1, <4>1
      <4>3. QED
        BY <2>8, <3>2, <4>2
    <3>3. CASE ~(begin_i <= v /\ v < begin_i + n)
      <4>1. ~(begin_i < v + 1 /\ v + 1 <= begin_i + n)
        BY <2>4, <2>5, <3>3 DEF VertexIds
      <4>2. ~InOpenWindow(v)
        BY <2>3, <2>4, <2>5, <3>3 DEF InOpenWindow, VertexIds
      <4>3. file'[v + 1] = file[v + 1]
        BY <2>6, <3>1, <4>1
      <4>4. QED
        BY <2>8, <4>2, <4>3
    <3>4. QED
      BY <3>2, <3>3
  <2>10. vertices' <= Len(file')
    BY <1>1, <2>6, <2>7
  <2>11. QED
    BY <1>1, <2>6, <2>9, <2>10
<1>4. QED
  BY <1>2, <1>3

LEMMA ProcessedVertex ==
    ASSUME IInv, NEW t \in Threads, EachVertex(t) \/ TestBit(t), calls' # calls
    PROVE  /\ i[t] \in VertexIds /\ Holds(t, i[t])
           /\ calls' = [calls EXCEPT ![i[t]] = @ + 1]
<1> USE DEF IInv
<1>0. /\ vertices \in Nat /\ i[t] \in Nat /\ partition_id[t] \in 0 .. partitions - 1
      /\ RangeOf(partition_id[t]).begin \in Nat /\ RangeOf(partition_id[t]).end \in Nat
      /\ RangeOf(partition_id[t]).end <= vertices
      /\ \A v \in VertexIds : RangeOf(partition_id[t]).begin <= v /\ v < RangeOf(partition_id[t]).end
                                <=> partition_id[t] = Part(v)
  BY VertexFacts DEF Types
<1>1. CASE EachVertex(t)
  <2>1. /\ pc[t] = "each" /\ i[t] < RangeOf(partition_id[t]).end
        /\ calls' = [calls EXCEPT ![i[t]] = @ + 1]
    BY <1>1 DEF EachVertex, process
  <2>2. Busy(t) /\ RangeOf(partition_id[t]).begin <= i[t]
    BY <2>1 DEF Place, Busy
  <2>3. i[t] \in VertexIds
    BY <1>0, <2>1 DEF VertexIds
  <2>4. QED
    BY <1>0, <2>1, <2>2, <2>3 DEF Holds
<1>2. CASE TestBit(t)
  <2>1. pc[t] = "bit" /\ 0 \in word[t] /\ calls' = [calls EXCEPT ![i[t]] = @ + 1]
    BY <1>2 DEF TestBit, process
  <2>2. /\ Busy(t) /\ RangeOf(partition_id[t]).begin <= i[t]
        /\ i[t] < RangeOf(partition_id[t]).end
    BY <2>1 DEF Place, Busy
  <2>3. i[t] \in VertexIds
    BY <1>0, <2>2 DEF VertexIds
  <2>4. QED
    BY <1>0, <2>1, <2>2, <2>3 DEF Holds
<1>3. QED
  BY <1>1, <1>2

\* What no thread's step changes.
LEMMA ThreadKeeps ==
    ASSUME NEW t \in Threads, ThreadStep(t)
    PROVE  /\ vertices' = vertices /\ VertexIds' = VertexIds /\ ByWindow' = ByWindow
           /\ mainPc' = mainPc /\ begin_vid' = begin_vid /\ end_vid' = end_vid
           /\ \A v : InOpenWindow(v)' <=> InOpenWindow(v)
<1>1. UNCHANGED <<vertices, partitions, partition_batch, bitmap, windowed, cur_partition, mainPc>>
  BY DEF ThreadStep, TakePartition, EachVertex, LoadWord, SkipWord, TestBit, NextWord, WalkEnds,
         AddValue, argVars
<1>2. /\ vertices' = vertices /\ VertexIds' = VertexIds /\ ByWindow' = ByWindow
      /\ mainPc' = mainPc /\ begin_vid' = begin_vid /\ end_vid' = end_vid
  BY <1>1 DEF VertexIds, ByWindow, begin_vid, end_vid, RangeOf
<1>3. QED
  BY <1>2 DEF InOpenWindow

LEMMA VectorStays ==
    ASSUME VectorInv, UNCHANGED vectorVars, calls' = calls,
           /\ vertices' = vertices /\ VertexIds' = VertexIds /\ ByWindow' = ByWindow
           /\ mainPc' = mainPc /\ begin_vid' = begin_vid /\ end_vid' = end_vid
           /\ \A v : InOpenWindow(v)' <=> InOpenWindow(v)
    PROVE  VectorInv'
<1>1. /\ file' = file /\ in_memory' = in_memory /\ begin_i' = begin_i /\ end_i' = end_i
      /\ data_in_memory' = data_in_memory
  BY DEF vectorVars
<1>2. IsSeq(file') /\ (IsSeq(data_in_memory') <=> IsSeq(data_in_memory))
  BY <1>1 DEF VectorInv
<1>3. QED
  BY <1>1, <1>2 DEF VectorInv

LEMMA VectorProcess ==
    ASSUME IInv, VectorInv, NEW t \in Threads, ProcessAndUpdate(t)
    PROVE  VectorInv'
<1>1. /\ vertices' = vertices /\ VertexIds' = VertexIds /\ ByWindow' = ByWindow
      /\ mainPc' = mainPc /\ begin_vid' = begin_vid /\ end_vid' = end_vid
      /\ \A v : InOpenWindow(v)' <=> InOpenWindow(v)
  BY ThreadKeeps DEF ProcessAndUpdate, ThreadStep
<1>2. CASE calls' = calls
  BY <1>1, <1>2, VectorStays DEF ProcessAndUpdate
<1>3. CASE calls' # calls
  <2> DEFINE x == i[t]
             new == <<x, calls[x] + 1>>
  <2> USE DEF VectorInv
  <2>1. x \in VertexIds /\ Holds(t, x) /\ calls' = [calls EXCEPT ![x] = @ + 1]
    BY <1>3, ProcessedVertex DEF ProcessAndUpdate
  <2>2. vertices \in Nat /\ calls \in [VertexIds -> Nat] /\ Len(file) \in Nat
    BY VertexFacts DEF IInv, Types, IsSeq
  <2>3. calls'[x] = calls[x] + 1 /\ \A v \in VertexIds : v # x => calls'[v] = calls[v]
    BY <2>1, <2>2
  <2>4. assign(x, <<at(x)[1], at(x)[2] + 1>>)
    BY <1>3 DEF ProcessAndUpdate
  <2>5. /\ in_memory' = in_memory /\ begin_i' = begin_i /\ end_i' = end_i
    BY <2>4 DEF assign
  <2>6. CASE in_memory
    <3> DEFINE spot == x - begin_i + 1
               n == WholePages(end_i - begin_i)
    <3>1. InOpenWindow(x)
      BY <2>1, <2>6, HeldIsInWindow
    <3>2. at(x) = <<x, calls[x]>>
      BY <2>1, <2>6, <3>1 DEF at
    <3>3. data_in_memory' = [data_in_memory EXCEPT ![spot] = new] /\ file' = file
      BY <2>4, <2>6, <3>2 DEF assign
    <3>4. /\ begin_i <= x /\ x <= end_i /\ begin_i = PageOf(begin_vid) /\ end_i = end_vid
          /\ IsSeq(data_in_memory) /\ n <= Len(data_in_memory)
      BY <2>4, <2>6 DEF assign, InWindow
    <3>5. begin_vid \in Nat /\ end_vid \in Nat /\ begin_vid <= end_vid
      <4>1. cur_partition < partitions
        BY <2>6 DEF IInv, Windows
      <4>2. QED
        BY <4>1, WindowFacts
    <3>6. begin_i \in Nat /\ begin_i <= begin_vid
      BY <3>4, <3>5, Pages
    <3>7. n \in Nat /\ end_i - begin_i <= n
      <4>1. end_i - begin_i \in Nat
        BY <3>4, <3>5, <3>6
      <4>2. QED
        BY <4>1, Pages
    <3>8. spot \in 1 .. Len(data_in_memory)
      <4>1. Len(data_in_memory) \in Nat /\ x \in Nat
        BY <2>1, <3>4 DEF IsSeq, VertexIds
      <4> HIDE DEF n
      <4>2. x < end_i
        BY <3>1, <3>4 DEF InOpenWindow
      <4>3. QED
        BY <3>4, <3>5, <3>6, <3>7, <4>1, <4>2
    <3>9. /\ IsSeq(data_in_memory') /\ Len(data_in_memory') = Len(data_in_memory)
          /\ data_in_memory'[spot] = new
          /\ \A k \in 1 .. Len(data_in_memory) : k # spot => data_in_memory'[k] = data_in_memory[k]
      <4> HIDE DEF spot, new
      <4>1. /\ data_in_memory = [k \in 1 .. Len(data_in_memory) |-> data_in_memory[k]]
            /\ Len(data_in_memory) \in Nat
        BY <3>4 DEF IsSeq
      <4>2. /\ data_in_memory' = [k \in 1 .. Len(data_in_memory) |->
                                     IF k = spot THEN new ELSE data_in_memory[k]]
        BY <3>3, <4>1
      <4>3. data_in_memory' = [k \in 1 .. Len(data_in_memory) |-> data_in_memory'[k]]
        BY <4>2
      <4>4. IsSeq(data_in_memory') /\ Len(data_in_memory') = Len(data_in_memory)
        BY <4>1, <4>3, FunctionIsSeq
      <4>5. QED
        BY <3>8, <4>2, <4>4
    <3> HIDE DEF n
    <3>10. ASSUME NEW v \in VertexIds, begin_i <= v, v < begin_i + n, v # x
           PROVE  data_in_memory'[v - begin_i + 1] = data_in_memory[v - begin_i + 1]
      <4>1. v - begin_i + 1 \in 1 .. Len(data_in_memory) /\ v - begin_i + 1 # spot
        <5>1. v \in Nat /\ x \in Nat /\ Len(data_in_memory) \in Nat
          BY <2>1, <3>4 DEF VertexIds, IsSeq
        <5>2. QED
          BY <3>4, <3>6, <3>7, <3>10, <5>1, SMTT(30)
      <4>2. QED
        BY <3>9, <4>1
    <3>11. \A v \in VertexIds : InOpenWindow(v) => begin_i <= v /\ v < begin_i + n
      BY <3>4, <3>5, <3>6, <3>7 DEF VertexIds, InOpenWindow
    <3>12. \A v \in VertexIds : InOpenWindow(v) => data_in_memory'[v - begin_i + 1] = <<v, calls'[v]>>
      <4> SUFFICES ASSUME NEW v \in VertexIds, InOpenWindow(v)
                   PROVE  data_in_memory'[v - begin_i + 1] = <<v, calls'[v]>>
        OBVIOUS
      <4>1. CASE v = x
        BY <2>3, <3>9, <4>1
      <4>2. CASE v # x
        <5>1. data_in_memory[v - begin_i + 1] = <<v, calls[v]>>
          BY <2>6
        <5>2. QED
          BY <2>3, <3>10, <3>11, <4>2, <5>1
      <4>3. QED
        BY <4>1, <4>2
    <3>13. \A v \in VertexIds : begin_i <= v /\ v < begin_i + n /\ ~InOpenWindow(v) =>
                                    data_in_memory'[v - begin_i + 1] = file'[v + 1]
      <4> SUFFICES ASSUME NEW v \in VertexIds, begin_i <= v, v < begin_i + n, ~InOpenWindow(v)
                   PROVE  data_in_memory'[v - begin_i + 1] = file'[v + 1]
        OBVIOUS
      <4>1. v # x
        BY <3>1
      <4>2. data_in_memory[v - begin_i + 1] = file[v + 1]
        BY <2>6 DEF n
      <4>3. QED
        BY <3>3, <3>10, <4>1, <4>2
    <3>14. \A v \in VertexIds : ~InOpenWindow(v) => file'[v + 1] = <<v, calls'[v]>>
      BY <2>3, <2>6, <3>1, <3>3
    <3>15. IsSeq(file') /\ vertices' <= Len(file')
      BY <1>1, <3>3
    <3>16. /\ begin_i' = PageOf(begin_vid') /\ end_i' = end_vid' /\ n = WholePages(end_i' - begin_i')
           /\ in_memory' = (ByWindow' /\ mainPc' = "loop")
      BY <1>1, <2>5, <3>4 DEF n
    <3>17. \A v \in VertexIds' : InOpenWindow(v)' => data_in_memory'[v - begin_i' + 1] = <<v, calls'[v]>>
      BY <1>1, <2>5, <3>12
    <3>18. \A v \in VertexIds' :
              begin_i' <= v /\ v < begin_i' + WholePages(end_i' - begin_i') /\ ~(InOpenWindow(v)') =>
                  data_in_memory'[v - begin_i' + 1] = file'[v + 1]
      <4>1. \A v \in VertexIds' : begin_i' <= v /\ v < begin_i' + n /\ ~(InOpenWindow(v)') =>
                  data_in_memory'[v - begin_i' + 1] = file'[v + 1]
        BY <1>1, <2>5, <3>13
      <4>2. QED
        BY <3>16, <4>1
    <3>19. \A v \in VertexIds' : ~(in_memory' /\ InOpenWindow(v)') => file'[v + 1] = <<v, calls'[v]>>
      BY <1>1, <2>5, <2>6, <3>14
    <3>20. IsSeq(data_in_memory') /\ WholePages(end_i' - begin_i') <= Len(data_in_memory')
      BY <2>5, <3>4, <3>9 DEF n
    <3>21. QED
      BY <3>15, <3>16, <3>17, <3>18, <3>19, <3>20
  <2>7. CASE ~in_memory
    <3>1. at(x) = <<x, calls[x]>>
      BY <2>1, <2>7 DEF at
    <3>2. file' = [file EXCEPT ![x + 1] = new]
      BY <2>4, <2>7, <3>1 DEF assign
    <3>3. x \in Nat /\ x + 1 \in 1 .. Len(file)
      BY <2>1, <2>2 DEF VertexIds
    <3>4. /\ IsSeq(file') /\ Len(file') = Len(file) /\ file'[x + 1] = new
          /\ \A k \in 1 .. Len(file) : k # x + 1 => file'[k] = file[k]
      <4> HIDE DEF x, new
      <4>1. file = [k \in 1 .. Len(file) |-> file[k]]
        BY DEF IsSeq
      <4>2. file' = [k \in 1 .. Len(file) |-> IF k = x + 1 THEN new ELSE file[k]]
        BY <3>2, <4>1
      <4>3. file' = [k \in 1 .. Len(file) |-> file'[k]]
        BY <4>2
      <4>4. IsSeq(file') /\ Len(file') = Len(file)
        BY <2>2, <4>3, FunctionIsSeq
      <4>5. QED
        BY <3>3, <4>2, <4>4
    <3>5. ASSUME NEW v \in VertexIds PROVE file'[v + 1] = <<v, calls'[v]>>
      <4>1. v + 1 \in 1 .. Len(file) /\ (v # x => v + 1 # x + 1)
        BY <2>2, <3>3 DEF VertexIds
      <4>2. file[v + 1] = <<v, calls[v]>>
        BY <2>7
      <4>3. QED
        BY <2>3, <3>4, <4>1, <4>2
    <3>6. QED
      BY <1>1, <2>5, <2>7, <3>4, <3>5
  <2>8. QED
    BY <2>6, <2>7
<1>4. QED
  BY <1>2, <1>3

(* A step of the pass with its vector is a step of the pass.               *)
LEMMA VectorStep == [VectorNext]_allVars => [Next]_vars
<1>1. CASE VectorMain
  BY <1>1 DEF VectorMain, OpenAndLoad, CloseAndSave, Next, MainStep
<1>2. ASSUME NEW t \in Threads, VectorThread(t) PROVE Next
  BY <1>2 DEF VectorThread, ProcessAndUpdate, Walk, Next, ThreadStep
<1>3. CASE VectorFinished
  BY <1>3 DEF VectorFinished, Next
<1>4. CASE UNCHANGED allVars
  BY <1>4 DEF allVars
<1>5. QED
  BY <1>1, <1>2, <1>3, <1>4 DEF VectorNext

LEMMA VectorInductive == IInv /\ VectorInv /\ [VectorNext]_allVars => VectorInv'
<1> SUFFICES ASSUME IInv, VectorInv, [VectorNext]_allVars PROVE VectorInv'
  OBVIOUS
<1>1. CASE OpenAndLoad
  BY <1>1, VectorOpen
<1>2. CASE CloseAndSave
  BY <1>2, VectorClose
<1>3. ASSUME NEW t \in Threads, VectorThread(t) PROVE VectorInv'
  <2>1. CASE ProcessAndUpdate(t)
    BY <2>1, VectorProcess
  <2>2. CASE Walk(t)
    <3>1. UNCHANGED vectorVars /\ calls' = calls /\ ThreadStep(t)
      BY <2>2 DEF Walk, ThreadStep, TakePartition, LoadWord, SkipWord, NextWord, WalkEnds, AddValue
    <3>2. QED
      BY <3>1, ThreadKeeps, VectorStays
  <2>3. QED
    BY <1>3, <2>1, <2>2 DEF VectorThread
<1>4. CASE Return /\ UNCHANGED vectorVars
  <2>1. /\ vertices' = vertices /\ VertexIds' = VertexIds /\ ByWindow' = ByWindow /\ calls' = calls
        /\ file' = file /\ in_memory' = in_memory /\ mainPc = "window" /\ mainPc' = "returned"
    BY <1>4 DEF Return, argVars, VertexIds, ByWindow, vectorVars
  <2>2. IsSeq(file')
    BY <2>1 DEF VectorInv
  <2>3. QED
    BY <2>1, <2>2 DEF VectorInv
<1>5. CASE VectorFinished \/ UNCHANGED allVars
  <2>1. UNCHANGED vars /\ UNCHANGED vectorVars
    BY <1>5 DEF VectorFinished, Finished, allVars
  <2>2. /\ vertices' = vertices /\ VertexIds' = VertexIds /\ ByWindow' = ByWindow
        /\ mainPc' = mainPc /\ begin_vid' = begin_vid /\ end_vid' = end_vid /\ calls' = calls
    BY <2>1 DEF vars, argVars, VertexIds, ByWindow, begin_vid, end_vid, RangeOf
  <2>3. \A v : InOpenWindow(v)' <=> InOpenWindow(v)
    BY <2>2 DEF InOpenWindow
  <2>4. QED
    BY <2>1, <2>2, <2>3, VectorStays
<1>6. QED
  BY <1>1, <1>2, <1>3, <1>4, <1>5 DEF VectorNext, VectorMain

(* core/bigvector.hpp under a pass by windows: no update of an entry is    *)
(* lost, although neighbouring windows share pages, each loads whole pages *)
(* of both and writes them all back.                                       *)
THEOREM NoUpdateIsLost == VectorSpec => []NoUpdateLost
<1>1. VectorInit => IInv /\ VectorInv
  BY VectorFirst
<1>2. IInv /\ VectorInv /\ [VectorNext]_allVars => IInv' /\ VectorInv'
  BY VectorStep, PassNext, VectorInductive
<1>3. IInv /\ VectorInv => NoUpdateLost
  <2> SUFFICES ASSUME IInv, VectorInv, NEW v \in VertexIds PROVE Entry(v) = <<v, calls[v]>>
    BY DEF NoUpdateLost
  <2>1. CASE in_memory /\ InOpenWindow(v)
    BY <2>1 DEF VectorInv, Entry, at, InOpenWindow
  <2>2. CASE ~(in_memory /\ InOpenWindow(v))
    BY <2>2 DEF VectorInv, Entry, InOpenWindow
  <2>3. QED
    BY <2>1, <2>2
<1>4. QED
  BY <1>1, <1>2, <1>3, PTL DEF VectorSpec
=============================================================================
