-------------------------- MODULE StreamEdgesProofs --------------------------
(***************************************************************************)
(* Theorems about StreamEdges, for every graph, every grid of it, every    *)
(* bitmap, and any number of workers, sizes of page, read, window and      *)
(* queue.                                                                  *)
(***************************************************************************)
EXTENDS StreamEdges, FiniteSetTheorems, TLAPS

-----------------------------------------------------------------------------
(* The two functions of core/partition.hpp agree, for every number of      *)
(* vertices and of partitions: what one computes by division, the other    *)
(* computes by multiplication.                                             *)

(* Euclidean division, in the form the proofs below use.                   *)
LEMMA Division ==
    ASSUME NEW a \in Nat, NEW d \in Nat \ {0}
    PROVE  /\ a \div d \in Nat
           /\ a % d \in 0 .. d - 1
           /\ a = (a \div d) * d + (a % d)
           /\ (a \div d) * d <= a
           /\ a < (a \div d) * d + d
OBVIOUS

(* A product grows with its first factor.                                  *)
LEMMA ProductGrows ==
    ASSUME NEW x \in Nat, NEW y \in Nat, NEW d \in Nat, x <= y
    PROVE  x * d <= y * d
<1>1. y * d = x * d + (y - x) * d
  OBVIOUS
<1>2. (y - x) * d >= 0
  OBVIOUS
<1>3. QED
  BY <1>1, <1>2

(* A quotient is below a bound when the dividend is below its multiple.    *)
LEMMA QuotientBelow ==
    ASSUME NEW a \in Nat, NEW d \in Nat \ {0}, NEW n \in Nat, a < n * d
    PROVE  a \div d < n
<1>1. SUFFICES ASSUME n <= a \div d PROVE FALSE
  BY Division
<1>2. n * d <= (a \div d) * d
  BY <1>1, Division, ProductGrows
<1>3. QED
  BY <1>2, Division

(* The vertices and partitions of a grid.                                  *)
Grid(V, P) == V \in Nat /\ P \in Nat \ {0}

(* The two sizes of partition: long ones of size vertices and short ones,  *)
(* together all the vertices.                                              *)
LEMMA PartitionSizes ==
    ASSUME NEW V, NEW P, Grid(V, P)
    PROVE  /\ V \div P \in Nat
           /\ V % P \in 0 .. P - 1
           /\ V = (V % P) * (V \div P + 1) + (P - (V % P)) * (V \div P)
<1> DEFINE q == V \div P
           m == V % P
<1>1. q \in Nat /\ m \in 0 .. P - 1 /\ V = q * P + m
  BY Division DEF Grid
<1> HIDE DEF q, m
<1>2. q * P = q * m + q * (P - m)
  BY <1>1 DEF Grid
<1>3. m * (q + 1) = q * m + m
  BY <1>1
<1>4. (P - m) * q = q * (P - m)
  BY <1>1 DEF Grid
<1>5. V = m * (q + 1) + (P - m) * q
  BY <1>1, <1>2, <1>3, <1>4 DEF Grid
<1>6. QED
  BY <1>1, <1>5 DEF q, m

(* The ranges follow each other without a gap: each one ends where the     *)
(* next begins.                                                            *)
THEOREM RangesTouch ==
    ASSUME NEW V, NEW P, Grid(V, P), NEW id \in 0 .. P - 1
    PROVE  get_partition_range(V, P, id).end = RangeAt(V, P, id + 1)
<1> DEFINE q == V \div P
           m == V % P
<1>1. q \in Nat /\ m \in 0 .. P - 1
  BY PartitionSizes
<1>2. get_partition_range(V, P, id).end
        = IF id < m THEN (id + 1) * (q + 1) ELSE m * (q + 1) + (id - m + 1) * ((q + 1) - 1)
  BY DEF get_partition_range
<1>3. \A n : RangeAt(V, P, n) = IF n < m THEN n * (q + 1)
                               ELSE m * (q + 1) + (n - m) * ((q + 1) - 1)
  BY Zenon DEF RangeAt
<1> HIDE DEF q, m
<1>4. CASE id + 1 < m
  BY <1>1, <1>2, <1>3, <1>4
<1>5. CASE id + 1 = m
  <2>1. m * (q + 1) + (id + 1 - m) * ((q + 1) - 1) = m * (q + 1)
    BY <1>1, <1>5
  <2>2. QED
    BY <1>1, <1>2, <1>3, <1>5, <2>1
<1>6. CASE id + 1 > m
  <2>1. id - m + 1 = id + 1 - m
    BY <1>1
  <2>2. QED
    BY <1>1, <1>2, <1>3, <1>6, <2>1
<1>7. QED
  BY <1>1, <1>4, <1>5, <1>6

(* The first range begins at vertex 0 and the last one ends after the last *)
(* vertex.                                                                 *)
THEOREM RangesCover ==
    ASSUME NEW V, NEW P, Grid(V, P)
    PROVE  RangeAt(V, P, 0) = 0 /\ RangeAt(V, P, P) = V
<1> DEFINE q == V \div P
           m == V % P
<1>1. q \in Nat /\ m \in 0 .. P - 1 /\ V = m * (q + 1) + (P - m) * q
  BY PartitionSizes
<1>2. RangeAt(V, P, 0) = IF 0 < m THEN 0 * (q + 1) ELSE m * (q + 1) + (0 - m) * ((q + 1) - 1)
  BY DEF RangeAt
<1>3. RangeAt(V, P, P) = IF P < m THEN P * (q + 1) ELSE m * (q + 1) + (P - m) * ((q + 1) - 1)
  BY DEF RangeAt
<1> HIDE DEF q, m
<1>4. (q + 1) - 1 = q
  BY <1>1
<1>5. RangeAt(V, P, 0) = 0
  <2>1. CASE 0 < m
    BY <1>1, <1>2, <2>1
  <2>2. CASE m = 0
    <3>1. m * (q + 1) = 0 /\ (0 - m) * q = 0
      BY <1>1, <2>2
    <3>2. QED
      BY <1>1, <1>2, <1>4, <2>2, <3>1
  <2>3. QED
    BY <1>1, <2>1, <2>2
<1>6. RangeAt(V, P, P) = V
  BY <1>1, <1>3, <1>4 DEF Grid
<1>7. QED
  BY <1>5, <1>6

(* A quotient is at least a bound when the dividend is.                    *)
LEMMA QuotientAtLeast ==
    ASSUME NEW a \in Nat, NEW d \in Nat \ {0}, NEW n \in Nat, n * d <= a
    PROVE  n <= a \div d
<1>1. SUFFICES ASSUME (a \div d) + 1 <= n PROVE FALSE
  BY Division
<1> DEFINE k == a \div d
<1>2. k \in Nat /\ a < k * d + d
  BY Division
<1> HIDE DEF k
<1>3. k + 1 \in Nat /\ k + 1 <= n
  BY <1>1, <1>2 DEF k
<1>4. (k + 1) * d <= n * d
  BY <1>3, ProductGrows
<1>5. (k + 1) * d = k * d + d
  BY <1>2
<1>6. QED
  BY <1>2, <1>4, <1>5

(* get_partition_id puts every vertex into the range that                  *)
(* get_partition_range gives its partition, so the block an edge is filed  *)
(* in by tools/preprocess.cpp is the shard core/graph.hpp looks for it in. *)
THEOREM IdIsInRange ==
    ASSUME NEW V, NEW P, Grid(V, P), NEW v \in 0 .. V - 1
    PROVE  /\ get_partition_id(V, P, v) \in 0 .. P - 1
           /\ RangeAt(V, P, get_partition_id(V, P, v)) <= v
           /\ v < get_partition_range(V, P, get_partition_id(V, P, v)).end
<1> DEFINE q == V \div P
           m == V % P
           split == m * (q + 1)
           id == get_partition_id(V, P, v)
<1>1. q \in Nat /\ m \in 0 .. P - 1 /\ V = m * (q + 1) + (P - m) * q
  BY PartitionSizes
<1>2. id = IF m = 0 THEN v \div q
           ELSE IF v < split THEN v \div (q + 1)
                ELSE (v - split) \div ((q + 1) - 1) + m
  BY Zenon DEF get_partition_id
<1>3. \A n : RangeAt(V, P, n) = IF n < m THEN n * (q + 1)
                               ELSE split + (n - m) * ((q + 1) - 1)
  BY Zenon DEF RangeAt
<1>4. \A n : get_partition_range(V, P, n).end
               = IF n < m THEN (n + 1) * (q + 1)
                 ELSE split + (n - m + 1) * ((q + 1) - 1)
  BY DEF get_partition_range
<1> HIDE DEF q, m, id
<1>5. v \in Nat /\ P \in Nat \ {0} /\ split \in Nat
  BY <1>1 DEF Grid
<1>6. (q + 1) - 1 = q
  BY <1>1
<1>7. CASE v < split
  <2>1. m # 0 /\ id = v \div (q + 1)
    <3>1. m # 0
      BY <1>1, <1>5, <1>7
    <3>2. QED
      BY <1>2, <1>7, <3>1
  <2>2. id < m
    BY <2>1, <1>1, <1>5, <1>7, QuotientBelow
  <2>3. id \in Nat /\ id * (q + 1) <= v /\ v < id * (q + 1) + (q + 1)
    <3>1. q + 1 \in Nat \ {0}
      BY <1>1
    <3>2. QED
      BY <2>1, <3>1, <1>5, Division
  <2>4. (id + 1) * (q + 1) = id * (q + 1) + (q + 1)
    BY <2>3, <1>1
  <2>5. RangeAt(V, P, id) = id * (q + 1) /\ get_partition_range(V, P, id).end = (id + 1) * (q + 1)
    BY <1>3, <1>4, <2>2
  <2>6. QED
    BY <1>1, <1>5, <2>2, <2>3, <2>4, <2>5 DEF id
<1>8. CASE v >= split
  <2> DEFINE a == v - split
             k == a \div q
  <2>1. q # 0
    <3>1. SUFFICES ASSUME q = 0 PROVE FALSE
      OBVIOUS
    <3>2. (P - m) * q = 0
      BY <3>1, <1>1, <1>5
    <3>3. QED
      BY <1>1, <1>5, <1>8, <3>2 DEF Grid
  <2>2. a \in Nat /\ a < (P - m) * q
    BY <1>1, <1>5, <1>8 DEF Grid
  <2>3. k \in Nat /\ k * q <= a /\ a < k * q + q /\ k < P - m
    <3>1. q \in Nat \ {0} /\ P - m \in Nat
      BY <2>1, <1>1, <1>5
    <3> HIDE DEF a
    <3>2. k \in Nat /\ k * q <= a /\ a < k * q + q
      BY <2>2, <3>1, Division
    <3>3. k < P - m
      BY <2>2, <3>1, QuotientBelow
    <3>4. QED
      BY <3>2, <3>3
  <2>4. id = k + m
    <3>1. CASE m = 0
      <4>1. split = 0 /\ a = v
        BY <3>1, <1>1, <1>5
      <4>2. QED
        BY <1>2, <3>1, <4>1, <2>3
    <3>2. CASE m # 0
      BY <1>2, <1>5, <1>6, <1>8, <3>2
    <3>3. QED
      BY <3>1, <3>2
  <2> HIDE DEF k
  <2>5. ~(id < m) /\ id - m = k /\ id \in 0 .. P - 1
    BY <2>3, <2>4, <1>1, <1>5
  <2>6. RangeAt(V, P, id) = split + k * q
    BY <1>3, <1>6, <2>5
  <2>7. get_partition_range(V, P, id).end = split + (k + 1) * q
    BY <1>4, <1>6, <2>5
  <2>8. (k + 1) * q = k * q + q
    BY <2>3, <1>1
  <2>9. v = split + a
    BY <1>5
  <2>10. split + k * q <= v /\ v < split + (k + 1) * q
    <3>1. k * q \in Nat
      BY <2>3, <1>1
    <3>2. QED
      BY <1>1, <1>5, <2>2, <2>3, <2>8, <2>9, <3>1
  <2>11. QED
    BY <2>5, <2>6, <2>7, <2>10 DEF id
<1>9. QED
  BY <1>5, <1>7, <1>8

(* Ranges ascend, and a vertex is in one of them only.                     *)
LEMMA RangesGrow ==
    ASSUME NEW V, NEW P, Grid(V, P), NEW x \in 0 .. P, NEW y \in 0 .. P, x <= y
    PROVE  RangeAt(V, P, x) \in Nat /\ RangeAt(V, P, x) <= RangeAt(V, P, y)
<1> DEFINE q == V \div P
           m == V % P
<1>1. q \in Nat /\ m \in 0 .. P - 1 /\ P \in Nat
  BY PartitionSizes DEF Grid
<1>2. \A n : RangeAt(V, P, n) = IF n < m THEN n * (q + 1)
                               ELSE m * (q + 1) + (n - m) * ((q + 1) - 1)
  BY Zenon DEF RangeAt
<1> HIDE DEF q, m
<1>3. (q + 1) - 1 = q
  BY <1>1
<1>4. \A n \in Nat : /\ n < m => RangeAt(V, P, n) = n * (q + 1)
                     /\ ~(n < m) => RangeAt(V, P, n) = m * (q + 1) + (n - m) * q
  BY <1>2, <1>3
<1>5. m * (q + 1) \in Nat /\ x * (q + 1) \in Nat
  BY <1>1
<1>6. CASE y < m
  <2>1. x < m /\ x * (q + 1) <= y * (q + 1)
    BY <1>1, <1>6, ProductGrows
  <2>2. QED
    BY <1>1, <1>4, <1>5, <1>6, <2>1
<1>7. CASE x < m /\ ~(y < m)
  <2>1. x * (q + 1) <= m * (q + 1)
    BY <1>1, <1>7, ProductGrows
  <2>2. (y - m) * q \in Nat
    BY <1>1, <1>7
  <2>3. QED
    BY <1>1, <1>4, <1>5, <1>7, <2>1, <2>2
<1>8. CASE ~(x < m)
  <2>1. (x - m) * q \in Nat /\ (y - m) * q \in Nat /\ (x - m) * q <= (y - m) * q
    <3>1. x - m \in Nat /\ y - m \in Nat /\ x - m <= y - m
      BY <1>1, <1>8
    <3>2. (x - m) * q <= (y - m) * q
      BY <1>1, <3>1, ProductGrows
    <3>3. QED
      BY <1>1, <3>1, <3>2
  <2>2. QED
    BY <1>1, <1>4, <1>5, <1>8, <2>1
<1>9. QED
  BY <1>6, <1>7, <1>8

LEMMA RangeEnds ==
    ASSUME NEW V, NEW P, Grid(V, P), NEW p \in 0 .. P - 1
    PROVE  /\ get_partition_range(V, P, p).begin = RangeAt(V, P, p)
           /\ get_partition_range(V, P, p).end = RangeAt(V, P, p + 1)
           /\ RangeAt(V, P, p) \in Nat /\ RangeAt(V, P, p + 1) \in Nat
           /\ RangeAt(V, P, p) <= RangeAt(V, P, p + 1)
           /\ RangeAt(V, P, p + 1) <= V
<1>1. P \in Nat /\ p \in 0 .. P /\ p + 1 \in 0 .. P /\ P \in 0 .. P
  BY DEF Grid
<1>2. get_partition_range(V, P, p).begin = RangeAt(V, P, p)
  BY DEF get_partition_range
<1>3. RangeAt(V, P, P) = V
  BY RangesCover
<1>4. QED
  BY <1>1, <1>2, <1>3, RangesGrow, RangesTouch

LEMMA OneRange ==
    ASSUME NEW V, NEW P, Grid(V, P), NEW p \in 0 .. P - 1, NEW v \in 0 .. V - 1
    PROVE  RangeAt(V, P, p) <= v /\ v < RangeAt(V, P, p + 1) <=> p = get_partition_id(V, P, v)
<1> DEFINE id == get_partition_id(V, P, v)
<1>1. id \in 0 .. P - 1 /\ RangeAt(V, P, id) <= v /\ v < RangeAt(V, P, id + 1)
  BY IdIsInRange, RangesTouch
<1> HIDE DEF id
<1>2. V \in Nat /\ P \in Nat /\ v \in Nat
  BY DEF Grid
<1>3. CASE p = id
  BY <1>1, <1>3 DEF id
<1>4. CASE p < id
  <2>1. p + 1 \in 0 .. P /\ id \in 0 .. P /\ p + 1 <= id
    BY <1>1, <1>2, <1>4
  <2>2. RangeAt(V, P, p + 1) \in Nat /\ RangeAt(V, P, id) \in Nat
        /\ RangeAt(V, P, p + 1) <= RangeAt(V, P, id)
    BY <2>1, RangesGrow
  <2>3. ~(v < RangeAt(V, P, p + 1))
    BY <1>1, <1>2, <2>2
  <2>4. QED
    BY <1>1, <1>2, <1>4, <2>3 DEF id
<1>5. CASE id < p
  <2>1. id + 1 \in 0 .. P /\ p \in 0 .. P /\ id + 1 <= p
    BY <1>1, <1>2, <1>5
  <2>2. RangeAt(V, P, id + 1) \in Nat /\ RangeAt(V, P, p) \in Nat
        /\ RangeAt(V, P, id + 1) <= RangeAt(V, P, p)
    BY <2>1, RangesGrow
  <2>3. ~(RangeAt(V, P, p) <= v)
    BY <1>1, <1>2, <2>2
  <2>4. QED
    BY <1>1, <1>2, <1>5, <2>3 DEF id
<1>6. QED
  BY <1>1, <1>2, <1>3, <1>4, <1>5

LEMMA QuotientIs ==
    ASSUME NEW a \in Nat, NEW d \in Nat \ {0}, NEW n \in Nat, n * d <= a, a < n * d + d
    PROVE  a \div d = n /\ a % d = a - n * d
<1>1. n <= a \div d
  BY QuotientAtLeast
<1>2. a < (n + 1) * d
  OBVIOUS
<1>3. n + 1 \in Nat
  OBVIOUS
<1>4. a \div d < n + 1
  BY <1>2, <1>3, QuotientBelow
<1>5. a \div d \in Nat
  BY Division
<1>6. a \div d = n
  BY <1>1, <1>4, <1>5
<1>7. a = (a \div d) * d + (a % d) /\ a % d \in Int
  BY Division
<1>8. n * d \in Nat
  OBVIOUS
<1>9. (a \div d) * d = n * d
  BY <1>6
<1>10. QED
  BY <1>6, <1>7, <1>8, <1>9


-----------------------------------------------------------------------------
(* The inductive invariant.  A place is a position in the file, counted    *)
(* from 0; it is pending while a queued read covers it or it is in the     *)
(* unread part of a worker's buffer.                                       *)
Places == 0 .. Len(Graph) - 1
EdgeAt(x) == File[x + 1]
CellOf(e) == IF update_mode = 0 THEN RowCell(e) ELSE ColumnCell(e)

Open == mainPc \in {"cell", "tasks"}
Chosen(k) == k \in Round(cur_partition) /\ should_access_shard[SourceShard(k)]

Covers(t, x) == t.offset <= x /\ x < t.offset + t.length
Queued(x) == \E k \in DOMAIN tasks : Covers(tasks[k], x)
Held(w, x) == reading[w].at <= x /\ x < reading[w].end
Pending(x) == Queued(x) \/ \E w \in Workers : Held(w, x)

Arguments ==
    /\ bitmap \in Bitmaps \union {NoBitmap}
    /\ update_mode \in {0, 1}
    /\ partition_batch \in Nat

\* The rounds, and what is left when none is open.
Rounds ==
    /\ Open => cur_partition < Partitions /\ window = WindowOf(cur_partition)
    /\ ~Open => /\ tasks = << >> /\ window = [begin |-> 0, end |-> 0] /\ cells = {}
                /\ \A w \in Workers : pc[w] \in {"none", "exited"}
    /\ mainPc = "returned" => cur_partition >= Partitions
    /\ update_mode = 0 /\ (Open \/ cur_partition < Partitions) => cur_partition = 0
    /\ mainPc # "select" => should_access_shard = [i \in Shards |-> Access(i)]

IsRead(t) ==
    /\ t.offset \in Nat /\ t.offset % PAGESIZE = 0 /\ t.offset < Len(Graph)
    /\ t.length > 0

\* No place is in two reads at a time, and none in a read to come.
Reads ==
    /\ offset % PAGESIZE = 0
    /\ \A k \in DOMAIN tasks : tasks[k] = Pill \/ IsRead(tasks[k])
    /\ \A j, k \in DOMAIN tasks, x \in Places :
          Covers(tasks[j], x) /\ Covers(tasks[k], x) => j = k
    /\ \A w, v \in Workers, x \in Places : Held(w, x) /\ Held(v, x) => w = v
    /\ \A w \in Workers, x \in Places : Held(w, x) => ~Queued(x)
    /\ \A x \in Places : Pending(x) => x < offset /\ Open
    /\ \A w \in Workers : reading[w].end <= Len(Graph)
    /\ \A w \in Workers : pc[w] # "scan" => reading[w].end <= reading[w].at

\* The pills are behind the reads, and every worker gone has taken one.
Gone == {w \in Workers : pc[w] \in {"add", "exited"}}
PillsFrom(m) ==
    /\ \A k \in DOMAIN tasks : tasks[k] = Pill <=> k > m
    /\ pills = (Len(tasks) - m) + Cardinality(Gone)
    /\ Gone # {} => m = 0
Pills ==
    Open => /\ \E m \in 0 .. Len(tasks) : PillsFrom(m)
            /\ pills > 0 => mainPc = "cell" /\ cells = {}

\* The next read starts behind every chosen cell that has been visited.
Visited ==
    Open => /\ \A k \in cells : Chosen(k)
            /\ \A k \in Cells : Chosen(k) /\ k \notin cells => OffsetOf(k + 1) <= offset

\* The edges process has been called for.
HasRun(x) ==
    LET e == EdgeAt(x) IN
    /\ ActiveSource(e)
    /\ IF InWindow(e) THEN x < offset /\ ~Pending(x)
                      ELSE PartOf(Source(e)) < cur_partition
Called == \A x \in Places : calls[EdgeAt(x)] = IF HasRun(x) THEN 1 ELSE 0

\* The calls that are still in a worker's local_value, as pairs.
Counted == {r \in Workers \X Edges :
               pc[r[1]] \notin {"none", "exited"} /\ r[2] <= local_value[r[1]]}
Ran == {e \in Edges : calls[e] = 1}
Counts ==
    /\ \A w \in Workers : local_value[w] <= Len(Graph)
    /\ value + Cardinality(Counted) = Cardinality(Ran)

IInv == TypeOK /\ Arguments /\ Rounds /\ Reads /\ Pills /\ Visited /\ Called /\ Counts

-----------------------------------------------------------------------------
(* The file and its cells.                                                 *)
LEMMA GraphIsFinite == Len(Graph) \in Nat /\ IsFiniteSet(Edges) /\ Cardinality(Edges) = Len(Graph)
<1>1. Len(Graph) \in Nat
  BY StreamAssumption
<1> DEFINE n == Len(Graph)
<1> HIDE DEF n
<1>2. IsFiniteSet(1 .. n) /\ Cardinality(1 .. n) = n
  <2>1. n \in Nat
    BY <1>1 DEF n
  <2>2. QED
    BY <2>1, FS_Interval
<1>3. QED
  BY <1>1, <1>2 DEF Edges, n

LEMMA SourceIsVertex == \A e \in Edges : Source(e) \in 0 .. Vertices - 1 /\ Target(e) \in 0 .. Vertices - 1
BY StreamAssumption DEF Edges, Source, Target

LEMMA GridIs == Grid(Vertices, Partitions)
BY StreamAssumption DEF Grid

LEMMA PartIsShard ==
    ASSUME NEW e \in Edges
    PROVE  PartOf(Source(e)) \in Shards /\ PartOf(Target(e)) \in Shards
BY SourceIsVertex, GridIs, IdIsInRange DEF PartOf, Shards

\* A cell in row-major order.
LEMMA CellNumber ==
    ASSUME NEW i \in Shards, NEW j \in Shards
    PROVE  /\ i * Partitions + j \in Cells
           /\ (i * Partitions + j) \div Partitions = i
           /\ (i * Partitions + j) % Partitions = j
<1> DEFINE P == Partitions
           a == i * P + j
<1>1. P \in Nat \ {0} /\ i \in Nat /\ j \in Nat /\ i < P /\ j < P
  BY StreamAssumption DEF Shards
<1> HIDE DEF P
<1>2. i * P \in Nat
  BY <1>1
<1>3. a \in Nat /\ i * P <= a /\ a < i * P + P /\ a - i * P = j
  BY <1>1, <1>2
<1>4. (i + 1) * P <= P * P
  BY <1>1, ProductGrows
<1>5. (i + 1) * P = i * P + P
  BY <1>1
<1>6. a < P * P /\ P * P \in Nat
  BY <1>1, <1>2, <1>3, <1>4, <1>5
<1> HIDE DEF a
<1>7. a \div P = i /\ a % P = a - i * P
  BY <1>1, <1>3, QuotientIs
<1>8. QED
  BY <1>3, <1>6, <1>7 DEF Cells, a, P

LEMMA CellOfEdge ==
    ASSUME NEW e \in Edges, Arguments
    PROVE  CellOf(e) \in Cells /\ SourceShard(CellOf(e)) = PartOf(Source(e))
<1> DEFINE s == PartOf(Source(e))
           t == PartOf(Target(e))
<1>1. s \in Shards /\ t \in Shards
  BY PartIsShard
<1> HIDE DEF s, t
<1>2. /\ s * Partitions + t \in Cells /\ (s * Partitions + t) \div Partitions = s
      /\ t * Partitions + s \in Cells /\ (t * Partitions + s) % Partitions = s
  BY <1>1, CellNumber
<1>3. QED
  BY <1>2 DEF CellOf, RowCell, ColumnCell, SourceShard, Arguments, s, t

\* What IsGrid says, in places.
GridFacts(file, offsets, cell) ==
    /\ Len(file) = Len(Graph)
    /\ \A x \in Places : file[x + 1] \in Edges
    /\ \A x, y \in Places : file[x + 1] = file[y + 1] => x = y
    /\ \A e \in Edges : \E x \in Places : file[x + 1] = e
    /\ \A k \in 0 .. Partitions * Partitions : offsets[k] \in 0 .. Len(Graph)
    /\ \A k, l \in 0 .. Partitions * Partitions : k <= l => offsets[k] <= offsets[l]
    /\ \A k \in Cells, x \in Places :
          offsets[k] <= x /\ x < offsets[k + 1] <=> cell[file[x + 1]] = k

LEMMA GridInPlaces ==
    ASSUME NEW file, NEW offsets, NEW cell, IsGrid(file, offsets, cell)
    PROVE  GridFacts(file, offsets, cell)
<1> USE DEF IsGrid
<1>1. Len(Graph) \in Nat /\ Len(file) = Len(Graph) /\ DOMAIN file = 1 .. Len(Graph)
  BY GraphIsFinite
<1>2. \A x \in Places : x + 1 \in DOMAIN file /\ x \in Nat
  BY <1>1 DEF Places
<1>3. \A x \in Places : file[x + 1] \in Edges
  BY <1>2
<1>4. \A x, y \in Places : file[x + 1] = file[y + 1] => x = y
  <2> TAKE x, y \in Places
  <2>1. file[x + 1] = file[y + 1] => x + 1 = y + 1
    BY <1>2
  <2>2. QED
    BY <1>2, <2>1
<1>5. \A e \in Edges : \E x \in Places : file[x + 1] = e
  <2> TAKE e \in Edges
  <2>1. PICK y \in DOMAIN file : file[y] = e
    OBVIOUS
  <2>2. y - 1 \in Places /\ (y - 1) + 1 = y
    BY <1>1 DEF Places
  <2>3. QED
    BY <2>1, <2>2
<1>6. DOMAIN offsets = 0 .. Partitions * Partitions
      /\ \A k \in 0 .. Partitions * Partitions : offsets[k] \in 0 .. Len(Graph)
  BY <1>1
<1>7. \A k, l \in 0 .. Partitions * Partitions : k <= l => offsets[k] <= offsets[l]
  BY <1>6
<1>8. \A k \in Cells : k \in 0 .. Partitions * Partitions /\ k + 1 \in 0 .. Partitions * Partitions
  <2>1. Partitions * Partitions \in Nat
    BY StreamAssumption
  <2> HIDE DEF IsGrid
  <2>2. QED
    BY <2>1 DEF Cells
<1>9. \A k \in Cells, x \in Places :
          offsets[k] <= x /\ x < offsets[k + 1] <=> cell[file[x + 1]] = k
  <2> TAKE k \in Cells, x \in Places
  <2>1. offsets[k] < x + 1 /\ x + 1 <= offsets[k + 1] <=> cell[file[x + 1]] = k
    BY <1>2
  <2>2. offsets[k] \in Int /\ offsets[k + 1] \in Int /\ x \in Int
    BY <1>2, <1>6, <1>8
  <2>3. QED
    BY <2>1, <2>2
<1>10. QED
  BY <1>1, <1>3, <1>4, <1>5, <1>6, <1>7, <1>9 DEF GridFacts

LEMMA CellBound == \A k \in Cells : k \in Nat /\ k \in 0 .. Partitions * Partitions
                                    /\ k + 1 \in 0 .. Partitions * Partitions
<1>1. Partitions * Partitions \in Nat
  BY StreamAssumption
<1>2. QED
  BY <1>1 DEF Cells

LEMMA FileInPlaces ==
    ASSUME Arguments
    PROVE  /\ Len(File) = Len(Graph)
           /\ \A x \in Places : EdgeAt(x) \in Edges
           /\ \A x, y \in Places : EdgeAt(x) = EdgeAt(y) => x = y
           /\ \A e \in Edges : \E x \in Places : EdgeAt(x) = e
<1>1. GridFacts(RowFile, row_offset, [e \in Edges |-> RowCell(e)])
      /\ GridFacts(ColumnFile, column_offset, [e \in Edges |-> ColumnCell(e)])
  BY StreamAssumption, GridInPlaces
<1>2. File = RowFile \/ File = ColumnFile
  BY DEF File
<1>3. QED
  BY <1>1, <1>2 DEF GridFacts, EdgeAt

LEMMA CellInPlaces ==
    ASSUME Arguments
    PROVE  /\ \A k \in Cells : OffsetOf(k) \in 0 .. Len(Graph) /\ OffsetOf(k + 1) \in 0 .. Len(Graph)
           /\ \A k, l \in Cells : k <= l => OffsetOf(k) <= OffsetOf(l)
           /\ \A k \in Cells, x \in Places :
                 OffsetOf(k) <= x /\ x < OffsetOf(k + 1) <=> CellOf(EdgeAt(x)) = k
<1>1. GridFacts(RowFile, row_offset, [e \in Edges |-> RowCell(e)])
      /\ GridFacts(ColumnFile, column_offset, [e \in Edges |-> ColumnCell(e)])
  BY StreamAssumption, GridInPlaces
<1>2. \A x \in Places : EdgeAt(x) \in Edges
  BY FileInPlaces
<1>3. CASE update_mode = 0
  <2>1. /\ \A k : OffsetOf(k) = row_offset[k] 
        /\ \A x : EdgeAt(x) = RowFile[x + 1]
        /\ \A e : CellOf(e) = RowCell(e)
    BY <1>3 DEF OffsetOf, EdgeAt, File, CellOf
  <2>2. QED
    BY <1>1, <1>2, <2>1, CellBound DEF GridFacts
<1>4. CASE update_mode # 0
  <2>1. /\ \A k : OffsetOf(k) = column_offset[k]
        /\ \A x : EdgeAt(x) = ColumnFile[x + 1]
        /\ \A e : CellOf(e) = ColumnCell(e)
    BY <1>4 DEF OffsetOf, EdgeAt, File, CellOf
  <2>2. QED
    BY <1>1, <1>2, <2>1, CellBound DEF GridFacts
<1>5. QED
  BY <1>3, <1>4

-----------------------------------------------------------------------------
(* The windows and the shards that are read.                               *)
LEMMA RangeBelow ==
    ASSUME NEW c \in 0 .. Partitions, NEW v \in 0 .. Vertices - 1
    PROVE  RangeAt(Vertices, Partitions, c) <= v <=> c <= PartOf(v)
<1> DEFINE id == PartOf(v)
           R(x) == RangeAt(Vertices, Partitions, x)
<1>1. id \in 0 .. Partitions - 1 /\ R(id) <= v /\ v < R(id + 1)
  BY GridIs, IdIsInRange, RangesTouch DEF PartOf
<1>2. Partitions \in Nat /\ Vertices \in Nat
  BY StreamAssumption
<1> HIDE DEF id
<1>3. id \in 0 .. Partitions /\ id + 1 \in 0 .. Partitions
  BY <1>1, <1>2
<1>4. c <= id => R(c) \in Nat /\ R(id) \in Nat /\ R(c) <= R(id)
  BY <1>3, GridIs, RangesGrow
<1>5. id + 1 <= c => R(c) \in Nat /\ R(id + 1) \in Nat /\ R(id + 1) <= R(c)
  BY <1>3, GridIs, RangesGrow
<1> HIDE DEF R
<1>6. QED
  BY <1>1, <1>2, <1>3, <1>4, <1>5 DEF id, R

LEMMA WindowIsRound ==
    ASSUME Arguments, NEW c \in 0 .. Partitions - 1
    PROVE  /\ WindowOf(c) \in [begin : 0 .. Vertices, end : 0 .. Vertices]
           /\ WindowOf(c).begin <= WindowOf(c).end
           /\ \A v \in 0 .. Vertices - 1 :
                 WindowOf(c).begin <= v /\ v < WindowOf(c).end
                    <=> update_mode = 0 \/ (c <= PartOf(v) /\ PartOf(v) < c + partition_batch)
<1> DEFINE R(x) == RangeAt(Vertices, Partitions, x)
           d == c + partition_batch
<1>1. Partitions \in Nat /\ Vertices \in Nat /\ partition_batch \in Nat /\ c \in Nat
  BY StreamAssumption DEF Arguments
<1>2. CASE update_mode = 0
  BY <1>1, <1>2 DEF WindowOf
<1>3. CASE update_mode # 0
  <2>1. WindowOf(c) = [begin |-> R(c), end |-> IF d >= Partitions THEN Vertices ELSE R(d)]
    BY <1>3 DEF WindowOf
  <2>2. R(Partitions) = Vertices
    BY GridIs, RangesCover
  <2>3. c \in 0 .. Partitions /\ Partitions \in 0 .. Partitions
    BY <1>1
  <2>4. R(c) \in Nat /\ R(c) <= Vertices
    BY <2>2, <2>3, GridIs, RangesGrow
  <2>5. \A v \in 0 .. Vertices - 1 : PartOf(v) \in 0 .. Partitions - 1 /\ (R(c) <= v <=> c <= PartOf(v))
    BY <2>3, GridIs, RangeBelow, IdIsInRange DEF PartOf
  <2>6. CASE d >= Partitions
    <3>1. WindowOf(c) = [begin |-> R(c), end |-> Vertices]
      BY <2>1, <2>6
    <3> HIDE DEF R
    <3>2. QED
      BY <1>1, <1>3, <2>4, <2>5, <2>6, <3>1
  <2>7. CASE d < Partitions
    <3>1. WindowOf(c) = [begin |-> R(c), end |-> R(d)]
      BY <1>1, <2>1, <2>7
    <3>2. d \in 0 .. Partitions /\ c <= d /\ d <= Partitions
      BY <1>1, <2>7
    <3>3. R(d) \in Nat /\ R(c) <= R(d) /\ R(d) <= Vertices
      BY <2>2, <2>3, <3>2, GridIs, RangesGrow
    <3>4. \A v \in 0 .. Vertices - 1 : R(d) <= v <=> d <= PartOf(v)
      BY <3>2, RangeBelow
    <3> HIDE DEF R
    <3>5. QED
      BY <1>1, <1>3, <2>4, <2>5, <3>1, <3>2, <3>3, <3>4
  <2>8. QED
    BY <1>1, <2>6, <2>7
<1>4. QED
  BY <1>2, <1>3

(* A shard with an active source is read: the word that holds the source   *)
(* overlaps the shard.                                                     *)
LEMMA ActiveShardIsRead ==
    ASSUME Arguments, NEW e \in Edges, ActiveSource(e)
    PROVE  Access(PartOf(Source(e)))
<1> DEFINE v == Source(e)
           i == PartOf(v)
<1>1. v \in 0 .. Vertices - 1
  BY SourceIsVertex
<1> HIDE DEF v
<1>2. v \in Members(Vertices, Partitions, i)
  BY <1>1, GridIs, IdIsInRange DEF PartOf, Members, get_partition_range, RangeAt
<1>3. QED
  BY <1>2 DEF ActiveSource, Access, WordsOf, v

-----------------------------------------------------------------------------
(* Arithmetic of pages.                                                    *)
LEMMA MultipleOf ==
    ASSUME NEW q \in Nat, NEW d \in Nat \ {0}
    PROVE  q * d \in Nat /\ (q * d) % d = 0
<1> DEFINE a == q * d
<1>1. a \in Nat /\ q * d <= a /\ a < q * d + d
  OBVIOUS
<1> HIDE DEF a
<1>2. a % d = a - q * d
  BY <1>1, QuotientIs
<1>3. QED
  BY <1>1, <1>2 DEF a

LEMMA SumOfMultiples ==
    ASSUME NEW a \in Nat, NEW b \in Nat, NEW d \in Nat \ {0}, a % d = 0, b % d = 0
    PROVE  (a + b) % d = 0
<1> DEFINE x == a \div d
           y == b \div d
<1>1. x \in Nat /\ y \in Nat /\ a = x * d /\ b = y * d
  BY Division
<1> HIDE DEF x, y
<1>2. a + b = (x + y) * d /\ x + y \in Nat
  BY <1>1
<1>3. QED
  BY <1>2, MultipleOf

LEMMA PageStart ==
    ASSUME NEW b \in Nat, NEW o \in Nat, b - o >= PAGESIZE
    PROVE  LET start == (b \div PAGESIZE) * PAGESIZE
           IN  start \in Nat /\ start % PAGESIZE = 0 /\ o <= start /\ start <= b
<1> DEFINE q == b \div PAGESIZE
<1>1. PAGESIZE \in Nat \ {0}
  BY StreamAssumption
<1>2. q \in Nat /\ q * PAGESIZE <= b /\ b < q * PAGESIZE + PAGESIZE
  BY <1>1, Division
<1> HIDE DEF q
<1>3. q * PAGESIZE \in Nat /\ (q * PAGESIZE) % PAGESIZE = 0
  BY <1>1, <1>2, MultipleOf
<1>4. QED
  BY <1>1, <1>2, <1>3 DEF q

LEMMA RoundUpIs ==
    ASSUME NEW n \in Nat \ {0}
    PROVE  RoundUp(n) \in Nat \ {0} /\ RoundUp(n) % PAGESIZE = 0 /\ n <= RoundUp(n)
<1> DEFINE a == n + PAGESIZE - 1
           q == a \div PAGESIZE
<1>1. PAGESIZE \in Nat \ {0} /\ a \in Nat
  BY StreamAssumption
<1>2. q \in Nat /\ a < q * PAGESIZE + PAGESIZE
  BY <1>1, Division
<1>3. RoundUp(n) = q * PAGESIZE
  BY DEF RoundUp
<1>4. n = a - PAGESIZE + 1
  BY <1>1
<1> HIDE DEF q, a
<1>5. q * PAGESIZE \in Nat /\ (q * PAGESIZE) % PAGESIZE = 0
  BY <1>1, <1>2, MultipleOf
<1>6. QED
  BY <1>1, <1>2, <1>3, <1>4, <1>5

-----------------------------------------------------------------------------
(* The queue.                                                              *)
Task == [offset : Nat \union {-1}, length : Nat]

LEMMA PillIsTask == Pill \in Task /\ \A x \in Places : ~Covers(Pill, x)
BY DEF Pill, Task, Covers, Places

LEMMA QueueAppend ==
    ASSUME tasks \in Seq(Task), NEW t \in Task, tasks' = Append(tasks, t)
    PROVE  /\ tasks' \in Seq(Task)
           /\ Len(tasks) \in Nat /\ DOMAIN tasks = 1 .. Len(tasks)
           /\ Len(tasks') = Len(tasks) + 1 /\ DOMAIN tasks' = 1 .. Len(tasks) + 1
           /\ \A k \in DOMAIN tasks : tasks'[k] = tasks[k]
           /\ tasks'[Len(tasks) + 1] = t
           /\ \A x : Queued(x)' <=> Queued(x) \/ Covers(t, x)
<1>1. /\ tasks' \in Seq(Task)
      /\ Len(tasks) \in Nat /\ DOMAIN tasks = 1 .. Len(tasks)
      /\ Len(tasks') = Len(tasks) + 1 /\ DOMAIN tasks' = 1 .. Len(tasks) + 1
  OBVIOUS
<1>2. \A k \in DOMAIN tasks : tasks'[k] = tasks[k]
  BY <1>1
<1>3. tasks'[Len(tasks) + 1] = t
  BY <1>1
<1>4. \A k \in DOMAIN tasks' : k \in DOMAIN tasks \/ k = Len(tasks) + 1
  BY <1>1
<1>5. DOMAIN tasks \subseteq DOMAIN tasks' /\ Len(tasks) + 1 \in DOMAIN tasks'
  BY <1>1
<1>6. \A x : Queued(x)' <=> Queued(x) \/ Covers(t, x)
  BY <1>2, <1>3, <1>4, <1>5 DEF Queued, Covers
<1>7. QED
  BY <1>1, <1>2, <1>3, <1>6

LEMMA QueueTail ==
    ASSUME tasks \in Seq(Task), tasks # << >>, tasks' = Tail(tasks)
    PROVE  /\ tasks' \in Seq(Task) /\ Head(tasks) \in Task /\ Head(tasks) = tasks[1]
           /\ Len(tasks) \in Nat \ {0} /\ DOMAIN tasks = 1 .. Len(tasks)
           /\ Len(tasks') = Len(tasks) - 1 /\ DOMAIN tasks' = 1 .. Len(tasks) - 1
           /\ \A k \in DOMAIN tasks' : tasks'[k] = tasks[k + 1] /\ k + 1 \in DOMAIN tasks
           /\ 1 \in DOMAIN tasks
           /\ \A x : Queued(x) <=> Queued(x)' \/ Covers(Head(tasks), x)
<1>1. /\ tasks' \in Seq(Task) /\ Head(tasks) = tasks[1]
      /\ Len(tasks) \in Nat \ {0} /\ DOMAIN tasks = 1 .. Len(tasks)
      /\ Len(tasks') = Len(tasks) - 1 /\ DOMAIN tasks' = 1 .. Len(tasks) - 1
  OBVIOUS
<1>2. \A k \in DOMAIN tasks' : tasks'[k] = tasks[k + 1] /\ k + 1 \in DOMAIN tasks
  BY <1>1
<1>3. \A k \in DOMAIN tasks : k = 1 \/ (k - 1 \in DOMAIN tasks' /\ (k - 1) + 1 = k)
  BY <1>1
<1>4. 1 \in DOMAIN tasks /\ Head(tasks) \in Task
  BY <1>1
<1>5. \A x : Queued(x) => Queued(x)' \/ Covers(Head(tasks), x)
  <2> SUFFICES ASSUME NEW x, NEW k \in DOMAIN tasks, Covers(tasks[k], x), k # 1
               PROVE  Queued(x)'
    BY <1>1 DEF Queued
  <2>1. k - 1 \in DOMAIN tasks' /\ tasks'[k - 1] = tasks[k]
    BY <1>2, <1>3
  <2>2. QED
    BY <2>1 DEF Queued, Covers
<1>6. \A x : Queued(x)' \/ Covers(Head(tasks), x) => Queued(x)
  BY <1>1, <1>2, <1>4 DEF Queued, Covers
<1>7. QED
  BY <1>1, <1>2, <1>4, <1>5, <1>6

-----------------------------------------------------------------------------
(* What a step leaves as it is.                                            *)
LEMMA ArgumentsStay == Arguments /\ UNCHANGED argVars => Arguments'
BY DEF Arguments, argVars

LEMMA ReadsStay ==
    ASSUME Reads, UNCHANGED <<offset, tasks, reading, pc>>, Open' = Open
    PROVE  Reads'
BY DEF Reads, Covers, Queued, Held, Pending

LEMMA CalledStays ==
    ASSUME Called, UNCHANGED argVars,
           UNCHANGED <<calls, window, offset, tasks, reading, cur_partition>>
    PROVE  Called'
BY DEF argVars, Called, HasRun, EdgeAt, File, ActiveSource, InWindow, Pending, Queued, Held, Covers

LEMMA CountsStay ==
    ASSUME Counts, UNCHANGED workerVars
    PROVE  Counts'
BY DEF Counts, Counted, Ran, workerVars

LEMMA GoneIsFinite == IsFiniteSet(Gone) /\ Cardinality(Gone) \in Nat /\ (Cardinality(Gone) = 0 <=> Gone = {})
<1>1. IsFiniteSet(Gone)
  BY StreamAssumption, FS_Subset DEF Gone
<1>2. QED
  BY <1>1, FS_CardinalityType, FS_EmptySet

LEMMA CountedIsFinite ==
    /\ IsFiniteSet(Counted) /\ Cardinality(Counted) \in Nat
    /\ IsFiniteSet(Ran) /\ Cardinality(Ran) \in Nat
<1>1. IsFiniteSet(Workers \X Edges)
  BY StreamAssumption, GraphIsFinite, FS_Product
<1>2. IsFiniteSet(Counted)
  BY <1>1, FS_Subset DEF Counted
<1>3. IsFiniteSet(Ran)
  BY GraphIsFinite, FS_Subset DEF Ran
<1>4. QED
  BY <1>2, <1>3, FS_CardinalityType

LEMMA ParallelismIsNat == parallelism \in Nat /\ parallelism # 0
BY StreamAssumption, FS_CardinalityType, FS_EmptySet DEF parallelism

LEMMA InitInv == Init => IInv
<1> SUFFICES ASSUME Init PROVE IInv
  OBVIOUS
<1> USE DEF Init
<1>1. Arguments
  <2>1. PICK r \in Ratios : partition_batch = set_partition_batch(r)
    OBVIOUS
  <2>2. r \in Nat \ {0} /\ Partitions \in Nat
    BY StreamAssumption
  <2>3. partition_batch \in Nat
    BY <2>1, <2>2, Division DEF set_partition_batch
  <2>4. QED
    BY <2>3 DEF Arguments
<1>2. TypeOK
  <2>1. 0 \in 0 .. parallelism
    BY ParallelismIsNat
  <2>2. QED
    BY <2>1, StreamAssumption DEF TypeOK, Shards
<1>3. Rounds
  BY DEF Rounds, Open
<1>4. Reads
  <2>1. PAGESIZE \in Nat \ {0}
    BY StreamAssumption
  <2>2. offset % PAGESIZE = 0
    BY <2>1
  <2>3. Len(Graph) \in Nat
    BY GraphIsFinite
  <2>4. QED
    BY <2>2, <2>3 DEF Reads, Open, Covers, Queued, Held, Pending, Places
<1>5. Called
  <2>1. \A x \in Places : EdgeAt(x) \in Edges
    BY <1>1, FileInPlaces
  <2>2. \A e \in Edges : PartOf(Source(e)) \in Nat /\ Source(e) \in Nat
    BY PartIsShard, SourceIsVertex DEF Shards
  <2>3. \A x \in Places : ~HasRun(x)
    BY <2>1, <2>2 DEF HasRun, InWindow
  <2>4. QED
    BY <2>1, <2>3 DEF Called
<1>6. Counts
  <2>1. Counted = {} /\ Ran = {}
    BY DEF Counted, Ran
  <2>2. QED
    BY <2>1, FS_EmptySet, GraphIsFinite DEF Counts
<1>7. QED
  BY <1>1, <1>2, <1>3, <1>4, <1>5, <1>6 DEF IInv, Pills, Visited, Open

-----------------------------------------------------------------------------
(* Main's steps.                                                           *)
LEMMA SelectShardsInv == IInv /\ SelectShards => IInv'
<1> SUFFICES ASSUME IInv, SelectShards PROVE IInv'
  OBVIOUS
<1> USE DEF IInv, SelectShards
<1>1. TypeOK'
  BY DEF TypeOK, Access, argVars, workerVars
<1>2. Rounds'
  BY DEF Rounds, Open, Access, argVars, workerVars
<1>3. Reads'
  BY ReadsStay DEF Open, workerVars
<1>4. Called' /\ Counts'
  BY CalledStays, CountsStay DEF workerVars
<1>5. QED
  BY <1>1, <1>2, <1>3, <1>4, ArgumentsStay DEF Pills, Visited, Open

LEMMA OpenWindowInv == IInv /\ OpenWindow => IInv'
<1> SUFFICES ASSUME IInv, OpenWindow PROVE IInv'
  OBVIOUS
<1> USE DEF IInv, OpenWindow
<1>0. Arguments' /\ UNCHANGED <<argVars, should_access_shard, cur_partition, tasks, reading, value, calls>>
  BY ArgumentsStay
<1>1. CASE cur_partition >= Partitions
  <2>1. mainPc' = "returned" /\ UNCHANGED <<window, cells, offset, pills, pc, local_value>>
    BY <1>1
  <2>2. TypeOK'
    BY <1>0, <2>1 DEF TypeOK
  <2>3. Rounds'
    BY <1>0, <1>1, <2>1, StreamAssumption DEF Rounds, Open, TypeOK, Access, argVars
  <2>4. Reads' /\ Called' /\ Counts'
    BY <1>0, <2>1, ReadsStay, CalledStays, CountsStay DEF Open, workerVars
  <2>5. QED
    BY <1>0, <2>1, <2>2, <2>3, <2>4 DEF Pills, Visited, Open
<1>2. CASE ~(cur_partition >= Partitions)
  <2> DEFINE cur == cur_partition
  <2>1. /\ window' = WindowOf(cur) /\ offset' = 0 /\ pills' = 0 /\ mainPc' = "cell"
        /\ cells' = {k \in Round(cur) : should_access_shard[SourceShard(k)]}
        /\ pc' = [w \in Workers |-> "pop"] /\ local_value' = [w \in Workers |-> 0]
    BY <1>2
  <2>2. cur \in 0 .. Partitions - 1 /\ Partitions \in Nat
    BY <1>2, StreamAssumption DEF TypeOK
  <2>3. /\ window' \in [begin : 0 .. Vertices, end : 0 .. Vertices]
        /\ window'.begin <= window'.end
        /\ \A v \in 0 .. Vertices - 1 :
              window'.begin <= v /\ v < window'.end
                 <=> update_mode = 0 \/ (cur <= PartOf(v) /\ PartOf(v) < cur + partition_batch)
    BY <2>1, <2>2, WindowIsRound
  <2>4. tasks = << >> /\ window = [begin |-> 0, end |-> 0]
        /\ \A w \in Workers : pc[w] \in {"none", "exited"}
    BY DEF Rounds, Open
  <2>5. cells' \subseteq Cells
    BY <2>1 DEF Round
  <2>6. TypeOK'
    <3>1. 0 \in 0 .. parallelism
      BY ParallelismIsNat
    <3> HIDE DEF cur
    <3>2. QED
      BY <1>0, <2>1, <2>3, <2>5, <3>1 DEF TypeOK
  <2>7. Rounds'
    BY <1>0, <2>1, <2>2 DEF Rounds, Open, WindowOf, Access, argVars
  <2>8. Reads'
    <3>1. PAGESIZE \in Nat \ {0}
      BY StreamAssumption
    <3>2. offset' % PAGESIZE = 0
      BY <2>1, <3>1
    <3>3. \A w \in Workers : reading[w].at \in Nat /\ reading[w].end \in Nat /\ reading[w].end <= reading[w].at
      BY <2>4 DEF Reads, TypeOK
    <3>4. \A x \in Places : x \in Nat
      BY GraphIsFinite DEF Places
    <3>5. \A w \in Workers, x \in Places : ~Held(w, x)'
      BY <1>0, <3>3, <3>4 DEF Held
    <3>6. \A x \in Places : ~Pending(x)'
      BY <1>0, <2>4, <3>5 DEF Pending, Queued
    <3>7. \A w \in Workers : reading'[w].end <= Len(Graph)
      BY <1>0 DEF Reads
    <3>8. QED
      BY <1>0, <2>1, <2>4, <3>2, <3>3, <3>5, <3>6, <3>7 DEF Reads
  <2>9. Pills'
    <3>1. Gone' = {}
      BY <2>1 DEF Gone
    <3>2. Cardinality(Gone') = 0
      BY <3>1, FS_EmptySet
    <3>3. PillsFrom(0)' /\ 0 \in 0 .. Len(tasks')
      BY <1>0, <2>1, <2>4, <3>1, <3>2 DEF PillsFrom
    <3>4. QED
      BY <2>1, <3>3 DEF Pills
  <2>10. Visited'
    <3>1. \A k \in Cells : Chosen(k)' <=> k \in cells'
      BY <1>0, <2>1 DEF Chosen, Round, SourceShard, argVars
    <3>2. QED
      BY <2>5, <3>1 DEF Visited
  <2>11. Called'
    <3> SUFFICES ASSUME NEW x \in Places PROVE calls[EdgeAt(x)] = IF HasRun(x)' THEN 1 ELSE 0
      BY <1>0 DEF Called, EdgeAt, File, argVars
    <3> DEFINE e == EdgeAt(x)
               p == PartOf(Source(e))
    <3>1. e \in Edges /\ x \in Nat
      BY FileInPlaces, GraphIsFinite DEF Places
    <3>2. p \in 0 .. Partitions - 1 /\ Source(e) \in 0 .. Vertices - 1
      BY <3>1, PartIsShard, SourceIsVertex DEF Shards
    <3>3. e' = e
      BY <1>0 DEF EdgeAt, File, argVars
    <3>4. HasRun(x) <=> ActiveSource(e) /\ p < cur
      <4>1. ~InWindow(e)
        BY <2>4, <3>2 DEF InWindow
      <4>2. QED
        BY <4>1 DEF HasRun
    <3>5. HasRun(x)' <=> ActiveSource(e) /\ ~InWindow(e)' /\ p < cur
      <4>1. ~(x < offset')
        BY <2>1, <3>1
      <4>2. ActiveSource(e)' <=> ActiveSource(e)
        BY <1>0, <3>3 DEF ActiveSource, argVars
      <4> HIDE DEF e
      <4>3. HasRun(x)' <=> ActiveSource(e)' /\ IF InWindow(e)' THEN x < offset' /\ ~Pending(x)'
                                              ELSE PartOf(Source(e)) < cur_partition'
        BY <3>3 DEF HasRun, e, ActiveSource, InWindow
      <4>4. CASE InWindow(e)'
        BY <4>1, <4>3, <4>4
      <4>5. CASE ~InWindow(e)'
        BY <1>0, <4>2, <4>3, <4>5
      <4>6. QED
        BY <4>4, <4>5
    <3>6. InWindow(e)' => ~(p < cur)
      <4>1. InWindow(e)' <=> update_mode = 0 \/ (cur <= p /\ p < cur + partition_batch)
        BY <2>3, <3>2, <3>3 DEF InWindow
      <4>2. update_mode = 0 => cur = 0
        BY <2>2 DEF Rounds
      <4> HIDE DEF p
      <4>3. QED
        BY <2>2, <3>2, <4>1, <4>2
    <3>7. calls[e] = IF HasRun(x) THEN 1 ELSE 0
      BY DEF Called
    <3>8. QED
      BY <3>4, <3>5, <3>6, <3>7
  <2>12. Counts'
    <3>1. Counted = {}
      BY <2>4 DEF Counted
    <3>2. Counted' = {}
      BY <2>1 DEF Counted, Edges
    <3>3. Ran' = Ran
      BY <1>0 DEF Ran
    <3>4. QED
      BY <1>0, <2>1, <3>1, <3>2, <3>3, GraphIsFinite DEF Counts
  <2>13. QED
    BY <1>0, <2>6, <2>7, <2>8, <2>9, <2>10, <2>11, <2>12
<1>3. QED
  BY <1>1, <1>2

(* A skipped place is in no chosen cell, so nothing is lost by skipping.   *)
LEMMA WantedIsChosen ==
    ASSUME IInv, Open, NEW x \in Places, ActiveSource(EdgeAt(x)), InWindow(EdgeAt(x))
    PROVE  Chosen(CellOf(EdgeAt(x))) /\ CellOf(EdgeAt(x)) \in Cells
<1> DEFINE e == EdgeAt(x)
           k == CellOf(e)
           p == PartOf(Source(e))
<1> USE DEF IInv
<1>1. e \in Edges
  BY FileInPlaces
<1>2. k \in Cells /\ SourceShard(k) = p
  BY <1>1, CellOfEdge
<1>3. p \in Shards /\ Source(e) \in 0 .. Vertices - 1
  BY <1>1, PartIsShard, SourceIsVertex
<1>4. cur_partition \in 0 .. Partitions - 1 /\ window = WindowOf(cur_partition)
  BY StreamAssumption DEF Rounds, TypeOK
<1>5. update_mode = 0 \/ (cur_partition <= p /\ p < cur_partition + partition_batch)
  BY <1>3, <1>4, WindowIsRound DEF InWindow
<1>6. should_access_shard[p]
  BY <1>1, <1>3, ActiveShardIsRead DEF Rounds, Open
<1>7. QED
  BY <1>2, <1>5, <1>6 DEF Chosen, Round

\* A wanted place that has not been passed is in a cell to come.
LEMMA WantedIsAhead ==
    ASSUME IInv, Open, NEW x \in Places, ActiveSource(EdgeAt(x)), InWindow(EdgeAt(x)), offset <= x
    PROVE  CellOf(EdgeAt(x)) \in cells /\ OffsetOf(CellOf(EdgeAt(x))) <= x
<1> DEFINE k == CellOf(EdgeAt(x))
<1>1. Chosen(k) /\ k \in Cells
  BY WantedIsChosen
<1>2. OffsetOf(k) <= x /\ x < OffsetOf(k + 1) /\ OffsetOf(k + 1) \in Nat
  BY <1>1, CellInPlaces, GraphIsFinite DEF IInv
<1> HIDE DEF k
<1>3. x \in Nat /\ offset \in Nat
  BY GraphIsFinite DEF Places, IInv, TypeOK
<1>4. ~(OffsetOf(k + 1) <= offset)
  BY <1>2, <1>3
<1>5. QED
  BY <1>1, <1>2, <1>4 DEF IInv, Visited, k

LEMMA EnterCellInv == ASSUME IInv, NEW k \in cells, EnterCell(k) PROVE IInv'
<1> DEFINE b == OffsetOf(k)
           start == IF b - offset >= PAGESIZE THEN (b \div PAGESIZE) * PAGESIZE ELSE offset
<1> USE DEF IInv
<1>1. /\ mainPc = "cell" /\ IsNext(k) /\ offset' = start
      /\ (cells' = cells \ {k} /\ mainPc' = "cell" /\ OffsetOf(k + 1) <= start)
         \/ (cells' = cells /\ mainPc' = "tasks")
      /\ UNCHANGED <<argVars, should_access_shard, cur_partition, window, pills, tasks, workerVars>>
  BY DEF EnterCell
<1>2. k \in Cells /\ b \in Nat /\ offset \in Nat /\ offset % PAGESIZE = 0
  BY CellInPlaces, GraphIsFinite DEF TypeOK, Reads
<1>3. start \in Nat /\ start % PAGESIZE = 0 /\ offset <= start /\ (start = offset \/ start <= b)
  BY <1>2, PageStart
<1> HIDE DEF start, b
<1>4. Open /\ Open' /\ UNCHANGED workerVars /\ UNCHANGED argVars
  BY <1>1 DEF Open
<1>5. TypeOK'
  BY <1>1, <1>3 DEF TypeOK, workerVars
<1>6. Rounds'
  BY <1>1, <1>4 DEF Rounds, Open, WindowOf, Access, argVars, workerVars
<1>7. \A x \in Places : x \in Nat
  BY GraphIsFinite DEF Places
<1>8. Reads'
  <2>1. \A x \in Places : (Queued(x)' <=> Queued(x)) /\ (Pending(x)' <=> Pending(x))
                          /\ \A w \in Workers : Held(w, x)' <=> Held(w, x)
    BY <1>1 DEF Queued, Pending, Held, Covers, workerVars
  <2>2. \A x \in Places : x < offset => x < start
    BY <1>2, <1>3, <1>7
  <2>3. QED
    BY <1>1, <1>3, <1>4, <2>1, <2>2 DEF Reads, workerVars
<1>9. Pills'
  <2>1. pills = 0
    BY <1>4 DEF Pills, TypeOK, parallelism
  <2>2. QED
    BY <1>1, <1>4, <2>1 DEF Pills, PillsFrom, Gone, workerVars
<1>10. Visited'
  <2>1. \A l : Chosen(l)' <=> Chosen(l)
    BY <1>1 DEF Chosen, Round, SourceShard, argVars
  <2>2. \A l : OffsetOf(l)' = OffsetOf(l)
    BY <1>1 DEF OffsetOf, argVars
  <2>3. \A l \in Cells : OffsetOf(l + 1) \in Nat
    BY CellInPlaces, GraphIsFinite
  <2>4. \A l \in Cells : OffsetOf(l + 1) <= offset => OffsetOf(l + 1) <= start
    BY <1>2, <1>3, <2>3
  <2>5. QED
    BY <1>1, <1>4, <2>1, <2>2, <2>4 DEF Visited
<1>11. Called'
  <2> SUFFICES ASSUME NEW x \in Places PROVE HasRun(x)' <=> HasRun(x)
    BY <1>1 DEF Called, EdgeAt, File, argVars, workerVars
  <2> DEFINE e == EdgeAt(x)
  <2>1. ActiveSource(e) /\ InWindow(e) => (x < start <=> x < offset)
    <3> SUFFICES ASSUME ActiveSource(e), InWindow(e), offset <= x, x < start PROVE FALSE
      BY <1>2, <1>3, <1>7
    <3>1. CellOf(e) \in cells /\ OffsetOf(CellOf(e)) <= x
      BY <1>4, WantedIsAhead
    <3>2. k <= CellOf(e) /\ CellOf(e) \in Cells
      BY <1>1, <3>1 DEF IsNext, TypeOK
    <3>3. b <= OffsetOf(CellOf(e)) /\ OffsetOf(CellOf(e)) \in Nat
      BY <1>2, <3>2, CellInPlaces, GraphIsFinite DEF b
    <3>4. start <= b
      BY <1>2, <1>3, <1>7
    <3>5. QED
      BY <1>2, <1>3, <1>7, <3>1, <3>3, <3>4
  <2>2. e' = e /\ (ActiveSource(e)' <=> ActiveSource(e)) /\ (InWindow(e)' <=> InWindow(e))
        /\ (Pending(x)' <=> Pending(x))
    BY <1>1 DEF EdgeAt, File, ActiveSource, InWindow, Pending, Queued, Held, Covers, argVars, workerVars
  <2>3. HasRun(x)' <=> ActiveSource(e)' /\ IF InWindow(e)' THEN x < offset' /\ ~Pending(x)'
                                              ELSE PartOf(Source(e)) < cur_partition'
    BY <1>1 DEF HasRun, EdgeAt, File, ActiveSource, InWindow, argVars
  <2> HIDE DEF e
  <2>4. HasRun(x) <=> ActiveSource(e) /\ IF InWindow(e) THEN x < offset /\ ~Pending(x)
                                         ELSE PartOf(Source(e)) < cur_partition
    BY DEF HasRun, e
  <2>5. QED
    BY <1>1, <2>1, <2>2, <2>3, <2>4
<1>12. QED
  BY <1>4, <1>5, <1>6, <1>8, <1>9, <1>10, <1>11, ArgumentsStay, CountsStay

LEMMA NextRead ==
    ASSUME IInv, NEW k \in cells, OffsetOf(k + 1) > offset
    PROVE  LET length == IF OffsetOf(k + 1) - offset >= IOSIZE THEN IOSIZE
                         ELSE RoundUp(OffsetOf(k + 1) - offset)
           IN  /\ length \in Nat \ {0} /\ offset \in Nat
               /\ offset + length \in Nat /\ (offset + length) % PAGESIZE = 0
               /\ IsRead([offset |-> offset, length |-> length])
<1> DEFINE n == OffsetOf(k + 1) - offset
           length == IF n >= IOSIZE THEN IOSIZE ELSE RoundUp(n)
<1>1. OffsetOf(k + 1) \in 0 .. Len(Graph) /\ offset \in Nat /\ offset % PAGESIZE = 0
  BY CellInPlaces DEF IInv, TypeOK, Reads
<1>2. n \in Nat \ {0} /\ offset < Len(Graph)
  BY <1>1, GraphIsFinite
<1> HIDE DEF n
<1>3. IOSIZE \in Nat \ {0} /\ IOSIZE % PAGESIZE = 0 /\ PAGESIZE \in Nat \ {0}
  BY StreamAssumption
<1>4. length \in Nat \ {0} /\ length % PAGESIZE = 0
  BY <1>2, <1>3, RoundUpIs
<1> HIDE DEF length
<1>5. offset + length \in Nat /\ (offset + length) % PAGESIZE = 0
  <2>1. length \in Nat /\ length % PAGESIZE = 0 /\ offset \in Nat
    BY <1>1, <1>4
  <2>2. (offset + length) % PAGESIZE = 0
    BY <1>1, <1>3, <2>1, SumOfMultiples
  <2>3. QED
    BY <2>1, <2>2
<1>6. IsRead([offset |-> offset, length |-> length])
  BY <1>1, <1>2, <1>4 DEF IsRead
<1>7. QED
  BY <1>1, <1>4, <1>5, <1>6 DEF length, n

LEMMA PushTaskInv == ASSUME IInv, NEW k \in cells, PushTask(k) PROVE IInv'
<1> DEFINE end_offset == OffsetOf(k + 1)
           length == IF end_offset - offset >= IOSIZE THEN IOSIZE ELSE RoundUp(end_offset - offset)
           t == [offset |-> offset, length |-> length]
<1> USE DEF IInv
<1>1. /\ mainPc = "tasks" /\ IsNext(k)
      /\ UNCHANGED <<argVars, should_access_shard, cur_partition, window, pills, workerVars>>
  BY DEF PushTask
<1>2. Open /\ UNCHANGED workerVars /\ UNCHANGED argVars /\ pills = 0
  BY <1>1 DEF Open, Pills, TypeOK, parallelism
<1>3. CASE end_offset > offset
  <2>1. /\ Len(tasks) < TaskCapacity /\ tasks' = Append(tasks, t)
        /\ offset' = offset + length /\ UNCHANGED <<cells, mainPc>>
    BY <1>3 DEF PushTask
  <2>2. /\ length \in Nat \ {0} /\ offset \in Nat /\ offset + length \in Nat
        /\ (offset + length) % PAGESIZE = 0 /\ IsRead(t)
    BY <1>3, NextRead
  <2> HIDE DEF length, end_offset
  <2>3. t \in Task /\ t # Pill /\ t.offset = offset /\ t.length = length
    BY <2>2 DEF Task, Pill
  <2> HIDE DEF t
  <2>4. tasks \in Seq(Task) /\ Len(tasks) \in Nat /\ DOMAIN tasks = 1 .. Len(tasks)
    BY DEF TypeOK, Task
  <2>5. /\ tasks' \in Seq(Task)
        /\ Len(tasks') = Len(tasks) + 1 /\ DOMAIN tasks' = 1 .. Len(tasks) + 1
        /\ \A j \in DOMAIN tasks : tasks'[j] = tasks[j]
        /\ tasks'[Len(tasks) + 1] = t
        /\ \A x : Queued(x)' <=> Queued(x) \/ Covers(t, x)
    BY <2>1, <2>3, <2>4, QueueAppend
  <2>6. \A x \in Places : x \in Nat
    BY GraphIsFinite DEF Places
  <2>7. \A x \in Places : Covers(t, x) <=> offset <= x /\ x < offset'
    BY <2>1, <2>3 DEF Covers
  <2>8. \A x \in Places : (Pending(x)' <=> Pending(x) \/ Covers(t, x))
                          /\ \A w \in Workers : Held(w, x)' <=> Held(w, x)
    BY <1>2, <2>5 DEF Pending, Held, workerVars
  <2>9. TypeOK'
    <3>1. Len(tasks') <= TaskCapacity
      BY <2>1, <2>4, <2>5, StreamAssumption
    <3>2. QED
      BY <1>1, <1>2, <2>1, <2>2, <2>5, <3>1 DEF TypeOK, Task, workerVars
  <2>10. Rounds'
    BY <1>1, <1>2, <2>1 DEF Rounds, Open, WindowOf, Access, argVars, workerVars
  <2>11. Reads'
    <3>1. \A j \in DOMAIN tasks' : tasks'[j] = Pill \/ IsRead(tasks'[j])
      BY <2>2, <2>4, <2>5 DEF Reads
    <3>2. \A j \in DOMAIN tasks, x \in Places : Covers(tasks[j], x) => x < offset
      BY DEF Reads, Pending, Queued
    <3>3. ASSUME NEW i \in DOMAIN tasks', NEW j \in DOMAIN tasks', NEW x \in Places,
                 Covers(tasks'[i], x), Covers(tasks'[j], x)
          PROVE  i = j
      <4>1. \A l \in DOMAIN tasks' : l \in DOMAIN tasks \/ l = Len(tasks) + 1
        BY <2>4, <2>5
      <4>2. CASE i \in DOMAIN tasks /\ j \in DOMAIN tasks
        BY <2>5, <3>3, <4>2 DEF Reads
      <4>3. CASE i \in DOMAIN tasks /\ j = Len(tasks) + 1
        BY <2>2, <2>5, <2>6, <2>7, <3>2, <3>3, <4>3
      <4>4. CASE i = Len(tasks) + 1 /\ j \in DOMAIN tasks
        BY <2>2, <2>5, <2>6, <2>7, <3>2, <3>3, <4>4
      <4>5. QED
        BY <4>1, <4>2, <4>3, <4>4
    <3>4. \A w \in Workers, x \in Places : Held(w, x) => ~Covers(t, x)
      BY <2>2, <2>6, <2>7 DEF Reads, Pending
    <3>5. \A x \in Places : Pending(x)' => x < offset'
      <4>1. \A x \in Places : x < offset => x < offset'
        BY <2>1, <2>2, <2>6
      <4>2. QED
        BY <2>7, <2>8, <4>1 DEF Reads
    <3>6. Open'
      BY <1>1, <2>1 DEF Open
    <3>7. \A w \in Workers, x \in Places : Held(w, x)' => ~Queued(x)'
      BY <2>5, <2>8, <3>4 DEF Reads
    <3>8. \A w, v \in Workers, x \in Places : Held(w, x)' /\ Held(v, x)' => w = v
      BY <2>8 DEF Reads
    <3>9. QED
      BY <1>2, <2>1, <2>2, <3>1, <3>3, <3>5, <3>6, <3>7, <3>8 DEF Reads, workerVars
  <2>12. Pills'
    <3>1. PICK m \in 0 .. Len(tasks) : PillsFrom(m)
      BY <1>2 DEF Pills
    <3>2. m = Len(tasks) /\ Cardinality(Gone) = 0
      <4>1. pills = (Len(tasks) - m) + Cardinality(Gone)
        BY <3>1 DEF PillsFrom
      <4>2. m \in Nat /\ m <= Len(tasks)
        BY <2>4
      <4>3. Cardinality(Gone) \in Nat
        BY GoneIsFinite
      <4>4. Len(tasks) \in Nat /\ pills = 0
        BY <1>2, <2>4
      <4>5. QED
        BY <4>1, <4>2, <4>3, <4>4
    <3>3. Gone' = Gone /\ Gone = {}
      BY <1>2, <3>2, GoneIsFinite DEF Gone, workerVars
    <3>4. PillsFrom(m + 1)'
      <4>1. \A j \in DOMAIN tasks : tasks[j] # Pill
        BY <2>4, <3>1, <3>2 DEF PillsFrom
      <4>2. \A j \in DOMAIN tasks' : tasks'[j] # Pill
        BY <2>3, <2>4, <2>5, <4>1
      <4>3. pills' = (Len(tasks') - (m + 1)) + Cardinality(Gone')
        BY <1>1, <1>2, <2>4, <2>5, <3>2, <3>3
      <4>4. \A j \in DOMAIN tasks' : ~(j > m + 1)
        BY <2>4, <2>5, <3>2
      <4>5. \A j \in DOMAIN tasks' : tasks'[j] = Pill <=> j > m + 1
        BY <4>2, <4>4
      <4>6. QED
        BY <3>3, <4>3, <4>5 DEF PillsFrom
    <3>5. m + 1 \in 0 .. Len(tasks')
      BY <2>4, <2>5, <3>2
    <3>6. ~(pills' > 0)
      BY <1>1, <1>2
    <3>7. QED
      BY <3>4, <3>5, <3>6 DEF Pills
  <2>13. Visited'
    <3>1. \A l : (Chosen(l)' <=> Chosen(l)) /\ OffsetOf(l)' = OffsetOf(l)
      BY <1>1 DEF Chosen, Round, SourceShard, OffsetOf, argVars
    <3>2. \A l \in Cells : OffsetOf(l + 1) \in Nat
      BY CellInPlaces, GraphIsFinite
    <3>3. \A l \in Cells : OffsetOf(l + 1) <= offset => OffsetOf(l + 1) <= offset'
      BY <2>1, <2>2, <3>2
    <3>4. QED
      BY <1>2, <2>1, <3>1, <3>3 DEF Visited
  <2>14. Called'
    <3> SUFFICES ASSUME NEW x \in Places PROVE HasRun(x)' <=> HasRun(x)
      BY <1>1 DEF Called, EdgeAt, File, argVars, workerVars
    <3>1. x < offset' /\ ~Pending(x)' <=> x < offset /\ ~Pending(x)
      BY <2>1, <2>2, <2>6, <2>7, <2>8
    <3>2. QED
      BY <1>1, <3>1 DEF HasRun, EdgeAt, File, ActiveSource, InWindow, argVars
  <2>15. QED
    BY <1>2, <2>9, <2>10, <2>11, <2>12, <2>13, <2>14, ArgumentsStay, CountsStay
<1>4. CASE ~(end_offset > offset)
  <2>1. cells' = cells \ {k} /\ mainPc' = "cell" /\ UNCHANGED <<tasks, offset>>
    BY <1>4 DEF PushTask
  <2>2. Open'
    BY <2>1 DEF Open
  <2>3. TypeOK'
    BY <1>1, <2>1 DEF TypeOK, workerVars
  <2>4. Rounds'
    BY <1>1, <1>2, <2>1, <2>2 DEF Rounds, WindowOf, Access, argVars, workerVars
  <2>5. Reads' /\ Called' /\ Counts'
    BY <1>1, <1>2, <2>1, <2>2, ReadsStay, CalledStays, CountsStay DEF workerVars
  <2>6. Pills'
    BY <1>1, <1>2, <2>1, <2>2 DEF Pills, PillsFrom, Gone, workerVars
  <2>7. Visited'
    <3>1. \A l : (Chosen(l)' <=> Chosen(l)) /\ OffsetOf(l)' = OffsetOf(l)
      BY <1>1 DEF Chosen, Round, SourceShard, OffsetOf, argVars
    <3>2. end_offset <= offset
      BY <1>4, CellInPlaces, GraphIsFinite DEF TypeOK
    <3>3. QED
      BY <1>2, <2>1, <3>1, <3>2 DEF Visited
  <2>8. QED
    BY <1>2, <2>3, <2>4, <2>5, <2>6, <2>7, ArgumentsStay
<1>5. QED
  BY <1>3, <1>4

LEMMA PushPillInv == IInv /\ PushPill => IInv'
<1> SUFFICES ASSUME IInv, PushPill PROVE IInv'
  OBVIOUS
<1> USE DEF IInv
<1>1. /\ mainPc = "cell" /\ cells = {} /\ pills < parallelism /\ Len(tasks) < TaskCapacity
      /\ tasks' = Append(tasks, Pill) /\ pills' = pills + 1
      /\ UNCHANGED <<argVars, should_access_shard, mainPc, cur_partition, window,
                     cells, offset, workerVars>>
  BY DEF PushPill
<1>2. Open /\ Open' /\ UNCHANGED workerVars /\ UNCHANGED argVars
  BY <1>1 DEF Open
<1>3. tasks \in Seq(Task) /\ Len(tasks) \in Nat /\ DOMAIN tasks = 1 .. Len(tasks)
  BY DEF TypeOK, Task
<1>4. /\ tasks' \in Seq(Task)
      /\ Len(tasks') = Len(tasks) + 1 /\ DOMAIN tasks' = 1 .. Len(tasks) + 1
      /\ \A j \in DOMAIN tasks : tasks'[j] = tasks[j]
      /\ tasks'[Len(tasks) + 1] = Pill
      /\ \A x : Queued(x)' <=> Queued(x) \/ Covers(Pill, x)
  BY <1>1, <1>3, PillIsTask, QueueAppend
<1>5. \A x \in Places : (Queued(x)' <=> Queued(x)) /\ (Pending(x)' <=> Pending(x))
                        /\ \A w \in Workers : Held(w, x)' <=> Held(w, x)
  BY <1>2, <1>4, PillIsTask DEF Pending, Held, workerVars
<1>6. TypeOK'
  <2>1. Len(tasks') <= TaskCapacity
    BY <1>1, <1>3, <1>4, StreamAssumption
  <2>2. pills' \in 0 .. parallelism
    BY <1>1, ParallelismIsNat DEF TypeOK
  <2>3. QED
    BY <1>1, <1>4, <2>1, <2>2 DEF TypeOK, Task, workerVars
<1>7. Rounds'
  BY <1>1, <1>2 DEF Rounds, WindowOf, Access, argVars, workerVars
<1>8. Reads'
  <2>1. \A j \in DOMAIN tasks' : j \in DOMAIN tasks \/ j = Len(tasks) + 1
    BY <1>3, <1>4
  <2>2. \A j \in DOMAIN tasks' : tasks'[j] = Pill \/ IsRead(tasks'[j])
    BY <1>4, <2>1 DEF Reads
  <2>3. \A i, j \in DOMAIN tasks', x \in Places :
           Covers(tasks'[i], x) /\ Covers(tasks'[j], x) => i = j
    BY <1>4, <2>1, PillIsTask DEF Reads
  <2>4. QED
    BY <1>1, <1>2, <1>5, <2>2, <2>3 DEF Reads, workerVars
<1>9. Pills'
  <2>1. PICK m \in 0 .. Len(tasks) : PillsFrom(m)
    BY <1>2 DEF Pills
  <2>2. Gone' = Gone
    BY <1>2 DEF Gone, workerVars
  <2>3. PillsFrom(m)'
    BY <1>1, <1>3, <1>4, <2>1, <2>2, GoneIsFinite DEF PillsFrom, TypeOK
  <2>4. QED
    BY <1>1, <1>3, <1>4, <2>1, <2>3 DEF Pills
<1>10. Visited'
  BY <1>1, <1>2 DEF Visited, Chosen, Round, SourceShard, OffsetOf, argVars
<1>11. Called'
  BY <1>1, <1>5 DEF Called, HasRun, EdgeAt, File, ActiveSource, InWindow, argVars, workerVars
<1>12. QED
  BY <1>2, <1>6, <1>7, <1>8, <1>9, <1>10, <1>11, ArgumentsStay, CountsStay

\* When the workers have joined, the queue is empty and nothing is pending.
LEMMA JoinedIsEmpty ==
    ASSUME IInv, Open, pills = parallelism, \A w \in Workers : pc[w] = "exited"
    PROVE  tasks = << >> /\ \A x \in Places : ~Pending(x)
<1>1. PICK m \in 0 .. Len(tasks) : PillsFrom(m)
  BY DEF IInv, Pills
<1>2. Gone = Workers
  BY DEF Gone
<1>3. Gone # {} /\ pills = Cardinality(Gone)
  BY <1>2, StreamAssumption DEF parallelism
<1>4. Len(tasks) = 0
  <2>1. tasks \in Seq(Task) /\ Len(tasks) \in Nat
    BY DEF IInv, TypeOK, Task
  <2>2. QED
    BY <1>1, <1>3, <2>1, GoneIsFinite DEF PillsFrom
<1>5. tasks = << >> /\ DOMAIN tasks = {}
  BY <1>4 DEF IInv, TypeOK
<1>6. \A w \in Workers : reading[w].at \in Nat /\ reading[w].end \in Nat
                         /\ reading[w].end <= reading[w].at
  BY DEF IInv, Reads, TypeOK
<1>7. \A x \in Places : x \in Nat
  BY GraphIsFinite DEF Places
<1>8. \A w \in Workers, x \in Places : ~Held(w, x)
  BY <1>6, <1>7 DEF Held
<1>9. QED
  BY <1>5, <1>8 DEF Pending, Queued

LEMMA CloseWindowInv == IInv /\ CloseWindow => IInv'
<1> SUFFICES ASSUME IInv, CloseWindow PROVE IInv'
  OBVIOUS
<1> USE DEF IInv
<1>1. /\ mainPc = "cell" /\ cells = {} /\ pills = parallelism /\ \A w \in Workers : pc[w] = "exited"
      /\ window' = [begin |-> 0, end |-> 0] /\ mainPc' = "window"
      /\ cur_partition' = IF update_mode = 0 THEN Partitions ELSE cur_partition + partition_batch
      /\ UNCHANGED <<argVars, should_access_shard, cells, offset, pills, tasks, workerVars>>
  BY DEF CloseWindow
<1>2. Open /\ ~Open' /\ UNCHANGED workerVars /\ UNCHANGED argVars
  BY <1>1 DEF Open
<1>3. tasks = << >> /\ \A x \in Places : ~Pending(x)
  BY <1>1, <1>2, JoinedIsEmpty
<1>4. /\ Partitions \in Nat /\ Vertices \in Nat /\ partition_batch \in Nat /\ cur_partition \in Nat
      /\ update_mode \in {0, 1} /\ cur_partition \in 0 .. Partitions - 1
      /\ window = WindowOf(cur_partition)
  BY <1>2, StreamAssumption DEF Arguments, TypeOK, Rounds
<1>5. TypeOK'
  BY <1>1, <1>4 DEF TypeOK, workerVars
<1>6. Rounds'
  BY <1>1, <1>2, <1>3, <1>4 DEF Rounds, Open, Access, argVars, workerVars
<1>7. Reads'
  BY <1>1, <1>2, <1>3 DEF Reads, Pending, Queued, Held, Covers, workerVars
<1>8. Called'
  <2> SUFFICES ASSUME NEW x \in Places PROVE HasRun(x)' <=> HasRun(x)
    BY <1>1 DEF Called, EdgeAt, File, argVars, workerVars
  <2> DEFINE e == EdgeAt(x)
             p == PartOf(Source(e))
  <2>1. e \in Edges
    BY FileInPlaces
  <2>2. p \in 0 .. Partitions - 1 /\ Source(e) \in 0 .. Vertices - 1
    BY <2>1, PartIsShard, SourceIsVertex DEF Shards
  <2>3. InWindow(e) <=> update_mode = 0 \/ (cur_partition <= p /\ p < cur_partition + partition_batch)
    BY <1>4, <2>2, WindowIsRound DEF InWindow
  <2>4. ActiveSource(e) /\ InWindow(e) => x < offset /\ ~Pending(x)
    <3>1. x \in Nat /\ offset \in Nat
      BY GraphIsFinite DEF Places, TypeOK
    <3>2. ActiveSource(e) /\ InWindow(e) => ~(offset <= x)
      BY <1>1, <1>2, WantedIsAhead
    <3>3. QED
      BY <1>3, <3>1, <3>2
  <2>5. HasRun(x)' <=> ActiveSource(e) /\ p < cur_partition'
    <3>1. HasRun(x)' <=> ActiveSource(e) /\ IF InWindow(e)' THEN x < offset' /\ ~Pending(x)'
                                            ELSE p < cur_partition'
      BY <1>2 DEF HasRun, EdgeAt, File, ActiveSource, InWindow, argVars
    <3>2. e' = e
      BY <1>2 DEF EdgeAt, File, argVars
    <3>3. ~InWindow(e)'
      BY <1>1, <2>2, <3>2 DEF InWindow
    <3>4. QED
      BY <3>1, <3>3
  <2>6. HasRun(x) <=> ActiveSource(e) /\ IF InWindow(e) THEN x < offset /\ ~Pending(x)
                                         ELSE p < cur_partition
    BY DEF HasRun
  <2> HIDE DEF e, p
  <2>7. IF InWindow(e) THEN p < cur_partition' ELSE (p < cur_partition' <=> p < cur_partition)
    BY <1>1, <1>4, <2>2, <2>3
  <2>8. QED
    BY <2>4, <2>5, <2>6, <2>7
<1>9. QED
  BY <1>2, <1>5, <1>6, <1>7, <1>8, ArgumentsStay, CountsStay DEF Pills, Visited

-----------------------------------------------------------------------------
(* The workers' steps.                                                     *)

\* What main alone decides, and what a worker's step leaves as it is.
LEMMA MainVarsStay ==
    ASSUME IInv, UNCHANGED <<argVars, mainVars>>
    PROVE  /\ Arguments' /\ Visited' /\ Open' = Open
           /\ window' = window /\ offset' = offset /\ cur_partition' = cur_partition
           /\ \A x : EdgeAt(x)' = EdgeAt(x)
           /\ \A e : (InWindow(e)' <=> InWindow(e)) /\ (ActiveSource(e)' <=> ActiveSource(e))
<1> USE DEF argVars, mainVars, IInv
<1>1. Arguments'
  BY ArgumentsStay
<1>2. Open' = Open
  BY DEF Open
<1>3. Visited'
  BY <1>2 DEF Visited, Chosen, Round, SourceShard, OffsetOf
<1>4. QED
  BY <1>1, <1>2, <1>3 DEF EdgeAt, File, InWindow, ActiveSource

\* A worker runs only while a window is open.
LEMMA WorkerIsInside ==
    ASSUME IInv, NEW w \in Workers, pc[w] \notin {"none", "exited"}
    PROVE  Open
BY DEF IInv, Rounds

LEMMA RoundsStay ==
    ASSUME IInv, Open, UNCHANGED <<argVars, mainVars>>
    PROVE  Rounds'
BY DEF IInv, Rounds, Open, WindowOf, Access, argVars, mainVars

LEMMA PopInv == ASSUME IInv, NEW w \in Workers, Pop(w) PROVE IInv'
<1> USE DEF IInv
<1>1. /\ pc[w] = "pop" /\ tasks # << >> /\ tasks' = Tail(tasks)
      /\ UNCHANGED <<argVars, mainVars, local_value, value, calls>>
  BY DEF Pop
<1>2. UNCHANGED <<argVars, mainVars>> /\ UNCHANGED <<local_value, value, calls>>
  BY <1>1
<1>3. /\ Arguments' /\ Visited' /\ Open' = Open
      /\ window' = window /\ offset' = offset /\ cur_partition' = cur_partition
      /\ \A x : EdgeAt(x)' = EdgeAt(x)
      /\ \A e : (InWindow(e)' <=> InWindow(e)) /\ (ActiveSource(e)' <=> ActiveSource(e))
  BY <1>2, MainVarsStay
<1>4. Open
  BY <1>1, WorkerIsInside
<1>5. Rounds'
  BY <1>2, <1>4, RoundsStay
<1>6. /\ tasks' \in Seq(Task) /\ Head(tasks) \in Task /\ Head(tasks) = tasks[1]
      /\ Len(tasks) \in Nat \ {0} /\ DOMAIN tasks = 1 .. Len(tasks)
      /\ Len(tasks') = Len(tasks) - 1 /\ DOMAIN tasks' = 1 .. Len(tasks) - 1
      /\ \A k \in DOMAIN tasks' : tasks'[k] = tasks[k + 1] /\ k + 1 \in DOMAIN tasks
      /\ 1 \in DOMAIN tasks
      /\ \A x : Queued(x) <=> Queued(x)' \/ Covers(Head(tasks), x)
  BY <1>1, QueueTail DEF TypeOK, Task
<1> DEFINE t == Head(tasks)
<1>7. Len(tasks') <= TaskCapacity
  BY <1>6, StreamAssumption DEF TypeOK
<1>8. \A x \in Places : x \in Nat
  BY GraphIsFinite DEF Places
<1>9. PICK m \in 0 .. Len(tasks) : PillsFrom(m)
  BY <1>4 DEF Pills
<1>10. \A v \in Workers : pc[v] \notin {"none", "exited"} <=> pc'[v] \notin {"none", "exited"}
  BY <1>1 DEF Pop, TypeOK
<1>11. Counts'
  <2>1. Counted' = Counted /\ Ran' = Ran
    BY <1>2, <1>10 DEF Counted, Ran
  <2>2. QED
    BY <1>2, <2>1 DEF Counts
<1>12. \A k \in DOMAIN tasks' : tasks'[k] = Pill \/ IsRead(tasks'[k])
  BY <1>6 DEF Reads
<1>13. \A j, k \in DOMAIN tasks', x \in Places :
          Covers(tasks'[j], x) /\ Covers(tasks'[k], x) => j = k
  <2> SUFFICES ASSUME NEW j \in DOMAIN tasks', NEW k \in DOMAIN tasks', NEW x \in Places,
                      Covers(tasks'[j], x), Covers(tasks'[k], x)
               PROVE  j = k
    OBVIOUS
  <2>1. j + 1 = k + 1
    BY <1>6 DEF Reads
  <2>2. QED
    BY <1>6, <2>1
<1>14. \A x \in Places : Covers(t, x) => ~Queued(x)'
  <2> SUFFICES ASSUME NEW x \in Places, NEW k \in DOMAIN tasks', Covers(t, x), Covers(tasks'[k], x)
               PROVE  FALSE
    BY DEF Queued, Covers
  <2>1. k + 1 = 1
    BY <1>6 DEF Reads
  <2>2. QED
    BY <1>6, <2>1
<1>15. CASE t = Pill
  <2>1. pc' = [pc EXCEPT ![w] = "add"] /\ reading' = reading
    BY <1>15 DEF Pop
  <2>2. TypeOK'
    BY <1>2, <1>6, <1>7, <2>1 DEF TypeOK, Task, mainVars
  <2>3. \A x \in Places : Queued(x)' <=> Queued(x)
    BY <1>6, <1>15, PillIsTask
  <2>4. \A x \in Places : (Pending(x)' <=> Pending(x)) /\ \A v \in Workers : Held(v, x)' <=> Held(v, x)
    BY <2>1, <2>3 DEF Pending, Held
  <2>5. Reads'
    <3>1. \A v \in Workers : pc'[v] # "scan" => pc[v] # "scan"
      BY <1>1, <2>1 DEF TypeOK
    <3>2. QED
      BY <1>3, <1>12, <1>13, <2>1, <2>3, <2>4, <3>1 DEF Reads
  <2>6. Pills'
    <3>1. m = 0
      BY <1>6, <1>9, <1>15 DEF PillsFrom
    <3>2. Gone' = Gone \union {w} /\ w \notin Gone
      BY <1>1, <2>1 DEF Gone, TypeOK
    <3>3. Cardinality(Gone') = Cardinality(Gone) + 1 /\ Cardinality(Gone) \in Nat
      BY <3>2, GoneIsFinite, FS_AddElement
    <3>4. pills = (Len(tasks) - m) + Cardinality(Gone) /\ \A k \in DOMAIN tasks : tasks[k] = Pill <=> k > m
      BY <1>9 DEF PillsFrom
    <3>5. pills' = (Len(tasks') - 0) + Cardinality(Gone')
      BY <1>2, <1>6, <3>1, <3>3, <3>4 DEF mainVars
    <3>6. \A k \in DOMAIN tasks' : tasks'[k] = Pill <=> k > 0
      BY <1>6, <3>1, <3>4
    <3>7. PillsFrom(0)' /\ 0 \in 0 .. Len(tasks')
      BY <1>6, <3>5, <3>6 DEF PillsFrom
    <3>8. QED
      BY <1>2, <1>4, <3>7 DEF Pills, mainVars
  <2>7. Called'
    BY <1>2, <1>3, <2>4 DEF Called, HasRun
  <2>8. QED
    BY <1>3, <1>5, <1>11, <2>2, <2>5, <2>6, <2>7
<1>16. CASE t # Pill
  <2>1. pc' = [pc EXCEPT ![w] = "scan"] /\ reading' = [reading EXCEPT ![w] = Pread(t)]
    BY <1>16 DEF Pop
  <2>2. IsRead(t) /\ t.offset \in Nat /\ t.length \in Nat
    BY <1>6, <1>16 DEF Reads, IsRead, Task
  <2>3. /\ Pread(t) \in [at : Nat, end : Nat] /\ Pread(t).end <= Len(Graph)
        /\ \A x \in Places : Pread(t).at <= x /\ x < Pread(t).end <=> Covers(t, x)
    <3>1. Len(File) = Len(Graph) /\ Len(Graph) \in Nat
      BY FileInPlaces, GraphIsFinite
    <3> DEFINE o == t.offset
               n == t.length
               z == IF o + n < Len(Graph) THEN o + n ELSE Len(Graph)
    <3>2. Pread(t) = [at |-> o, end |-> z]
      BY <3>1 DEF Pread
    <3>3. z \in Nat /\ z <= Len(Graph) /\ o \in Nat /\ n \in Nat
      BY <2>2, <3>1
    <3>4. \A x \in Places : x < z <=> x < o + n
      BY <1>8, <2>2, <3>1 DEF Places
    <3>5. \A x : Covers(t, x) <=> o <= x /\ x < o + n
      BY DEF Covers
    <3> HIDE DEF t, o, n, z
    <3>6. QED
      BY <3>2, <3>3, <3>4, <3>5
  <2>4. TypeOK'
    BY <1>2, <1>6, <1>7, <2>1, <2>3 DEF TypeOK, Task, mainVars
  <2>5. \A x \in Places : ~Held(w, x)
    <3>1. reading[w].at \in Nat /\ reading[w].end \in Nat /\ reading[w].end <= reading[w].at
      BY <1>1 DEF Reads, TypeOK
    <3>2. QED
      BY <1>8, <3>1 DEF Held
  <2>6. \A v \in Workers, x \in Places : Held(v, x)' <=> IF v = w THEN Covers(t, x) ELSE Held(v, x)
    BY <2>1, <2>3 DEF Held, TypeOK
  <2>7. \A x \in Places : Pending(x)' <=> Pending(x)
    BY <1>6, <2>5, <2>6 DEF Pending
  <2>8. Reads'
    <3>1. \A v \in Workers : pc'[v] # "scan" => v # w /\ pc[v] # "scan"
      BY <1>1, <2>1 DEF TypeOK
    <3>2. \A v \in Workers : v # w => reading'[v] = reading[v]
      BY <2>1 DEF TypeOK
    <3>3. \A v \in Workers : reading'[v].end <= Len(Graph)
      BY <2>1, <2>3, <3>2 DEF Reads, TypeOK
    <3>4. \A v \in Workers, x \in Places : Held(v, x)' => ~Queued(x)'
      BY <1>6, <1>14, <2>6 DEF Reads
    <3>5. \A u, v \in Workers, x \in Places : Held(u, x)' /\ Held(v, x)' => u = v
      BY <1>6, <2>6 DEF Reads
    <3>6. \A v \in Workers : pc'[v] # "scan" => reading'[v].end <= reading'[v].at
      BY <3>1, <3>2 DEF Reads
    <3>7. QED
      BY <1>3, <1>12, <1>13, <2>7, <3>3, <3>4, <3>5, <3>6 DEF Reads
  <2>9. Pills'
    <3>1. /\ \A k \in DOMAIN tasks : tasks[k] = Pill <=> k > m
          /\ pills = (Len(tasks) - m) + Cardinality(Gone)
          /\ Gone # {} => m = 0
      BY <1>9 DEF PillsFrom
    <3>2. m \in Nat \ {0} /\ m <= Len(tasks)
      BY <1>6, <1>16, <3>1
    <3>3. Gone' = Gone
      BY <1>1, <2>1 DEF Gone, TypeOK
    <3>4. \A k \in DOMAIN tasks' : tasks'[k] = Pill <=> k > m - 1
      BY <1>6, <3>1, <3>2
    <3>5. Len(tasks') - (m - 1) = Len(tasks) - m /\ m - 1 \in 0 .. Len(tasks')
      BY <1>6, <3>2
    <3>6. PillsFrom(m - 1)'
      BY <1>2, <3>1, <3>2, <3>3, <3>4, <3>5 DEF PillsFrom, mainVars
    <3>7. QED
      BY <1>2, <1>4, <3>5, <3>6 DEF Pills, mainVars
  <2>10. Called'
    BY <1>2, <1>3, <2>7 DEF Called, HasRun
  <2>11. QED
    BY <1>3, <1>5, <1>11, <2>4, <2>8, <2>9, <2>10
<1>17. QED
  BY <1>15, <1>16

\* What a worker has counted is at most what has been counted.
LEMMA PairsOf ==
    ASSUME IInv, NEW w \in Workers, pc[w] \notin {"none", "exited"}
    PROVE  LET mine == {w} \X (1 .. local_value[w])
           IN  /\ mine \subseteq Counted /\ IsFiniteSet(mine)
               /\ Cardinality(mine) = local_value[w]
               /\ local_value[w] <= Cardinality(Counted)
<1> DEFINE n == local_value[w]
           mine == {w} \X (1 .. n)
<1>1. n \in Nat /\ n <= Len(Graph) /\ Len(Graph) \in Nat
  BY GraphIsFinite DEF IInv, TypeOK, Counts
<1>2. mine \subseteq Counted
  BY <1>1 DEF Counted, Edges
<1> HIDE DEF n
<1>3. IsFiniteSet(1 .. n) /\ Cardinality(1 .. n) = n
  <2>1. IsFiniteSet(1 .. n) /\ Cardinality(1 .. n) = IF 1 > n THEN 0 ELSE n - 1 + 1
    BY <1>1, FS_Interval
  <2>2. QED
    BY <1>1, <2>1
<1>4. IsFiniteSet({w}) /\ Cardinality({w}) = 1
  BY FS_Singleton
<1>5. IsFiniteSet(mine) /\ Cardinality(mine) = 1 * n
  <2> DEFINE S == {w}
             T == 1 .. n
  <2>1. IsFiniteSet(S) /\ IsFiniteSet(T) /\ Cardinality(S) = 1 /\ Cardinality(T) = n
    BY <1>3, <1>4
  <2> HIDE DEF S, T
  <2>2. IsFiniteSet(S \X T) /\ Cardinality(S \X T) = Cardinality(S) * Cardinality(T)
    BY <2>1, FS_Product
  <2>3. QED
    BY <2>1, <2>2 DEF S, T
<1> HIDE DEF mine
<1>6. Cardinality(mine) <= Cardinality(Counted)
  BY <1>2, CountedIsFinite, FS_Subset
<1>7. QED
  BY <1>1, <1>2, <1>5, <1>6 DEF n, mine

LEMMA ScanInv == ASSUME IInv, NEW w \in Workers, Scan(w) PROVE IInv'
<1> USE DEF IInv
<1>1. pc[w] = "scan" /\ UNCHANGED <<argVars, mainVars>> /\ UNCHANGED <<tasks, value>>
  BY DEF Scan
<1>2. /\ Arguments' /\ Visited' /\ Open' = Open
      /\ window' = window /\ offset' = offset /\ cur_partition' = cur_partition
      /\ \A x : EdgeAt(x)' = EdgeAt(x)
      /\ \A e : (InWindow(e)' <=> InWindow(e)) /\ (ActiveSource(e)' <=> ActiveSource(e))
  BY <1>1, MainVarsStay
<1>3. Open
  BY <1>1, WorkerIsInside
<1>4. Rounds'
  BY <1>1, <1>3, RoundsStay
<1>5. \A x \in Places : x \in Nat
  BY GraphIsFinite DEF Places
<1>6. \A x : Queued(x)' <=> Queued(x)
  BY <1>1 DEF Queued, Covers
<1>7. reading[w].at \in Nat /\ reading[w].end \in Nat /\ reading[w].end <= Len(Graph)
      /\ reading[w] \in [at : Nat, end : Nat]
  BY DEF TypeOK, Reads
<1>8. CASE reading[w].at >= reading[w].end
  <2>1. pc' = [pc EXCEPT ![w] = "pop"] /\ UNCHANGED <<reading, local_value, calls>>
    BY <1>8 DEF Scan
  <2>2. TypeOK'
    BY <1>1, <2>1 DEF TypeOK, mainVars
  <2>3. \A x \in Places : (Pending(x)' <=> Pending(x)) /\ \A v \in Workers : Held(v, x)' <=> Held(v, x)
    BY <1>6, <2>1 DEF Pending, Held
  <2>4. Reads'
    <3>1. \A v \in Workers : pc'[v] # "scan" => v = w \/ pc[v] # "scan"
      BY <2>1 DEF TypeOK
    <3>2. \A v \in Workers : pc'[v] # "scan" => reading'[v].end <= reading'[v].at
      BY <1>7, <1>8, <2>1, <3>1 DEF Reads
    <3>3. QED
      BY <1>1, <1>2, <1>6, <2>1, <2>3, <3>2 DEF Reads
  <2>5. Gone' = Gone
    BY <1>1, <2>1 DEF Gone, TypeOK
  <2>6. Pills'
    BY <1>1, <1>3, <2>5 DEF Pills, PillsFrom, mainVars
  <2>7. Called'
    BY <1>2, <2>1, <2>3 DEF Called, HasRun
  <2>8. Counts'
    <3>1. \A v \in Workers : pc[v] \notin {"none", "exited"} <=> pc'[v] \notin {"none", "exited"}
      BY <1>1, <2>1 DEF TypeOK
    <3>2. Counted' = Counted /\ Ran' = Ran
      BY <2>1, <3>1 DEF Counted, Ran
    <3>3. QED
      BY <1>1, <2>1, <3>2 DEF Counts
  <2>9. QED
    BY <1>2, <1>4, <2>2, <2>4, <2>6, <2>7, <2>8
<1>9. CASE reading[w].at < reading[w].end
  <2>0. PICK y \in Places : y = reading[w].at
    BY <1>7, <1>9, GraphIsFinite DEF Places
  <2>3. PICK e \in Edges : e = EdgeAt(y)
    BY FileInPlaces
  <2>1. /\ reading' = [reading EXCEPT ![w].at = @ + 1] /\ UNCHANGED pc
        /\ calls' = IF Wanted(e) THEN [calls EXCEPT ![e] = @ + 1] ELSE calls
        /\ local_value' = IF Wanted(e) THEN [local_value EXCEPT ![w] = @ + 1] ELSE local_value
    BY <1>7, <1>9, <2>0, <2>3 DEF Scan, EdgeAt
  <2>2. y \in Places /\ y \in Nat
    BY <1>5
  <2>4. reading'[w] = [at |-> y + 1, end |-> reading[w].end]
        /\ \A v \in Workers : v # w => reading'[v] = reading[v]
    <3>1. reading \in [Workers -> [at : Nat, end : Nat]]
      BY DEF TypeOK
    <3>2. reading'[w] = [reading[w] EXCEPT !.at = @ + 1]
          /\ \A v \in Workers : v # w => reading'[v] = reading[v]
      BY <2>1, <3>1
    <3>3. [reading[w] EXCEPT !.at = @ + 1] = [at |-> reading[w].at + 1, end |-> reading[w].end]
      BY <1>7
    <3>4. QED
      BY <2>0, <3>2, <3>3
  <2>5. TypeOK'
    <3>1. reading' \in [Workers -> [at : Nat, end : Nat]]
      <4>1. reading' = [reading EXCEPT ![w].at = @ + 1] /\ reading \in [Workers -> [at : Nat, end : Nat]]
        BY <2>1 DEF TypeOK
      <4>2. reading'[w] \in [at : Nat, end : Nat]
        BY <1>7, <2>2, <2>4
      <4>3. \A v \in Workers : reading'[v] \in [at : Nat, end : Nat]
        BY <2>4, <4>1, <4>2
      <4>4. reading' = [v \in Workers |-> reading'[v]]
        BY Zenon, <4>1
      <4>5. QED
        BY Zenon, <4>3, <4>4
    <3>2. calls' \in [Edges -> Nat] /\ local_value' \in [Workers -> Nat]
      <4>1. calls \in [Edges -> Nat] /\ local_value \in [Workers -> Nat]
        BY DEF TypeOK
      <4>2. calls' \in {calls, [calls EXCEPT ![e] = @ + 1]}
            /\ local_value' \in {local_value, [local_value EXCEPT ![w] = @ + 1]}
        BY <2>1
      <4>3. [calls EXCEPT ![e] = @ + 1] \in [Edges -> Nat]
            /\ [local_value EXCEPT ![w] = @ + 1] \in [Workers -> Nat]
        BY <4>1
      <4>4. QED
        BY <4>1, <4>2, <4>3
    <3>3. QED
      BY <1>1, <2>1, <3>1, <3>2 DEF TypeOK, mainVars
  <2>6. Held(w, y) /\ Pending(y)
    BY <1>7, <1>9, <2>0 DEF Held, Pending
  <2>7. \A v \in Workers, x \in Places : Held(v, x)' <=> Held(v, x) /\ ~(v = w /\ x = y)
    <3> TAKE v \in Workers, x \in Places
    <3>1. CASE v # w
      BY <2>4, <3>1 DEF Held
    <3>2. CASE v = w
      BY <1>5, <1>7, <2>0, <2>2, <2>4, <3>2 DEF Held
    <3>3. QED
      BY <3>1, <3>2
  <2>8. \A x \in Places : Pending(x)' <=> Pending(x) /\ x # y
    <3>1. ~Queued(y) /\ \A v \in Workers : Held(v, y) => v = w
      BY <2>2, <2>6 DEF Reads
    <3>2. QED
      BY <1>6, <2>7, <3>1 DEF Pending
  <2>9. Reads'
    <3>1. \A v \in Workers : reading'[v].end <= Len(Graph)
      BY <1>7, <2>4 DEF Reads
    <3>2. \A v \in Workers : pc'[v] # "scan" => v # w /\ pc[v] # "scan"
      BY <1>1, <2>1
    <3>3. \A v \in Workers : pc'[v] # "scan" => reading'[v].end <= reading'[v].at
      BY <2>4, <3>2 DEF Reads
    <3>4. QED
      BY <1>1, <1>2, <1>6, <2>7, <2>8, <3>1, <3>3 DEF Reads
  <2>10. Pills'
    BY <1>1, <1>3, <2>1 DEF Pills, PillsFrom, Gone, mainVars
  <2>11. \A x \in Places : x # y => EdgeAt(x) # e /\ EdgeAt(x) \in Edges
    BY <2>2, <2>3, FileInPlaces
  <2>12. y < offset
    BY <2>2, <2>6 DEF Reads
  <2>13. calls[e] = IF HasRun(y) THEN 1 ELSE 0
    BY <2>2, <2>3 DEF Called
  <2>14. HasRun(y) <=> ActiveSource(e) /\ ~InWindow(e) /\ PartOf(Source(e)) < cur_partition
    BY <2>3, <2>6 DEF HasRun
  <2>15. HasRun(y)' <=> ActiveSource(e) /\ (InWindow(e) \/ PartOf(Source(e)) < cur_partition)
    <3>1. ~Pending(y)'
      BY <2>2, <2>8
    <3>2. QED
      BY <1>2, <2>3, <2>12, <3>1 DEF HasRun
  <2>16. calls[e] = IF Wanted(e) THEN 0 ELSE calls[e]
    BY <2>13, <2>14 DEF Wanted
  <2>17. Called'
    <3> SUFFICES ASSUME NEW x \in Places PROVE calls'[EdgeAt(x)] = IF HasRun(x)' THEN 1 ELSE 0
      BY <1>2 DEF Called
    <3>1. CASE x = y
      <4>1. calls'[e] = IF Wanted(e) THEN 1 ELSE calls[e]
        BY <2>1, <2>3, <2>16 DEF TypeOK
      <4>2. HasRun(y)' <=> Wanted(e) \/ HasRun(y)
        BY <2>14, <2>15 DEF Wanted
      <4>3. QED
        BY <2>3, <2>13, <3>1, <4>1, <4>2
    <3>2. CASE x # y
      <4>1. calls'[EdgeAt(x)] = calls[EdgeAt(x)]
        BY <2>1, <2>11, <3>2 DEF TypeOK
      <4>2. HasRun(x)' <=> HasRun(x)
        BY <1>2, <2>8, <3>2 DEF HasRun
      <4>3. QED
        BY <4>1, <4>2 DEF Called
    <3>3. QED
      BY <3>1, <3>2
  <2>18. Counts'
    <3>1. CASE ~Wanted(e)
      BY <1>1, <2>1, <3>1 DEF Counts, Counted, Ran
    <3>2. CASE Wanted(e)
      <4> DEFINE n == local_value[w]
                 r == <<w, n + 1>>
      <4>1. n \in Nat /\ value \in Nat /\ Len(Graph) \in Nat
        BY GraphIsFinite DEF TypeOK
      <4>2. calls[e] = 0 /\ calls' = [calls EXCEPT ![e] = @ + 1]
            /\ local_value' = [local_value EXCEPT ![w] = @ + 1]
        BY <2>1, <2>16, <3>2
      <4>3. Ran' = Ran \union {e} /\ e \notin Ran
        BY <2>3, <4>2 DEF Ran, TypeOK
      <4>4. Cardinality(Ran') = Cardinality(Ran) + 1
        BY <4>3, CountedIsFinite, FS_AddElement
      <4>5. n + 1 <= Len(Graph)
        <5>1. Ran' \subseteq Edges
          BY DEF Ran
        <5>2. Cardinality(Ran') <= Len(Graph)
          BY <5>1, GraphIsFinite, FS_Subset
        <5>3. n <= Cardinality(Counted)
          BY <1>1, PairsOf
        <5>4. value + Cardinality(Counted) = Cardinality(Ran)
          BY DEF Counts
        <5>5. QED
          BY <4>1, <4>4, <5>2, <5>3, <5>4, CountedIsFinite
      <4>6. Counted' = Counted \union {r} /\ r \notin Counted
        <5>1. \A v \in Workers, i \in Edges :
                 i <= local_value'[v] <=> i <= local_value[v] \/ (v = w /\ i = n + 1)
          <6>1. \A v \in Workers : local_value'[v] = IF v = w THEN n + 1 ELSE local_value[v]
            BY <4>2 DEF TypeOK
          <6>2. \A i \in Edges : i \in Nat
            BY DEF Edges
          <6> HIDE DEF n
          <6>3. \A i \in Edges : i <= n + 1 <=> i <= n \/ i = n + 1
            BY <4>1, <6>2
          <6>4. QED
            BY <6>1, <6>3 DEF n
        <5>2. n + 1 \in Edges /\ ~(n + 1 <= n)
          BY <4>1, <4>5 DEF Edges
        <5>3. r \notin Counted
          BY <5>2 DEF Counted
        <5>4. r \in Counted'
          BY <1>1, <2>1, <5>1, <5>2 DEF Counted
        <5>5. Counted \subseteq Counted'
          BY <2>1, <5>1 DEF Counted
        <5>6. Counted' \subseteq Counted \union {r}
          BY <2>1, <5>1 DEF Counted
        <5>7. QED
          BY <5>3, <5>4, <5>5, <5>6
      <4>7. Cardinality(Counted') = Cardinality(Counted) + 1
        BY <4>6, CountedIsFinite, FS_AddElement
      <4>8. \A v \in Workers : local_value'[v] <= Len(Graph)
        BY <4>2, <4>5 DEF Counts, TypeOK
      <4>9. value' + Cardinality(Counted') = Cardinality(Ran')
        BY <1>1, <4>1, <4>4, <4>7, CountedIsFinite DEF Counts
      <4>10. QED
        BY <4>8, <4>9 DEF Counts
    <3>3. QED
      BY <3>1, <3>2
  <2>19. QED
    BY <1>2, <1>4, <2>5, <2>9, <2>10, <2>17, <2>18
<1>10. QED
  BY <1>7, <1>8, <1>9

LEMMA AddValueInv == ASSUME IInv, NEW w \in Workers, AddValue(w) PROVE IInv'
<1> USE DEF IInv
<1>1. /\ pc[w] = "add" /\ value' = value + local_value[w] /\ pc' = [pc EXCEPT ![w] = "exited"]
      /\ UNCHANGED <<argVars, mainVars>> /\ UNCHANGED <<tasks, reading, local_value, calls>>
  BY DEF AddValue
<1>2. /\ Arguments' /\ Visited' /\ Open' = Open
      /\ window' = window /\ offset' = offset /\ cur_partition' = cur_partition
      /\ \A x : EdgeAt(x)' = EdgeAt(x)
      /\ \A e : (InWindow(e)' <=> InWindow(e)) /\ (ActiveSource(e)' <=> ActiveSource(e))
  BY <1>1, MainVarsStay
<1>3. Open
  BY <1>1, WorkerIsInside
<1>4. Rounds'
  BY <1>1, <1>3, RoundsStay
<1>5. TypeOK'
  BY <1>1 DEF TypeOK, mainVars
<1>6. \A x \in Places : /\ Queued(x)' <=> Queued(x)
                        /\ Pending(x)' <=> Pending(x)
                        /\ \A v \in Workers : Held(v, x)' <=> Held(v, x)
  BY <1>1 DEF Pending, Queued, Held, Covers
<1>7. Reads'
  <2>1. \A v \in Workers : pc'[v] # "scan" => pc[v] # "scan"
    BY <1>1 DEF TypeOK
  <2>2. QED
    BY <1>1, <1>2, <1>6, <2>1 DEF Reads
<1>8. Pills'
  <2>1. Gone' = Gone
    BY <1>1 DEF Gone, TypeOK
  <2>2. QED
    BY <1>1, <1>3, <2>1 DEF Pills, PillsFrom, mainVars
<1>9. Called'
  BY <1>1, <1>2, <1>6 DEF Called, HasRun
<1>10. Counts'
  <2> DEFINE n == local_value[w]
             mine == {w} \X (1 .. n)
  <2>1. /\ mine \subseteq Counted /\ IsFiniteSet(mine) /\ Cardinality(mine) = n
    BY <1>1, PairsOf
  <2>2. n \in Nat /\ value \in Nat
    BY DEF TypeOK
  <2>3. Ran' = Ran
    BY <1>1 DEF Ran
  <2>4. Counted' = Counted \ mine
    <3>1. \A v \in Workers : pc'[v] \notin {"none", "exited"} <=> pc[v] \notin {"none", "exited"} /\ v # w
      BY <1>1 DEF TypeOK
    <3>2. \A i \in Edges : i <= n => i \in 1 .. n
      BY <2>2 DEF Edges
    <3>3. QED
      BY <1>1, <3>1, <3>2 DEF Counted
  <2> HIDE DEF n, mine
  <2>5. Counted \cap mine = mine
    BY <2>1
  <2>6. Cardinality(Counted') = Cardinality(Counted) - n
    BY <2>1, <2>4, <2>5, CountedIsFinite, FS_Difference
  <2>7. value' = value + n
    BY <1>1 DEF n
  <2>8. Cardinality(Counted) \in Nat /\ Cardinality(Ran) \in Nat
    BY CountedIsFinite
  <2>9. value' + Cardinality(Counted') = Cardinality(Ran')
    BY <2>2, <2>3, <2>6, <2>7, <2>8 DEF Counts
  <2>10. \A v \in Workers : local_value'[v] <= Len(Graph)
    BY <1>1 DEF Counts
  <2>11. QED
    BY <2>9, <2>10 DEF Counts
<1>11. QED
  BY <1>2, <1>4, <1>5, <1>7, <1>8, <1>9, <1>10

LEMMA StutterInv == IInv /\ UNCHANGED vars => IInv'
<1> SUFFICES ASSUME IInv, UNCHANGED vars PROVE IInv'
  OBVIOUS
<1> USE DEF IInv, vars
<1>1. TypeOK' /\ Arguments' /\ Counts'
  BY ArgumentsStay, CountsStay DEF TypeOK, argVars, mainVars, workerVars
<1>2. Reads' /\ Called'
  BY ReadsStay, CalledStays DEF Open, mainVars, workerVars
<1>3. Rounds'
  BY DEF Rounds, Open, WindowOf, Access, argVars, mainVars, workerVars
<1>4. Pills'
  BY DEF Pills, PillsFrom, Gone, Open, mainVars, workerVars
<1>5. Visited'
  BY MainVarsStay
<1>6. QED
  BY <1>1, <1>2, <1>3, <1>4, <1>5

LEMMA NextInv == IInv /\ [Next]_vars => IInv'
BY SelectShardsInv, OpenWindowInv, EnterCellInv, PushTaskInv, PushPillInv, CloseWindowInv,
   PopInv, ScanInv, AddValueInv, StutterInv DEF Next, MainStep, WorkerStep, Finished

LEMMA Invariance == Spec => []IInv
BY InitInv, NextInv, PTL DEF Spec

-----------------------------------------------------------------------------
\* At the end process has run for the edges with an active source.
LEMMA AllHaveRun ==
    ASSUME IInv, ~Open, cur_partition >= Partitions, NEW e \in Edges
    PROVE  calls[e] = IF ActiveSource(e) THEN 1 ELSE 0
<1> USE DEF IInv
<1>1. PICK x \in Places : EdgeAt(x) = e
  BY FileInPlaces
<1>2. PartOf(Source(e)) < cur_partition
  <2>1. PartOf(Source(e)) \in 0 .. Partitions - 1 /\ Partitions \in Nat
    BY PartIsShard, StreamAssumption DEF Shards
  <2>2. cur_partition \in Nat
    BY DEF TypeOK
  <2>3. QED
    BY <2>1, <2>2
<1>3. ~InWindow(e)
  <2>1. window = [begin |-> 0, end |-> 0]
    BY DEF Rounds, Open
  <2>2. QED
    BY <2>1, SourceIsVertex DEF InWindow
<1>4. HasRun(x) <=> ActiveSource(e)
  BY <1>1, <1>2, <1>3 DEF HasRun
<1>5. QED
  BY <1>1, <1>4 DEF Called

(* Graph::stream_edges, at any time: no read starts behind the end of the  *)
(* file (the assertions of graph.hpp 310 and 378), and the value returned  *)
(* is the sum over the edges with an active source.                        *)
THEOREM PassIsSafe == Spec => []Inv
<1>1. IInv => Inv
  <2> SUFFICES ASSUME IInv PROVE Inv
    OBVIOUS
  <2> USE DEF IInv
  <2>1. ReadsSomething
    <3>1. Len(File) = Len(Graph)
      BY FileInPlaces
    <3>2. QED
      BY <3>1 DEF ReadsSomething, Reads, IsRead
  <2>2. ValueComplete
    <3> SUFFICES ASSUME mainPc = "returned"
                 PROVE  value = Cardinality({e \in Edges : ActiveSource(e)})
      BY DEF ValueComplete
    <3>1. Ran = {e \in Edges : ActiveSource(e)}
      BY AllHaveRun DEF Ran, Rounds, Open
    <3>2. Counted = {}
      BY DEF Rounds, Open, Counted
    <3>3. Cardinality(Counted) = 0 /\ value \in Nat
      BY <3>2, FS_EmptySet DEF TypeOK
    <3>4. QED
      BY <3>1, <3>3 DEF Counts
  <2>3. QED
    BY <2>1, <2>2 DEF Inv
<1>2. QED
  BY <1>1, Invariance, PTL

(* A step calls process at most once, for an edge that is wanted and that  *)
(* it has not been called for.                                             *)
LEMMA ScanCalls ==
    ASSUME IInv, NEW w \in Workers, Scan(w), calls' # calls
    PROVE  \E e \in Edges : Wanted(e) /\ calls[e] = 0 /\ calls' = [calls EXCEPT ![e] = 1]
<1> USE DEF IInv
<1>1. pc[w] = "scan" /\ reading[w].at \in Nat /\ reading[w].end \in Nat
      /\ reading[w].end <= Len(Graph)
  BY DEF Scan, TypeOK, Reads
<1>2. reading[w].at < reading[w].end
  BY <1>1 DEF Scan
<1>3. PICK y \in Places : y = reading[w].at
  BY <1>1, <1>2, GraphIsFinite DEF Places
<1>4. PICK e \in Edges : e = EdgeAt(y)
  BY FileInPlaces
<1>5. calls' = IF Wanted(e) THEN [calls EXCEPT ![e] = @ + 1] ELSE calls
  BY <1>1, <1>2, <1>3, <1>4 DEF Scan, EdgeAt
<1>6. Wanted(e) /\ calls' = [calls EXCEPT ![e] = @ + 1]
  BY <1>5
<1>7. Pending(y)
  BY <1>1, <1>2, <1>3 DEF Held, Pending
<1>8. ~HasRun(y)
  BY <1>4, <1>6, <1>7 DEF HasRun, Wanted
<1>9. calls[e] = 0
  BY <1>4, <1>8 DEF Called
<1>10. calls' = [calls EXCEPT ![e] = 1]
  BY <1>4, <1>6, <1>9 DEF TypeOK
<1>11. QED
  BY <1>4, <1>6, <1>9, <1>10

LEMMA OnlyScanCalls ==
    ASSUME IInv, [Next]_vars
    PROVE  calls' = calls \/ \E w \in Workers : Scan(w)
BY DEF Next, MainStep, WorkerStep, Finished, vars, workerVars, SelectShards, OpenWindow, EnterCell,
       PushTask, PushPill, CloseWindow, Pop, AddValue

(* Between pre_source_window and post_source_window: process is called for *)
(* an edge only while its source is in the window that is open.            *)
THEOREM CallsAreInWindow == Spec => ProcessesInWindow
<1>1. IInv /\ [Next]_vars => [\A e \in DOMAIN calls : calls'[e] # calls[e] =>
                                 window.begin <= Source(e) /\ Source(e) < window.end]_vars
  <2> SUFFICES ASSUME IInv, [Next]_vars, NEW e \in DOMAIN calls, calls'[e] # calls[e]
               PROVE  window.begin <= Source(e) /\ Source(e) < window.end
    OBVIOUS
  <2>1. PICK w \in Workers : Scan(w)
    BY OnlyScanCalls
  <2>2. PICK d \in Edges : Wanted(d) /\ calls[d] = 0 /\ calls' = [calls EXCEPT ![d] = 1]
    BY <2>1, ScanCalls
  <2>3. d = e
    BY <2>2 DEF IInv, TypeOK
  <2>4. QED
    BY <2>2, <2>3 DEF Wanted, InWindow
<1>2. QED
  BY <1>1, Invariance, PTL DEF Spec, ProcessesInWindow

(* The refinement: shards left out, pages two blocks share, reads that go  *)
(* beyond a block and windows that read a block again do not show; a pass  *)
(* is one call for every edge with an active source, and then the return.  *)
THEOREM PassImplementsEdgePass == Spec => ImplementsPass
<1> DEFINE active == {e \in Edges : ActiveSource(e)}
           returned == mainPc = "returned"
<1>1. Init => Pass!Init
  BY DEF Init, Pass!Init
<1>2. IInv /\ [Next]_vars => [Pass!Next]_(Pass!vars)
  <2> SUFFICES ASSUME IInv, [Next]_vars PROVE Pass!Next \/ UNCHANGED <<active, calls, returned>>
    BY DEF Pass!vars
  <2>1. bitmap' = bitmap
    BY DEF Next, MainStep, WorkerStep, Finished, vars, argVars, SelectShards, OpenWindow, EnterCell,
           PushTask, PushPill, CloseWindow, Pop, Scan, AddValue
  <2>2. active' = active
    BY <2>1 DEF ActiveSource
  <2>3. CASE calls' # calls
    <3>1. PICK w \in Workers : Scan(w)
      BY <2>3, OnlyScanCalls
    <3>2. PICK e \in Edges : Wanted(e) /\ calls[e] = 0 /\ calls' = [calls EXCEPT ![e] = 1]
      BY <2>3, <3>1, ScanCalls
    <3>3. returned' = returned
      BY <3>1 DEF Scan, mainVars
    <3>4. Pass!Process(e)
      BY <2>2, <3>2, <3>3 DEF Pass!Process, Wanted
    <3>5. QED
      BY <3>4 DEF Pass!Next
  <2>4. CASE calls' = calls /\ returned' # returned
    <3>1. mainPc' # mainPc /\ (mainPc' = "returned" \/ mainPc = "returned")
      BY <2>4
    <3>2. OpenWindow /\ mainPc' = "returned"
      BY <3>1 DEF Next, MainStep, WorkerStep, Finished, vars, mainVars, SelectShards, OpenWindow,
         EnterCell, PushTask, PushPill, CloseWindow, Pop, Scan, AddValue
    <3>3. mainPc = "window" /\ cur_partition >= Partitions
      BY <3>2 DEF OpenWindow
    <3>4. ~Open
      BY <3>3 DEF Open
    <3>5. \A e \in Edges : calls[e] = IF ActiveSource(e) THEN 1 ELSE 0
      BY <3>3, <3>4, AllHaveRun
    <3>6. \A e \in active : calls[e] = 1
      BY <3>5
    <3>7. Pass!Return
      BY <2>2, <2>4, <3>2, <3>3, <3>6 DEF Pass!Return
    <3>8. QED
      BY <3>7 DEF Pass!Next
  <2>5. QED
    BY <2>2, <2>3, <2>4
<1>3. QED
  BY <1>1, <1>2, Invariance, PTL DEF Spec, ImplementsPass, Pass!Spec
=============================================================================
