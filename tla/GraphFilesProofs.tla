------------------------- MODULE GraphFilesProofs -------------------------
(***************************************************************************)
(* The cuts of homework 8 leave consistent partitions, for every file,     *)
(* hash function, number of partitions and threshold; and the arrays of    *)
(* homework 2 are the transpose of each other and survive their binary     *)
(* file, for every graph.                                                  *)
(***************************************************************************)
EXTENDS GraphFiles, FiniteSetTheorems, SequenceTheorems, TLAPS

Programs == {"edge", "vertex", "hybrid", "greedy"}

Types ==
    /\ cut \in Programs /\ file \in Seq(Vertices \X Vertices) /\ Len(file) <= MaxEdges
    /\ hash \in [Hashed -> Parts] /\ e \in 0 .. Len(file)
    /\ setMaster \in [Parts -> SUBSET Vertices] /\ setVertex \in [Parts -> SUBSET Vertices]
    /\ setEdge \in [Parts -> SUBSET (Vertices \X Vertices)]
    /\ vertexMaster \in [Vertices -> Parts \union {-1}]

\* Where the master of a vertex is, or will be: -1 as long as nobody knows.
Home(v) == IF cut = "greedy" THEN vertexMaster[v] ELSE hash[v]

Homes ==
    \A i \in Parts, v \in Vertices :
        /\ v \in setMaster[i] => Home(v) = i
        /\ cut # "hybrid" /\ v \in setVertex[i] => Home(v) # i /\ Home(v) # -1
        /\ cut = "hybrid" => setMaster[i] = {}
        /\ cut = "greedy" /\ vertexMaster[v] = i => v \in setMaster[i]

Local ==
    \A i \in Parts :
        /\ Ends(setEdge[i]) \subseteq setMaster[i] \union setVertex[i]
        /\ setVertex[i] \subseteq Ends(setEdge[i])
        /\ cut = "edge" => setMaster[i] \subseteq Ends(setEdge[i])

AllHaveMasters ==
    cut # "hybrid" => \A v \in Ends(Read) : \E i \in Parts : v \in setMaster[i]

Totals ==
    printed # << >> =>
        /\ ~Reading
        /\ \A i \in 1 .. p : printed[i].total = Cardinality(setVertex[i - 1]) + Cardinality(setMaster[i - 1])

IInv == Types /\ Homes /\ Local /\ AllHaveMasters /\ Totals

-----------------------------------------------------------------------------
LEMMA NextEdge ==
    ASSUME Types, Reading
    PROVE  /\ src \in Vertices /\ dst \in Vertices /\ edge = <<src, dst>>
           /\ e + 1 \in 0 .. Len(file) /\ e + 1 \in 1 .. MaxEdges
           /\ {file[j] : j \in 1 .. e + 1} = Read \union {edge}
BY PartitionersAssumption DEF Types, Reading, src, dst, edge, Read

LEMMA EndsOfMore ==
    \A E, F : F = E \union {edge} => Ends(F) = Ends(E) \union {src, dst}
<1> SUFFICES ASSUME NEW E, NEW F, F = E \union {edge}
             PROVE  Ends(F) = Ends(E) \union {src, dst}
  OBVIOUS
<1>1. \A x : x \in Ends(F) <=> \E d \in F : x = d[1] \/ x = d[2]
  BY DEF Ends
<1>2. \A x : x \in Ends(E) <=> \E d \in E : x = d[1] \/ x = d[2]
  BY DEF Ends
<1>3. ASSUME NEW x
      PROVE  x \in Ends(F) <=> x \in Ends(E) \/ x = src \/ x = dst
  BY <1>1, <1>2 DEF src, dst
<1>4. QED
  BY <1>3

-----------------------------------------------------------------------------
(* What Place does keeps the partitions consistent, when M says where the  *)
(* masters of the two ends are from now on.                                *)
LEMMA Placed ==
    ASSUME Types, Homes, Local, AllHaveMasters, Reading, cut # "hybrid",
           NEW S \in SUBSET Parts, NEW M \in [Vertices -> Parts],
           setEdge' = [i \in Parts |-> setEdge[i] \union (IF i \in S THEN {edge} ELSE {})],
           setMaster' = [i \in Parts |-> setMaster[i] \union {v \in {src, dst} : M[v] = i}],
           setVertex' = [i \in Parts |-> setVertex[i]
                            \union (IF i \in S THEN {v \in {src, dst} : M[v] # i} ELSE {})],
           cut' = cut, file' = file, e' = e + 1,
           cut = "edge" => {M[src], M[dst]} \subseteq S,
           \A v \in Vertices : Home(v)' = IF v \in {src, dst} THEN M[v] ELSE Home(v),
           \A v \in {src, dst} : Home(v) # -1 => M[v] = Home(v)
    PROVE  /\ setMaster' \in [Parts -> SUBSET Vertices] /\ setVertex' \in [Parts -> SUBSET Vertices]
           /\ setEdge' \in [Parts -> SUBSET (Vertices \X Vertices)]
           /\ Homes' /\ Local' /\ AllHaveMasters'
<1>1. src \in Vertices /\ dst \in Vertices /\ edge = <<src, dst>>
  BY NextEdge
<1>2. -1 \notin Parts
  BY DEF Parts
<1>3. /\ setMaster' \in [Parts -> SUBSET Vertices] /\ setVertex' \in [Parts -> SUBSET Vertices]
      /\ setEdge' \in [Parts -> SUBSET (Vertices \X Vertices)]
  BY <1>1 DEF Types
<1>4. ASSUME NEW i \in Parts
      PROVE  Ends(setEdge'[i]) = IF i \in S THEN Ends(setEdge[i]) \union {src, dst} ELSE Ends(setEdge[i])
  <2>1. CASE i \in S
    <3>1. setEdge'[i] = setEdge[i] \union {edge}
      BY <1>1, <2>1
    <3>2. Ends(setEdge'[i]) = Ends(setEdge[i]) \union {src, dst}
      BY <3>1, EndsOfMore
    <3>3. QED
      BY <2>1, <3>2
  <2>2. CASE i \notin S
    <3>1. setEdge'[i] = setEdge[i]
      BY <2>2
    <3>2. QED
      BY <2>2, <3>1
  <2>3. QED
    BY <2>1, <2>2
<1>5. Local'
  <2> SUFFICES ASSUME NEW i \in Parts
               PROVE  /\ Ends(setEdge'[i]) \subseteq setMaster'[i] \union setVertex'[i]
                      /\ setVertex'[i] \subseteq Ends(setEdge'[i])
                      /\ cut = "edge" => setMaster'[i] \subseteq Ends(setEdge'[i])
    BY DEF Local, Parts, Ends
  <2>1. /\ setMaster'[i] = setMaster[i] \union {v \in {src, dst} : M[v] = i}
        /\ setVertex'[i] = setVertex[i] \union (IF i \in S THEN {v \in {src, dst} : M[v] # i} ELSE {})
    OBVIOUS
  <2>2. /\ Ends(setEdge[i]) \subseteq setMaster[i] \union setVertex[i]
        /\ setVertex[i] \subseteq Ends(setEdge[i])
        /\ cut = "edge" => setMaster[i] \subseteq Ends(setEdge[i])
    BY DEF Local
  <2>3. CASE i \in S
    <3>1. Ends(setEdge'[i]) = Ends(setEdge[i]) \union {src, dst}
      BY <1>4, <2>3
    <3>2. QED
      BY <2>1, <2>2, <2>3, <3>1
  <2>4. CASE i \notin S
    <3>1. setVertex'[i] = setVertex[i] /\ Ends(setEdge'[i]) = Ends(setEdge[i])
      BY <1>4, <2>1, <2>4
    <3>2. QED
      BY <2>1, <2>2, <2>4, <3>1
  <2>5. QED
    BY <2>3, <2>4
<1>6. Homes'
  <2> SUFFICES ASSUME NEW i \in Parts, NEW v \in Vertices
               PROVE  /\ v \in setMaster'[i] => Home(v)' = i
                      /\ v \in setVertex'[i] => Home(v)' # i /\ Home(v)' # -1
                      /\ cut = "greedy" /\ vertexMaster'[v] = i => v \in setMaster'[i]
    BY DEF Homes, Parts
  <2>1. /\ v \in setMaster[i] => Home(v) = i
        /\ v \in setVertex[i] => Home(v) # i /\ Home(v) # -1
        /\ cut = "greedy" /\ vertexMaster[v] = i => v \in setMaster[i]
    BY DEF Homes
  <2>2. cut = "greedy" => Home(v) = vertexMaster[v] /\ Home(v)' = vertexMaster'[v]
    BY DEF Home
  <2>3. QED
    BY <1>1, <1>2, <2>1, <2>2
<1>7. AllHaveMasters'
  <2>1. Read' = Read \union {edge}
    BY NextEdge DEF Read
  <2>2. Ends(Read)' = Ends(Read) \union {src, dst}
    <3>1. Ends(Read') = Ends(Read) \union {src, dst}
      BY <1>1, <2>1, EndsOfMore
    <3>2. QED
      BY <3>1 DEF Ends
  <2>3. \A v \in Ends(Read) : \E i \in Parts : v \in setMaster'[i]
    BY DEF AllHaveMasters
  <2>4. \A v \in {src, dst} : \E i \in Parts : v \in setMaster'[i]
    BY <1>1
  <2>5. QED
    BY <2>2, <2>3, <2>4 DEF AllHaveMasters, Parts
<1>8. QED
  BY <1>3, <1>5, <1>6, <1>7

(* The hybrid cut puts an edge and its two ends into one partition.        *)
LEMMA PutTogether ==
    ASSUME Types, Homes, Local, Reading, cut = "hybrid", NEW pt \in Parts,
           setEdge' = [setEdge EXCEPT ![pt] = @ \union {edge}],
           setVertex' = [setVertex EXCEPT ![pt] = @ \union {src, dst}],
           setMaster' = setMaster, cut' = cut
    PROVE  /\ setVertex' \in [Parts -> SUBSET Vertices]
           /\ setEdge' \in [Parts -> SUBSET (Vertices \X Vertices)]
           /\ Homes' /\ Local' /\ AllHaveMasters'
<1>1. src \in Vertices /\ dst \in Vertices /\ edge = <<src, dst>>
  BY NextEdge
<1>2. /\ setVertex' \in [Parts -> SUBSET Vertices]
      /\ setEdge' \in [Parts -> SUBSET (Vertices \X Vertices)]
  BY <1>1 DEF Types
<1>3. Homes' /\ AllHaveMasters'
  BY DEF Homes, AllHaveMasters, Home, Parts
<1>4. Local'
  <2> SUFFICES ASSUME NEW i \in Parts
               PROVE  /\ Ends(setEdge'[i]) \subseteq setMaster'[i] \union setVertex'[i]
                      /\ setVertex'[i] \subseteq Ends(setEdge'[i])
    BY DEF Local, Parts, Ends
  <2>1. /\ Ends(setEdge[i]) \subseteq setMaster[i] \union setVertex[i]
        /\ setVertex[i] \subseteq Ends(setEdge[i])
    BY DEF Local
  <2>2. CASE i = pt
    <3>1. setEdge'[i] = setEdge[i] \union {edge} /\ setVertex'[i] = setVertex[i] \union {src, dst}
      BY <1>1, <2>2 DEF Types
    <3>2. Ends(setEdge'[i]) = Ends(setEdge[i]) \union {src, dst}
      BY <3>1, EndsOfMore
    <3>3. QED
      BY <2>1, <3>1, <3>2
  <2>3. CASE i # pt
    <3>1. setEdge'[i] = setEdge[i] /\ setVertex'[i] = setVertex[i]
      BY <2>3 DEF Types
    <3>2. QED
      BY <2>1, <3>1
  <2>4. QED
    BY <2>2, <2>3
<1>5. QED
  BY <1>2, <1>3, <1>4

-----------------------------------------------------------------------------
LEMMA InitInv == Init => IInv
<1> SUFFICES ASSUME Init PROVE IInv
  OBVIOUS
<1>1. Types
  <2>1. 0 \in Parts
    BY PartitionersAssumption DEF Parts
  <2>2. file \in Seq(Vertices \X Vertices) /\ Len(file) <= MaxEdges /\ e \in 0 .. Len(file)
    BY PartitionersAssumption DEF Init
  <2>3. hash \in [Hashed -> Parts]
    BY <2>1 DEF Init
  <2>4. QED
    BY <2>2, <2>3 DEF Init, Types, Programs, Empty
<1>2. \A i \in Parts : setMaster[i] = {} /\ setVertex[i] = {} /\ setEdge[i] = {}
  BY DEF Init, Empty
<1>3. Ends({}) = {}
  BY DEF Ends
<1>4. Homes
  BY <1>2 DEF Homes, Home, Init, Parts
<1>5. Local
  BY <1>2, <1>3 DEF Local
<1>6. AllHaveMasters
  <2>1. Read = {}
    BY DEF Init, Read
  <2>2. QED
    BY <1>3, <2>1 DEF AllHaveMasters
<1>7. Totals
  BY DEF Totals, Init
<1>8. QED
  BY <1>1, <1>4, <1>5, <1>6, <1>7 DEF IInv

LEMMA StepInv == IInv /\ [Next]_vars => IInv'
<1> SUFFICES ASSUME IInv, [Next]_vars PROVE IInv'
  OBVIOUS
<1> USE DEF IInv
<1>1. ASSUME Reading, EdgeDone PROVE Totals' /\ e' \in 0 .. Len(file)
  BY <1>1, NextEdge DEF Totals, EdgeDone
<1>2. Reading => src \in Vertices /\ dst \in Vertices
  BY NextEdge
<1>3. \A v \in Vertices : cut # "greedy" => hash[v] \in Parts /\ Home(v) = hash[v] /\ Home(v) # -1
  BY DEF Types, Hashed, Home, Parts
<1>4. CASE EdgeCut
  <2> DEFINE M == [v \in Vertices |-> hash[v]]
             S == {hash[src], hash[dst]}
  <2>1. Reading /\ cut = "edge" /\ EdgeDone /\ UNCHANGED <<cut, file, hash, vertexMaster>> /\ e' = e + 1
    BY <1>4 DEF EdgeCut, EdgeDone
  <2>2. M \in [Vertices -> Parts] /\ S \in SUBSET Parts
    BY <1>2, <1>3, <2>1
  <2>3. /\ setEdge' = [i \in Parts |-> setEdge[i] \union (IF i \in S THEN {edge} ELSE {})]
        /\ setMaster' = [i \in Parts |-> setMaster[i] \union {v \in {src, dst} : M[v] = i}]
        /\ setVertex' = [i \in Parts |-> setVertex[i]
                            \union (IF i \in S THEN {v \in {src, dst} : M[v] # i} ELSE {})]
    BY <1>2, <1>4, <2>1 DEF EdgeCut, Place, Insert, master
  <2>4. \A v \in Vertices : Home(v)' = hash[v] /\ Home(v) = hash[v] /\ M[v] = hash[v]
    BY <2>1 DEF Home
  <2>5. QED
    <3> HIDE DEF M, S
    <3>1. {M[src], M[dst]} \subseteq S
      BY <1>2, <2>1, <2>4 DEF S
    <3>2. QED
      BY <1>1, <1>2, <2>1, <2>2, <2>3, <2>4, <3>1, Placed, ZenonT(30) DEF Types
<1>5. CASE VertexCut
  <2> DEFINE M == [v \in Vertices |-> hash[v]]
             S == {hash[e + 1]}
  <2>1. Reading /\ cut = "vertex" /\ EdgeDone /\ UNCHANGED <<cut, file, hash, vertexMaster>> /\ e' = e + 1
    BY <1>5 DEF VertexCut, EdgeDone
  <2>2. M \in [Vertices -> Parts] /\ S \in SUBSET Parts
    <3>1. e + 1 \in Hashed
      BY <2>1, NextEdge DEF Hashed
    <3>2. QED
      BY <1>3, <2>1, <3>1 DEF Types
  <2>3. /\ setEdge' = [i \in Parts |-> setEdge[i] \union (IF i \in S THEN {edge} ELSE {})]
        /\ setMaster' = [i \in Parts |-> setMaster[i] \union {v \in {src, dst} : M[v] = i}]
        /\ setVertex' = [i \in Parts |-> setVertex[i]
                            \union (IF i \in S THEN {v \in {src, dst} : M[v] # i} ELSE {})]
    BY <1>2, <1>5, <2>1 DEF VertexCut, Place, Insert, master
  <2>4. \A v \in Vertices : Home(v)' = hash[v] /\ Home(v) = hash[v] /\ M[v] = hash[v]
    BY <2>1 DEF Home
  <2>5. QED
    <3> HIDE DEF M, S
    <3>1. QED
      BY <1>1, <1>2, <2>1, <2>2, <2>3, <2>4, Placed, ZenonT(30) DEF Types
<1>6. CASE HybridTarget
  <2>1. hash[dst] \in Parts
    BY <1>2, <1>3, <1>6 DEF HybridTarget
  <2>2. QED
    BY <1>1, <1>6, <2>1, PutTogether DEF HybridTarget, EdgeDone, master, Types
<1>7. CASE HybridSource
  <2>1. hash[src] \in Parts
    BY <1>2, <1>3, <1>7 DEF HybridSource
  <2>2. QED
    BY <1>1, <1>7, <2>1, PutTogether DEF HybridSource, EdgeDone, master, Types
<1>8. CASE Greedy
  <2>1. Reading /\ cut = "greedy" /\ EdgeDone /\ UNCHANGED <<cut, file, hash>> /\ e' = e + 1
    BY <1>8 DEF Greedy, EdgeDone
  <2>2. PICK bestP \in Parts :
          /\ vertexMaster' = [v \in Vertices |->
                 IF v \in {src, dst} /\ vertexMaster[v] = -1 THEN bestP ELSE vertexMaster[v]]
          /\ setEdge' = [i \in Parts |-> setEdge[i] \union (IF i \in {bestP} THEN {edge} ELSE {})]
          /\ setMaster' = [i \in Parts |-> setMaster[i] \union {v \in {src, dst} : vertexMaster'[v] = i}]
          /\ setVertex' = [i \in Parts |-> setVertex[i]
                 \union (IF i \in {bestP} THEN {v \in {src, dst} : vertexMaster'[v] # i} ELSE {})]
    BY <1>8 DEF Greedy, Place, Insert, tiedPartitions
  <2> DEFINE M == [v \in Vertices |-> IF v \in {src, dst} THEN vertexMaster'[v] ELSE bestP]
             S == {bestP}
  <2>3. vertexMaster' \in [Vertices -> Parts \union {-1}]
    BY <2>2 DEF Types
  <2>4. M \in [Vertices -> Parts] /\ S \in SUBSET Parts
    BY <2>2 DEF Types
  <2>5. \A v \in {src, dst} : M[v] = vertexMaster'[v]
    BY <1>2, <2>1
  <2>6. \A v \in Vertices : /\ Home(v) = vertexMaster[v] /\ Home(v)' = vertexMaster'[v]
                            /\ v \notin {src, dst} => vertexMaster'[v] = vertexMaster[v]
                            /\ vertexMaster[v] # -1 => vertexMaster'[v] = vertexMaster[v]
    BY <2>1, <2>2 DEF Home
  <2>7. /\ setEdge' = [i \in Parts |-> setEdge[i] \union (IF i \in S THEN {edge} ELSE {})]
        /\ setMaster' = [i \in Parts |-> setMaster[i] \union {v \in {src, dst} : M[v] = i}]
        /\ setVertex' = [i \in Parts |-> setVertex[i]
                            \union (IF i \in S THEN {v \in {src, dst} : M[v] # i} ELSE {})]
    BY <2>2, <2>5
  <2>8. QED
    <3> HIDE DEF M, S
    <3>1. /\ \A v \in Vertices : Home(v)' = IF v \in {src, dst} THEN M[v] ELSE Home(v)
          /\ \A v \in {src, dst} : Home(v) # -1 => M[v] = Home(v)
      BY <1>2, <2>1, <2>5, <2>6
    <3>2. cut # "hybrid" /\ cut # "edge"
      BY <2>1
    <3>3. /\ setMaster' \in [Parts -> SUBSET Vertices] /\ setVertex' \in [Parts -> SUBSET Vertices]
          /\ setEdge' \in [Parts -> SUBSET (Vertices \X Vertices)]
          /\ Homes' /\ Local' /\ AllHaveMasters'
      BY <2>1, <2>4, <2>7, <3>1, <3>2, Placed DEF EdgeDone
    <3>4. QED
      BY <1>1, <2>1, <2>3, <3>3 DEF Types
<1>9. CASE PrintPartitions
  <2>1. Types' /\ Homes' /\ Local' /\ AllHaveMasters'
    <3>1. UNCHANGED <<cut, file, hash, e, setMaster, setVertex, setEdge, degree, vertexMaster>>
      BY <1>9 DEF PrintPartitions
    <3>2. Types' /\ Homes'
      BY <3>1 DEF Types, Homes, Home
    <3>3. Local' /\ AllHaveMasters'
      BY <3>1 DEF Local, AllHaveMasters, Ends, Read
    <3>4. QED
      BY <3>2, <3>3
  <2>2. Totals'
    BY <1>9 DEF PrintPartitions, Totals, Reading
  <2>3. QED
    BY <2>1, <2>2
<1>10. CASE UNCHANGED vars
  <2>1. Types' /\ Homes'
    BY <1>10 DEF vars, Types, Homes, Home
  <2>2. Local' /\ AllHaveMasters'
    BY <1>10 DEF vars, Local, AllHaveMasters, Ends, Read
  <2>3. Totals'
    BY <1>10 DEF vars, Totals, Reading
  <2>4. QED
    BY <2>1, <2>2, <2>3
<1>11. QED
  BY <1>4, <1>5, <1>6, <1>7, <1>8, <1>9, <1>10 DEF Next, Finished

(* A vertex has a master in one partition only, and no mirror there.       *)
LEMMA InvImplies == IInv => PartitionsConsistent
<1> SUFFICES ASSUME IInv PROVE PartitionsConsistent
  OBVIOUS
<1> USE DEF IInv
<1>1. \A i \in Parts : setMaster[i] \intersect setVertex[i] = {}
  BY DEF Homes, Types
<1>2. ASSUME cut # "hybrid", NEW v \in Ends(Read)
      PROVE  Cardinality({i \in Parts : v \in setMaster[i]}) = 1
  <2>1. PICK k \in Parts : v \in setMaster[k]
    BY <1>2 DEF AllHaveMasters
  <2>2. \A i \in Parts : v \in setMaster[i] => i = k
    BY <2>1 DEF Homes, Types
  <2>3. {i \in Parts : v \in setMaster[i]} = {k}
    BY <2>1, <2>2
  <2>4. QED
    BY <2>3, FS_Singleton
<1>3. ASSUME printed # << >>, NEW i \in 1 .. p
      PROVE  printed[i].total = Cardinality(setMaster[i - 1] \union setVertex[i - 1])
  <2> DEFINE A == setMaster[i - 1]
             B == setVertex[i - 1]
  <2>1. i - 1 \in Parts
    BY PartitionersAssumption DEF Parts
  <2>2. A \in SUBSET Vertices /\ B \in SUBSET Vertices /\ A \intersect B = {}
    BY <1>1, <2>1 DEF Types
  <2>3. IsFiniteSet(A) /\ IsFiniteSet(B)
    BY <2>2, FS_Subset, PartitionersAssumption
  <2>4. Cardinality(A \union B) = Cardinality(A) + Cardinality(B) - Cardinality(A \intersect B)
    <3> HIDE DEF A, B
    <3>1. QED
      BY <2>3, FS_Union
  <2>5. Cardinality(A \intersect B) = 0
    BY <2>2, FS_EmptySet
  <2>6. Cardinality(A) \in Nat /\ Cardinality(B) \in Nat
    BY <2>3, FS_CardinalityType
  <2>7. printed[i].total = Cardinality(B) + Cardinality(A)
    BY <1>3 DEF Totals
  <2>8. QED
    <3> HIDE DEF A, B
    <3>1. Cardinality(A \union B) = Cardinality(B) + Cardinality(A)
      BY <2>4, <2>5, <2>6
    <3>2. QED
      BY <2>7, <3>1 DEF A, B
<1>4. QED
  BY <1>1, <1>2, <1>3 DEF PartitionsConsistent, Local

(* Every partition of every cut is a graph of its own, every vertex read   *)
(* has one master, and the totals printed are those of distinct vertices:  *)
(* for all files, hash functions, numbers of partitions and thresholds.    *)
THEOREM CutsAreConsistent == Spec => []PartitionsConsistent
<1>1. Init => IInv
  BY InitInv
<1>2. IInv /\ [Next]_vars => IInv'
  BY StepInv
<1>3. IInv => PartitionsConsistent
  BY InvImplies
<1>4. QED
  BY <1>1, <1>2, <1>3, PTL DEF Spec

-----------------------------------------------------------------------------
(* Where the edges are.  The hybrid cut's bound follows from what it       *)
(* remembers of a target: the sources of the edges that went to it.        *)
Lines(d) == {j \in 1 .. e : file[j] = d}
Into(v) == {j \in 1 .. e : file[j][2] = v}
Stays(d) == master(d[2]) # master(d[1]) /\ master(d[2]) \in Copies(d)

Placement ==
    /\ \A i \in Parts : setEdge[i] \subseteq Read
    /\ \A d \in Read : Copies(d) # {}
    /\ cut = "edge" => \A d \in Read : Copies(d) = {master(d[1]), master(d[2])}
    /\ cut \in {"vertex", "greedy"} => \A d \in Read : Cardinality(Copies(d)) <= Cardinality(Lines(d))

Remembered ==
    cut = "hybrid" =>
        /\ degree \in [Vertices -> SUBSET Vertices]
        /\ \A d \in Read :
              /\ Copies(d) \subseteq {master(d[1]), master(d[2])}
              /\ Cardinality(Into(d[2])) <= threshold => Copies(d) = {master(d[2])}
              /\ Stays(d) => d[1] \in degree[d[2]]
        /\ \A v \in Vertices : Cardinality(degree[v]) <= threshold
                               /\ Cardinality(degree[v]) <= Cardinality(Into(v))

PInv == IInv /\ Placement /\ Remembered

LEMMA PartsFinite ==
    /\ IsFiniteSet(Parts)
    /\ \A S \in SUBSET Parts : IsFiniteSet(S) /\ Cardinality(S) \in Nat
    /\ \A S \in SUBSET Vertices : IsFiniteSet(S) /\ Cardinality(S) \in Nat
<1>1. IsFiniteSet(Parts)
  BY PartitionersAssumption, FS_Interval DEF Parts
<1>2. QED
  BY <1>1, PartitionersAssumption, FS_Subset, FS_CardinalityType

LEMMA LinesFinite ==
    ASSUME Types, NEW S, S \subseteq 1 .. e
    PROVE  IsFiniteSet(S) /\ Cardinality(S) \in Nat /\ e + 1 \notin S
<1>1. IsFiniteSet(1 .. e) /\ e \in Nat
  BY FS_Interval DEF Types
<1>2. IsFiniteSet(S) /\ Cardinality(S) \in Nat
  BY <1>1, FS_Subset, FS_CardinalityType
<1>3. e + 1 \notin S
  BY <1>1
<1>4. QED
  BY <1>2, <1>3

(* One edge more, in the partitions S.                                     *)
LEMMA EdgeRead ==
    ASSUME Types, Placement, Reading, NEW S \in SUBSET Parts,
           setEdge' = [i \in Parts |-> setEdge[i] \union (IF i \in S THEN {edge} ELSE {})],
           file' = file, e' = e + 1
    PROVE  /\ Read' = Read \union {edge} /\ edge \in Vertices \X Vertices /\ Read \subseteq Vertices \X Vertices
           /\ \A i \in Parts : setEdge'[i] \subseteq Read \union {edge}
           /\ \A d : Copies(d)' = Copies(d) \union (IF d = edge THEN S ELSE {})
           /\ \A d : Lines(d)' = Lines(d) \union (IF d = edge THEN {e + 1} ELSE {})
           /\ \A v : Into(v)' = Into(v) \union (IF v = dst THEN {e + 1} ELSE {})
           /\ \A d : d \notin Read => Copies(d) = {}
<1>1. edge = file[e + 1] /\ dst = file[e + 1][2] /\ e \in Nat
  BY DEF edge, dst, Types
<1>2. Read' = Read \union {edge} /\ edge \in Vertices \X Vertices
  <2>1. /\ {file[j] : j \in 1 .. e + 1} = Read \union {edge}
        /\ src \in Vertices /\ dst \in Vertices /\ edge = <<src, dst>>
    BY NextEdge
  <2>2. QED
    BY <2>1 DEF Read
<1>3. Read \subseteq Vertices \X Vertices
  BY DEF Types, Read
<1>4. 1 .. e + 1 = (1 .. e) \union {e + 1}
  BY <1>1
<1>5. ASSUME NEW d PROVE Lines(d)' = Lines(d) \union (IF d = edge THEN {e + 1} ELSE {})
  BY <1>1, <1>4 DEF Lines
<1>6. ASSUME NEW v PROVE Into(v)' = Into(v) \union (IF v = dst THEN {e + 1} ELSE {})
  BY <1>1, <1>4 DEF Into
<1>7. ASSUME NEW d PROVE Copies(d)' = Copies(d) \union (IF d = edge THEN S ELSE {})
  BY DEF Copies, Parts
<1>8. \A i \in Parts : setEdge'[i] \subseteq Read \union {edge}
  BY DEF Placement
<1>9. \A d : d \notin Read => Copies(d) = {}
  BY DEF Copies, Placement
<1>10. QED
  BY <1>2, <1>3, <1>5, <1>6, <1>7, <1>8, <1>9

(* The edge-cut and the vertex-cuts.                                       *)
LEMMA PlacementKept ==
    ASSUME Types, Placement, Reading, NEW S \in SUBSET Parts, S # {}, cut # "hybrid",
           setEdge' = [i \in Parts |-> setEdge[i] \union (IF i \in S THEN {edge} ELSE {})],
           file' = file, e' = e + 1, cut' = cut, hash' = hash,
           cut = "edge" => S = {master(src), master(dst)},
           cut \in {"vertex", "greedy"} => \E k \in Parts : S = {k}
    PROVE  Placement' /\ Remembered'
<1>1. /\ Read' = Read \union {edge} /\ edge \in Vertices \X Vertices
      /\ \A i \in Parts : setEdge'[i] \subseteq Read \union {edge}
      /\ \A d : Copies(d)' = Copies(d) \union (IF d = edge THEN S ELSE {})
      /\ \A d : Lines(d)' = Lines(d) \union (IF d = edge THEN {e + 1} ELSE {})
      /\ \A d : d \notin Read => Copies(d) = {}
  BY EdgeRead
<1>2. \A i \in Parts : setEdge'[i] \subseteq Read'
  BY <1>1
<1>3. \A d \in Read' : Copies(d)' # {}
  BY <1>1 DEF Placement
<1>4. ASSUME cut = "edge", NEW d \in Read'
      PROVE  Copies(d)' = {hash[d[1]], hash[d[2]]}
  <2>1. CASE d = edge
    BY <1>1, <1>4, <2>1 DEF Placement, src, dst, master
  <2>2. CASE d # edge
    BY <1>1, <1>4, <2>2 DEF Placement, master
  <2>3. QED
    BY <2>1, <2>2
<1>5. ASSUME cut \in {"vertex", "greedy"}, NEW d \in Read'
      PROVE  Cardinality(Copies(d)') <= Cardinality(Lines(d)')
  <2>1. PICK k \in Parts : S = {k}
    BY <1>5
  <2>2. CASE d # edge
    <3>1. d \in Read /\ Copies(d)' = Copies(d) /\ Lines(d)' = Lines(d)
      BY <1>1, <2>2
    <3>2. QED
      BY <1>5, <3>1 DEF Placement
  <2>3. CASE d = edge
    <3>1. /\ IsFiniteSet(Copies(d)) /\ Cardinality(Copies(d)) \in Nat
          /\ IsFiniteSet(Lines(d)) /\ Cardinality(Lines(d)) \in Nat /\ e + 1 \notin Lines(d)
      <4>1. Copies(d) \in SUBSET Parts /\ Lines(d) \subseteq 1 .. e
        BY DEF Copies, Lines
      <4>2. QED
        BY <4>1, PartsFinite, LinesFinite
    <3>2. Cardinality(Copies(d)) <= Cardinality(Lines(d))
      <4>1. CASE d \in Read
        BY <1>5, <4>1 DEF Placement
      <4>2. CASE d \notin Read
        BY <1>1, <3>1, <4>2, FS_EmptySet
      <4>3. QED
        BY <4>1, <4>2
    <3>3. Copies(d)' = Copies(d) \union {k} /\ Lines(d)' = Lines(d) \union {e + 1}
      BY <1>1, <2>1, <2>3
    <3>4. Cardinality(Copies(d) \union {k}) \in {Cardinality(Copies(d)), Cardinality(Copies(d)) + 1}
      BY <3>1, FS_AddElement
    <3>5. Cardinality(Lines(d) \union {e + 1}) = Cardinality(Lines(d)) + 1
      BY <3>1, FS_AddElement
    <3>6. QED
      BY <3>1, <3>2, <3>3, <3>4, <3>5
  <2>4. QED
    BY <2>2, <2>3
<1>6. QED
  BY <1>2, <1>3, <1>4, <1>5 DEF Placement, Remembered, Parts, master

(* The hybrid-cut.                                                         *)
LEMMA RememberedKept ==
    ASSUME Types, Placement, Remembered, Reading, cut = "hybrid", NEW k \in Parts,
           setEdge' = [i \in Parts |-> setEdge[i] \union (IF i \in {k} THEN {edge} ELSE {})],
           file' = file, e' = e + 1, cut' = cut, hash' = hash,
           \/ /\ k = master(dst) /\ Cardinality(degree[dst]) + 1 <= threshold
              /\ degree' = [degree EXCEPT ![dst] = @ \union {src}]
           \/ k = master(src) /\ Cardinality(degree[dst]) + 1 > threshold /\ degree' = degree
    PROVE  Placement' /\ Remembered'
<1>1. /\ Read' = Read \union {edge} /\ edge \in Vertices \X Vertices /\ Read \subseteq Vertices \X Vertices
      /\ \A i \in Parts : setEdge'[i] \subseteq Read \union {edge}
      /\ \A d : Copies(d)' = Copies(d) \union (IF d = edge THEN {k} ELSE {})
      /\ \A v : Into(v)' = Into(v) \union (IF v = dst THEN {e + 1} ELSE {})
      /\ \A d : d \notin Read => Copies(d) = {}
  BY EdgeRead
<1>2. src = edge[1] /\ dst = edge[2] /\ src \in Vertices /\ dst \in Vertices
  BY NextEdge DEF src, dst
<1>3. /\ degree \in [Vertices -> SUBSET Vertices]
      /\ \A v \in Vertices : /\ IsFiniteSet(degree[v]) /\ Cardinality(degree[v]) \in Nat
                             /\ Cardinality(degree[v]) <= threshold
                             /\ Cardinality(degree[v]) <= Cardinality(Into(v))
  BY PartsFinite DEF Remembered
<1>4. \A v : IsFiniteSet(Into(v)) /\ Cardinality(Into(v)) \in Nat /\ e + 1 \notin Into(v)
  <2>1. \A v : Into(v) \subseteq 1 .. e
    BY DEF Into
  <2>2. QED
    BY <2>1, LinesFinite
<1>5. \A v : Cardinality(Into(v)') = IF v = dst THEN Cardinality(Into(v)) + 1 ELSE Cardinality(Into(v))
  <2> SUFFICES ASSUME NEW v
               PROVE  Cardinality(Into(v)') = IF v = dst THEN Cardinality(Into(v)) + 1 ELSE Cardinality(Into(v))
    OBVIOUS
  <2>1. Cardinality(Into(v) \union {e + 1}) = Cardinality(Into(v)) + 1
    BY <1>4, FS_AddElement
  <2>2. Into(v)' = IF v = dst THEN Into(v) \union {e + 1} ELSE Into(v)
    BY <1>1
  <2>3. QED
    BY <2>1, <2>2
<1>6. /\ degree' \in [Vertices -> SUBSET Vertices]
      /\ \A v \in Vertices : degree[v] \subseteq degree'[v]
  BY <1>2, <1>3
<1>7. ASSUME NEW v \in Vertices
      PROVE  Cardinality(degree'[v]) <= threshold /\ Cardinality(degree'[v]) <= Cardinality(Into(v)')
  <2>1. CASE degree'[v] = degree[v]
    BY <1>3, <1>4, <1>5, <2>1
  <2>2. CASE degree'[v] # degree[v]
    <3>1. v = dst /\ degree'[v] = degree[v] \union {src} /\ Cardinality(degree[v]) + 1 <= threshold
      BY <1>2, <1>3, <2>2
    <3>2. Cardinality(degree'[v]) \in {Cardinality(degree[v]), Cardinality(degree[v]) + 1}
      BY <1>3, <3>1, FS_AddElement, ZenonT(30)
    <3>3. Cardinality(Into(v)') = Cardinality(Into(v)) + 1
      BY <1>5, <3>1
    <3>4. QED
      BY <1>3, <1>4, <3>1, <3>2, <3>3, PartitionersAssumption
  <2>3. QED
    BY <2>1, <2>2
<1>8. ASSUME NEW d \in Read'
      PROVE  /\ Copies(d)' \subseteq {hash[d[1]], hash[d[2]]}
             /\ Cardinality(Into(d[2])') <= threshold => Copies(d)' = {hash[d[2]]}
             /\ hash[d[2]] # hash[d[1]] /\ hash[d[2]] \in Copies(d)' => d[1] \in degree'[d[2]]
  <2>1. d \in Read => /\ Copies(d) \subseteq {hash[d[1]], hash[d[2]]}
                      /\ Cardinality(Into(d[2])) <= threshold => Copies(d) = {hash[d[2]]}
                      /\ hash[d[2]] # hash[d[1]] /\ hash[d[2]] \in Copies(d) => d[1] \in degree[d[2]]
    BY DEF Remembered, Stays, master
  <2>2. d[1] \in Vertices /\ d[2] \in Vertices
    BY <1>1
  <2>3. Cardinality(Into(d[2])') <= threshold => Cardinality(Into(d[2])) <= threshold
    BY <1>4, <1>5, PartitionersAssumption
  <2>4. CASE d # edge
    BY <1>1, <1>6, <2>1, <2>2, <2>3, <2>4
  <2>5. CASE d = edge
    <3>1. Copies(d)' = Copies(d) \union {k} /\ d[1] = src /\ d[2] = dst
      BY <1>1, <1>2, <2>5
    <3>2. Copies(d) \subseteq {hash[src], hash[dst]} /\ k \in {hash[src], hash[dst]}
      BY <1>1, <2>1, <3>1 DEF master
    <3>3. ASSUME Cardinality(Into(d[2])') <= threshold PROVE Copies(d)' = {hash[d[2]]}
      <4>1. Cardinality(Into(dst)) + 1 <= threshold
        BY <1>5, <3>1, <3>3
      <4>2. Cardinality(degree[dst]) + 1 <= threshold
        BY <1>2, <1>3, <1>4, <4>1, PartitionersAssumption
      <4>3. k = hash[dst]
        BY <1>2, <1>3, <4>2, PartitionersAssumption DEF master
      <4>4. Copies(d) \subseteq {hash[dst]}
        BY <1>1, <2>1, <2>3, <3>1, <3>3
      <4>5. QED
        BY <3>1, <4>3, <4>4
    <3>4. ASSUME hash[dst] # hash[src], hash[dst] \in Copies(d)' PROVE src \in degree'[dst]
      <4>1. CASE k = hash[dst]
        BY <1>2, <1>3, <3>4, <4>1 DEF master
      <4>2. CASE k # hash[dst]
        BY <1>1, <1>2, <1>6, <2>1, <3>1, <3>4, <4>2
      <4>3. QED
        BY <4>1, <4>2
    <3>5. QED
      BY <3>1, <3>2, <3>3, <3>4
  <2>6. QED
    BY <2>4, <2>5
<1>9. Placement'
  <2>1. \A i \in Parts : setEdge'[i] \subseteq Read'
    BY <1>1
  <2>2. \A d \in Read' : Copies(d)' # {}
    BY <1>1 DEF Placement
  <2>3. QED
    BY <2>1, <2>2 DEF Placement, Parts
<1>10. Remembered'
  BY <1>6, <1>7, <1>8 DEF Remembered, Stays, master
<1>11. QED
  BY <1>9, <1>10

LEMMA StepPlaced == PInv /\ [Next]_vars => Placement' /\ Remembered'
<1> SUFFICES ASSUME PInv, [Next]_vars PROVE Placement' /\ Remembered'
  OBVIOUS
<1> USE DEF PInv, IInv
<1>1. Reading => src \in Vertices /\ dst \in Vertices /\ e + 1 \in Hashed
  BY NextEdge DEF Hashed
<1>2. \A x \in Hashed : hash[x] \in Parts
  BY DEF Types
<1>3. Vertices \subseteq Hashed
  BY DEF Hashed
<1>4. ASSUME NEW S, NEW M, Place(S, M)
      PROVE  setEdge' = [i \in Parts |-> setEdge[i] \union (IF i \in S THEN {edge} ELSE {})]
  BY <1>4 DEF Place, Insert
<1>5. CASE EdgeCut
  <2>1. {master(src), master(dst)} \in SUBSET Parts /\ {master(src), master(dst)} # {}
    BY <1>1, <1>2, <1>3, <1>5 DEF EdgeCut, master
  <2>2. QED
    BY <1>4, <1>5, <2>1, PlacementKept DEF EdgeCut, EdgeDone
<1>6. CASE VertexCut
  <2>1. master(e + 1) \in Parts
    BY <1>1, <1>2, <1>6 DEF VertexCut, master
  <2>2. {master(e + 1)} \in SUBSET Parts /\ {master(e + 1)} # {} /\ \E k \in Parts : {master(e + 1)} = {k}
    BY <2>1
  <2>3. QED
    BY <1>4, <1>6, <2>2, PlacementKept DEF VertexCut, EdgeDone
<1>7. CASE Greedy
  <2>1. PICK bestP \in tiedPartitions : Place({bestP}, vertexMaster')
    BY <1>7 DEF Greedy
  <2>2. bestP \in Parts
    BY DEF tiedPartitions
  <2>3. {bestP} \in SUBSET Parts /\ {bestP} # {} /\ \E k \in Parts : {bestP} = {k}
    BY <2>2
  <2>4. setEdge' = [i \in Parts |-> setEdge[i] \union (IF i \in {bestP} THEN {edge} ELSE {})]
    BY <1>4, <2>1
  <2>5. QED
    BY <1>7, <2>3, <2>4, PlacementKept DEF Greedy, EdgeDone
<1>8. ASSUME NEW k, setEdge' = [setEdge EXCEPT ![k] = @ \union {edge}]
      PROVE  setEdge' = [i \in Parts |-> setEdge[i] \union (IF i \in {k} THEN {edge} ELSE {})]
  BY <1>8 DEF Types
<1>9. CASE HybridTarget
  <2>1. master(dst) \in Parts
    BY <1>1, <1>2, <1>3, <1>9 DEF HybridTarget, master
  <2>2. QED
    BY <1>8, <1>9, <2>1, RememberedKept DEF HybridTarget, EdgeDone
<1>10. CASE HybridSource
  <2>1. master(src) \in Parts
    BY <1>1, <1>2, <1>3, <1>10 DEF HybridSource, master
  <2>2. QED
    BY <1>8, <1>10, <2>1, RememberedKept DEF HybridSource, EdgeDone
<1>11. CASE PrintPartitions \/ UNCHANGED vars
  <2>1. cut' = cut /\ file' = file /\ hash' = hash /\ e' = e /\ setEdge' = setEdge /\ degree' = degree
    BY <1>11 DEF PrintPartitions, vars
  <2>2. Read' = Read /\ \A d : Copies(d)' = Copies(d) /\ Lines(d)' = Lines(d)
    BY <2>1 DEF Read, Copies, Lines, Parts
  <2>3. (\A v : Into(v)' = Into(v)) /\ \A d : Stays(d)' = Stays(d)
    BY <2>1 DEF Into, Stays, Copies, master, Parts
  <2>4. Placement'
    BY <2>1, <2>2 DEF Placement, master, Parts
  <2>5. Remembered'
    BY <2>1, <2>2, <2>3 DEF Remembered, master
  <2>6. QED
    BY <2>4, <2>5
<1>12. QED
  BY <1>5, <1>6, <1>7, <1>9, <1>10, <1>11 DEF Next, Finished

LEMMA InitPlaced == Init => Placement /\ Remembered
<1> SUFFICES ASSUME Init PROVE Placement /\ Remembered
  OBVIOUS
<1>1. Read = {} /\ \A i \in Parts : setEdge[i] = {}
  BY DEF Init, Empty, Read
<1>2. \A v \in Vertices : degree[v] = {} /\ Into(v) = {}
  BY DEF Init, Into
<1>3. degree \in [Vertices -> SUBSET Vertices]
  BY DEF Init
<1>4. \A v \in Vertices : Cardinality(degree[v]) = 0 /\ Cardinality(Into(v)) = 0
  BY <1>2, FS_EmptySet
<1>5. Placement
  BY <1>1 DEF Placement
<1>6. Remembered
  BY <1>1, <1>3, <1>4, PartitionersAssumption DEF Remembered
<1>7. QED
  BY <1>5, <1>6

(* At most threshold in-edges of a vertex stay with it: they have sources  *)
(* of their own, and these are remembered.                                 *)
LEMMA PlacedImplies == PInv => EdgesPlaced
<1> SUFFICES ASSUME PInv PROVE EdgesPlaced
  OBVIOUS
<1> USE DEF PInv, IInv
<1>1. UNION {setEdge[i] : i \in Parts} = Read
  BY DEF Placement, Copies
<1>2. ASSUME NEW d \in Read, cut \in {"vertex", "greedy"}
      PROVE  Cardinality(Copies(d)) \in 1 .. Cardinality({j \in 1 .. e : file[j] = d})
  <2>1. Copies(d) # {} /\ Cardinality(Copies(d)) <= Cardinality(Lines(d))
    BY <1>2 DEF Placement
  <2>2. Copies(d) \in SUBSET Parts /\ Lines(d) \subseteq 1 .. e
    BY DEF Copies, Lines
  <2>3. /\ IsFiniteSet(Copies(d)) /\ Cardinality(Copies(d)) \in Nat
        /\ Cardinality(Lines(d)) \in Nat
    BY <2>2, PartsFinite, LinesFinite
  <2>4. Cardinality(Copies(d)) # 0
    BY <2>1, <2>3, FS_EmptySet
  <2>5. QED
    BY <2>1, <2>3, <2>4 DEF Lines
<1>3. ASSUME cut = "hybrid", NEW v \in Vertices
      PROVE  Cardinality({d \in Read : d[2] = v /\ master(v) # master(d[1]) /\ master(v) \in Copies(d)}) <= threshold
  <2> DEFINE D == {d \in Read : d[2] = v /\ master(v) # master(d[1]) /\ master(v) \in Copies(d)}
             pair == [u \in degree[v] |-> <<u, v>>]
             H == {pair[u] : u \in degree[v]}
  <2>1. degree[v] \in SUBSET Vertices /\ IsFiniteSet(degree[v]) /\ Cardinality(degree[v]) \in Nat
    BY <1>3, PartsFinite DEF Remembered
  <2>2. IsFiniteSet(H) /\ Cardinality(H) <= Cardinality(degree[v])
    <3>1. H = {<<u, v>> : u \in degree[v]}
      OBVIOUS
    <3>2. pair \in Surjection(degree[v], H)
      BY DEF Surjection
    <3>3. QED
      <4> HIDE DEF H, pair
      <4>1. QED
        BY <2>1, <3>2, FS_Surjection
  <2>3. D \subseteq H
    <3> SUFFICES ASSUME NEW d \in D PROVE d \in H
      OBVIOUS
    <3>1. d = <<d[1], v>>
      BY DEF Types, Read
    <3>2. d[1] \in degree[v]
      BY <1>3 DEF Remembered, Stays
    <3>3. QED
      BY <3>1, <3>2
  <2>4. Cardinality(D) <= Cardinality(H) /\ Cardinality(D) \in Nat /\ Cardinality(H) \in Nat
    <3> HIDE DEF D, H
    <3>1. QED
      BY <2>2, <2>3, FS_Subset, FS_CardinalityType
  <2>5. QED
    <3>1. Cardinality(degree[v]) <= threshold
      BY <1>3 DEF Remembered
    <3>2. Cardinality(D) <= threshold
      <4> HIDE DEF D, H
      <4>1. QED
        BY <2>1, <2>2, <2>4, <3>1, PartitionersAssumption
    <3>3. QED
      BY <3>2
<1>4. ASSUME NEW d \in Read
      PROVE  /\ cut = "edge" => Copies(d) = {master(d[1]), master(d[2])}
             /\ cut = "hybrid" =>
                   /\ Copies(d) \subseteq {master(d[1]), master(d[2])}
                   /\ Cardinality({j \in 1 .. e : file[j][2] = d[2]}) <= threshold
                         => Copies(d) = {master(d[2])}
  BY DEF Placement, Remembered, Into
<1>5. QED
  BY <1>1, <1>2, <1>3, <1>4 DEF EdgesPlaced

(* No cut loses an edge or puts it where it does not belong: an edge is    *)
(* with its two masters (edge-cut), once per line of the file that has it  *)
(* (vertex-cuts), or with its target until that has threshold sources, and *)
(* then with its source (hybrid-cut).                                      *)
THEOREM EdgesArePlaced == Spec => []EdgesPlaced
<1>1. Init => PInv
  BY InitInv, InitPlaced DEF PInv
<1>2. PInv /\ [Next]_vars => PInv'
  BY StepInv, StepPlaced DEF PInv
<1>3. PInv => EdgesPlaced
  BY PlacedImplies
<1>4. QED
  BY <1>1, <1>2, <1>3, PTL DEF Spec
-----------------------------------------------------------------------------
(* The arrays of homework 2.  First induction, as a statement about sets.  *)
Less == {ss \in Nat \X Nat : ss[1] < ss[2]}

LEMMA LessIsWellFounded == IsWellFoundedOn(Less, Nat)
BY Zenon, NatLessThanWellFounded DEF OpToRel, Less

LEMMA NatSet ==
    ASSUME NEW S, 0 \in S, \A x \in Nat : x \in S => x + 1 \in S
    PROVE  Nat \subseteq S
<1> DEFINE T == Nat \ S
<1> SUFFICES ASSUME T # {} PROVE FALSE
  OBVIOUS
<1>1. PICK x \in T : \A y \in T : ~(<<y, x>> \in Less)
  <2>1. T \subseteq Nat
    OBVIOUS
  <2> HIDE DEF T
  <2>2. QED
    BY <2>1, LessIsWellFounded, WFMin
<1>2. x # 0 /\ x - 1 \in Nat
  OBVIOUS
<1>3. x - 1 \notin T
  <2>1. <<x - 1, x>> \in Less
    BY <1>2 DEF Less
  <2> HIDE DEF T
  <2>2. QED
    BY <1>1, <2>1
<1>4. QED
  BY <1>2, <1>3

(* The counting sort of build_incoming_edges.  The place of position k is  *)
(* the number of positions before it: with a smaller target, or with the   *)
(* same target and nearer the front.                                       *)
Lower(f, m, c) == {l \in 0 .. m - 1 : f[l] < c}
Before(f, m, k) == {l \in 0 .. m - 1 : f[l] < f[k] \/ (f[l] = f[k] /\ l < k)}
Rank(f, m, k) == Cardinality(Before(f, m, k))

LEMMA PartsOfAll ==
    ASSUME NEW m \in Nat, NEW S \in SUBSET (0 .. m - 1)
    PROVE  IsFiniteSet(S) /\ Cardinality(S) \in 0 .. m
<1>1. IsFiniteSet(0 .. m - 1) /\ Cardinality(0 .. m - 1) = m
  BY FS_Interval
<1>2. IsFiniteSet(S) /\ Cardinality(S) <= m
  BY <1>1, FS_Subset
<1>3. QED
  BY <1>2, FS_CardinalityType

LEMMA LargerPart ==
    ASSUME NEW m \in Nat, NEW T \in SUBSET (0 .. m - 1), NEW S \in SUBSET T
    PROVE  /\ Cardinality(S) <= Cardinality(T)
           /\ \A x \in T : x \notin S => Cardinality(S) < Cardinality(T)
<1>1. IsFiniteSet(T) /\ Cardinality(T) \in Nat /\ Cardinality(S) \in Nat
  BY PartsOfAll
<1>2. Cardinality(S) <= Cardinality(T) /\ (Cardinality(T) = Cardinality(S) => T = S)
  BY <1>1, FS_Subset
<1>3. QED
  BY <1>1, <1>2

LEMMA LowerCount ==
    ASSUME NEW m \in Nat, NEW f \in [0 .. m - 1 -> Nat], NEW c \in Nat
    PROVE  Cardinality(Lower(f, m, c)) \in 0 .. m
BY PartsOfAll DEF Lower

LEMMA LowerGrows ==
    ASSUME NEW m \in Nat, NEW f \in [0 .. m - 1 -> Nat], NEW c \in Nat, NEW d \in Nat, c <= d
    PROVE  Cardinality(Lower(f, m, c)) <= Cardinality(Lower(f, m, d))
<1>1. Lower(f, m, d) \in SUBSET (0 .. m - 1)
  BY DEF Lower
<1>2. Lower(f, m, c) \in SUBSET Lower(f, m, d)
  BY DEF Lower
<1>3. QED
  BY <1>1, <1>2, LargerPart

(* Two disjoint parts count together what each counts.                     *)
LEMMA TwoParts ==
    ASSUME NEW m \in Nat, NEW A \in SUBSET (0 .. m - 1), NEW B \in SUBSET (0 .. m - 1), A \cap B = {}
    PROVE  Cardinality(A \cup B) = Cardinality(A) + Cardinality(B)
<1>1. IsFiniteSet(A) /\ IsFiniteSet(B) /\ Cardinality(A) \in Nat /\ Cardinality(B) \in Nat
  BY PartsOfAll
<1>2. Cardinality(A \cup B) = Cardinality(A) + Cardinality(B) - Cardinality(A \cap B)
  BY <1>1, FS_Union
<1>3. Cardinality(A \cap B) = 0
  BY FS_EmptySet
<1>4. QED
  BY <1>1, <1>2, <1>3

LEMMA RankIsPosition ==
    ASSUME NEW m \in Nat, NEW f \in [0 .. m - 1 -> Nat], NEW k \in 0 .. m - 1
    PROVE  /\ Rank(f, m, k) = Cardinality(Lower(f, m, f[k])) + Cardinality({l \in 0 .. k - 1 : f[l] = f[k]})
           /\ Rank(f, m, k) \in 0 .. m - 1
           /\ Cardinality(Lower(f, m, f[k])) <= Rank(f, m, k)
           /\ Rank(f, m, k) < Cardinality(Lower(f, m, f[k] + 1))
<1> DEFINE A == Lower(f, m, f[k])
           B == {l \in 0 .. k - 1 : f[l] = f[k]}
           C == Before(f, m, k)
           D == Lower(f, m, f[k] + 1)
<1>1. A \in SUBSET (0 .. m - 1) /\ B \in SUBSET (0 .. m - 1) /\ D \in SUBSET (0 .. m - 1)
  BY DEF Lower
<1>2. C = A \cup B /\ A \cap B = {}
  BY DEF Lower, Before
<1>3. C \in SUBSET D /\ k \in D /\ k \notin C
  BY DEF Lower, Before
<1> HIDE DEF A, B, C, D
<1>4. Cardinality(C) = Cardinality(A) + Cardinality(B)
  BY <1>1, <1>2, TwoParts
<1>5. Cardinality(C) < Cardinality(D)
  BY <1>1, <1>3, LargerPart
<1>6. Cardinality(A) \in 0 .. m /\ Cardinality(B) \in 0 .. m /\ Cardinality(D) \in 0 .. m
  BY <1>1, PartsOfAll
<1>7. QED
  BY <1>4, <1>5, <1>6 DEF Rank, A, B, C, D

LEMMA RanksAscend ==
    ASSUME NEW m \in Nat, NEW f \in [0 .. m - 1 -> Nat], NEW k \in 0 .. m - 1, NEW l \in 0 .. m - 1,
           f[k] < f[l] \/ (f[k] = f[l] /\ k < l)
    PROVE  Rank(f, m, k) < Rank(f, m, l)
<1>1. Before(f, m, l) \in SUBSET (0 .. m - 1)
  BY DEF Before
<1>2. ASSUME NEW z \in Before(f, m, k) PROVE z \in Before(f, m, l)
  <2>1. z \in 0 .. m - 1 /\ (f[z] < f[k] \/ (f[z] = f[k] /\ z < k))
    BY DEF Before
  <2>2. f[k] \in Nat /\ f[l] \in Nat /\ f[z] \in Nat
    BY <2>1
  <2>3. f[z] < f[l] \/ (f[z] = f[l] /\ z < l)
    BY <2>1, <2>2
  <2>4. QED
    BY <2>1, <2>3 DEF Before
<1>3. k \in Before(f, m, l) /\ k \notin Before(f, m, k)
  BY DEF Before
<1>4. QED
  BY <1>1, <1>2, <1>3, LargerPart DEF Rank

LEMMA RanksDiffer ==
    ASSUME NEW m \in Nat, NEW f \in [0 .. m - 1 -> Nat], NEW k \in 0 .. m - 1, NEW l \in 0 .. m - 1,
           Rank(f, m, k) = Rank(f, m, l)
    PROVE  k = l
<1>1. Rank(f, m, k) \in 0 .. m - 1 /\ Rank(f, m, l) \in 0 .. m - 1
  BY RankIsPosition
<1>2. f[k] \in Nat /\ f[l] \in Nat
  OBVIOUS
<1>3. ASSUME NEW x \in 0 .. m - 1, NEW y \in 0 .. m - 1, f[x] < f[y] \/ (f[x] = f[y] /\ x < y)
      PROVE  Rank(f, m, x) < Rank(f, m, y)
  BY <1>3, RanksAscend
<1>4. QED
  BY <1>1, <1>2, <1>3

LEMMA RanksCover ==
    ASSUME NEW m \in Nat, NEW f \in [0 .. m - 1 -> Nat], NEW x \in 0 .. m - 1
    PROVE  \E k \in 0 .. m - 1 : Rank(f, m, k) = x
<1> DEFINE g == [k \in 0 .. m - 1 |-> Rank(f, m, k)]
<1>1. g \in [0 .. m - 1 -> 0 .. m - 1]
  BY RankIsPosition
<1>2. g \in Injection(0 .. m - 1, 0 .. m - 1)
  <2>1. \A k, l \in 0 .. m - 1 : g[k] = g[l] => k = l
    BY RanksDiffer
  <2> HIDE DEF g
  <2>2. QED
    BY <1>1, <2>1 DEF Injection, IsInjective
<1>3. g \in Surjection(0 .. m - 1, 0 .. m - 1)
  <2> HIDE DEF g
  <2>1. IsFiniteSet(0 .. m - 1)
    BY FS_Interval
  <2>2. QED
    BY <1>2, <2>1, FS_Injection
<1>4. \E k \in 0 .. m - 1 : g[k] = x
  <2> HIDE DEF g
  <2>1. QED
    BY <1>3 DEF Surjection
<1>5. QED
  BY <1>4

(* The places between the ends of two neighbouring vertices are those of   *)
(* the positions whose target is the first.                                *)
LEMMA RanksAreGrouped ==
    ASSUME NEW m \in Nat, NEW f \in [0 .. m - 1 -> Nat], NEW k \in 0 .. m - 1, NEW c \in Nat,
           Cardinality(Lower(f, m, c)) <= Rank(f, m, k), Rank(f, m, k) < Cardinality(Lower(f, m, c + 1))
    PROVE  f[k] = c
<1> DEFINE r == Rank(f, m, k)
           low(x) == Cardinality(Lower(f, m, x))
<1>1. f[k] \in Nat /\ f[k] + 1 \in Nat /\ c + 1 \in Nat
  OBVIOUS
<1>2. r \in 0 .. m - 1 /\ low(f[k]) <= r /\ r < low(f[k] + 1)
  BY RankIsPosition
<1>3. \A x \in Nat : low(x) \in 0 .. m
  BY LowerCount
<1>4. \A x, y \in Nat : x <= y => low(x) <= low(y)
  BY LowerGrows
<1>5. low(c) <= r /\ r < low(c + 1)
  OBVIOUS
<1> HIDE DEF r, low
<1>6. ~(f[k] < c)
  <2>1. f[k] + 1 <= c => low(f[k] + 1) <= low(c)
    BY <1>1, <1>4
  <2>2. low(c) \in 0 .. m /\ low(f[k] + 1) \in 0 .. m
    BY <1>1, <1>3
  <2>3. ~(f[k] + 1 <= c)
    BY <1>2, <1>5, <2>1, <2>2
  <2>4. QED
    BY <1>1, <2>3
<1>7. ~(c < f[k])
  <2>1. c + 1 <= f[k] => low(c + 1) <= low(f[k])
    BY <1>1, <1>4
  <2>2. low(f[k]) \in 0 .. m /\ low(c + 1) \in 0 .. m
    BY <1>1, <1>3
  <2>3. ~(c + 1 <= f[k])
    BY <1>2, <1>5, <2>1, <2>2
  <2>4. QED
    BY <1>1, <2>3
<1>8. QED
  BY <1>1, <1>6, <1>7

-----------------------------------------------------------------------------
(* The arrays that build_incoming_edges starts from.                       *)
IsCsr(a) ==
    /\ a.num_nodes = numNodes
    /\ a.num_edges \in Nat
    /\ a.outgoing_starts \in [Vertices -> 0 .. a.num_edges]
    /\ a.outgoing_edges \in [0 .. a.num_edges - 1 -> Vertices]
    /\ \A v \in Vertices : v = 0 => a.outgoing_starts[v] = 0
    /\ \A u, v \in Vertices : u <= v => a.outgoing_starts[u] <= a.outgoing_starts[v]

LEMMA Numbered == numNodes \in Nat /\ Vertices = 0 .. numNodes - 1 /\ Vertices \subseteq Nat
BY PartitionersAssumption, FilesAssumption, FS_CardinalityType DEF numNodes

\* The cardinality that CsrGraph sees.
LEMMA SameCount == \A S : G!Cardinality(S) = Cardinality(S)
BY Zenon DEF G!Cardinality, Cardinality

LEMMA NodesAre ==
    ASSUME NEW a, IsCsr(a)
    PROVE  G!Nodes(a) = Vertices
BY Numbered DEF IsCsr, G!Nodes

(* The prefix sums are what they count: the edges to smaller vertices.     *)
LEMMA StartsCount ==
    ASSUME NEW a, IsCsr(a)
    PROVE  G!IncomingStarts(a) =
               [v \in Vertices |-> Cardinality(Lower(a.outgoing_edges, a.num_edges, v))]
<1> DEFINE m == a.num_edges
           d == a.outgoing_edges
           count(v) == Cardinality(Lower(d, m, v))
           closed == [v \in Vertices |-> count(v)]
           step(f) == [i \in Vertices |-> IF i = 0 THEN 0 ELSE f[i - 1] + G!CountTargets(a, i - 1, a.num_edges)]
<1>1. m \in Nat /\ d \in [0 .. m - 1 -> Nat]
  BY Numbered DEF IsCsr
<1>2. count(0) = 0
  <2>1. Lower(d, m, 0) = {}
    BY <1>1 DEF Lower
  <2> HIDE DEF d, m
  <2>2. QED
    BY <2>1, FS_EmptySet
<1>3. ASSUME NEW i \in Vertices, i # 0
      PROVE  i - 1 \in Vertices /\ count(i) = count(i - 1) + G!CountTargets(a, i - 1, a.num_edges)
  <2>1. i \in Nat /\ i - 1 \in Nat /\ i - 1 \in Vertices
    BY <1>3, Numbered
  <2> DEFINE A == Lower(d, m, i - 1)
             B == {j \in 0 .. m - 1 : d[j] = i - 1}
  <2>2. A \in SUBSET (0 .. m - 1) /\ B \in SUBSET (0 .. m - 1)
    BY DEF Lower
  <2>3. A \cap B = {}
    BY <1>1, <2>1 DEF Lower
  <2>4. Lower(d, m, i) = A \cup B
    BY <1>1, <2>1 DEF Lower
  <2>5. Cardinality(B) = G!CountTargets(a, i - 1, a.num_edges)
    BY SameCount, Zenon DEF G!CountTargets
  <2> HIDE DEF A, B, d, m
  <2>6. Cardinality(A \cup B) = Cardinality(A) + Cardinality(B)
    BY <1>1, <2>2, <2>3, TwoParts
  <2>7. QED
    BY <2>1, <2>4, <2>5, <2>6 DEF A
<1>4. closed = step(closed)
  <2>1. ASSUME NEW i \in Vertices PROVE closed[i] = step(closed)[i]
    <3>1. CASE i = 0
      BY <1>2, <3>1
    <3>2. CASE i # 0
      <4> HIDE DEF count
      <4>1. QED
        BY <1>3, <3>2
    <3>3. QED
      BY <3>1, <3>2
  <2> HIDE DEF count
  <2>2. QED
    BY <2>1
<1>5. G!IncomingStarts(a) = step(G!IncomingStarts(a))
  <2>1. G!IncomingStarts(a) = (CHOOSE f : f = [i \in Vertices |->
            IF i = 0 THEN 0 ELSE f[i - 1] + G!CountTargets(a, i - 1, a.num_edges)])
    BY NodesAre DEF G!IncomingStarts
  <2> HIDE DEF closed
  <2>2. QED
    BY <1>4, <2>1
<1>6. ASSUME NEW f, f = step(f)
      PROVE  f = closed
  <2> DEFINE S == {i \in Nat : i \in Vertices => f[i] = count(i)}
  <2>1. 0 \in S
    BY <1>2, <1>6
  <2>2. ASSUME NEW i \in Nat, i \in S PROVE i + 1 \in S
    <3> SUFFICES ASSUME i + 1 \in Vertices PROVE f[i + 1] = count(i + 1)
      OBVIOUS
    <3>1. i + 1 # 0 /\ i + 1 - 1 = i
      OBVIOUS
    <3>2. i \in Vertices /\ count(i + 1) = count(i) + G!CountTargets(a, i, a.num_edges)
      <4> HIDE DEF count
      <4>1. QED
        BY <1>3, <3>1
    <3>3. f[i + 1] = f[i] + G!CountTargets(a, i, a.num_edges)
      <4> HIDE DEF S
      <4>1. QED
        BY <1>6, <3>1
    <3> HIDE DEF count
    <3>4. QED
      BY <2>2, <3>2, <3>3
  <2>3. Nat \subseteq S
    <3> HIDE DEF S
    <3>1. QED
      BY <2>1, <2>2, NatSet
  <2>4. \A i \in Vertices : f[i] = count(i)
    <3> HIDE DEF count
    <3>1. QED
      BY <2>3, Numbered
  <2>5. QED
    <3> HIDE DEF count, S
    <3>1. f = [i \in Vertices |-> f[i]]
      BY <1>6
    <3>2. QED
      BY <2>4, <3>1
<1>7. QED
  <2> HIDE DEF step
  <2>1. G!IncomingStarts(a) = closed
    BY <1>5, <1>6
  <2>2. QED
    BY <2>1

(* Every position belongs to one vertex, in ascending order.               *)
Belongs(a, j, i) == a.outgoing_starts[i] <= j /\ j < G!EndOf(a, a.outgoing_starts, i)

LEMMA BelongsToOne ==
    ASSUME NEW a, IsCsr(a), NEW j \in 0 .. a.num_edges - 1
    PROVE  /\ G!Owner(a, j) \in Vertices /\ Belongs(a, j, G!Owner(a, j))
           /\ \A i \in Vertices : Belongs(a, j, i) => i = G!Owner(a, j)
<1> DEFINE st == a.outgoing_starts
<1>1. /\ numNodes \in Nat /\ Vertices = 0 .. numNodes - 1 /\ a.num_nodes = numNodes
      /\ a.num_edges \in Nat /\ st \in [Vertices -> 0 .. a.num_edges]
      /\ \A u, v \in Vertices : u <= v => st[u] <= st[v]
  BY Numbered DEF IsCsr
<1>2. a.outgoing_edges[j] \in Vertices
  BY DEF IsCsr
<1>3. 0 \in Vertices /\ st[0] = 0
  BY <1>1, <1>2 DEF IsCsr
<1>4. \E i \in Vertices : Belongs(a, j, i)
  <2> SUFFICES ASSUME \A i \in Vertices : ~Belongs(a, j, i) PROVE FALSE
    OBVIOUS
  <2> DEFINE S == {i \in Nat : i \in Vertices /\ st[i] <= j}
  <2>1. 0 \in S
    BY <1>1, <1>3
  <2>2. ASSUME NEW i \in Nat, i \in S PROVE i + 1 \in S
    <3>1. i \in Vertices /\ st[i] <= j /\ ~Belongs(a, j, i)
      BY <2>2
    <3>2. j >= G!EndOf(a, st, i)
      <4>1. i # numNodes - 1 => st[i + 1] \in Int
        <5> SUFFICES ASSUME i # numNodes - 1 PROVE st[i + 1] \in Int
          OBVIOUS
        <5>1. i + 1 \in Vertices
          BY <1>1, <3>1
        <5>2. st[i + 1] \in 0 .. a.num_edges
          <6> HIDE DEF st, S
          <6>1. QED
            BY <1>1, <5>1
        <5>3. QED
          BY <5>2
      <4>2. G!EndOf(a, st, i) \in Int
        BY <1>1, <4>1 DEF G!EndOf
      <4>3. QED
        BY <3>1, <4>2 DEF Belongs
    <3>3. i # numNodes - 1
      BY <1>1, <3>2 DEF G!EndOf
    <3>4. i + 1 \in Vertices /\ st[i + 1] <= j
      BY <1>1, <3>1, <3>2, <3>3 DEF G!EndOf
    <3>5. QED
      BY <3>4
  <2>3. Nat \subseteq S
    <3> HIDE DEF S
    <3>1. QED
      BY <2>1, <2>2, NatSet
  <2>4. numNodes \in S
    BY <1>1, <2>3
  <2>5. QED
    BY <1>1, <2>4
<1>5. ASSUME NEW i \in Vertices, NEW l \in Vertices, Belongs(a, j, i), Belongs(a, j, l), i < l
      PROVE  FALSE
  <2>1. i # numNodes - 1 /\ i + 1 \in Vertices /\ i + 1 <= l
    BY <1>1, <1>5
  <2>2. G!EndOf(a, st, i) = st[i + 1] /\ st[i + 1] <= st[l]
    BY <1>1, <2>1 DEF G!EndOf
  <2>3. j < st[i + 1] /\ st[l] <= j
    BY <1>5, <2>2 DEF Belongs
  <2>4. QED
    BY <1>1, <2>1, <2>2, <2>3
<1>6. \A i, l \in Vertices : Belongs(a, j, i) /\ Belongs(a, j, l) => i = l
  BY <1>1, <1>5
<1>7. G!Owner(a, j) = CHOOSE i \in Vertices : Belongs(a, j, i)
  BY NodesAre DEF G!Owner, Belongs
<1>8. QED
  BY <1>4, <1>6, <1>7

LEMMA OwnersAscend ==
    ASSUME NEW a, IsCsr(a), NEW j \in 0 .. a.num_edges - 1, NEW k \in 0 .. a.num_edges - 1, j <= k
    PROVE  G!Owner(a, j) <= G!Owner(a, k)
<1> DEFINE st == a.outgoing_starts
           i == G!Owner(a, k)
           l == G!Owner(a, j)
<1>1. /\ numNodes \in Nat /\ Vertices = 0 .. numNodes - 1 /\ a.num_nodes = numNodes
      /\ a.num_edges \in Nat /\ st \in [Vertices -> 0 .. a.num_edges]
      /\ \A u, v \in Vertices : u <= v => st[u] <= st[v]
  BY Numbered DEF IsCsr
<1>2. i \in Vertices /\ l \in Vertices /\ Belongs(a, k, i) /\ Belongs(a, j, l)
  BY BelongsToOne
<1> HIDE DEF i, l
<1>3. SUFFICES ASSUME i < l PROVE FALSE
  BY <1>1, <1>2 DEF i, l
<1>4. i # numNodes - 1 /\ i + 1 \in Vertices /\ i + 1 <= l
  BY <1>1, <1>2, <1>3
<1>5. G!EndOf(a, st, i) = st[i + 1] /\ st[i + 1] <= st[l]
  BY <1>1, <1>2, <1>4 DEF G!EndOf
<1>6. k < st[i + 1] /\ st[l] <= j
  BY <1>2, <1>5 DEF Belongs
<1>7. QED
  BY <1>1, <1>2, <1>4, <1>5, <1>6

-----------------------------------------------------------------------------
(* What build_incoming_edges makes of them.                                *)
LEMMA BuiltFields ==
    ASSUME NEW a, IsCsr(a), NEW g, g = G!build_incoming_edges(a)
    PROVE  /\ g.num_nodes = a.num_nodes /\ g.num_edges = a.num_edges
           /\ g.outgoing_starts = a.outgoing_starts /\ g.outgoing_edges = a.outgoing_edges
           /\ g.incoming_starts = G!IncomingStarts(a)
BY DEF G!build_incoming_edges

\* The number of edges to vertices below v.
Below(a, v) == Cardinality(Lower(a.outgoing_edges, a.num_edges, v))
PlaceOf(a, j) == Rank(a.outgoing_edges, a.num_edges, j)

LEMMA BelowFacts ==
    ASSUME NEW a, IsCsr(a)
    PROVE  /\ a.outgoing_edges \in [0 .. a.num_edges - 1 -> Nat]
           /\ \A v \in Vertices : /\ Below(a, v) \in 0 .. a.num_edges
                                  /\ Below(a, v + 1) \in 0 .. a.num_edges
                                  /\ Below(a, v) <= Below(a, v + 1)
<1>1. a.num_edges \in Nat /\ a.outgoing_edges \in [0 .. a.num_edges - 1 -> Nat]
  BY Numbered DEF IsCsr
<1>2. \A v \in Vertices : v \in Nat /\ v + 1 \in Nat /\ v <= v + 1
  BY Numbered
<1>3. QED
  BY <1>1, <1>2, LowerCount, LowerGrows DEF Below

(* The scatter puts the owner of position j into the place of j.           *)
LEMMA Scattered ==
    ASSUME NEW a, IsCsr(a), NEW g, g = G!build_incoming_edges(a), NEW j \in 0 .. a.num_edges - 1
    PROVE  PlaceOf(a, j) \in 0 .. a.num_edges - 1 /\ g.incoming_edges[PlaceOf(a, j)] = G!Owner(a, j)
<1> DEFINE m == a.num_edges
           d == a.outgoing_edges
           Slot(l) == G!IncomingStarts(a)[d[l]] + G!CountTargets(a, d[l], l)
<1>1. m \in Nat /\ d \in [0 .. m - 1 -> Nat] /\ d \in [0 .. m - 1 -> Vertices]
  BY BelowFacts DEF IsCsr
<1>2. ASSUME NEW l \in 0 .. m - 1 PROVE Slot(l) = Rank(d, m, l)
  <2>1. G!IncomingStarts(a)[d[l]] = Cardinality(Lower(d, m, d[l]))
    BY <1>1, StartsCount
  <2>2. G!CountTargets(a, d[l], l) = Cardinality({k \in 0 .. l - 1 : d[k] = d[l]})
    BY SameCount, Zenon DEF G!CountTargets
  <2> HIDE DEF m, d
  <2>3. Rank(d, m, l) = Cardinality(Lower(d, m, d[l])) + Cardinality({k \in 0 .. l - 1 : d[k] = d[l]})
    BY <1>1, RankIsPosition
  <2>4. QED
    BY <2>1, <2>2, <2>3
<1>3. g.incoming_edges = [k \in 0 .. m - 1 |-> G!Owner(a, CHOOSE l \in 0 .. m - 1 : Slot(l) = k)]
  BY Zenon DEF G!build_incoming_edges, G!Positions
<1> HIDE DEF m, Slot
<1>4. Rank(d, m, j) \in 0 .. m - 1
  <2> HIDE DEF d
  <2>1. j \in 0 .. m - 1
    BY DEF m
  <2>2. QED
    BY <1>1, <2>1, RankIsPosition
<1>5. j \in 0 .. m - 1
  BY DEF m
<1>6. (CHOOSE l \in 0 .. m - 1 : Slot(l) = Rank(d, m, j)) = j
  <2>1. \A l \in 0 .. m - 1 : Slot(l) = Rank(d, m, j) => l = j
    <3> HIDE DEF d
    <3>1. QED
      BY <1>1, <1>2, <1>5, RanksDiffer
  <2>2. Slot(j) = Rank(d, m, j)
    BY <1>2, <1>5
  <2> HIDE DEF d
  <2>3. QED
    BY <1>5, <2>1, <2>2
<1>7. g.incoming_edges[Rank(d, m, j)] = G!Owner(a, j)
  <2> HIDE DEF d
  <2>1. QED
    BY <1>3, <1>4, <1>6
<1>8. QED
  BY <1>4, <1>7 DEF PlaceOf, m

(* The sources of v stand between the counts below v and below its         *)
(* successor.                                                              *)
LEMMA IncomingIs ==
    ASSUME NEW a, IsCsr(a), NEW g, g = G!build_incoming_edges(a), NEW v \in Vertices
    PROVE  G!incoming(g, v) = [x \in 1 .. Below(a, v + 1) - Below(a, v) |->
                                  g.incoming_edges[Below(a, v) + x - 1]]
<1>1. g.incoming_starts = [u \in Vertices |-> Below(a, u)]
  BY BuiltFields, StartsCount DEF Below
<1>2. g.num_nodes = numNodes /\ g.num_edges = a.num_edges
  BY BuiltFields DEF IsCsr
<1>3. G!EndOf(g, g.incoming_starts, v) = Below(a, v + 1)
  <2>1. CASE v = numNodes - 1
    <3>1. a.num_edges \in Nat /\ \A l \in 0 .. a.num_edges - 1 : a.outgoing_edges[l] < v + 1
      BY <2>1, Numbered DEF IsCsr
    <3>2. Lower(a.outgoing_edges, a.num_edges, v + 1) = 0 .. a.num_edges - 1
      BY <3>1 DEF Lower
    <3>3. Below(a, v + 1) = a.num_edges
      BY <3>1, <3>2, FS_Interval DEF Below
    <3>4. QED
      BY <1>2, <2>1, <3>3 DEF G!EndOf
  <2>2. CASE v # numNodes - 1
    <3>1. v + 1 \in Vertices
      BY <2>2, Numbered
    <3>2. QED
      BY <1>1, <1>2, <2>2, <3>1 DEF G!EndOf
  <2>3. QED
    BY <2>1, <2>2
<1>4. QED
  BY <1>1, <1>3, Zenon DEF G!incoming, G!Slice

LEMMA OutgoingIs ==
    ASSUME NEW a, IsCsr(a), NEW u \in Vertices
    PROVE  /\ G!outgoing(a, u) = [y \in 1 .. G!EndOf(a, a.outgoing_starts, u) - a.outgoing_starts[u] |->
                                     a.outgoing_edges[a.outgoing_starts[u] + y - 1]]
           /\ \A g : g = G!build_incoming_edges(a) => G!outgoing(g, u) = G!outgoing(a, u)
           /\ a.outgoing_starts[u] \in 0 .. a.num_edges
           /\ G!EndOf(a, a.outgoing_starts, u) \in 0 .. a.num_edges
<1>1. G!outgoing(a, u) = [y \in 1 .. G!EndOf(a, a.outgoing_starts, u) - a.outgoing_starts[u] |->
                             a.outgoing_edges[a.outgoing_starts[u] + y - 1]]
  BY Zenon DEF G!outgoing, G!Slice
<1>2. ASSUME NEW g, g = G!build_incoming_edges(a)
      PROVE  G!outgoing(g, u) = G!outgoing(a, u)
  <2>1. /\ g.num_nodes = a.num_nodes /\ g.num_edges = a.num_edges
        /\ g.outgoing_starts = a.outgoing_starts /\ g.outgoing_edges = a.outgoing_edges
    BY <1>2, BuiltFields
  <2>2. G!EndOf(g, a.outgoing_starts, u) = G!EndOf(a, a.outgoing_starts, u)
    BY <2>1 DEF G!EndOf
  <2>3. QED
    BY <2>1, <2>2, Zenon DEF G!outgoing, G!Slice
<1>3. a.num_edges \in Nat /\ a.outgoing_starts[u] \in 0 .. a.num_edges
  BY DEF IsCsr
<1>4. G!EndOf(a, a.outgoing_starts, u) \in 0 .. a.num_edges
  <2>1. u # numNodes - 1 => a.outgoing_starts[u + 1] \in 0 .. a.num_edges
    BY Numbered DEF IsCsr
  <2>2. QED
    BY <1>3, <2>1 DEF G!EndOf, IsCsr
<1>5. QED
  BY <1>1, <1>2, <1>3, <1>4

(* The edges from u to v, at their positions, and the places they get.     *)
Edges(a, u, v) == {j \in 0 .. a.num_edges - 1 : Belongs(a, j, u) /\ a.outgoing_edges[j] = v}

LEMMA CountOutgoing ==
    ASSUME NEW a, IsCsr(a), NEW u \in Vertices, NEW v \in Vertices
    PROVE  Times(v, G!outgoing(a, u)) = Cardinality(Edges(a, u, v)) /\ IsFiniteSet(Edges(a, u, v))
<1> DEFINE s == a.outgoing_starts[u]
           end == G!EndOf(a, a.outgoing_starts, u)
           E == Edges(a, u, v)
           Y == {y \in 1 .. end - s : a.outgoing_edges[s + y - 1] = v}
           f == [j \in E |-> j - s + 1]
<1>1. s \in Int /\ end \in Int /\ a.num_edges \in Nat /\ 0 <= s /\ end <= a.num_edges
  BY OutgoingIs DEF IsCsr
<1>2. E = {j \in s .. end - 1 : a.outgoing_edges[j] = v}
  BY <1>1 DEF Edges, Belongs
<1>3. IsFiniteSet(E)
  BY PartsOfAll, <1>1 DEF Edges
<1>4. Times(v, G!outgoing(a, u)) = Cardinality(Y)
  <2>1. {y \in DOMAIN G!outgoing(a, u) : G!outgoing(a, u)[y] = v} = Y
    BY OutgoingIs
  <2>2. QED
    BY <2>1 DEF Times
<1> HIDE DEF E, s, end
<1>5. \A j \in E : j \in s .. end - 1 /\ j \in Int /\ a.outgoing_edges[j] = v
  BY <1>1, <1>2
<1>6. \A j \in E : f[j] \in 1 .. end - s /\ s + f[j] - 1 = j
  BY <1>1, <1>5
<1>7. \A y \in Y : s + y - 1 \in E /\ f[s + y - 1] = y
  <2>1. \A y \in 1 .. end - s : s + y - 1 \in s .. end - 1 /\ (s + y - 1) - s + 1 = y
    BY <1>1
  <2>2. QED
    BY <1>2, <2>1
<1> HIDE DEF Y
<1>8. \A j \in E : f[j] \in Y
  BY <1>5, <1>6 DEF Y
<1>9. f \in Bijection(E, Y)
  <2>1. f \in [E -> Y]
    BY <1>8
  <2>2. \A j, k \in E : f[j] = f[k] => j = k
    BY <1>6
  <2> HIDE DEF f
  <2>3. QED
    BY <1>7, <2>1, <2>2 DEF Bijection, Injection, IsInjective, Surjection
<1>10. Cardinality(E) = Cardinality(Y)
  <2> HIDE DEF f
  <2>1. QED
    BY <1>3, <1>9, FS_Bijection DEF ExistsBijection
<1>11. QED
  BY <1>3, <1>4, <1>10 DEF E

LEMMA PlaceFacts ==
    ASSUME NEW a, IsCsr(a), NEW j \in 0 .. a.num_edges - 1
    PROVE  /\ a.outgoing_edges[j] \in Vertices
           /\ Below(a, a.outgoing_edges[j]) <= PlaceOf(a, j)
           /\ PlaceOf(a, j) < Below(a, a.outgoing_edges[j] + 1)
           /\ \A k \in 0 .. a.num_edges - 1 : PlaceOf(a, j) = PlaceOf(a, k) => j = k
<1>1. a.num_edges \in Nat /\ a.outgoing_edges \in [0 .. a.num_edges - 1 -> Nat]
  BY BelowFacts DEF IsCsr
<1>2. a.outgoing_edges[j] \in Vertices
  BY DEF IsCsr
<1>3. QED
  BY <1>1, <1>2, RankIsPosition, RanksDiffer DEF Below, PlaceOf

LEMMA PlaceTaken ==
    ASSUME NEW a, IsCsr(a), NEW v \in Vertices, NEW k \in Below(a, v) .. Below(a, v + 1) - 1
    PROVE  \E j \in 0 .. a.num_edges - 1 : PlaceOf(a, j) = k /\ a.outgoing_edges[j] = v
<1>1. a.num_edges \in Nat /\ a.outgoing_edges \in [0 .. a.num_edges - 1 -> Nat]
  BY BelowFacts DEF IsCsr
<1>2. v \in Nat
  BY Numbered
<1>3. k \in 0 .. a.num_edges - 1
  BY <1>1, BelowFacts
<1>4. PICK j \in 0 .. a.num_edges - 1 : Rank(a.outgoing_edges, a.num_edges, j) = k
  BY <1>1, <1>3, RanksCover
<1>5. /\ Cardinality(Lower(a.outgoing_edges, a.num_edges, v)) <= Rank(a.outgoing_edges, a.num_edges, j)
      /\ Rank(a.outgoing_edges, a.num_edges, j) < Cardinality(Lower(a.outgoing_edges, a.num_edges, v + 1))
  BY <1>1, <1>4, BelowFacts DEF Below
<1>6. a.outgoing_edges[j] = v
  BY <1>1, <1>2, <1>5, RanksAreGrouped
<1>7. QED
  BY <1>4, <1>6 DEF PlaceOf

LEMMA CountIncoming ==
    ASSUME NEW a, IsCsr(a), NEW g, g = G!build_incoming_edges(a), NEW u \in Vertices, NEW v \in Vertices
    PROVE  Times(u, G!incoming(g, v)) = Cardinality(Edges(a, u, v))
<1> DEFINE low == Below(a, v)
           high == Below(a, v + 1)
           E == Edges(a, u, v)
           X == {x \in 1 .. high - low : g.incoming_edges[low + x - 1] = u}
           f == [j \in E |-> PlaceOf(a, j) - low + 1]
<1>1. low \in Int /\ high \in Int /\ a.num_edges \in Nat
  BY BelowFacts DEF IsCsr
<1>2. IsFiniteSet(E)
  BY PartsOfAll, <1>1 DEF Edges
<1>3. Times(u, G!incoming(g, v)) = Cardinality(X)
  <2> DEFINE s == G!incoming(g, v)
  <2>1. s = [x \in 1 .. Below(a, v + 1) - Below(a, v) |-> g.incoming_edges[Below(a, v) + x - 1]]
    BY IncomingIs
  <2> HIDE DEF s
  <2>2. {x \in DOMAIN s : s[x] = u} = X
    BY <2>1
  <2>3. QED
    BY <2>2 DEF Times, s
<1>4. \A j \in E : j \in 0 .. a.num_edges - 1 /\ a.outgoing_edges[j] = v /\ Belongs(a, j, u)
  BY DEF Edges
<1>5. \A j \in E : PlaceOf(a, j) \in low .. high - 1 /\ g.incoming_edges[PlaceOf(a, j)] = u
  <2> SUFFICES ASSUME NEW j \in E PROVE PlaceOf(a, j) \in low .. high - 1 /\ g.incoming_edges[PlaceOf(a, j)] = u
    OBVIOUS
  <2>1. j \in 0 .. a.num_edges - 1 /\ a.outgoing_edges[j] = v /\ Belongs(a, j, u)
    BY <1>4
  <2> HIDE DEF E
  <2>2. PlaceOf(a, j) \in 0 .. a.num_edges - 1 /\ g.incoming_edges[PlaceOf(a, j)] = G!Owner(a, j)
    BY <2>1, Scattered
  <2>3. low <= PlaceOf(a, j) /\ PlaceOf(a, j) < high
    BY <2>1, PlaceFacts
  <2>4. u = G!Owner(a, j)
    BY <2>1, BelongsToOne
  <2>5. QED
    BY <1>1, <2>2, <2>3, <2>4
<1>6. \A j, k \in E : PlaceOf(a, j) = PlaceOf(a, k) => j = k
  BY <1>4, PlaceFacts
<1>7. ASSUME NEW x \in X PROVE \E j \in E : PlaceOf(a, j) = low + x - 1
  <2>1. low + x - 1 \in low .. high - 1 /\ g.incoming_edges[low + x - 1] = u
    BY <1>1
  <2>2. PICK j \in 0 .. a.num_edges - 1 : PlaceOf(a, j) = low + x - 1 /\ a.outgoing_edges[j] = v
    BY <2>1, PlaceTaken
  <2>3. G!Owner(a, j) = u
    BY <2>1, <2>2, Scattered
  <2>4. Belongs(a, j, u)
    BY <2>3, BelongsToOne
  <2>5. QED
    BY <2>2, <2>4 DEF Edges
<1>8. \A x \in X : x \in Int
  OBVIOUS
<1> HIDE DEF E, low, high
<1>9. \A j \in E : f[j] \in X
  <2>1. \A j \in E : f[j] \in 1 .. high - low /\ low + f[j] - 1 = PlaceOf(a, j)
    BY <1>1, <1>5
  <2>2. QED
    BY <1>5, <2>1
<1> HIDE DEF X
<1>10. f \in Bijection(E, X)
  <2>1. f \in [E -> X]
    BY <1>9
  <2>2. \A j, k \in E : f[j] = f[k] => j = k
    BY <1>1, <1>5, <1>6
  <2>3. \A x \in X : \E j \in E : f[j] = x
    <3> SUFFICES ASSUME NEW x \in X PROVE \E j \in E : f[j] = x
      OBVIOUS
    <3>1. PICK j \in E : PlaceOf(a, j) = low + x - 1
      BY <1>7
    <3>2. f[j] = x
      BY <1>1, <1>8, <3>1
    <3>3. QED
      BY <3>2
  <2> HIDE DEF f
  <2>4. QED
    BY <2>1, <2>2, <2>3 DEF Bijection, Injection, IsInjective, Surjection
<1>11. Cardinality(E) = Cardinality(X)
  <2> HIDE DEF f
  <2>1. QED
    BY <1>2, <1>10, FS_Bijection DEF ExistsBijection
<1>12. QED
  BY <1>3, <1>11 DEF E

(* The scatter is stable: sources ascend.                                  *)
LEMMA SourcesAscend ==
    ASSUME NEW a, IsCsr(a), NEW g, g = G!build_incoming_edges(a), NEW v \in Vertices,
           NEW x \in DOMAIN G!incoming(g, v), NEW y \in DOMAIN G!incoming(g, v), x <= y
    PROVE  G!incoming(g, v)[x] <= G!incoming(g, v)[y]
<1> DEFINE low == Below(a, v)
           high == Below(a, v + 1)
<1>1. low \in Int /\ high \in Int /\ a.num_edges \in Nat
  BY BelowFacts DEF IsCsr
<1>2. /\ x \in 1 .. high - low /\ y \in 1 .. high - low
      /\ G!incoming(g, v)[x] = g.incoming_edges[low + x - 1]
      /\ G!incoming(g, v)[y] = g.incoming_edges[low + y - 1]
  <2> DEFINE s == G!incoming(g, v)
  <2>1. s = [z \in 1 .. Below(a, v + 1) - Below(a, v) |-> g.incoming_edges[Below(a, v) + z - 1]]
    BY IncomingIs
  <2>2. x \in DOMAIN s /\ y \in DOMAIN s
    OBVIOUS
  <2> HIDE DEF s
  <2>3. x \in 1 .. high - low /\ y \in 1 .. high - low /\ s[x] = g.incoming_edges[low + x - 1]
        /\ s[y] = g.incoming_edges[low + y - 1]
    BY <2>1, <2>2
  <2>4. QED
    BY <2>3 DEF s
<1>3. low + x - 1 \in low .. high - 1 /\ low + y - 1 \in low .. high - 1 /\ low + x - 1 <= low + y - 1
  BY <1>1, <1>2
<1>4. PICK j \in 0 .. a.num_edges - 1 : PlaceOf(a, j) = low + x - 1 /\ a.outgoing_edges[j] = v
  BY <1>3, PlaceTaken
<1>5. PICK k \in 0 .. a.num_edges - 1 : PlaceOf(a, k) = low + y - 1 /\ a.outgoing_edges[k] = v
  BY <1>3, PlaceTaken
<1>6. j <= k
  <2> SUFFICES ASSUME k < j PROVE FALSE
    BY <1>1
  <2>1. a.outgoing_edges \in [0 .. a.num_edges - 1 -> Nat]
    BY BelowFacts
  <2>2. PlaceOf(a, k) < PlaceOf(a, j)
    BY <1>1, <1>4, <1>5, <2>1, RanksAscend DEF PlaceOf
  <2>3. QED
    BY <1>1, <1>3, <1>4, <1>5, <2>2
<1>7. G!incoming(g, v)[x] = G!Owner(a, j) /\ G!incoming(g, v)[y] = G!Owner(a, k)
  BY <1>2, <1>4, <1>5, Scattered
<1>8. QED
  BY <1>6, <1>7, OwnersAscend

(* What the sanity check of edgestats looks for.                           *)
LEMMA Matching ==
    ASSUME NEW a, IsCsr(a), NEW g, g = G!build_incoming_edges(a), NEW u \in Vertices
    PROVE  G!FoundMatching(g, u)
<1> SUFFICES \A y \in DOMAIN G!outgoing(g, u) : \A v : v = G!outgoing(g, u)[y] =>
                 \E x \in DOMAIN G!incoming(g, v) : G!incoming(g, v)[x] = u
  <2>1. \A s : G!Ext!ToSet(s) = {s[z] : z \in DOMAIN s}
    BY Zenon DEF G!Ext!ToSet
  <2>2. G!FoundMatching(g, u)
            <=> \A v \in {G!outgoing(g, u)[z] : z \in DOMAIN G!outgoing(g, u)} :
                   u \in {G!incoming(g, v)[z] : z \in DOMAIN G!incoming(g, v)}
    BY <2>1, Zenon DEF G!FoundMatching
  <2> SUFFICES ASSUME NEW v \in {G!outgoing(g, u)[z] : z \in DOMAIN G!outgoing(g, u)}
               PROVE  u \in {G!incoming(g, v)[z] : z \in DOMAIN G!incoming(g, v)}
    BY <2>2, Zenon
  <2>3. PICK z \in DOMAIN G!outgoing(g, u) : v = G!outgoing(g, u)[z]
    OBVIOUS
  <2>4. \E x \in DOMAIN G!incoming(g, v) : G!incoming(g, v)[x] = u
    BY <2>3
  <2>5. QED
    BY <2>4, Zenon
<1> TAKE y \in DOMAIN G!outgoing(g, u)
<1> TAKE v
<1> HAVE v = G!outgoing(g, u)[y]
<1>1. /\ y \in 1 .. G!EndOf(a, a.outgoing_starts, u) - a.outgoing_starts[u]
      /\ v = a.outgoing_edges[a.outgoing_starts[u] + y - 1]
  BY OutgoingIs
<1> DEFINE j == a.outgoing_starts[u] + y - 1
<1>2. j \in 0 .. a.num_edges - 1 /\ Belongs(a, j, u)
  BY <1>1, OutgoingIs DEF Belongs, IsCsr
<1>3. v = a.outgoing_edges[j]
  BY <1>1
<1> HIDE DEF j
<1>4. v \in Vertices /\ Below(a, v) <= PlaceOf(a, j) /\ PlaceOf(a, j) < Below(a, v + 1)
  BY <1>2, <1>3, PlaceFacts
<1>5. PlaceOf(a, j) \in 0 .. a.num_edges - 1 /\ g.incoming_edges[PlaceOf(a, j)] = u
  BY <1>2, Scattered, BelongsToOne
<1> DEFINE x == PlaceOf(a, j) - Below(a, v) + 1
<1>6. x \in 1 .. Below(a, v + 1) - Below(a, v) /\ Below(a, v) + x - 1 = PlaceOf(a, j)
  BY <1>4, <1>5, BelowFacts
<1> HIDE DEF x
<1>7. x \in DOMAIN G!incoming(g, v) /\ G!incoming(g, v)[x] = u
  <2> DEFINE s == G!incoming(g, v)
  <2>1. s = [z \in 1 .. Below(a, v + 1) - Below(a, v) |-> g.incoming_edges[Below(a, v) + z - 1]]
    BY <1>4, IncomingIs
  <2> HIDE DEF s
  <2>2. x \in DOMAIN s /\ s[x] = u
    BY <1>5, <1>6, <2>1
  <2>3. QED
    BY <2>2 DEF s
<1>8. QED
  BY <1>7

LEMMA ArraysAreCsr ==
    ASSUME file \in Seq(Vertices \X Vertices), NEW a \in Arrays
    PROVE  /\ IsCsr(a) /\ a.num_edges = Len(file)
           /\ a = [num_nodes |-> a.num_nodes, num_edges |-> a.num_edges,
                   outgoing_starts |-> a.outgoing_starts, outgoing_edges |-> a.outgoing_edges]
           /\ \A u, v \in Vertices : Times(v, G!outgoing(a, u)) = Times(<<u, v>>, file)
<1>1. /\ a \in [num_nodes : {numNodes}, num_edges : {Len(file)},
                outgoing_starts : [Vertices -> 0 .. Len(file)],
                outgoing_edges : [0 .. Len(file) - 1 -> Vertices]]
      /\ \A v \in Vertices : v = 0 => a.outgoing_starts[v] = 0
      /\ \A u, v \in Vertices : u <= v => a.outgoing_starts[u] <= a.outgoing_starts[v]
      /\ \A u, v \in Vertices : Times(v, G!outgoing(a, u)) = Times(<<u, v>>, file)
  BY Zenon DEF Arrays
<1>2. Len(file) \in Nat
  OBVIOUS
<1>3. /\ a = [num_nodes |-> a.num_nodes, num_edges |-> a.num_edges,
              outgoing_starts |-> a.outgoing_starts, outgoing_edges |-> a.outgoing_edges]
      /\ a.num_nodes = numNodes /\ a.num_edges = Len(file)
      /\ a.outgoing_starts \in [Vertices -> 0 .. Len(file)]
      /\ a.outgoing_edges \in [0 .. Len(file) - 1 -> Vertices]
  BY <1>1
<1>4. QED
  BY <1>1, <1>2, <1>3, Zenon DEF IsCsr

LEMMA Transposed ==
    ASSUME file \in Seq(Vertices \X Vertices)
    PROVE  IncomingIsTranspose
<1> SUFFICES ASSUME NEW a \in Arrays, NEW g, g = G!build_incoming_edges(a)
             PROVE  /\ \A u, v \in Vertices : Times(u, G!incoming(g, v)) = Times(<<u, v>>, file)
                    /\ \A v \in Vertices : \A j, k \in DOMAIN G!incoming(g, v) :
                          j <= k => G!incoming(g, v)[j] <= G!incoming(g, v)[k]
                    /\ \A v \in Vertices : G!FoundMatching(g, v)
  BY Zenon DEF IncomingIsTranspose
<1>1. IsCsr(a)
  BY ArraysAreCsr
<1>2. ASSUME NEW u \in Vertices, NEW v \in Vertices
      PROVE  Times(u, G!incoming(g, v)) = Times(<<u, v>>, file)
  <2>1. Times(u, G!incoming(g, v)) = Cardinality(Edges(a, u, v))
    BY <1>1, CountIncoming
  <2>2. Times(v, G!outgoing(a, u)) = Cardinality(Edges(a, u, v))
    BY <1>1, CountOutgoing
  <2>3. QED
    BY <2>1, <2>2, ArraysAreCsr
<1>3. ASSUME NEW v \in Vertices, NEW j \in DOMAIN G!incoming(g, v), NEW k \in DOMAIN G!incoming(g, v), j <= k
      PROVE  G!incoming(g, v)[j] <= G!incoming(g, v)[k]
  BY <1>1, <1>3, SourcesAscend
<1>4. ASSUME NEW v \in Vertices PROVE G!FoundMatching(g, v)
  BY <1>1, Matching
<1>5. QED
  BY <1>2, <1>3, <1>4

-----------------------------------------------------------------------------
(* The numbers of a binary file, one by one.                               *)
LEMMA NumbersOf ==
    ASSUME NEW n \in Nat, NEW s \in [1 .. n -> Int]
    PROVE  s \in Seq(Int) /\ Len(s) = n
<1>1. s \in Seq(Int)
  BY SeqDef
<1>2. Len(s) \in Nat /\ DOMAIN s = 1 .. Len(s)
  BY <1>1, LenProperties
<1>3. QED
  BY <1>1, <1>2

LEMMA InOneRow ==
    ASSUME NEW s \in Seq(Int), NEW t \in Seq(Int)
    PROVE  /\ s \o t \in Seq(Int) /\ Len(s \o t) = Len(s) + Len(t)
           /\ \A i \in 1 .. Len(s) : (s \o t)[i] = s[i]
           /\ \A i \in 1 .. Len(t) : (s \o t)[Len(s) + i] = t[i]
<1>1. /\ s \o t \in Seq(Int) /\ Len(s \o t) = Len(s) + Len(t)
      /\ \A i \in 1 .. Len(s) + Len(t) : (s \o t)[i] = IF i <= Len(s) THEN s[i] ELSE t[i - Len(s)]
  BY ConcatProperties
<1>2. Len(s) \in Nat /\ Len(t) \in Nat
  BY LenProperties
<1>3. ASSUME NEW i \in 1 .. Len(s) PROVE (s \o t)[i] = s[i]
  <2>1. i \in 1 .. Len(s) + Len(t) /\ i <= Len(s)
    BY <1>2
  <2>2. QED
    BY <1>1, <2>1
<1>4. ASSUME NEW i \in 1 .. Len(t) PROVE (s \o t)[Len(s) + i] = t[i]
  <2>1. Len(s) + i \in 1 .. Len(s) + Len(t) /\ ~(Len(s) + i <= Len(s)) /\ (Len(s) + i) - Len(s) = i
    BY <1>2
  <2>2. QED
    BY <1>1, <2>1
<1>5. QED
  BY <1>1, <1>3, <1>4

LEMMA StoredNumbers ==
    ASSUME NEW a, IsCsr(a), NEW g, g = G!build_incoming_edges(a)
    PROVE  LET binary == G!store_graph_binary(g)
           IN  /\ a.num_nodes \in Nat /\ a.num_edges \in Nat
               /\ binary \in Seq(Int) /\ Len(binary) = 3 + a.num_nodes + a.num_edges
               /\ binary[1] = G!GRAPH_HEADER_TOKEN /\ binary[2] = a.num_nodes /\ binary[3] = a.num_edges
               /\ \A i \in 1 .. a.num_nodes : binary[3 + i] = a.outgoing_starts[i - 1]
               /\ \A i \in 1 .. a.num_edges : binary[3 + a.num_nodes + i] = a.outgoing_edges[i - 1]
<1> DEFINE N == a.num_nodes
           M == a.num_edges
           head == <<G!GRAPH_HEADER_TOKEN, N, M>>
           first == [i \in 1 .. N |-> a.outgoing_starts[i - 1]]
           second == [i \in 1 .. M |-> a.outgoing_edges[i - 1]]
           front == head \o first
           binary == front \o second
<1>1. N \in Nat /\ M \in Nat
  BY Numbered DEF IsCsr
<1>2. a.outgoing_starts \in [0 .. N - 1 -> Int] /\ a.outgoing_edges \in [0 .. M - 1 -> Int]
  BY Numbered DEF IsCsr
<1>3. G!store_graph_binary(g) = binary
  BY BuiltFields, Zenon DEF G!store_graph_binary, G!AsSeq
<1>4. head \in Seq(Int) /\ Len(head) = 3 /\ head[1] = G!GRAPH_HEADER_TOKEN /\ head[2] = N /\ head[3] = M
  BY <1>1 DEF G!GRAPH_HEADER_TOKEN
<1> HIDE DEF N, M, head
<1>5. first \in [1 .. N -> Int] /\ second \in [1 .. M -> Int]
  <2>1. \A i \in 1 .. N : i - 1 \in 0 .. N - 1
    BY <1>1
  <2>2. \A i \in 1 .. M : i - 1 \in 0 .. M - 1
    BY <1>1
  <2>3. QED
    BY <1>2, <2>1, <2>2
<1>6. \A i \in 1 .. N : first[i] = a.outgoing_starts[i - 1]
  OBVIOUS
<1>7. \A i \in 1 .. M : second[i] = a.outgoing_edges[i - 1]
  OBVIOUS
<1> HIDE DEF first, second
<1>8. first \in Seq(Int) /\ Len(first) = N /\ second \in Seq(Int) /\ Len(second) = M
  BY <1>1, <1>5, NumbersOf
<1>9. /\ front \in Seq(Int) /\ Len(front) = 3 + N
      /\ \A i \in 1 .. 3 : front[i] = head[i]
      /\ \A i \in 1 .. N : front[3 + i] = first[i]
  <2>1. /\ front \in Seq(Int) /\ Len(front) = Len(head) + Len(first)
        /\ \A i \in 1 .. Len(head) : front[i] = head[i]
        /\ \A i \in 1 .. Len(first) : front[Len(head) + i] = first[i]
    BY <1>4, <1>8, InOneRow, Zenon
  <2> HIDE DEF front
  <2>2. QED
    BY <1>4, <1>8, <2>1
<1> HIDE DEF front
<1>10. /\ binary \in Seq(Int) /\ Len(binary) = 3 + N + M
       /\ \A i \in 1 .. 3 + N : binary[i] = front[i]
       /\ \A i \in 1 .. M : binary[3 + N + i] = second[i]
  <2>1. /\ binary \in Seq(Int) /\ Len(binary) = Len(front) + Len(second)
        /\ \A i \in 1 .. Len(front) : binary[i] = front[i]
        /\ \A i \in 1 .. Len(second) : binary[Len(front) + i] = second[i]
    BY <1>8, <1>9, InOneRow, Zenon
  <2> HIDE DEF binary
  <2>2. QED
    BY <1>8, <1>9, <2>1
<1> HIDE DEF binary
<1>11. /\ binary[1] = head[1] /\ binary[2] = head[2] /\ binary[3] = head[3]
       /\ \A i \in 1 .. N : binary[3 + i] = first[i]
  <2>1. /\ \A i \in 1 .. 3 : i \in 1 .. 3 + N
        /\ \A i \in 1 .. N : 3 + i \in 1 .. 3 + N
    BY <1>1
  <2>2. \A i \in 1 .. 3 : binary[i] = head[i]
    BY <1>9, <1>10, <2>1, Zenon
  <2>3. \A i \in 1 .. N : binary[3 + i] = first[i]
    BY <1>9, <1>10, <2>1, Zenon
  <2>4. 1 \in 1 .. 3 /\ 2 \in 1 .. 3 /\ 3 \in 1 .. 3
    OBVIOUS
  <2>5. QED
    BY <2>2, <2>3, <2>4, Zenon
<1>12. /\ N \in Nat /\ M \in Nat
       /\ binary \in Seq(Int) /\ Len(binary) = 3 + N + M
       /\ binary[1] = G!GRAPH_HEADER_TOKEN /\ binary[2] = N /\ binary[3] = M
       /\ \A i \in 1 .. N : binary[3 + i] = a.outgoing_starts[i - 1]
       /\ \A i \in 1 .. M : binary[3 + N + i] = a.outgoing_edges[i - 1]
  <2>1. \A i \in 1 .. N : binary[3 + i] = a.outgoing_starts[i - 1]
    BY <1>6, <1>11, Zenon
  <2>2. \A i \in 1 .. M : binary[3 + N + i] = a.outgoing_edges[i - 1]
    BY <1>7, <1>10, Zenon
  <2>3. QED
    BY <1>1, <1>4, <1>10, <1>11, <2>1, <2>2, Zenon
<1>13. QED
  BY <1>3, <1>12, Zenon DEF N, M

LEMMA RoundTrips ==
    ASSUME file \in Seq(Vertices \X Vertices)
    PROVE  BinaryRoundTrips
<1> SUFFICES ASSUME NEW a \in Arrays, NEW g, g = G!build_incoming_edges(a),
                    NEW binary, binary = G!store_graph_binary(g)
             PROVE  /\ G!load_graph_binary(binary) = g
                    /\ \A k \in 0 .. Len(binary) - 1 : G!load_graph_binary(SubSeq(binary, 1, k)) = G!Exit
                    /\ G!load_graph_binary([binary EXCEPT ![1] = 0]) = G!Exit
  BY Zenon DEF BinaryRoundTrips
<1> DEFINE N == a.num_nodes
           M == a.num_edges
<1>1. IsCsr(a) /\ a = [num_nodes |-> N, num_edges |-> M,
                       outgoing_starts |-> a.outgoing_starts, outgoing_edges |-> a.outgoing_edges]
  BY ArraysAreCsr
<1>2. /\ N \in Nat /\ M \in Nat
      /\ binary \in Seq(Int) /\ Len(binary) = 3 + N + M
      /\ binary[1] = G!GRAPH_HEADER_TOKEN /\ binary[2] = N /\ binary[3] = M
      /\ \A i \in 1 .. N : binary[3 + i] = a.outgoing_starts[i - 1]
      /\ \A i \in 1 .. M : binary[3 + N + i] = a.outgoing_edges[i - 1]
  BY <1>1, StoredNumbers, Zenon
<1>3. a.outgoing_starts \in [0 .. N - 1 -> Int] /\ a.outgoing_edges \in [0 .. M - 1 -> Int]
  BY <1>1, Numbered DEF IsCsr
<1> HIDE DEF N, M
<1>4. G!load_graph_binary(binary) = g
  <2> DEFINE scratch == SubSeq(binary, 4, Len(binary))
  <2>1. \A i \in 1 .. N + M : scratch[i] = binary[i + 3]
    <3>1. \A i \in 4 .. Len(binary) : binary[i] \in Int
      BY <1>2, ElementOfSeq
    <3>2. \A i \in 1 .. Len(binary) - 4 + 1 : scratch[i] = binary[4 + i - 1]
      BY <1>2, <3>1, SubSeqProperties
    <3> HIDE DEF scratch
    <3>3. QED
      BY <1>2, <3>2
  <2>2. [i \in 0 .. N - 1 |-> scratch[i + 1]] = a.outgoing_starts
    <3>1. ASSUME NEW i \in 0 .. N - 1 PROVE scratch[i + 1] = a.outgoing_starts[i]
      <4>1. i + 1 \in 1 .. N + M /\ i + 1 \in 1 .. N /\ (i + 1) + 3 = 3 + (i + 1) /\ (i + 1) - 1 = i
        BY <1>2
      <4> HIDE DEF scratch
      <4>2. scratch[i + 1] = binary[3 + (i + 1)]
        BY <2>1, <4>1, Zenon
      <4>3. binary[3 + (i + 1)] = a.outgoing_starts[i]
        BY <1>2, <4>1, Zenon
      <4>4. QED
        BY <4>2, <4>3, Zenon
    <3> HIDE DEF scratch
    <3>2. QED
      BY <1>3, <3>1
  <2>3. [j \in 0 .. M - 1 |-> scratch[N + j + 1]] = a.outgoing_edges
    <3>1. ASSUME NEW j \in 0 .. M - 1 PROVE scratch[N + j + 1] = a.outgoing_edges[j]
      <4>1. /\ N + j + 1 \in 1 .. N + M /\ j + 1 \in 1 .. M
            /\ (N + j + 1) + 3 = 3 + N + (j + 1) /\ (j + 1) - 1 = j
        BY <1>2
      <4> HIDE DEF scratch
      <4>2. scratch[N + j + 1] = binary[3 + N + (j + 1)]
        BY <2>1, <4>1, Zenon
      <4>3. binary[3 + N + (j + 1)] = a.outgoing_edges[j]
        BY <1>2, <4>1, Zenon
      <4>4. QED
        BY <4>2, <4>3, Zenon
    <3> HIDE DEF scratch
    <3>2. QED
      BY <1>3, <3>1
  <2>4. G!load_graph_binary(binary) = G!Build(N, M, scratch)
    BY <1>2 DEF G!load_graph_binary
  <2> HIDE DEF scratch
  <2>5. G!Build(N, M, scratch) = G!build_incoming_edges(a)
    BY <1>1, <2>2, <2>3, Zenon DEF G!Build
  <2>6. QED
    BY <2>4, <2>5
<1>5. ASSUME NEW k \in 0 .. Len(binary) - 1
      PROVE  G!load_graph_binary(SubSeq(binary, 1, k)) = G!Exit
  <2> DEFINE s == SubSeq(binary, 1, k)
  <2>1. Len(s) = k /\ k \in Nat /\ k < 3 + N + M /\ \A i \in 1 .. k : s[i] = binary[i]
    BY <1>2
  <2> HIDE DEF s
  <2>2. k >= 3 => s[2] = N /\ s[3] = M
    BY <1>2, <2>1
  <2>3. Len(s) < 3 \/ Len(s) < 3 + s[2] + s[3]
    BY <1>2, <2>1, <2>2
  <2>4. G!load_graph_binary(s) = G!Exit
    BY <2>3, Zenon DEF G!load_graph_binary
  <2>5. QED
    BY <2>4 DEF s
<1>6. G!load_graph_binary([binary EXCEPT ![1] = 0]) = G!Exit
  <2> DEFINE s == [binary EXCEPT ![1] = 0]
  <2>1. s[1] = 0
    BY <1>2
  <2> HIDE DEF s
  <2>2. s[1] # G!GRAPH_HEADER_TOKEN
    BY <2>1 DEF G!GRAPH_HEADER_TOKEN
  <2>3. G!load_graph_binary(s) = G!Exit
    BY <2>2, Zenon DEF G!load_graph_binary
  <2>4. QED
    BY <2>3 DEF s
<1>7. QED
  BY <1>4, <1>5, <1>6

(* What the file is does not change while it is read.                      *)
EdgesOfFile == file \in Seq(Vertices \X Vertices)

LEMMA FileKept ==
    /\ Init => EdgesOfFile
    /\ EdgesOfFile /\ [Next]_vars => EdgesOfFile'
<1>1. Init => EdgesOfFile
  BY PartitionersAssumption DEF Init, EdgesOfFile
<1>2. Next => file' = file
  BY Zenon DEF Next, EdgeCut, VertexCut, HybridTarget, HybridSource, Greedy, EdgeDone,
                PrintPartitions, Finished, vars
<1>3. UNCHANGED vars => file' = file
  BY Zenon DEF vars
<1>4. QED
  BY <1>1, <1>2, <1>3 DEF EdgesOfFile

(* The incoming arrays are the transpose of the outgoing ones: every edge  *)
(* of the file stands at its target as often as the file has it, sources   *)
(* ascend, and no graph is refused by the sanity check of edgestats.       *)
THEOREM IncomingTransposes == Spec => []IncomingIsTranspose
<1>1. Init => EdgesOfFile
  BY FileKept
<1>2. EdgesOfFile /\ [Next]_vars => EdgesOfFile'
  BY FileKept
<1>3. EdgesOfFile => IncomingIsTranspose
  BY Transposed DEF EdgesOfFile
<1>4. QED
  BY <1>1, <1>2, <1>3, PTL DEF Spec

(* Of every graph, what store_graph_binary has written is what             *)
(* load_graph_binary reads, and every shorter file and one with another    *)
(* token is refused.                                                       *)
THEOREM BinaryIsFaithful == Spec => []BinaryRoundTrips
<1>1. Init => EdgesOfFile
  BY FileKept
<1>2. EdgesOfFile /\ [Next]_vars => EdgesOfFile'
  BY FileKept
<1>3. EdgesOfFile => BinaryRoundTrips
  BY RoundTrips DEF EdgesOfFile
<1>4. QED
  BY <1>1, <1>2, <1>3, PTL DEF Spec
=============================================================================
