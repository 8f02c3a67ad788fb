---------------------------- MODULE Partitioners ----------------------------
(***************************************************************************)
(* Homework 8: four programs that read a file of edges one by one and cut  *)
(* the graph into p partitions.  hashInt is abstracted to an arbitrary     *)
(* function: vertices and edge numbers land in any partition, the same     *)
(* number always in the same one.                                          *)
(***************************************************************************)
EXTENDS Integers, Sequences, FiniteSets

CONSTANTS Vertices,
          Files,          \* sequences of edges <<src, dst>>
          MaxEdges,       \* a bound on their length
          p,
          threshold       \* of the hybrid cut

ASSUME PartitionersAssumption ==
    /\ Vertices \subseteq Nat /\ IsFiniteSet(Vertices)
    /\ Files \subseteq Seq(Vertices \X Vertices)
    /\ MaxEdges \in Nat /\ \A f \in Files : Len(f) <= MaxEdges
    /\ p \in Nat \ {0} /\ threshold \in Nat

VARIABLES
    cut,                  \* which program runs
    file,
    hash,                 \* (unsigned) hashInt(x) % p
    e,                    \* edges read
    setMaster, setVertex, setEdge,   \* of every partition
    degree,               \* hybrid: Pts[master(dst)].degree[dst]
    vertexMaster,         \* greedy; -1: not in the map
    printed               \* what printPartition writes

vars == <<cut, file, hash, e, setMaster, setVertex, setEdge, degree, vertexMaster, printed>>

Parts == 0 .. p - 1
Hashed == Vertices \union 1 .. MaxEdges
master(x) == hash[x]

Empty == [i \in Parts |-> {}]

\* The greedy program has no hash function.
Init ==
    /\ cut \in {"edge", "vertex", "hybrid", "greedy"}
    /\ file \in Files
    /\ hash \in IF cut = "greedy" THEN {[x \in Hashed |-> 0]} ELSE [Hashed -> Parts]
    /\ e = 0
    /\ setMaster = Empty /\ setVertex = Empty /\ setEdge = Empty
    /\ degree = [v \in Vertices |-> {}]
    /\ vertexMaster = [v \in Vertices |-> -1]
    /\ printed = << >>

-----------------------------------------------------------------------------
Reading == e < Len(file)
edge == file[e + 1]
src == edge[1]
dst == edge[2]

\* with[i] added to part[i]
Insert(part, with) == [i \in Parts |-> part[i] \union with[i]]

(* The edge goes to the partitions in S, with mirrors there of the ends    *)
(* that have their master elsewhere.                                       *)
Place(S, masterOf) ==
    /\ setEdge' = Insert(setEdge, [i \in Parts |-> IF i \in S THEN {edge} ELSE {}])
    /\ setMaster' = Insert(setMaster, [i \in Parts |-> {v \in {src, dst} : masterOf[v] = i}])
    /\ setVertex' = Insert(setVertex, [i \in Parts |->
                        IF i \in S THEN {v \in {src, dst} : masterOf[v] # i} ELSE {}])

EdgeDone == e' = e + 1 /\ UNCHANGED <<cut, file, hash, printed>>

EdgeCut ==
    /\ Reading /\ cut = "edge"
    /\ Place({master(src), master(dst)}, hash)
    /\ UNCHANGED <<degree, vertexMaster>>
    /\ EdgeDone

\* int e starts at 1.
VertexCut ==
    /\ Reading /\ cut = "vertex"
    /\ Place({master(e + 1)}, hash)
    /\ UNCHANGED <<degree, vertexMaster>>
    /\ EdgeDone

\* Mutant: the sources are not recorded.
HybridTargetForgets ==
    /\ Reading /\ cut = "hybrid" /\ Cardinality(degree[dst]) + 1 <= threshold
    /\ setEdge' = [setEdge EXCEPT ![master(dst)] = @ \union {edge}]
    /\ setVertex' = [setVertex EXCEPT ![master(dst)] = @ \union {src, dst}]
    /\ UNCHANGED <<degree, setMaster, vertexMaster>>
    /\ EdgeDone

\* The in-edges of a vertex stay with it until it has threshold sources, ...
HybridTarget ==
    /\ Reading /\ cut = "hybrid"
    /\ Cardinality(degree[dst]) + 1 <= threshold
    /\ degree' = [degree EXCEPT ![dst] = @ \union {src}]
    /\ setEdge' = [setEdge EXCEPT ![master(dst)] = @ \union {edge}]
    /\ setVertex' = [setVertex EXCEPT ![master(dst)] = @ \union {src, dst}]
    /\ UNCHANGED <<setMaster, vertexMaster>>
    /\ EdgeDone

\* ... and then go with their sources.
HybridSource ==
    /\ Reading /\ cut = "hybrid"
    /\ Cardinality(degree[dst]) + 1 > threshold
    /\ setEdge' = [setEdge EXCEPT ![master(src)] = @ \union {edge}]
    /\ setVertex' = [setVertex EXCEPT ![master(src)] = @ \union {src, dst}]
    /\ UNCHANGED <<degree, setMaster, vertexMaster>>
    /\ EdgeDone

Missing(i, v) == IF v \in setMaster[i] \union setVertex[i] THEN 0 ELSE 1
cost(i) == Missing(i, src) + Missing(i, dst)
load(i) == Cardinality(setEdge[i])
Better(i, j) == cost(i) < cost(j) \/ (cost(i) = cost(j) /\ load(i) < load(j))
tiedPartitions == {i \in Parts : \A j \in Parts : ~Better(j, i)}

\* Mutant: the masters of old vertices move with the edge.
GreedyMoves ==
    /\ Reading /\ cut = "greedy"
    /\ \E bestP \in tiedPartitions :
          /\ vertexMaster' = [v \in Vertices |-> IF v \in {src, dst} THEN bestP ELSE vertexMaster[v]]
          /\ Place({bestP}, vertexMaster')
    /\ UNCHANGED degree
    /\ EdgeDone

\* The edge goes where the fewest ends are missing; new vertices get their
\* master there.
Greedy ==
    /\ Reading /\ cut = "greedy"
    /\ \E bestP \in tiedPartitions :
          /\ vertexMaster' = [v \in Vertices |->
                 IF v \in {src, dst} /\ vertexMaster[v] = -1 THEN bestP ELSE vertexMaster[v]]
          /\ Place({bestP}, vertexMaster')
    /\ UNCHANGED degree
    /\ EdgeDone

\* printPartition, with the line that only the edge-cut prints; the file that is
\* written holds the sets themselves.
PrintPartitions ==
    /\ ~Reading /\ printed = << >>
    /\ printed' = [i \in 1 .. p |->
           [masters |-> Cardinality(setMaster[i - 1]),
            total |-> Cardinality(setVertex[i - 1]) + Cardinality(setMaster[i - 1]),
            replicated |-> IF cut = "edge" THEN Cardinality(setVertex[i - 1]) ELSE 0,
            edges |-> Cardinality(setEdge[i - 1])]]
    /\ UNCHANGED <<cut, file, hash, e, setMaster, setVertex, setEdge, degree, vertexMaster>>

Finished == printed # << >> /\ UNCHANGED vars
Next == EdgeCut \/ VertexCut \/ HybridTarget \/ HybridSource \/ Greedy \/ PrintPartitions \/ Finished

Spec == Init /\ [][Next]_vars

-----------------------------------------------------------------------------
Read == {file[j] : j \in 1 .. e}
Ends(E) == {d[1] : d \in E} \union {d[2] : d \in E}
Copies(d) == {i \in Parts : d \in setEdge[i]}

(* Every partition is a graph of its own (8HW/README.md: "a locally        *)
(* consistent graph state in each machine"): it has the ends of its edges, *)
(* once each, and a mirror only of an end of one of its edges.  Every      *)
(* vertex read has one master, and the totals printed count vertices.      *)
PartitionsConsistent ==
    /\ \A i \in Parts :
          /\ Ends(setEdge[i]) \subseteq setMaster[i] \union setVertex[i]
          /\ setVertex[i] \subseteq Ends(setEdge[i])
          /\ setMaster[i] \intersect setVertex[i] = {}
          /\ cut = "edge" => setMaster[i] \subseteq Ends(setEdge[i])
    /\ cut # "hybrid" =>
          \A v \in Ends(Read) : Cardinality({i \in Parts : v \in setMaster[i]}) = 1
    /\ printed # << >> =>
          \A i \in 1 .. p : printed[i].total = Cardinality(setMaster[i - 1] \union setVertex[i - 1])

(* 8HW/README.md:88: the edge-cut prints the "number of replicated edges   *)
(* in this partition", those that are in another partition too.            *)
ReplicatedArePrinted ==
    cut = "edge" /\ printed # << >> =>
        \A i \in 1 .. p : printed[i].replicated
                            = Cardinality({d \in setEdge[i - 1] : Cardinality(Copies(d)) > 1})

(* Every edge read is somewhere, and only where its cut puts it: with each *)
(* of its ends (edge-cut), in one partition per line of the file that has  *)
(* it (vertex-cuts), with its target up to the threshold and then with its *)
(* source (hybrid-cut).                                                    *)
EdgesPlaced ==
    /\ UNION {setEdge[i] : i \in Parts} = Read
    /\ \A d \in Read :
          /\ cut = "edge" => Copies(d) = {master(d[1]), master(d[2])}
          /\ cut \in {"vertex", "greedy"} =>
                Cardinality(Copies(d)) \in 1 .. Cardinality({j \in 1 .. e : file[j] = d})
          /\ cut = "hybrid" =>
                /\ Copies(d) \subseteq {master(d[1]), master(d[2])}
                /\ Cardinality({j \in 1 .. e : file[j][2] = d[2]}) <= threshold
                      => Copies(d) = {master(d[2])}
    /\ cut = "hybrid" =>
          \A v \in Vertices : Cardinality({d \in Read : d[2] = v /\ master(v) # master(d[1])
                                                        /\ master(v) \in Copies(d)}) <= threshold
=============================================================================
