------------------------------ MODULE Examples ------------------------------
(***************************************************************************)
(* The programs in examples/ that are built alike: a main thread starts a  *)
(* pass over the edges, workers take the edges of the pass in any order,   *)
(* and the main thread goes on when they are joined.  One of the programs  *)
(* runs; each is a module of its own, on a graph of its own.               *)
(***************************************************************************)
EXTENDS Integers, Sequences, FiniteSets

CONSTANTS Workers, BfsWorkers,
          BfsGraph, WccGraph, MisGraph, KCoresGraph, RadiiGraph, RankGraph, \* sequences of <<source, target>>
          BfsVertices, WccVertices, MisVertices, KCoresVertices, RadiiVertices, RankVertices,
          Ks, Budgets, K, Weight, MaxIterations, Unit

VARIABLES
    program, mainPc, pending, pc, edge,
    active_in, active_out, active_vertices,                   \* bitmaps and what a pass returned
    start_vid, parent, found, discovered_vertices,            \* bfs
    label, b, c, written, components,                         \* wcc
    in_mis,                                                   \* mis
    k, fits, active, degree, to_remove, oldV,                 \* k-cores
    round, start, visited, radii, iteration, candidates, threshold,
    max_radii, old_radii,                                     \* radii
    iterations, iter, pagerank, sum, delta                    \* the rank programs

SourceIn(graph) == [e \in DOMAIN graph |-> graph[e][1]]
TargetIn(graph) == [e \in DOMAIN graph |-> graph[e][2]]
BfsEdges == DOMAIN BfsGraph
BfsSource == SourceIn(BfsGraph)
BfsTarget == TargetIn(BfsGraph)
WccEdges == DOMAIN WccGraph
WccSource == SourceIn(WccGraph)
WccTarget == TargetIn(WccGraph)
MisEdges == DOMAIN MisGraph
MisSource == SourceIn(MisGraph)
MisTarget == TargetIn(MisGraph)
KCoresEdges == DOMAIN KCoresGraph
KCoresSource == SourceIn(KCoresGraph)
KCoresTarget == TargetIn(KCoresGraph)
RadiiEdges == DOMAIN RadiiGraph
RadiiSource == SourceIn(RadiiGraph)
RadiiTarget == TargetIn(RadiiGraph)
RankEdges == DOMAIN RankGraph
RankSource == SourceIn(RankGraph)
RankTarget == TargetIn(RankGraph)

B == INSTANCE BFS WITH Workers <- BfsWorkers, Vertices <- BfsVertices, Edges <- BfsEdges,
                       Source <- BfsSource, Target <- BfsTarget
W == INSTANCE WCC WITH Vertices <- WccVertices, Edges <- WccEdges,
                       Source <- WccSource, Target <- WccTarget
M == INSTANCE MIS WITH Vertices <- MisVertices, Edges <- MisEdges,
                       Source <- MisSource, Target <- MisTarget
C == INSTANCE KCores WITH Vertices <- KCoresVertices, Edges <- KCoresEdges,
                          Source <- KCoresSource, Target <- KCoresTarget
R == INSTANCE Radii WITH Vertices <- RadiiVertices, Edges <- RadiiEdges,
                         Source <- RadiiSource, Target <- RadiiTarget
P == INSTANCE RankPrograms WITH Vertices <- RankVertices, Edges <- RankEdges,
                                Source <- RankSource, Target <- RankTarget

ASSUME GraphAssumptions ==
    /\ B!GraphAssumption /\ W!GraphAssumption /\ M!GraphAssumption /\ C!GraphAssumption
    /\ R!GraphAssumption /\ R!EnoughVertices /\ P!GraphAssumption

-----------------------------------------------------------------------------
\* A variable that the running program does not have stays 0.
NoBfs == start_vid = 0 /\ parent = 0 /\ found = 0 /\ discovered_vertices = 0
NoWcc == label = 0 /\ b = 0 /\ c = 0 /\ written = 0 /\ components = 0
NoMis == in_mis = 0
NoKCores == k = 0 /\ fits = 0 /\ to_remove = 0
NoRadii ==
    /\ round = 0 /\ start = 0 /\ visited = 0 /\ radii = 0 /\ iteration = 0
    /\ candidates = 0 /\ threshold = 0 /\ max_radii = 0 /\ old_radii = 0
NoRank == iterations = 0 /\ iter = 0 /\ pagerank = 0 /\ sum = 0 /\ delta = 0
NoFrontier == active_in = 0 /\ active_out = 0 /\ active_vertices = 0
NoAdding == active = 0 /\ degree = 0 /\ oldV = 0

Init ==
    \/ program = "bfs" /\ B!Init /\ NoWcc /\ NoMis /\ NoKCores /\ NoRadii /\ NoRank /\ NoAdding
    \/ program = "wcc" /\ W!Init /\ NoBfs /\ NoMis /\ NoKCores /\ NoRadii /\ NoRank /\ NoAdding
    \/ program = "mis" /\ M!Init /\ NoBfs /\ NoWcc /\ NoKCores /\ NoRadii /\ NoRank /\ NoAdding
    \/ program = "k-cores" /\ C!Init /\ NoBfs /\ NoWcc /\ NoMis /\ NoRadii /\ NoRank /\ NoFrontier
    \/ program = "radii" /\ R!Init /\ NoBfs /\ NoWcc /\ NoMis /\ NoKCores /\ NoRank /\ NoAdding
    \/ P!Init /\ NoBfs /\ NoWcc /\ NoMis /\ NoKCores /\ NoRadii /\ NoFrontier

bfsVars == <<start_vid, parent, found, discovered_vertices>>
wccVars == <<label, b, c, written, components>>
kcoresVars == <<k, fits, to_remove>>
radiiVars == <<round, start, visited, radii, iteration, candidates, threshold, max_radii, old_radii>>
rankVars == <<iterations, iter, pagerank, sum, delta>>
frontierVars == <<active_in, active_out, active_vertices>>
addVars == <<active, degree, oldV>>
vars == <<program, mainPc, pending, pc, edge, bfsVars, wccVars, in_mis, kcoresVars,
          radiiVars, rankVars, frontierVars, addVars>>

\* The program takes one of its steps.
Bfs(step) ==
    /\ program = "bfs" /\ step
    /\ UNCHANGED <<program, wccVars, in_mis, kcoresVars, radiiVars, rankVars, addVars>>
Wcc(step) ==
    /\ program = "wcc" /\ step
    /\ UNCHANGED <<program, bfsVars, in_mis, kcoresVars, radiiVars, rankVars, addVars>>
Mis(step) ==
    /\ program = "mis" /\ step
    /\ UNCHANGED <<program, bfsVars, wccVars, kcoresVars, radiiVars, rankVars, addVars>>
KCores(step) ==
    /\ program = "k-cores" /\ step
    /\ UNCHANGED <<program, bfsVars, wccVars, in_mis, radiiVars, rankVars, frontierVars>>
Radii(step) ==
    /\ program = "radii" /\ step
    /\ UNCHANGED <<program, bfsVars, wccVars, in_mis, kcoresVars, rankVars, addVars>>
Rank(step) ==
    /\ program \in {"pagerank", "spmv", "pagerank-Delta"} /\ step
    /\ UNCHANGED <<bfsVars, wccVars, in_mis, kcoresVars, radiiVars, frontierVars>>

MainStep == Bfs(B!MainStep) \/ Wcc(W!MainStep) \/ Mis(M!MainStep) \/ KCores(C!MainStep)
            \/ Radii(R!MainStep) \/ Rank(P!MainStep)
WorkerStep(w) == Wcc(W!WorkerStep(w)) \/ Mis(M!WorkerStep(w)) \/ KCores(C!WorkerStep(w))
                 \/ Radii(R!WorkerStep(w)) \/ Rank(P!WorkerStep(w))
BfsWorkerStep(w) == Bfs(B!WorkerStep(w))

Finished == mainPc \in {"done", "terminated"} /\ UNCHANGED vars
Next ==
    \/ MainStep
    \/ \E w \in Workers : WorkerStep(w)
    \/ \E w \in BfsWorkers : BfsWorkerStep(w)
    \/ Finished

(* Every thread that can take a step takes one in the end.  No cas loop    *)
(* needs more: whenever a cas fails, another one has succeeded.            *)
Fairness ==
    /\ WF_vars(MainStep)
    /\ \A w \in Workers : WF_vars(WorkerStep(w))
    /\ \A w \in BfsWorkers : WF_vars(BfsWorkerStep(w))

Spec == Init /\ [][Next]_vars
FairSpec == Spec /\ Fairness

-----------------------------------------------------------------------------
(* examples/bfs.cpp: the frontier of every iteration is one level of the   *)
(* graph, the parents form a shortest-path tree although edges race for    *)
(* them, and the number printed is that of the reachable vertices.         *)
BfsInv == program = "bfs" => B!Inv

(* examples/wcc.cpp: every label that could still spread is going to,      *)
(* although it may be read before it is lowered, and in the end a vertex   *)
(* has the smallest label of those that reach it.                          *)
WccInv == program = "wcc" => W!Inv

(* examples/mis.cpp: a pass removes the targets of edges from smaller      *)
(* vertices of active_in and no others, in whatever order the workers take *)
(* the edges and although they write in_mis while others read it; and the  *)
(* sets of two consecutive iterations contain one another, so that to stop *)
(* at equal NUMBERS of survivors is to stop at equal sets.                 *)
MisInv == program = "mis" => M!Inv

(* examples/mis.cpp: what it ends with is a kernel of the order of the     *)
(* vertices, which on an undirected graph without self-loops is a maximal  *)
(* independent set.                                                        *)
ResultIsMIS == program = "mis" => M!ResultIsKernel /\ M!ResultIsMIS

(* examples/k-cores.cpp: the degrees are right whenever they are tested,   *)
(* no vertex of the k-core is given up, and the result is the k-core.      *)
KCoresInv == program = "k-cores" => C!Inv

(* examples/radii.cpp: at the end of a round the bits are those of the     *)
(* searches that reach the vertex, and no radius is below a distance.      *)
RadiiInv == program = "radii" => R!Inv

(* examples/radii.cpp: the second round starts at K different vertices,    *)
(* and no vertex left out has a larger radius.                             *)
StartsAreFarthest == program = "radii" => R!StartsAreFarthest

(* examples/pagerank.cpp, spmv.cpp, pagerank-Delta.cpp: after every        *)
(* iteration the array holds what the formula gives for it, whichever      *)
(* edges raced for a sum.                                                  *)
RankInv == program \in {"pagerank", "spmv", "pagerank-Delta"} => P!Inv

(* Every program ends: its passes do, and its loop over them.              *)
Terminates == <>(mainPc \in {"done", "terminated"})
=============================================================================
