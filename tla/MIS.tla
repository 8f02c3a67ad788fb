-------------------------------- MODULE MIS --------------------------------
(***************************************************************************)
(* examples/mis.cpp: a maximal independent set.  Each iteration starts     *)
(* with every vertex in the set; one pass of stream_edges over the edges   *)
(* whose source survived the iteration before (active_in) removes the      *)
(* targets of edges from a smaller vertex, and one pass of stream_vertices *)
(* writes the survivors to active_out.  The program stops when two         *)
(* iterations have the same NUMBER of survivors.                           *)
(***************************************************************************)
EXTENDS Integers, FiniteSets

CONSTANTS Workers,
          Vertices,       \* 0 .. graph.vertices - 1
          Edges, Source, Target

GraphAssumption ==
    /\ IsFiniteSet(Vertices) /\ Vertices \subseteq Nat
    /\ Edges # {}
    /\ Source \in [Edges -> Vertices] /\ Target \in [Edges -> Vertices]

VARIABLES
    in_mis, active_in, active_out,
    active_vertices,      \* the survivors of the iteration before
    mainPc,
    pending,              \* edges of this pass no worker has taken
    pc, edge              \* each worker's place and edge

bitmaps == <<active_in, active_out>>
vars == <<in_mis, bitmaps, active_vertices, mainPc, pending, pc, edge>>

\* alloc_bitmap leaves active_in as new [] found it.
Init ==
    /\ in_mis = [v \in Vertices |-> TRUE]
    /\ active_in \in SUBSET Vertices
    /\ active_out = Vertices
    /\ active_vertices = Cardinality(Vertices)
    /\ mainPc = "while"
    /\ pending = {}
    /\ pc = [w \in Workers |-> "idle"]
    /\ edge = [w \in Workers |-> CHOOSE e \in Edges : TRUE]

-----------------------------------------------------------------------------
\* std::swap(active_in, active_out), and the pass over the edges begins.
StartPass ==
    /\ mainPc = "while"
    /\ active_in' = active_out /\ active_out' = active_in
    /\ pending' = {e \in Edges : Source[e] \in active_out}
    /\ mainPc' = "pass"
    /\ UNCHANGED <<in_mis, active_vertices, pc, edge>>

Take(w) ==
    /\ pc[w] = "idle"
    /\ \E e \in pending : /\ pending' = pending \ {e}
                          /\ edge' = [edge EXCEPT ![w] = e]
    /\ pc' = [pc EXCEPT ![w] = "test"]
    /\ UNCHANGED <<in_mis, bitmaps, active_vertices, mainPc>>

\* if (e.source < e.target && in_mis[e.target])
Test(w) ==
    /\ pc[w] = "test"
    /\ pc' = [pc EXCEPT ![w] = IF Source[edge[w]] < Target[edge[w]] /\ in_mis[Target[edge[w]]]
                               THEN "remove" ELSE "idle"]
    /\ UNCHANGED <<in_mis, bitmaps, active_vertices, mainPc, pending, edge>>

\* in_mis[e.target] = false
Remove(w) ==
    /\ pc[w] = "remove"
    /\ in_mis' = [in_mis EXCEPT ![Target[edge[w]]] = FALSE]
    /\ pc' = [pc EXCEPT ![w] = "idle"]
    /\ UNCHANGED <<bitmaps, active_vertices, mainPc, pending, edge>>

\* Mutant: the pass returns when the last edge is taken, not processed.
EndPassEarly ==
    /\ mainPc = "pass" /\ pending = {}
    /\ mainPc' = "survivors"
    /\ UNCHANGED <<in_mis, bitmaps, active_vertices, pending, pc, edge>>

\* The workers are joined.
EndPass ==
    /\ mainPc = "pass"
    /\ pending = {}
    /\ \A w \in Workers : pc[w] = "idle"
    /\ mainPc' = "survivors"
    /\ UNCHANGED <<in_mis, bitmaps, active_vertices, pending, pc, edge>>

Survivors == {v \in Vertices : in_mis[v]}

\* Mutant: active_out is not cleared.
CountSurvivorsNoClear ==
    /\ mainPc = "survivors"
    /\ active_out' = active_out \union Survivors
    /\ in_mis' = [v \in Vertices |-> TRUE]
    /\ active_vertices' = Cardinality(Survivors)
    /\ mainPc' = IF active_vertices' = active_vertices THEN "done" ELSE "while"
    /\ UNCHANGED <<active_in, pending, pc, edge>>

(* active_out->clear(), the pass over the vertices, which sets the bit of  *)
(* each survivor and puts the others back, and the test for the end.       *)
CountSurvivors ==
    /\ mainPc = "survivors"
    /\ active_out' = Survivors
    /\ in_mis' = [v \in Vertices |-> TRUE]
    /\ active_vertices' = Cardinality(Survivors)
    /\ mainPc' = IF active_vertices' = active_vertices THEN "done" ELSE "while"
    /\ UNCHANGED <<active_in, pending, pc, edge>>

MainStep == StartPass \/ EndPass \/ CountSurvivors
WorkerStep(w) == Take(w) \/ Test(w) \/ Remove(w)

Next == MainStep \/ \E w \in Workers : WorkerStep(w)

Spec == Init /\ [][Next]_vars

-----------------------------------------------------------------------------
TypeOK ==
    /\ in_mis \in [Vertices -> BOOLEAN]
    /\ active_in \subseteq Vertices /\ active_out \subseteq Vertices
    /\ active_vertices \in Nat
    /\ mainPc \in {"while", "pass", "survivors", "done"}
    /\ pending \subseteq Edges
    /\ pc \in [Workers -> {"idle", "test", "remove"}]
    /\ edge \in [Workers -> Edges]

\* What one iteration makes of the set S of the iteration before.
Beaten(S) == {v \in Vertices : \E e \in Edges : /\ Target[e] = v
                                                /\ Source[e] \in S
                                                /\ Source[e] < v}
Unbeaten(S) == Vertices \ Beaten(S)

(* The pass removes exactly the targets of edges from smaller vertices of  *)
(* active_in, whatever the order in which the workers take the edges.      *)
PassRemovesBeaten ==
    mainPc = "survivors" => Survivors = Unbeaten(active_in)

(* The sets of two consecutive iterations contain one another, so that     *)
(* equal numbers of survivors mean equal sets: comparing counts is enough. *)
IterationsNested ==
    mainPc \in {"while", "done"} =>
        active_in \subseteq active_out \/ active_out \subseteq active_in

Inv == TypeOK /\ PassRemovesBeaten /\ IterationsNested

(* The set at the end: a vertex is in it exactly when no smaller vertex    *)
(* with an edge to it is.  On a graph with all edges in both directions    *)
(* and without self-loops this is a maximal independent set.               *)
ResultIsKernel ==
    mainPc = "done" =>
        /\ active_out = Unbeaten(active_out)
        /\ active_vertices = Cardinality(active_out)

Undirected == \A e \in Edges : /\ Source[e] # Target[e]
                               /\ \E f \in Edges : /\ Source[f] = Target[e]
                                                   /\ Target[f] = Source[e]
Adjacent(u, v) == \E e \in Edges : Source[e] = u /\ Target[e] = v

(* On such a graph no two vertices of the result are neighbours, and every *)
(* other vertex has a neighbour in it.                                     *)
ResultIsMIS ==
    mainPc = "done" /\ Undirected =>
        /\ \A u, v \in active_out : ~Adjacent(u, v)
        /\ \A v \in Vertices \ active_out : \E u \in active_out : Adjacent(u, v)
=============================================================================
