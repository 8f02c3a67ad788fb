-------------------------------- MODULE BFS --------------------------------
(***************************************************************************)
(* examples/bfs.cpp: breadth-first search.  Every iteration is one pass of *)
(* stream_edges over the edges whose source is in active_in (see EdgePass  *)
(* and StreamEdges); the workers run the body of the lambda on different   *)
(* edges at the same time and race for the parent of a vertex with cas.    *)
(***************************************************************************)
EXTENDS Integers, FiniteSets

CONSTANTS Workers,
          Vertices,       \* 0 .. graph.vertices - 1
          Edges, Source, Target

GraphAssumption ==
    /\ IsFiniteSet(Vertices) /\ Vertices \subseteq Nat
    /\ Edges # {}
    /\ Source \in [Edges -> Vertices] /\ Target \in [Edges -> Vertices]

VARIABLES
    start_vid, parent, active_in, active_out,
    active_vertices,      \* what the last pass returned
    mainPc,
    pending,              \* edges of this pass no worker has taken
    pc, edge,             \* each worker's place and edge
    found,                \* the sum of the values process has returned
    discovered_vertices

mainVars == <<start_vid, active_in, active_vertices, mainPc, discovered_vertices>>
vars == <<mainVars, parent, active_out, pending, pc, edge, found>>

\* alloc_bitmap leaves active_in as new [] found it.
Init ==
    /\ start_vid \in Vertices
    /\ parent = [v \in Vertices |-> IF v = start_vid THEN start_vid ELSE -1]
    /\ active_in \in SUBSET Vertices
    /\ active_out = {start_vid}
    /\ active_vertices = 1
    /\ mainPc = "while"
    /\ pending = {}
    /\ pc = [w \in Workers |-> "idle"]
    /\ edge = [w \in Workers |-> CHOOSE e \in Edges : TRUE]
    /\ found = 0
    /\ discovered_vertices = 0

-----------------------------------------------------------------------------
\* Mutant: the frontier of the last iteration is kept and extended.
StartPassKeepingFrontier ==
    /\ mainPc = "while" /\ active_vertices # 0
    /\ active_in' = active_out /\ active_out' = active_out
    /\ pending' = {e \in Edges : Source[e] \in active_out}
    /\ found' = 0 /\ mainPc' = "pass"
    /\ UNCHANGED <<start_vid, parent, active_vertices, pc, edge, discovered_vertices>>

\* swap(active_in, active_out), active_out->clear(), and the pass begins.
StartPass ==
    /\ mainPc = "while"
    /\ active_vertices # 0
    /\ active_in' = active_out
    /\ active_out' = {}
    /\ pending' = {e \in Edges : Source[e] \in active_out}
    /\ found' = 0
    /\ mainPc' = "pass"
    /\ UNCHANGED <<start_vid, parent, active_vertices, pc, edge, discovered_vertices>>

Take(w) ==
    /\ pc[w] = "idle"
    /\ \E e \in pending : /\ pending' = pending \ {e}
                          /\ edge' = [edge EXCEPT ![w] = e]
    /\ pc' = [pc EXCEPT ![w] = "check"]
    /\ UNCHANGED <<mainVars, parent, active_out, found>>

\* if (parent[e.target] == -1)
Check(w) ==
    /\ pc[w] = "check"
    /\ pc' = [pc EXCEPT ![w] = IF parent[Target[edge[w]]] = -1 THEN "cas" ELSE "idle"]
    /\ UNCHANGED <<mainVars, parent, active_out, pending, edge, found>>

\* Mutant: a failed cas is retried, as in wcc.
CasUntilDone(w) ==
    LET t == Target[edge[w]] IN
    /\ pc[w] = "cas"
    /\ IF parent[t] = -1
       THEN /\ parent' = [parent EXCEPT ![t] = Source[edge[w]]]
            /\ pc' = [pc EXCEPT ![w] = "set"]
       ELSE UNCHANGED <<parent, pc>>
    /\ UNCHANGED <<mainVars, active_out, pending, edge, found>>

\* cas(&parent[e.target], -1, e.source)
Cas(w) ==
    LET t == Target[edge[w]] IN
    /\ pc[w] = "cas"
    /\ IF parent[t] = -1
       THEN /\ parent' = [parent EXCEPT ![t] = Source[edge[w]]]
            /\ pc' = [pc EXCEPT ![w] = "set"]
       ELSE /\ pc' = [pc EXCEPT ![w] = "idle"]
            /\ UNCHANGED parent
    /\ UNCHANGED <<mainVars, active_out, pending, edge, found>>

\* active_out->set_bit(e.target); return 1
SetBit(w) ==
    /\ pc[w] = "set"
    /\ active_out' = active_out \union {Target[edge[w]]}
    /\ found' = found + 1
    /\ pc' = [pc EXCEPT ![w] = "idle"]
    /\ UNCHANGED <<mainVars, parent, pending, edge>>

\* The workers are joined and the pass returns its sum.
EndPass ==
    /\ mainPc = "pass"
    /\ pending = {}
    /\ \A w \in Workers : pc[w] = "idle"
    /\ active_vertices' = found
    /\ mainPc' = "while"
    /\ UNCHANGED <<start_vid, parent, active_in, active_out, pending, pc,
                   edge, found, discovered_vertices>>

\* The last stream_vertices counts the vertices with a parent.
CountDiscovered ==
    /\ mainPc = "while"
    /\ active_vertices = 0
    /\ discovered_vertices' = Cardinality({v \in Vertices : parent[v] # -1})
    /\ mainPc' = "done"
    /\ UNCHANGED <<start_vid, parent, active_in, active_out, active_vertices,
                   pending, pc, edge, found>>

MainStep == StartPass \/ EndPass \/ CountDiscovered
WorkerStep(w) == Take(w) \/ Check(w) \/ Cas(w) \/ SetBit(w)

Next == MainStep \/ \E w \in Workers : WorkerStep(w)

Spec == Init /\ [][Next]_vars

-----------------------------------------------------------------------------
(* Within[k]: the vertices at most k edges away from the start.            *)
Within[k \in Nat] ==
    IF k = 0 THEN {start_vid}
    ELSE LET before == Within[k - 1]
         IN  before \union {Target[e] : e \in {f \in Edges : Source[f] \in before}}
Level(k) == IF k = 0 THEN {start_vid} ELSE Within[k] \ Within[k - 1]
Reachable == Within[Cardinality(Vertices)]

TypeOK ==
    /\ start_vid \in Vertices
    /\ parent \in [Vertices -> Vertices \union {-1}]
    /\ active_in \subseteq Vertices /\ active_out \subseteq Vertices
    /\ active_vertices \in Nat /\ found \in Nat
    /\ mainPc \in {"while", "pass", "done"}
    /\ pending \subseteq Edges
    /\ pc \in [Workers -> {"idle", "check", "cas", "set"}]
    /\ edge \in [Workers -> Edges]
    /\ discovered_vertices \in Nat

(* Between two passes the frontier is exactly one level of the graph, the  *)
(* one after the level just expanded, and its size is what the last pass   *)
(* returned, although several edges into one vertex race for its parent.   *)
FrontierIsLevel ==
    mainPc = "while" =>
        /\ \E k \in 0 .. Cardinality(Vertices) :
              /\ active_out = Level(k)
              /\ k > 0 => active_in = Level(k - 1)
        /\ active_vertices = Cardinality(active_out)

(* Every parent link is an edge of the graph from the level before: the    *)
(* links are a shortest-path tree.                                         *)
ParentOneLevelUp ==
    \A v \in Vertices \ {start_vid} : parent[v] # -1 =>
        /\ \E e \in Edges : Source[e] = parent[v] /\ Target[e] = v
        /\ \E k \in 1 .. Cardinality(Vertices) :
              v \in Level(k) /\ parent[v] \in Level(k - 1)

(* The number printed at the end is the number of reachable vertices.      *)
DiscoversReachable ==
    mainPc = "done" => discovered_vertices = Cardinality(Reachable)

Inv == TypeOK /\ FrontierIsLevel /\ ParentOneLevelUp /\ DiscoversReachable
=============================================================================
