------------------------------- MODULE KCores -------------------------------
(***************************************************************************)
(* examples/k-cores.cpp: the vertices of the k-core.  One pass over the    *)
(* edges counts degrees; then each round marks the active vertices whose   *)
(* degree is below k, takes them off the degrees of their neighbours in a  *)
(* pass over the edges, and deactivates them.  The workers of a pass add   *)
(* to the same degrees with write_add, a loop of read and cas.             *)
(***************************************************************************)
EXTENDS Integers, FiniteSets

CONSTANTS Workers,
          Vertices,       \* 0 .. graph.vertices - 1
          Edges, Source, Target,
          Ks,             \* values of the argument k
          Budgets         \* may the vertex data fit into 0.8 of the budget?

GraphAssumption ==
    /\ IsFiniteSet(Vertices) /\ Vertices \subseteq Nat
    /\ IsFiniteSet(Edges) /\ Edges # {}
    /\ Source \in [Edges -> Vertices] /\ Target \in [Edges -> Vertices]
    /\ Ks \subseteq Int /\ Budgets \subseteq BOOLEAN

VARIABLES
    k, fits,              \* the arguments
    active, degree, to_remove,     \* sets for the 0/1 arrays
    mainPc,
    pending,              \* edges of this pass no worker has taken
    pc, edge, oldV        \* each worker's place, edge and value read

arguments == <<k, fits>>
arrays == <<active, degree, to_remove>>
worker == <<pc, edge, oldV>>
vars == <<arguments, arrays, mainPc, pending, worker>>

\* What edge[w] is while w has none.
AnyEdge == CHOOSE e \in Edges : TRUE

Init ==
    /\ k \in Ks /\ fits \in Budgets
    /\ active = Vertices
    /\ degree = [v \in Vertices |-> 0]
    /\ to_remove = {}
    /\ mainPc = "count"
    /\ pending = Edges
    /\ pc = [w \in Workers |-> "idle"]
    /\ edge = [w \in Workers |-> AnyEdge]
    /\ oldV = [w \in Workers |-> 0]

-----------------------------------------------------------------------------
(* The workers.  In the first pass every edge adds 1 to the degree of its  *)
(* source, in the others some add -1 to that of their target.              *)
Counting == mainPc = "count"
InPass == mainPc \in {"count", "discount"}
AddTo(w) == IF Counting THEN Source[edge[w]] ELSE Target[edge[w]]
Delta == IF Counting THEN 1 ELSE -1

\* The body of the lambda ends.
Done(w) ==
    /\ pc' = [pc EXCEPT ![w] = "idle"]
    /\ edge' = [edge EXCEPT ![w] = AnyEdge]
    /\ oldV' = [oldV EXCEPT ![w] = 0]

Take(w) ==
    /\ InPass /\ pc[w] = "idle"
    /\ \E e \in pending : /\ pending' = pending \ {e}
                          /\ edge' = [edge EXCEPT ![w] = e]
    /\ pc' = [pc EXCEPT ![w] = IF Counting THEN "load" ELSE "test"]
    /\ UNCHANGED <<arguments, arrays, mainPc, oldV>>

\* if (to_remove[e.source] == 1 && active[e.target] == 1)
Test(w) ==
    /\ pc[w] = "test"
    /\ IF Source[edge[w]] \in to_remove /\ Target[edge[w]] \in active
       THEN pc' = [pc EXCEPT ![w] = "load"] /\ UNCHANGED <<edge, oldV>>
       ELSE Done(w)
    /\ UNCHANGED <<arguments, arrays, mainPc, pending>>

\* write_add: oldV = *a
Load(w) ==
    /\ pc[w] = "load"
    /\ oldV' = [oldV EXCEPT ![w] = degree[AddTo(w)]]
    /\ pc' = [pc EXCEPT ![w] = "cas"]
    /\ UNCHANGED <<arguments, arrays, mainPc, pending, edge>>

\* Mutant: the sum is stored without comparing.
CasStores(w) ==
    /\ pc[w] = "cas"
    /\ degree' = [degree EXCEPT ![AddTo(w)] = oldV[w] + Delta]
    /\ Done(w)
    /\ UNCHANGED <<arguments, active, to_remove, mainPc, pending>>

\* write_add: while (!cas(a, oldV, newV))
Cas(w) ==
    /\ pc[w] = "cas"
    /\ IF degree[AddTo(w)] = oldV[w]
       THEN /\ degree' = [degree EXCEPT ![AddTo(w)] = oldV[w] + Delta]
            /\ Done(w)
       ELSE /\ pc' = [pc EXCEPT ![w] = "load"]
            /\ UNCHANGED <<degree, edge, oldV>>
    /\ UNCHANGED <<arguments, active, to_remove, mainPc, pending>>

WorkerStep(w) == Take(w) \/ Test(w) \/ Load(w) \/ Cas(w)

-----------------------------------------------------------------------------
(* Main.  stream_vertices calls the empty function passed as pre when it   *)
(* has to work by windows: std::bad_function_call ends the program.        *)
Joined == pending = {} /\ \A w \in Workers : pc[w] = "idle"

EndCount ==
    /\ mainPc = "count" /\ Joined
    /\ mainPc' = "while"
    /\ UNCHANGED <<arguments, arrays, pending, worker>>

\* to_remove.fill(0), the pass that marks, and if (!changed) break
Mark ==
    /\ mainPc = "while" /\ fits
    /\ to_remove' = {v \in active : degree[v] < k}
    /\ mainPc' = IF to_remove' = {} THEN "done" ELSE "discount"
    /\ pending' = IF to_remove' = {} THEN {} ELSE Edges
    /\ UNCHANGED <<arguments, active, degree, worker>>

EndDiscount ==
    /\ mainPc = "discount" /\ Joined
    /\ mainPc' = "deactivate"
    /\ UNCHANGED <<arguments, arrays, pending, worker>>

Deactivate ==
    /\ mainPc = "deactivate"
    /\ active' = active \ to_remove
    /\ mainPc' = "while"
    /\ UNCHANGED <<arguments, degree, to_remove, pending, worker>>

BadFunctionCall ==
    /\ mainPc = "while" /\ ~fits
    /\ mainPc' = "terminated"
    /\ UNCHANGED <<arguments, arrays, pending, worker>>

MainStep == EndCount \/ Mark \/ EndDiscount \/ Deactivate \/ BadFunctionCall

Next == MainStep \/ \E w \in Workers : WorkerStep(w)

Spec == Init /\ [][Next]_vars

-----------------------------------------------------------------------------
TypeOK ==
    /\ k \in Ks /\ fits \in Budgets
    /\ active \subseteq Vertices /\ to_remove \subseteq Vertices
    /\ degree \in [Vertices -> Int]
    /\ mainPc \in {"count", "while", "discount", "deactivate", "done", "terminated"}
    /\ pending \subseteq Edges
    /\ pc \in [Workers -> {"idle", "test", "load", "cas"}]
    /\ edge \in [Workers -> Edges]
    /\ oldV \in [Workers -> Int]

\* The edges of v that lead into S, and into v from S.
EdgesInto(v, S) == {e \in Edges : Source[e] = v /\ Target[e] \in S}
EdgesFrom(v, S) == {e \in Edges : Target[e] = v /\ Source[e] \in S}
Undirected ==
    \A u, v \in Vertices : Cardinality(EdgesInto(u, {v})) = Cardinality(EdgesFrom(u, {v}))

\* The largest set in which every vertex has k edges: the k-core.
Core == UNION {S \in SUBSET Vertices :
                  \A v \in S : Cardinality(EdgesInto(v, S)) >= k}

(* Between rounds an active vertex's degree is the number of its edges to  *)
(* active vertices, although edges between vertices that are removed in    *)
(* the same round are discounted at both ends.                             *)
DegreeIsRemaining ==
    mainPc = "while" /\ Undirected =>
        \A v \in active : degree[v] = Cardinality(EdgesInto(v, active))

(* No vertex of the k-core is ever given up, not even for a while.         *)
KeepsCore == Undirected => Core \subseteq active \ to_remove

(* What is written to the file at the end is the k-core.                   *)
ResultIsCore == mainPc = "done" /\ Undirected => active = Core

Inv == TypeOK /\ DegreeIsRemaining /\ KeepsCore /\ ResultIsCore
=============================================================================
