---------------------------- MODULE RankPrograms ----------------------------
(***************************************************************************)
(* examples/pagerank.cpp, spmv.cpp and pagerank-Delta.cpp: a pass over the *)
(* edges in which workers add into one array with the cas loop of          *)
(* write_add, then a pass over the vertices, iterated.  Floating-point     *)
(* numbers are multiples of 1/Unit, with a Unit for which every division   *)
(* of the instance is exact: rounding is left out, lost and stale values   *)
(* are not.                                                                *)
(***************************************************************************)
EXTENDS Integers, FiniteSets, Functions

CONSTANTS Workers,
          Vertices,       \* 0 .. graph.vertices - 1
          Edges, Source, Target, Weight,
          MaxIterations,  \* the largest argument of the runs
          Unit

GraphAssumption ==
    /\ IsFiniteSet(Vertices) /\ Vertices \subseteq Nat
    /\ Edges # {} /\ IsFiniteSet(Edges)
    /\ Source \in [Edges -> Vertices] /\ Target \in [Edges -> Vertices]
    /\ Weight \in [Edges -> Nat]
    /\ MaxIterations \in Nat /\ Unit \in Nat \ {0}

VARIABLES
    program, iterations, iter,
    degree,
    pagerank,             \* input in spmv
    sum,                  \* next_delta in pagerank-Delta, output in spmv
    delta, active,        \* of pagerank-Delta
    mainPc,
    pending,              \* edges of this pass no worker has taken
    pc, edge, oldV        \* each worker's place, edge and value read

arguments == <<program, iterations>>
arrays == <<degree, pagerank, sum, delta, active>>
worker == <<pc, edge, oldV>>
vars == <<arguments, iter, arrays, mainPc, pending, worker>>

Zero == [v \in Vertices |-> 0]
AnyEdge == CHOOSE e \in Edges : TRUE

\* spmv needs no degrees; the arrays hold what the last program left there.
Init ==
    /\ program \in {"pagerank", "spmv", "pagerank-Delta"}
    /\ iterations \in IF program = "spmv" THEN {1} ELSE 0 .. MaxIterations
    /\ iter = 0
    /\ degree = Zero /\ pagerank = Zero /\ sum = Zero /\ delta = Zero
    /\ active = {}
    /\ mainPc = IF program = "spmv" THEN "init" ELSE "degree"
    /\ pending = IF program = "spmv" THEN {} ELSE Edges
    /\ pc = [w \in Workers |-> "idle"]
    /\ edge = [w \in Workers |-> AnyEdge]
    /\ oldV = [w \in Workers |-> 0]

-----------------------------------------------------------------------------
(* The workers: the body of the lambda of a pass over the edges.           *)
Counting == mainPc = "degree"
InPass == mainPc \in {"degree", "pass"}

\* write_add(&degree[e.source], 1) and write_add(&sum[e.target], ...)
At(w) == IF Counting THEN degree[Source[edge[w]]] ELSE sum[Target[edge[w]]]

\* 0.85 is 17/20.
Contribution(e) ==
    CASE program = "pagerank" -> pagerank[Source[e]]
      [] program = "spmv" -> pagerank[Source[e]] * Weight[e]
      [] program = "pagerank-Delta" -> (17 * (delta[Source[e]] \div degree[Source[e]])) \div 20

Done(w) ==
    /\ pc' = [pc EXCEPT ![w] = "idle"]
    /\ edge' = [edge EXCEPT ![w] = AnyEdge]
    /\ oldV' = [oldV EXCEPT ![w] = 0]

(* Only pagerank-Delta looks at the source first: active.get_bit(e.source) *)
(* and degree[e.source] > 0.                                               *)
Take(w) ==
    /\ InPass /\ pc[w] = "idle"
    /\ \E e \in pending :
          /\ pending' = pending \ {e}
          /\ IF program = "pagerank-Delta" /\ ~Counting
                /\ ~(Source[e] \in active /\ degree[Source[e]] > 0)
             THEN UNCHANGED <<pc, edge>>
             ELSE /\ edge' = [edge EXCEPT ![w] = e]
                  /\ pc' = [pc EXCEPT ![w] = "load"]
    /\ UNCHANGED <<arguments, iter, arrays, mainPc, oldV>>

\* write_add: oldV = *a
Load(w) ==
    /\ pc[w] = "load"
    /\ oldV' = [oldV EXCEPT ![w] = At(w)]
    /\ pc' = [pc EXCEPT ![w] = "cas"]
    /\ UNCHANGED <<arguments, iter, arrays, mainPc, pending, edge>>

Store(w) ==
    IF Counting
    THEN /\ degree' = [degree EXCEPT ![Source[edge[w]]] = oldV[w] + 1]
         /\ UNCHANGED sum
    ELSE /\ sum' = [sum EXCEPT ![Target[edge[w]]] = oldV[w] + Contribution(edge[w])]
         /\ UNCHANGED degree

\* Mutant: the sum is stored without comparing.
CasStores(w) ==
    /\ pc[w] = "cas" /\ Store(w) /\ Done(w)
    /\ UNCHANGED <<arguments, iter, pagerank, delta, active, mainPc, pending>>

\* write_add: while (!cas(a, oldV, newV))
Cas(w) ==
    /\ pc[w] = "cas"
    /\ IF At(w) = oldV[w]
       THEN Store(w) /\ Done(w)
       ELSE /\ pc' = [pc EXCEPT ![w] = "load"]
            /\ UNCHANGED <<degree, sum, edge, oldV>>
    /\ UNCHANGED <<arguments, iter, pagerank, delta, active, mainPc, pending>>

WorkerStep(w) == Take(w) \/ Load(w) \/ Cas(w)

-----------------------------------------------------------------------------
(* The main thread.                                                        *)
Joined == pending = {} /\ \A w \in Workers : pc[w] = "idle"

EndDegree ==
    /\ mainPc = "degree" /\ Joined
    /\ mainPc' = "init"
    /\ UNCHANGED <<arguments, iter, arrays, pending, worker>>

(* The first pass over the vertices.  1.f / 0 is infinite; a vertex without *)
(* out-edges is never read as a source, and 0 stands for its value.         *)
OneOver(v) == IF degree[v] > 0 THEN Unit \div degree[v] ELSE 0
InitPagerank ==
    /\ program = "pagerank"
    /\ pagerank' = [v \in Vertices |-> OneOver(v)]
    /\ sum' = Zero
    /\ UNCHANGED <<delta, active>>

InitSpmv ==
    /\ program = "spmv"
    /\ pagerank' = [v \in Vertices |-> v]
    /\ sum' = Zero
    /\ UNCHANGED <<delta, active>>

InitDelta ==
    /\ program = "pagerank-Delta"
    /\ pagerank' = [v \in Vertices |-> Unit]
    /\ delta' = [v \in Vertices |-> OneOver(v)]
    /\ active' = Vertices
    /\ UNCHANGED sum

InitVertices ==
    /\ mainPc = "init"
    /\ InitPagerank \/ InitSpmv \/ InitDelta
    /\ mainPc' = "while"
    /\ UNCHANGED <<arguments, iter, degree, pending, worker>>

StartPass ==
    /\ mainPc = "while" /\ iter < iterations
    /\ sum' = IF program = "pagerank-Delta" THEN Zero ELSE sum
    /\ pending' = Edges
    /\ mainPc' = "pass"
    /\ UNCHANGED <<arguments, iter, degree, pagerank, delta, active, worker>>

(* The workers are joined and the vertices are updated.  pagerank divides  *)
(* for the next iteration and resets the sums, the last time it does not.  *)
Updated(v) ==
    LET score == (3 * Unit + 17 * sum[v]) \div 20 IN
    IF iter = iterations - 1 THEN score
    ELSE IF degree[v] > 0 THEN score \div degree[v] ELSE 0

ApplyPagerank ==
    /\ program = "pagerank"
    /\ pagerank' = [v \in Vertices |-> Updated(v)]
    /\ sum' = IF iter = iterations - 1 THEN sum ELSE Zero
    /\ mainPc' = "while"
    /\ UNCHANGED <<delta, active>>

\* rel > threshold keeps a vertex active; 0.15 is 3/20.
ApplyDelta ==
    /\ program = "pagerank-Delta"
    /\ pagerank' = [v \in Vertices |-> pagerank[v] + sum[v]]
    /\ active' = {v \in Vertices : 20 * sum[v] > 3 * pagerank'[v]}
    /\ delta' = sum
    /\ mainPc' = IF active' = {} THEN "done" ELSE "while"
    /\ UNCHANGED sum

\* spmv has no second pass over the vertices.
ApplySpmv == program = "spmv" /\ mainPc' = "while" /\ UNCHANGED <<pagerank, sum, delta, active>>

EndPass ==
    /\ mainPc = "pass" /\ Joined
    /\ ApplyPagerank \/ ApplyDelta \/ ApplySpmv
    /\ iter' = iter + 1
    /\ UNCHANGED <<arguments, degree, pending, worker>>

Leave ==
    /\ mainPc = "while" /\ iter = iterations
    /\ mainPc' = "done"
    /\ UNCHANGED <<arguments, iter, arrays, pending, worker>>

MainStep == EndDegree \/ InitVertices \/ StartPass \/ EndPass \/ Leave

Next == MainStep \/ \E w \in Workers : WorkerStep(w)

Spec == Init /\ [][Next]_vars

-----------------------------------------------------------------------------
(* What the programs compute, as the formulas define it.                   *)
OutDegree(v) == Cardinality({e \in Edges : Source[e] = v})
Gathered(v, S, value) == SumFunctionOnSet(value, {e \in S : Target[e] = v})

\* The PageRank of every vertex after n iterations.
Rank[n \in Nat] ==
    IF n = 0 THEN [v \in Vertices |-> Unit]
    ELSE LET share == [e \in Edges |-> Rank[n - 1][Source[e]] \div OutDegree(Source[e])]
         IN  [v \in Vertices |-> (3 * Unit + 17 * Gathered(v, Edges, share)) \div 20]

TypeOK ==
    /\ iter \in 0 .. iterations
    /\ degree \in [Vertices -> Nat] /\ pagerank \in [Vertices -> Nat]
    /\ sum \in [Vertices -> Nat] /\ delta \in [Vertices -> Nat]
    /\ active \subseteq Vertices /\ pending \subseteq Edges
    /\ mainPc \in {"degree", "init", "while", "pass", "done"}
    /\ pc \in [Workers -> {"idle", "load", "cas"}]

\* Between passes the array holds rank divided by degree, at the end the rank.
RanksExact ==
    program = "pagerank" /\ mainPc \in {"while", "done"} =>
        \A v \in Vertices :
            IF iter = iterations /\ iter > 0 THEN pagerank[v] = Rank[iter][v]
            ELSE OutDegree(v) > 0 => pagerank[v] = Rank[iter][v] \div OutDegree(v)

ProductExact ==
    program = "spmv" /\ mainPc = "done" =>
        LET product == [e \in Edges |-> Source[e] * Weight[e]]
        IN  \A v \in Vertices : sum[v] = Gathered(v, Edges, product)

\* What pagerank-Delta has after n iterations: each active vertex passes its
\* change on, and stays active if the change it gets is large enough.
Spread[n \in Nat] ==
    IF n = 0 THEN [rank |-> [v \in Vertices |-> Unit],
                   delta |-> [v \in Vertices |-> IF OutDegree(v) > 0 THEN Unit \div OutDegree(v) ELSE 0],
                   active |-> Vertices]
    ELSE LET before == Spread[n - 1]
             passed == [e \in Edges |->
                           (17 * (before.delta[Source[e]] \div OutDegree(Source[e]))) \div 20]
             gained == [v \in Vertices |->
                           Gathered(v, {e \in Edges : Source[e] \in before.active}, passed)]
             rank == [v \in Vertices |-> before.rank[v] + gained[v]]
         IN  [rank |-> rank, delta |-> gained,
              active |-> {v \in Vertices : 20 * gained[v] > 3 * rank[v]}]

DeltaExact ==
    program = "pagerank-Delta" /\ mainPc \in {"while", "done"} =>
        /\ pagerank = Spread[iter].rank
        /\ delta = Spread[iter].delta
        /\ active = Spread[iter].active

Inv == TypeOK /\ RanksExact /\ ProductExact /\ DeltaExact
=============================================================================
