------------------------------- MODULE Radii -------------------------------
(***************************************************************************)
(* examples/radii.cpp: estimated radii.  K searches run at once, one bit   *)
(* of visited each; radii[v] is the last iteration in which v was reached. *)
(* A first round starts at random vertices, a second one at the K vertices *)
(* with the largest radii of the first.  The bits are double-buffered: an  *)
(* iteration reads visited[..][now] and adds to visited[..][next], and     *)
(* then copies next to now, but only at the vertices it reached.           *)
(***************************************************************************)
EXTENDS Integers, Sequences, FiniteSets

CONSTANTS Workers,
          Vertices,       \* 0 .. graph.vertices - 1
          Edges, Source, Target,
          K               \* 64

GraphAssumption ==
    /\ IsFiniteSet(Vertices) /\ Vertices \subseteq Nat
    /\ Edges # {}
    /\ Source \in [Edges -> Vertices] /\ Target \in [Edges -> Vertices]
    /\ K \in Nat \ {0}

\* The loop of lines 92-97 ends only if there are K vertices.
EnoughVertices == K <= Cardinality(Vertices)

Samples == 1 .. K

VARIABLES
    round,                \* 1 and 2
    start,                \* the vertex each search starts at
    visited, radii, active_in, active_out, active_vertices, iteration,
    candidates, threshold,
    max_radii,            \* what each round prints
    mainPc,
    pending,              \* edges of this pass no worker has taken
    pc, edge, old_radii   \* each worker's place, edge and value read

roundVars == <<round, start, candidates, threshold, max_radii>>
bitmaps == <<active_in, active_out>>
worker == <<pc, edge, old_radii>>
vars == <<roundVars, visited, radii, bitmaps, active_vertices, iteration, mainPc,
          pending, worker>>

\* What edge[w] is while w has none.
AnyEdge == CHOOSE e \in Edges : TRUE

\* The state in which a round starts its searches at s.
Started(s, newVisited, newRadii, newActiveOut) ==
    /\ newVisited = [v \in Vertices |->
                        [j \in {0, 1} |-> IF j = 1 THEN {k \in Samples : s[k] = v} ELSE {}]]
    /\ newRadii = [v \in Vertices |-> IF \E k \in Samples : s[k] = v THEN 0 ELSE -1]
    /\ newActiveOut = {s[k] : k \in Samples}

\* alloc_bitmap leaves active_in as new [] found it; rand() picks the starts.
Init ==
    /\ round = 1
    /\ start \in [Samples -> Vertices]
    /\ Started(start, visited, radii, active_out)
    /\ active_in \in SUBSET Vertices
    /\ active_vertices = K
    /\ iteration = 0
    /\ candidates = << >> /\ threshold = 0
    /\ max_radii = << >>
    /\ mainPc = "while"
    /\ pending = {}
    /\ pc = [w \in Workers |-> "idle"]
    /\ edge = [w \in Workers |-> AnyEdge]
    /\ old_radii = [w \in Workers |-> 0]

now == iteration % 2
next == 1 - now

-----------------------------------------------------------------------------
(* The workers run the lambda of lines 66-78.                              *)

Take(w) ==
    /\ mainPc = "pass" /\ pc[w] = "idle"
    /\ \E e \in pending : /\ pending' = pending \ {e}
                          /\ edge' = [edge EXCEPT ![w] = e]
    /\ pc' = [pc EXCEPT ![w] = "compare"]
    /\ UNCHANGED <<roundVars, visited, radii, bitmaps, active_vertices, iteration, mainPc,
                   old_radii>>

\* The lambda returns.
Done(w) ==
    /\ pc' = [pc EXCEPT ![w] = "idle"]
    /\ edge' = [edge EXCEPT ![w] = AnyEdge]
    /\ old_radii' = [old_radii EXCEPT ![w] = 0]

(* The bits of the two ends in the buffer that this iteration only reads,  *)
(* and __sync_fetch_and_or into the other one.                             *)
Compare(w) ==
    LET s == Source[edge[w]]
        t == Target[edge[w]]
    IN
    /\ pc[w] = "compare"
    /\ IF visited[t][now] # visited[s][now]
       THEN /\ visited' = [visited EXCEPT ![t][next] = @ \union visited[s][now]]
            /\ pc' = [pc EXCEPT ![w] = "read"]
            /\ UNCHANGED <<edge, old_radii>>
       ELSE Done(w) /\ UNCHANGED visited
    /\ UNCHANGED <<roundVars, radii, bitmaps, active_vertices, iteration, mainPc, pending>>

\* VertexId old_radii = radii[e.target]
ReadRadii(w) ==
    /\ pc[w] = "read"
    /\ old_radii' = [old_radii EXCEPT ![w] = radii[Target[edge[w]]]]
    /\ pc' = [pc EXCEPT ![w] = "test"]
    /\ UNCHANGED <<roundVars, visited, radii, bitmaps, active_vertices, iteration, mainPc,
                   pending, edge>>

\* if (radii[e.target] != iteration)
Test(w) ==
    /\ pc[w] = "test"
    /\ IF radii[Target[edge[w]]] # iteration
       THEN pc' = [pc EXCEPT ![w] = "cas"] /\ UNCHANGED <<edge, old_radii>>
       ELSE Done(w)
    /\ UNCHANGED <<roundVars, visited, radii, bitmaps, active_vertices, iteration, mainPc,
                   pending>>

(* cas(&radii[e.target], old_radii, iteration), and the bit of the target. *)
(* Nobody reads active_out during the pass, so the two are one step.       *)
Cas(w) ==
    LET t == Target[edge[w]] IN
    /\ pc[w] = "cas"
    /\ IF radii[t] = old_radii[w]
       THEN /\ radii' = [radii EXCEPT ![t] = iteration]
            /\ active_out' = active_out \union {t}
       ELSE UNCHANGED <<radii, active_out>>
    /\ Done(w)
    /\ UNCHANGED <<roundVars, visited, active_in, active_vertices, iteration, mainPc, pending>>

WorkerStep(w) == Take(w) \/ Compare(w) \/ ReadRadii(w) \/ Test(w) \/ Cas(w)

-----------------------------------------------------------------------------
(* The main thread.                                                        *)

\* iteration++, swap, clear, and the pass over the edges begins.
StartPass ==
    /\ mainPc = "while" /\ active_vertices > 0
    /\ iteration' = iteration + 1
    /\ active_in' = active_out /\ active_out' = {}
    /\ pending' = {e \in Edges : Source[e] \in active_out}
    /\ mainPc' = "pass"
    /\ UNCHANGED <<roundVars, visited, radii, active_vertices, worker>>

\* Mutant: the bits are not copied back.
CopyBackNothing ==
    /\ mainPc = "pass" /\ pending = {} /\ \A w \in Workers : pc[w] = "idle"
    /\ active_vertices' = Cardinality(active_out)
    /\ mainPc' = "while"
    /\ UNCHANGED <<roundVars, visited, radii, bitmaps, iteration, pending, worker>>

(* The workers are joined; the pass over the vertices of active_out copies *)
(* their bits and counts them.                                             *)
CopyBack ==
    /\ mainPc = "pass" /\ pending = {} /\ \A w \in Workers : pc[w] = "idle"
    /\ visited' = [v \in Vertices |-> IF v \in active_out
                                      THEN [j \in {0, 1} |-> visited[v][next]]
                                      ELSE visited[v]]
    /\ active_vertices' = Cardinality(active_out)
    /\ mainPc' = "while"
    /\ UNCHANGED <<roundVars, radii, bitmaps, iteration, pending, worker>>

\* The largest radius, 0 or more: lines 84-89 and 140-145.
Largest == CHOOSE m \in {0} \union {radii[v] : v \in Vertices} :
              \A v \in Vertices : radii[v] <= m

EndRound ==
    /\ mainPc = "while" /\ active_vertices = 0
    /\ max_radii' = Append(max_radii, Largest)
    /\ mainPc' = IF round = 1 THEN "candidates" ELSE "done"
    /\ UNCHANGED <<round, start, candidates, threshold, visited, radii, bitmaps,
                   active_vertices, iteration, pending, worker>>

\* The vertices of radius r in ascending order, behind those already chosen.
OfRadius(r) == {v \in Vertices : radii[v] = r}
Ascending(S) == CHOOSE s \in [1 .. Cardinality(S) -> S] :
                   \A i, j \in DOMAIN s : i < j => s[i] < s[j]

\* Mutant: the smallest radii are taken first.
AddCandidatesFromBelow ==
    /\ mainPc = "candidates" /\ Len(candidates) < K
    /\ candidates' = candidates \o Ascending(OfRadius(threshold - 1))
    /\ threshold' = threshold + 1
    /\ UNCHANGED <<round, start, max_radii, visited, radii, bitmaps, active_vertices,
                   iteration, mainPc, pending, worker>>

AddCandidates ==
    /\ mainPc = "candidates" /\ Len(candidates) < K
    /\ candidates' = candidates \o Ascending(OfRadius(max_radii[1] - threshold))
    /\ threshold' = threshold + 1
    /\ UNCHANGED <<round, start, max_radii, visited, radii, bitmaps, active_vertices,
                   iteration, mainPc, pending, worker>>

SecondRound ==
    /\ mainPc = "candidates" /\ Len(candidates) >= K
    /\ round' = 2
    /\ start' = [k \in Samples |-> candidates[k]]
    /\ Started(start', visited', radii', active_out')
    /\ active_vertices' = K
    /\ iteration' = 0
    /\ mainPc' = "while"
    /\ UNCHANGED <<candidates, threshold, max_radii, active_in, pending, worker>>

MainStep == StartPass \/ CopyBack \/ EndRound \/ AddCandidates \/ SecondRound

Next == MainStep \/ \E w \in Workers : WorkerStep(w)

Spec == Init /\ [][Next]_vars

-----------------------------------------------------------------------------
TypeOK ==
    /\ round \in {1, 2}
    /\ start \in [Samples -> Vertices]
    /\ visited \in [Vertices -> [{0, 1} -> SUBSET Samples]]
    /\ radii \in [Vertices -> Nat \union {-1}]
    /\ active_in \subseteq Vertices /\ active_out \subseteq Vertices
    /\ active_vertices \in Nat /\ iteration \in Nat
    /\ mainPc \in {"while", "pass", "candidates", "done"}
    /\ pending \subseteq Edges
    /\ pc \in [Workers -> {"idle", "compare", "read", "test", "cas"}]

\* Within[n][u]: the vertices at most n edges from u.
Within[n \in Nat] ==
    IF n = 0 THEN [u \in Vertices |-> {u}]
    ELSE LET before == Within[n - 1] IN
         [u \in Vertices |->
            before[u] \union {Target[e] : e \in {f \in Edges : Source[f] \in before[u]}}]
Reaches(u, v) == v \in Within[Cardinality(Vertices)][u]
AtLeast(n, u, v) == Reaches(u, v) /\ (n > 0 => v \notin Within[n - 1][u])

RoundOver == mainPc = "candidates" \/ mainPc = "done" \/ (mainPc = "while" /\ active_vertices = 0)

(* At the end of a round a vertex has the bits of exactly the searches     *)
(* that can reach it, in both buffers (its own bit may be in one only).    *)
BitsExact ==
    RoundOver => \A v \in Vertices, k \in Samples, j \in {0, 1} :
        /\ k \in visited[v][j] => Reaches(start[k], v)
        /\ Reaches(start[k], v) /\ start[k] # v => k \in visited[v][j]

(* A radius is never below the distance from a start: the estimate errs    *)
(* upwards only; a vertex no search reaches keeps -1.                      *)
RadiiAreBounds ==
    RoundOver => \A v \in Vertices :
        /\ \A k \in Samples, n \in 1 .. Cardinality(Vertices) :
              AtLeast(n, start[k], v) => radii[v] >= n
        /\ (\A k \in Samples : ~Reaches(start[k], v)) => radii[v] = -1

Inv == TypeOK /\ BitsExact /\ RadiiAreBounds

(* The second round starts at K different vertices, none of which has a    *)
(* smaller radius than a vertex that was left out.                         *)
StartsAreFarthest ==
    mainPc = "candidates" /\ Len(candidates) >= K =>
        \A i \in 1 .. K, v \in Vertices :
            /\ \A j \in 1 .. K : candidates[i] = candidates[j] => i = j
            /\ (\A j \in 1 .. K : candidates[j] # v) => radii[v] <= radii[candidates[i]]
=============================================================================
