-------------------------------- MODULE WCC --------------------------------
(***************************************************************************)
(* examples/wcc.cpp: connected components by label propagation.  Every     *)
(* iteration is one pass of stream_edges over the edges whose source is in *)
(* active_in (see EdgePass); the workers race on the labels, which they    *)
(* read without synchronisation and lower with the cas loop of write_min   *)
(* (core/atomic.hpp).                                                      *)
(***************************************************************************)
EXTENDS Integers, FiniteSets

CONSTANTS Workers,
          Vertices,       \* 0 .. graph.vertices - 1
          Edges, Source, Target

GraphAssumption ==
    /\ IsFiniteSet(Vertices) /\ Vertices \subseteq Nat
    /\ Edges # {}
    /\ Source \in [Edges -> Vertices] /\ Target \in [Edges -> Vertices]

VARIABLES
    label, active_in, active_out,
    active_vertices,      \* what the last pass returned
    mainPc,
    pending,              \* edges of this pass no worker has taken
    pc, edge,             \* each worker's place and edge
    b, c,                 \* write_min's argument and the label it read
    written,              \* the sum of the values process has returned
    components

mainVars == <<active_in, active_vertices, mainPc, components>>
vars == <<mainVars, label, active_out, pending, pc, edge, b, c, written>>

\* alloc_bitmap leaves active_in as new [] found it.
Init ==
    /\ label = [v \in Vertices |-> v]
    /\ active_in \in SUBSET Vertices
    /\ active_out = Vertices
    /\ active_vertices = Cardinality(Vertices)
    /\ mainPc = "while"
    /\ pending = {}
    /\ pc = [w \in Workers |-> "idle"]
    /\ edge = [w \in Workers |-> CHOOSE e \in Edges : TRUE]
    /\ b = [w \in Workers |-> 0]
    /\ c = [w \in Workers |-> 0]
    /\ written = 0
    /\ components = 0

-----------------------------------------------------------------------------
\* swap(active_in, active_out), active_out->clear(), and the pass begins.
StartPass ==
    /\ mainPc = "while"
    /\ active_vertices # 0
    /\ active_in' = active_out
    /\ active_out' = {}
    /\ pending' = {e \in Edges : Source[e] \in active_out}
    /\ written' = 0
    /\ mainPc' = "pass"
    /\ UNCHANGED <<active_vertices, components, label, pc, edge, b, c>>

Take(w) ==
    /\ pc[w] = "idle"
    /\ \E e \in pending : /\ pending' = pending \ {e}
                          /\ edge' = [edge EXCEPT ![w] = e]
    /\ pc' = [pc EXCEPT ![w] = "source"]
    /\ UNCHANGED <<mainVars, label, active_out, b, c, written>>

\* label[e.source] for the comparison.
ReadSource(w) ==
    /\ pc[w] = "source"
    /\ b' = [b EXCEPT ![w] = label[Source[edge[w]]]]
    /\ pc' = [pc EXCEPT ![w] = "compare"]
    /\ UNCHANGED <<mainVars, label, active_out, pending, edge, c, written>>

(* label[e.source] < label[e.target]; the argument of write_min is the     *)
(* label of the source once more, and the build may reuse the value it     *)
(* compared or load it again.                                              *)
Compare(w) ==
    /\ pc[w] = "compare"
    /\ IF b[w] < label[Target[edge[w]]]
       THEN /\ pc' = [pc EXCEPT ![w] = "load"]
            /\ \E again \in {b[w], label[Source[edge[w]]]} : b' = [b EXCEPT ![w] = again]
       ELSE /\ pc' = [pc EXCEPT ![w] = "idle"]
            /\ UNCHANGED b
    /\ UNCHANGED <<mainVars, label, active_out, pending, edge, c, written>>

\* write_min: c = *a, and out of the loop unless c > b.
Load(w) ==
    LET now == label[Target[edge[w]]] IN
    /\ pc[w] = "load"
    /\ c' = [c EXCEPT ![w] = now]
    /\ pc' = [pc EXCEPT ![w] = IF now > b[w] THEN "cas" ELSE "idle"]
    /\ UNCHANGED <<mainVars, label, active_out, pending, edge, b, written>>

\* Mutant: a failed cas is not retried.
CasOnce(w) ==
    LET t == Target[edge[w]] IN
    /\ pc[w] = "cas"
    /\ label' = [label EXCEPT ![t] = IF @ = c[w] THEN b[w] ELSE @]
    /\ pc' = [pc EXCEPT ![w] = IF label[t] = c[w] THEN "set" ELSE "idle"]
    /\ UNCHANGED <<mainVars, active_out, pending, edge, b, c, written>>

\* cas(a, c, b); a failure goes round the loop.
Cas(w) ==
    LET t == Target[edge[w]] IN
    /\ pc[w] = "cas"
    /\ IF label[t] = c[w]
       THEN /\ label' = [label EXCEPT ![t] = b[w]]
            /\ pc' = [pc EXCEPT ![w] = "set"]
       ELSE /\ pc' = [pc EXCEPT ![w] = "load"]
            /\ UNCHANGED label
    /\ UNCHANGED <<mainVars, active_out, pending, edge, b, c, written>>

\* active_out->set_bit(e.target); return 1
SetBit(w) ==
    /\ pc[w] = "set"
    /\ active_out' = active_out \union {Target[edge[w]]}
    /\ written' = written + 1
    /\ pc' = [pc EXCEPT ![w] = "idle"]
    /\ UNCHANGED <<mainVars, label, pending, edge, b, c>>

\* The workers are joined and the pass returns its sum.
EndPass ==
    /\ mainPc = "pass"
    /\ pending = {}
    /\ \A w \in Workers : pc[w] = "idle"
    /\ active_vertices' = written
    /\ mainPc' = "while"
    /\ UNCHANGED <<active_in, components, label, active_out, pending, pc, edge, b, c, written>>

\* label_stat counts the vertices per label; the labels in use are printed.
CountComponents ==
    /\ mainPc = "while"
    /\ active_vertices = 0
    /\ components' = Cardinality({label[v] : v \in Vertices})
    /\ mainPc' = "done"
    /\ UNCHANGED <<active_in, active_vertices, label, active_out, pending, pc, edge, b, c, written>>

MainStep == StartPass \/ EndPass \/ CountComponents
WorkerStep(w) ==
    Take(w) \/ ReadSource(w) \/ Compare(w) \/ Load(w) \/ Cas(w) \/ SetBit(w)

Next == MainStep \/ \E w \in Workers : WorkerStep(w)

Spec == Init /\ [][Next]_vars

-----------------------------------------------------------------------------
TypeOK ==
    /\ label \in [Vertices -> Vertices]
    /\ active_in \subseteq Vertices /\ active_out \subseteq Vertices
    /\ active_vertices \in Nat /\ written \in Nat /\ components \in Nat
    /\ mainPc \in {"while", "pass", "done"}
    /\ pending \subseteq Edges
    /\ pc \in [Workers -> {"idle", "source", "compare", "load", "cas", "set"}]
    /\ edge \in [Workers -> Edges]
    /\ b \in [Workers -> Nat] /\ c \in [Workers -> Nat]

(* No edge is forgotten: an edge along which a label could still flow is   *)
(* going to be looked at, because its source is in the next frontier or    *)
(* about to be put there, or the edge is still pending or in a worker's    *)
(* hands with the source's present label.                                  *)
Marking(v) == \E w \in Workers : pc[w] = "set" /\ Target[edge[w]] = v
InHand(e) == \E w \in Workers :
    /\ edge[w] = e
    /\ \/ pc[w] = "source"
       \/ pc[w] \in {"compare", "load", "cas"} /\ b[w] <= label[Source[e]]
NothingForgotten ==
    \A e \in Edges : label[Source[e]] < label[Target[e]] =>
        \/ Source[e] \in active_out \/ Marking(Source[e])
        \/ mainPc = "pass" /\ e \in pending
        \/ InHand(e)

(* Within[k][v]: the vertices from which a path of at most k edges leads   *)
(* to v.                                                                   *)
Within[k \in Nat] ==
    IF k = 0 THEN [v \in Vertices |-> {v}]
    ELSE LET before == Within[k - 1]
         IN  [v \in Vertices |-> before[v] \union
                 UNION {before[Source[e]] : e \in {f \in Edges : Target[f] = v}}]
Ancestors == Within[Cardinality(Vertices)]

(* A vertex ends with the smallest vertex that reaches it as its label: on *)
(* a graph with both directions of every edge, one label per component.    *)
Converges ==
    mainPc = "done" =>
        \A v \in Vertices : /\ label[v] \in Ancestors[v]
                            /\ \A u \in Ancestors[v] : label[v] <= u

Inv == TypeOK /\ NothingForgotten /\ Converges
=============================================================================
