------------------------------ MODULE CsrGraph ------------------------------
(***************************************************************************)
(* 2HW/common/graph.cpp and tools/graphTools.cpp, and the file tools of    *)
(* GridGraph, as operators.  A graph is kept as arrays: the out-edges of   *)
(* vertex v are outgoing_edges from outgoing_starts[v] on, and incoming    *)
(* arrays of the same form are built from them.                            *)
(***************************************************************************)
EXTENDS Integers, Sequences, FiniteSets
Ext == INSTANCE SequencesExt

\* What a function returns when the program exits with an error.
Exit == [num_nodes |-> -1]

-----------------------------------------------------------------------------
(* graph_internal.h                                                        *)
Nodes(g) == 0 .. g.num_nodes - 1

EndOf(g, starts, v) == IF v = g.num_nodes - 1 THEN g.num_edges ELSE starts[v + 1]
Slice(g, starts, edges, v) ==
    LET first == starts[v]
    IN  [j \in 1 .. EndOf(g, starts, v) - first |-> edges[first + j - 1]]

\* The vertices between outgoing_begin and outgoing_end.
outgoing(g, v) == Slice(g, g.outgoing_starts, g.outgoing_edges, v)
incoming(g, v) == Slice(g, g.incoming_starts, g.incoming_edges, v)
outgoing_size(g, v) == EndOf(g, g.outgoing_starts, v) - g.outgoing_starts[v]
incoming_size(g, v) == EndOf(g, g.incoming_starts, v) - g.incoming_starts[v]

-----------------------------------------------------------------------------
(* graph.cpp                                                               *)

\* The loops of build_incoming_edges visit the positions of outgoing_edges in
\* order; Owner is the vertex whose position it is.
Positions(g) == 0 .. g.num_edges - 1
\* Mutant: a vertex has one position too many.
OwnerUpTo(g, j) == Ext!Min({i \in Nodes(g) : j <= EndOf(g, g.outgoing_starts, i)})

Owner(g, j) == CHOOSE i \in Nodes(g) :
                  g.outgoing_starts[i] <= j /\ j < EndOf(g, g.outgoing_starts, i)
CountTargets(g, t, upTo) == Cardinality({j \in 0 .. upTo - 1 : g.outgoing_edges[j] = t})

IncomingStarts(g) ==
    LET starts[i \in Nodes(g)] ==
            IF i = 0 THEN 0 ELSE starts[i - 1] + CountTargets(g, i - 1, g.num_edges)
    IN  starts

build_incoming_edges(g) ==
    LET starts == IncomingStarts(g)
        Slot(j) == LET t == g.outgoing_edges[j] IN starts[t] + CountTargets(g, t, j)
    IN  [num_nodes |-> g.num_nodes, num_edges |-> g.num_edges,
         outgoing_starts |-> g.outgoing_starts, outgoing_edges |-> g.outgoing_edges,
         incoming_starts |-> starts,
         incoming_edges |-> [k \in Positions(g) |->
                                Owner(g, CHOOSE j \in Positions(g) : Slot(j) = k)]]

\* The graph whose starts and edges are the first numbers of scratch.
Build(n, m, scratch) ==
    build_incoming_edges(
        [num_nodes |-> n, num_edges |-> m,
         outgoing_starts |-> [i \in 0 .. n - 1 |-> scratch[i + 1]],
         outgoing_edges |-> [j \in 0 .. m - 1 |-> scratch[n + j + 1]]])

(* A text file: is its first line "AdjacencyGraph", and the lines after it,  *)
(* each a comment or a sequence of numbers.  Comments and blank lines are   *)
(* skipped; the first two lines left hold the two counts.                   *)
Content(text) == SelectSeq(text.lines, LAMBDA l : ~l.comment /\ l.numbers # << >>)
get_meta_data(text) == <<Content(text)[1].numbers[1], Content(text)[2].numbers[1]>>
read_graph_file(text) ==
    Ext!FlattenSeq([l \in 1 .. Len(Content(text)) - 2 |-> Content(text)[l + 2].numbers])

load_graph(text) ==
    IF ~text.header THEN Exit
    ELSE Build(get_meta_data(text)[1], get_meta_data(text)[2], read_graph_file(text))

GRAPH_HEADER_TOKEN == -559038737      \* (int)0xDEADBEEF

AsSeq(array, n) == [i \in 1 .. n |-> array[i - 1]]
store_graph_binary(g) ==
    <<GRAPH_HEADER_TOKEN, g.num_nodes, g.num_edges>>
    \o AsSeq(g.outgoing_starts, g.num_nodes) \o AsSeq(g.outgoing_edges, g.num_edges)

\* Mutant: the token is not looked at.
load_graph_binary_any(ints) ==
    IF Len(ints) < 3 \/ Len(ints) < 3 + ints[2] + ints[3]
    THEN Exit
    ELSE Build(ints[2], ints[3], SubSeq(ints, 4, Len(ints)))

\* A short read or another token makes it exit.
load_graph_binary(ints) ==
    IF Len(ints) < 3 \/ ints[1] # GRAPH_HEADER_TOKEN \/ Len(ints) < 3 + ints[2] + ints[3]
    THEN Exit
    ELSE Build(ints[2], ints[3], SubSeq(ints, 4, Len(ints)))

-----------------------------------------------------------------------------
(* graphTools.cpp                                                          *)
zero_outgoing(g) == {i \in Nodes(g) : outgoing_size(g, i) = 0}
zero_incoming(g) == {i \in Nodes(g) : incoming_size(g, i) = 0}

FoundMatching(g, i) == \A v \in Ext!ToSet(outgoing(g, i)) : i \in Ext!ToSet(incoming(g, v))
\* Mutant: the list of the target is searched again.
FoundSymmetricAgain(g, i) == \A v \in Ext!ToSet(outgoing(g, i)) : i \in Ext!ToSet(incoming(g, v))
FoundSymmetric(g, i) == Ext!ToSet(outgoing(g, i)) \subseteq Ext!ToSet(incoming(g, i))

edgestats(g) ==
    IF \E i \in Nodes(g) : ~FoundMatching(g, i) THEN Exit
    ELSE [is_symmetric |-> \A i \in Nodes(g) : FoundSymmetric(g, i),
          total_outgoing |-> Ext!MapThenSumSet(LAMBDA i : outgoing_size(g, i), Nodes(g)),
          total_incoming |-> Ext!MapThenSumSet(LAMBDA i : incoming_size(g, i), Nodes(g)),
          min_outgoing |-> Ext!Min({outgoing_size(g, i) : i \in Nodes(g)}),
          max_outgoing |-> Ext!Max({outgoing_size(g, i) : i \in Nodes(g)}),
          min_incoming |-> Ext!Min({incoming_size(g, i) : i \in Nodes(g)}),
          max_incoming |-> Ext!Max({incoming_size(g, i) : i \in Nodes(g)})]

-----------------------------------------------------------------------------
(* 9HW make_undirect.cpp: every edge of a binary file is written twice.    *)
make_undirect(file) ==
    Ext!FlattenSeq([j \in 1 .. Len(file) |-> <<file[j], <<file[j][2], file[j][1]>>>>])
=============================================================================
