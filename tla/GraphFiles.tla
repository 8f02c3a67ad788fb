----------------------------- MODULE GraphFiles -----------------------------
(***************************************************************************)
(* What the programs that read a list of edges make of it: the cuts of     *)
(* homework 8 (Partitioners), and the same list as a graph of homework 2   *)
(* and as the input of a counting job.                                     *)
(***************************************************************************)
EXTENDS Partitioners
Ext == INSTANCE SequencesExt

G == INSTANCE CsrGraph
J == INSTANCE MapReduce

CONSTANT Splits           \* map tasks of a job

ASSUME FilesAssumption == Vertices = 0 .. Cardinality(Vertices) - 1

\* One state for every file.
AtStart == e = 0 /\ cut = "greedy"

\* The file as an adjacency list in text form, with comments and a blank line.
OutOf(v) == SelectSeq(file, LAMBDA d : d[1] = v)
numNodes == Cardinality(Vertices)
Line(numbers) == [comment |-> FALSE, numbers |-> numbers]
Comment == [comment |-> TRUE, numbers |-> << >>]
Targets == Ext!FlattenSeq([v \in 1 .. numNodes |-> [j \in 1 .. Len(OutOf(v - 1)) |-> OutOf(v - 1)[j][2]]])
Starts == [v \in 1 .. numNodes |-> Cardinality({j \in DOMAIN file : file[j][1] < v - 1})]
Text == [header |-> TRUE,
         lines |-> <<Comment, Line(<<numNodes>>), Line(<< >>), Line(<<Len(file)>>), Line(Starts), Comment>>
                   \o [j \in 1 .. Len(file) |-> Line(<<Targets[j]>>)]]

\* The sources of the edges into v, ascending, as often as there are edges.
SourcesOf(v) ==
    LET ByTarget(u) == SelectSeq(OutOf(u), LAMBDA d : d[2] = v)
    IN  Ext!FlattenSeq([u \in 1 .. numNodes |-> [j \in 1 .. Len(ByTarget(u - 1)) |-> u - 1]])

Symmetric(edges) == \A j \in DOMAIN edges : \E k \in DOMAIN edges :
                        edges[k] = <<edges[j][2], edges[j][1]>>

\* How often x is in the sequence s, and how often the file has an edge from u to v.
Times(x, s) == Cardinality({j \in DOMAIN s : s[j] = x})

(* The arrays that hold the edges of the file: each vertex has its edges   *)
(* behind those of the vertices before it, in any order.                   *)
Arrays ==
    {a \in [num_nodes : {numNodes}, num_edges : {Len(file)},
            outgoing_starts : [Vertices -> 0 .. Len(file)],
            outgoing_edges : [0 .. Len(file) - 1 -> Vertices]] :
        /\ \A v \in Vertices : v = 0 => a.outgoing_starts[v] = 0
        /\ \A u, v \in Vertices : u <= v => a.outgoing_starts[u] <= a.outgoing_starts[v]
        /\ \A u, v \in Vertices : Times(v, G!outgoing(a, u)) = Times(<<u, v>>, file)}

(* build_incoming_edges, 2HW/common/graph.cpp: however the lists of the    *)
(* vertices are ordered, the incoming arrays hold every edge of the file   *)
(* as often as the file does, at its target, with the sources ascending;   *)
(* so the sanity check of edgestats passes.                                *)
IncomingIsTranspose ==
    AtStart =>
        \A a \in Arrays :
            LET g == G!build_incoming_edges(a)
            IN  /\ \A u, v \in Vertices : Times(u, G!incoming(g, v)) = Times(<<u, v>>, file)
                /\ \A v \in Vertices : \A j, k \in DOMAIN G!incoming(g, v) :
                      j <= k => G!incoming(g, v)[j] <= G!incoming(g, v)[k]
                /\ \A v \in Vertices : G!FoundMatching(g, v)

(* store_graph_binary and load_graph_binary: what was stored is what is    *)
(* loaded, the incoming arrays included, and a file that is cut short      *)
(* anywhere, or begins with something else than the token, is refused.     *)
BinaryRoundTrips ==
    AtStart =>
        \A a \in Arrays :
            LET g == G!build_incoming_edges(a)
                binary == G!store_graph_binary(g)
            IN  /\ G!load_graph_binary(binary) = g
                /\ \A k \in 0 .. Len(binary) - 1 : G!load_graph_binary(SubSeq(binary, 1, k)) = G!Exit
                /\ G!load_graph_binary([binary EXCEPT ![1] = 0]) = G!Exit

(* load_graph, 2HW/common/graph.cpp: the arrays hold the edges that the    *)
(* text of the file lists, comments and blank lines aside, in its order.   *)
(* edgestats of graphTools.cpp counts every edge at both its ends and      *)
(* tells symmetric graphs apart.  What make_undirect writes is symmetric.  *)
CsrCorrect ==
    AtStart =>
        LET g == G!load_graph(Text)
            stats == G!edgestats(g)
            both == G!make_undirect(file)
        IN  /\ \A v \in Vertices :
                  /\ G!outgoing(g, v) = [j \in 1 .. Len(OutOf(v)) |-> OutOf(v)[j][2]]
                  /\ G!incoming(g, v) = SourcesOf(v)
            /\ stats.total_outgoing = Len(file) /\ stats.total_incoming = Len(file)
            /\ stats.is_symmetric = Symmetric(file)
            /\ G!zero_incoming(g) = {v \in Vertices : \A j \in DOMAIN file : file[j][2] # v}
            /\ Len(both) = 2 * Len(file) /\ Symmetric(both)

(* 5HW OutDegree.java: however the lines are split among map tasks, and    *)
(* whichever tasks combine, every source gets its number of edges, the one *)
(* that the CSR graph has; lines that hold no edge do not count.  In the   *)
(* same way WordCount.java, word_count.py and SimpleApp.py count tokens.   *)
OutDegreesAgree ==
    AtStart =>
        LET lines == <<<<7>>>> \o [j \in 1 .. Len(file) |-> <<0, file[j][1], file[j][2], 0>>]
            g == G!load_graph(Text)
        IN  \A combines \in [Splits -> BOOLEAN] :
            /\ \A splitOf \in [1 .. Len(lines) -> Splits] :
                  J!Job([l \in 1 .. Len(lines) |-> J!OutDegreeMapper(lines[l])], splitOf, combines)
                      = [v \in Vertices \ G!zero_outgoing(g) |-> G!outgoing_size(g, v)]
            /\ \A splitOf \in [1 .. Len(file) -> Splits] :
                  J!Job([l \in 1 .. Len(file) |-> J!TokenizerMapper(file[l])], splitOf, combines)
                      = [v \in Ends({file[j] : j \in DOMAIN file}) |->
                            Cardinality({ji \in (1 .. Len(file)) \X {1, 2} : file[ji[1]][ji[2]] = v})]
=============================================================================
