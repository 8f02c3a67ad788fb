-------------------------------- MODULE FSM --------------------------------
(***************************************************************************)
(* 10hw/HW10: frequent patterns of three edges u -> v -> w -> x.  The      *)
(* threads of an OpenMP loop take the vertices v with the most paths       *)
(* through them, count the patterns around each in a map of their own,     *)
(* which is cut down when it grows, and the maps are merged, filtered by   *)
(* support and written as JSON.  A vertex is its number, and the label of  *)
(* an edge (strategy, buscode, rounded amount) is one number, with the     *)
(* order of the program's sort.                                            *)
(***************************************************************************)
EXTENDS Integers, Sequences, FiniteSets
Ext == INSTANCE SequencesExt
Fun == INSTANCE Functions

CONSTANTS Threads,
          Data,           \* the four input files, see loadGraph
          Broken,         \* the names that contain a '|'
          SUPPORT_THRESHOLD, HIGHEST_DEGREE, MAX_PATTERNS,
          Slack           \* 100

FSMAssumption ==
    /\ IsFiniteSet(Threads) /\ Threads # {}
    /\ SUPPORT_THRESHOLD \in Int /\ HIGHEST_DEGREE \in Nat
    /\ MAX_PATTERNS \in Nat /\ Slack \in Nat
    /\ \A files \in Data :
          /\ files.account_to_account \in Seq(Nat \X Nat \X Nat)
          /\ files.account_to_card \in Seq(Nat \X Nat \X Nat)

VARIABLES
    g,                    \* [vertexMap, edges]
    degreeList,
    v_idx,                \* the next iteration of the parallel loop, from 1
    mainPc,               \* "parallel", "merge", "write", "done", "terminated"
    threadPatterns, localEnumerated,
    pc,                   \* of each thread: "loop", "added"
    totalEnumerated,
    trimmed,              \* history: some map has been cut down
    merged,               \* the threads whose maps patterns contains
    patterns,
    written               \* the patterns of the JSON file

vars == <<g, degreeList, v_idx, mainPc, threadPatterns, localEnumerated, pc,
          totalEnumerated, trimmed, merged, patterns, written>>

-----------------------------------------------------------------------------
(* graph.cpp.  A later line for an id replaces the earlier one, and an edge *)
(* is known by its index.                                                   *)
loadVertices(lines) ==
    [id \in {l[1] : l \in Ext!ToSet(lines)} |->
        lines[Ext!Max({i \in DOMAIN lines : lines[i][1] = id})][2]]
loadEdges(lines) == [i \in DOMAIN lines |->
    [source |-> lines[i][1], target |-> lines[i][2], label |-> lines[i][3]]]
loadGraph(files) ==
    [vertexMap |-> loadVertices(files.account \o files.card),
     edges |-> loadEdges(files.account_to_account \o files.account_to_card)]

outAdj(v) == {i \in DOMAIN g.edges : g.edges[i].source = v}
inAdj(v) == {i \in DOMAIN g.edges : g.edges[i].target = v}

-----------------------------------------------------------------------------
(* getCanonicalForm: the labels in order, what kind of cycle the walk is,  *)
(* and the four vertices by the number of their first occurrence (on a     *)
(* path: by their place) with their names.                                 *)
Cycle(vids) ==
    CASE vids[1] = vids[4] -> 1
      [] vids[1] # vids[4] /\ vids[1] = vids[3] /\ vids[2] = vids[4] -> 4
      [] vids[1] # vids[4] /\ (vids[1] = vids[3]) # (vids[2] = vids[4]) -> 3
      [] OTHER -> 2

\* The numbers are given in the order of the first occurrences.
canonIdx(vids, i) ==
    IF Cycle(vids) = 2 THEN i - 1
    ELSE Cardinality({vids[j] : j \in 1 .. Ext!Min({j \in 1 .. 4 : vids[j] = vids[i]})}) - 1

getCanonicalForm(graph, chain) ==
    LET vids == <<graph.edges[chain[1]].source, graph.edges[chain[1]].target,
                  graph.edges[chain[2]].target, graph.edges[chain[3]].target>>
    IN  [labels |-> Ext!SortSeq([i \in 1 .. 3 |-> graph.edges[chain[i]].label], <),
         cycle |-> Cycle(vids),
         nodes |-> [i \in 1 .. 4 |-> <<canonIdx(vids, i), graph.vertexMap[vids[i]]>>]]

Chains == {c \in (DOMAIN g.edges) \X (DOMAIN g.edges) \X (DOMAIN g.edges) :
              g.edges[c[1]].target = g.edges[c[2]].source
              /\ g.edges[c[2]].target = g.edges[c[3]].source}

\* Mutant: without the second continue.
ChainsUnordered(v) == {c \in Chains : c[1] \in inAdj(v) /\ c[1] < c[2]}

\* The walks through v that the three loops find, with ascending indices.
ChainsOf(v) == {c \in Chains : c[1] \in inAdj(v) /\ c[1] < c[2] /\ c[2] < c[3]}

Known(c) == \A i \in 1 .. 3 : {g.edges[c[i]].source, g.edges[c[i]].target} \subseteq DOMAIN g.vertexMap

\* patterns[canonical]++ for every chain in the set.
Count(graph, chains) ==
    LET forms == [c \in chains |-> getCanonicalForm(graph, c)]
    IN  [f \in {forms[c] : c \in chains} |-> Cardinality({c \in chains : forms[c] = f})]

\* Mutant: a later count replaces an earlier one.
PlusReplaces(a, b) == [f \in DOMAIN a \union DOMAIN b |-> IF f \in DOMAIN b THEN b[f] ELSE a[f]]

\* Two maps added.
Plus(a, b) == [f \in DOMAIN a \union DOMAIN b |->
    (IF f \in DOMAIN a THEN a[f] ELSE 0) + (IF f \in DOMAIN b THEN b[f] ELSE 0)]
None == [f \in {} |-> 0]

-----------------------------------------------------------------------------
(* Candidates by the product of their degrees; equal ones in any order,    *)
(* that of an unordered_map.                                               *)
totalDegree(v) == Cardinality(inAdj(v)) * Cardinality(outAdj(v))
Candidates == {v \in {g.edges[i].source : i \in DOMAIN g.edges} : totalDegree(v) > 0}

Init ==
    /\ \E files \in Data : g = loadGraph(files)
    /\ degreeList \in {s \in [1 .. Cardinality(Candidates) -> Candidates] :
           \A i, j \in DOMAIN s : i < j => s[i] # s[j] /\ totalDegree(s[i]) >= totalDegree(s[j])}
    /\ v_idx = 1
    /\ mainPc = "parallel"
    /\ threadPatterns = [t \in Threads |-> None]
    /\ localEnumerated = [t \in Threads |-> 0]
    /\ pc = [t \in Threads |-> "loop"]
    /\ totalEnumerated = 0
    /\ trimmed = FALSE
    /\ merged = {}
    /\ patterns = None
    /\ written = {}

topK == IF HIGHEST_DEGREE <= Len(degreeList) THEN HIGHEST_DEGREE ELSE Len(degreeList)
THREAD_PATTERN_LIMIT == MAX_PATTERNS \div Cardinality(Threads) + Slack

\* The most frequent patterns; those of equal frequency by their text.
Trims(map) ==
    {[f \in kept |-> map[f]] : kept \in {K \in SUBSET DOMAIN map :
        /\ Cardinality(K) = THREAD_PATTERN_LIMIT
        /\ \A f \in K, h \in DOMAIN map \ K : map[f] >= map[h]}}

\* Mutant: the loop does not get past a vertex without walks.
IterateOverWalks(t) ==
    /\ mainPc = "parallel" /\ pc[t] = "loop" /\ v_idx <= topK
    /\ \A c \in ChainsOf(degreeList[v_idx]) : Known(c)
    /\ threadPatterns' = [threadPatterns EXCEPT ![t] = Plus(@, Count(g, ChainsOf(degreeList[v_idx])))]
    /\ localEnumerated' = [localEnumerated EXCEPT ![t] = @ + Cardinality(ChainsOf(degreeList[v_idx]))]
    /\ v_idx' = IF ChainsOf(degreeList[v_idx]) = {} THEN v_idx ELSE v_idx + 1
    /\ UNCHANGED <<g, degreeList, mainPc, pc, totalEnumerated, trimmed, merged, patterns, written>>

(* One iteration of the loop.  Nothing a thread does in it is shared.      *)
(* A vertex that is in no vertex file makes vertexMap.at throw, which ends *)
(* the program.                                                            *)
Iterate(t) ==
    LET chains == ChainsOf(degreeList[v_idx])
        local == Plus(threadPatterns[t], Count(g, chains))
    IN
    /\ mainPc = "parallel" /\ pc[t] = "loop" /\ v_idx <= topK
    /\ \A c \in chains : Known(c)
    /\ IF Cardinality(DOMAIN local) > THREAD_PATTERN_LIMIT * 2
       THEN /\ \E kept \in Trims(local) : threadPatterns' = [threadPatterns EXCEPT ![t] = kept]
            /\ trimmed' = TRUE
       ELSE /\ threadPatterns' = [threadPatterns EXCEPT ![t] = local]
            /\ UNCHANGED trimmed
    /\ localEnumerated' = [localEnumerated EXCEPT ![t] = @ + Cardinality(chains)]
    /\ v_idx' = v_idx + 1
    /\ UNCHANGED <<g, degreeList, mainPc, pc, totalEnumerated, merged, patterns, written>>

OutOfRange(t) ==
    /\ mainPc = "parallel" /\ pc[t] = "loop" /\ v_idx <= topK
    /\ \E c \in ChainsOf(degreeList[v_idx]) : ~Known(c)
    /\ mainPc' = "terminated"
    /\ UNCHANGED <<g, degreeList, v_idx, threadPatterns, localEnumerated, pc,
                   totalEnumerated, trimmed, merged, patterns, written>>

\* #pragma omp atomic
Accumulate(t) ==
    /\ mainPc = "parallel" /\ pc[t] = "loop" /\ v_idx > topK
    /\ totalEnumerated' = totalEnumerated + localEnumerated[t]
    /\ pc' = [pc EXCEPT ![t] = "added"]
    /\ UNCHANGED <<g, degreeList, v_idx, mainPc, threadPatterns, localEnumerated,
                   trimmed, merged, patterns, written>>

Join ==
    /\ mainPc = "parallel" /\ \A t \in Threads : pc[t] = "added"
    /\ mainPc' = "merge"
    /\ UNCHANGED <<g, degreeList, v_idx, threadPatterns, localEnumerated, pc,
                   totalEnumerated, trimmed, merged, patterns, written>>

\* patterns[p.first] += p.second for one of the maps; their order is all one.
Merge(t) ==
    /\ mainPc = "merge" /\ t \notin merged
    /\ patterns' = Plus(patterns, threadPatterns[t])
    /\ merged' = merged \union {t}
    /\ UNCHANGED <<g, degreeList, v_idx, mainPc, threadPatterns, localEnumerated, pc,
                   totalEnumerated, trimmed, written>>

Filter ==
    /\ mainPc = "merge" /\ merged = Threads
    /\ patterns' = LET kept == {f \in DOMAIN patterns : patterns[f] >= SUPPORT_THRESHOLD}
                   IN  [f \in kept |-> patterns[f]]
    /\ mainPc' = "write"
    /\ UNCHANGED <<g, degreeList, v_idx, threadPatterns, localEnumerated, pc,
                   totalEnumerated, trimmed, merged, written>>

(* writeJSON: parseCanonical takes the text of the form apart again.  The  *)
(* i-th label is written as an edge from node i to node i + 1.             *)
parseCanonical(form) ==
    IF \E i \in 1 .. 4 : form.nodes[i][2] \in Broken
    THEN [format |-> 0, names |-> << >>, labels |-> << >>]
    ELSE [format |-> form.cycle, names |-> [i \in 1 .. 4 |-> form.nodes[i][2]], labels |-> form.labels]

writeJSON ==
    /\ mainPc = "write"
    /\ written' = {[frequency |-> patterns[f], info |-> parseCanonical(f)]
                      : f \in DOMAIN patterns}
    /\ mainPc' = "done"
    /\ UNCHANGED <<g, degreeList, v_idx, threadPatterns, localEnumerated, pc,
                   totalEnumerated, trimmed, merged, patterns>>

ThreadStep(t) == Iterate(t) \/ OutOfRange(t) \/ Accumulate(t)
MainStep == Join \/ (\E t \in Threads : Merge(t)) \/ Filter \/ writeJSON

Finished == mainPc \in {"done", "terminated"} /\ UNCHANGED vars
Next == MainStep \/ (\E t \in Threads : ThreadStep(t)) \/ Finished

Spec == Init /\ [][Next]_vars

-----------------------------------------------------------------------------
\* The ascending walks through the vertices in these places of degreeList.
WalksThrough(places) == {c \in Chains : c[1] < c[2] /\ c[2] < c[3]
                                          /\ \E i \in places : g.edges[c[1]].target = degreeList[i]}

\* The map holds every one of the walks; when maps are cut down, no more.
Holds(map, walks) ==
    IF trimmed THEN /\ DOMAIN map \subseteq DOMAIN Count(g, walks)
                    /\ \A f \in DOMAIN map : map[f] <= Count(g, walks)[f]
    ELSE map = Count(g, walks)

(* Of the walks that the loops select, those with their edges in the order *)
(* of the lines of the files: whatever thread takes which vertex, every    *)
(* one through the vertices taken so far is in the map of exactly one      *)
(* thread, and once in what has been merged; cutting a map down only loses *)
(* counts.  In the end the number printed is theirs, and without cutting   *)
(* down the forms reported are those frequent among them.                  *)
CountsExact ==
    /\ mainPc \in {"parallel", "merge"} =>
        \E taker \in [1 .. v_idx - 1 -> Threads] :
            /\ \A t \in Threads :
                  LET walks == WalksThrough({i \in 1 .. v_idx - 1 : taker[i] = t})
                  IN  Holds(threadPatterns[t], walks) /\ localEnumerated[t] = Cardinality(walks)
            /\ Holds(patterns, WalksThrough({i \in 1 .. v_idx - 1 : taker[i] \in merged}))
    /\ mainPc \in {"write", "done"} =>
        LET exact == Count(g, WalksThrough(1 .. topK)) IN
        /\ totalEnumerated = Cardinality(WalksThrough(1 .. topK))
        /\ ~trimmed => patterns = [f \in {h \in DOMAIN exact : exact[h] >= SUPPORT_THRESHOLD} |-> exact[f]]

\* Subgraphs of three edges: sets of edges that are a walk in some order, and
\* those of them that have a walk of the form f.
EdgesOf(c) == {c[1], c[2], c[3]}
Paths == {c \in Chains : Known(c) /\ c[1] # c[2] /\ c[2] # c[3] /\ c[1] # c[3]}
Subgraphs == {EdgesOf(c) : c \in Paths}
Embeddings(f) == {EdgesOf(c) : c \in {d \in Paths : getCanonicalForm(g, d) = f}}

(* A frequency is that of the data: at least the support, and no more than *)
(* there are different subgraphs of the form, whatever the order of their  *)
(* edges, and whatever was cut down.  So no subgraph is counted by two     *)
(* threads, for two vertices or in two rotations ("avoid duplicates",      *)
(* FSM.cpp:220 and 231), and neither is it in the number printed.          *)
ReportedAreFrequent ==
    mainPc \in {"write", "done"} =>
        /\ \A f \in DOMAIN patterns : /\ patterns[f] >= SUPPORT_THRESHOLD
                                       /\ patterns[f] <= Cardinality(Embeddings(f))
        /\ totalEnumerated <= Cardinality(Subgraphs)

\* One to one between edges with equal labels, between vertices with equal names.
Isomorphic(S, R) ==
    \E m \in Fun!Bijection(S, R) : \A a, b \in S :
        LET x == g.edges[a]
            y == g.edges[b]
            x2 == g.edges[m[a]]
            y2 == g.edges[m[b]]
        IN  /\ x.label = x2.label
            /\ g.vertexMap[x.source] = g.vertexMap[x2.source]
            /\ g.vertexMap[x.target] = g.vertexMap[x2.target]
            /\ (x.source = y.source) <=> (x2.source = y2.source)
            /\ (x.source = y.target) <=> (x2.source = y2.target)
            /\ (x.target = y.target) <=> (x2.target = y2.target)

(* hw10.md:25: "it counts embeddings of the patterns whose appearances     *)
(* exceed the threshold": when all candidates are taken and no map was cut *)
(* down, of the subgraphs that occur often enough, up to isomorphism, one  *)
(* at least has its form reported.                                         *)
FrequentAreFound ==
    mainPc = "done" /\ ~trimmed /\ topK = Len(degreeList) =>
        \A S \in Subgraphs :
            LET same == {R \in Subgraphs : Isomorphic(S, R)}
            IN  Cardinality(same) >= SUPPORT_THRESHOLD =>
                    \E f \in DOMAIN patterns : Embeddings(f) \intersect same # {}

(* FSM.cpp:418: "Edges using canonical vertex IDs": what is written is a   *)
(* walk of the data, each label on the edge between the nodes it names.    *)
WrittenIsWalk ==
    mainPc = "done" =>
        \A info \in {r.info : r \in written} : info.labels # << >> =>
            \E c \in Chains :
                /\ info.labels = [i \in 1 .. 3 |-> g.edges[c[i]].label]
                /\ \A i \in 1 .. 3 : /\ info.names[i] = g.vertexMap[g.edges[c[i]].source]
                                     /\ info.names[i + 1] = g.vertexMap[g.edges[c[i]].target]
=============================================================================
