# Formal models of IntroductionToBigData

TLA+ models of the concurrent and algorithmic code of this repository, model
checked with TLC and, where it matters most, proved with TLAPS. Paths below are
relative to the repository; `GG` stands for `src/9HW/hw9_GridGraph`.

## 1. Inventory

The repository is a set of course assignments. One of them, GridGraph (homework
9), is a complete out-of-core graph engine and holds most of the concurrency.

| Component | State it keeps | Operations | What makes it correct |
|---|---|---|---|
| Work queue, `GG/core/queue.hpp` | bounded `std::queue`, one mutex, two condition variables | `push`, `pop` (block) | FIFO, never above capacity, no lost wake-up |
| Partitioning, `GG/core/partition.hpp` | none | `get_partition_id`, `get_partition_range` | ranges cover the vertices, do not overlap, and agree with the id |
| Preprocessing, `GG/tools/preprocess.cpp` | pool of read buffers with `occupied` flags, task queue, one small buffer and mutex per grid cell, cell files, row and column files with offsets | read loop of main, worker loop, flush, two concatenations | each input edge is in its cell exactly once; a buffer is never read into while a worker uses it |
| Edge streaming, `GG/core/graph.hpp` `stream_edges` | offsets of the grid, `should_access_shard`, task queue, window of partitions, sum of values | choose shards, cut blocks into page-aligned reads, worker loop | `process` runs exactly once for every active edge, inside the window of its source |
| Vertex streaming, `graph.hpp` `stream_vertices` | window, per-partition loops over bitmap words | OpenMP loop over partitions | `process` runs exactly once for every active vertex |
| Bitmap and atomics, `GG/core/bitmap.hpp`, `GG/core/atomic.hpp` | words of bits | `set_bit`, `cas`, `write_min`, `write_add` | linearizable updates |
| BFS, WCC, MIS, k-cores, radii, `GG/examples` | vertex arrays, two bitmaps, a loop of passes | the lambdas run by the engine's workers | the result is the graph property the program is named after, whatever the order of the edges |
| PageRank, PageRank-Delta and SpMV, `GG/examples` | a sum per vertex, added to by `write_add`; the frontier of `pagerank-Delta` | a pass over the edges and one over the vertices per iteration | no addition is lost, and the array holds what the formula gives after every iteration |
| BigVector, `GG/core/bigvector.hpp` | a file, a window of it in memory | `load`, `save`, `operator[]` | what was saved is what a later load returns |
| Tree reduction, `src/3HW` | each rank's array, messages | `YOUR_Reduce` in a loop between barriers | the root has the sum; nobody deadlocks |
| PageRank with OpenMP, `src/2HW` | two score arrays and two pointers | two parallel loops per iteration | the solution is the last iteration |
| Partitioners, `src/8HW/code` | edges, masters and mirrors of each partition; a degree or a map of masters | one sequential loop over the file each, then the totals printed | every partition has the ends of its edges; one master per vertex; edges where the cut says |
| CSR graphs and statistics, `src/2HW/common/graph.cpp`, `src/2HW/tools` | arrays of starts and edges in both directions | load from text or binary, store, build the incoming arrays, statistics | the incoming arrays are the transpose; storing and loading gives the same graph |
| Frequent subgraphs, `src/10hw/HW10` | vertices and edges, a map of pattern counts per thread | load, enumerate in parallel, cut a map down, merge, filter, write JSON | each walk through the top vertices counted once; nothing reported that is not frequent |
| Counting jobs, `src/5HW`, `src/6HW/word_count.py`, `src/11HW` | none between records | mapper, combiner, reducer | the same counts for every split of the lines and every use of the combiner |
| File tools `make_undirect`, `t2b`, `add_weight`, `GG/tools` | none | one conversion each | an undirected file has every edge in both directions |
| Spark `page_rank.py`, Halide kernels (6, 12) | none of their own | a dataflow or a schedule for a framework | that of the framework |

Interactions. `preprocess` writes the grid; `Graph` reads it. Both use the queue
to hand blocks of edges from one main thread to workers, and end the workers
with one pill each. The example programs call `stream_edges` and
`stream_vertices` with lambdas that the workers run concurrently on shared
vertex arrays, and swap two bitmaps between passes. Reduction ranks interact by
messages only.

Hard behaviours: wake-ups that go to the wrong thread; the unsynchronised
`occupied` flag; blocks that share a page; bitmap words that straddle
partitions; windows over the vertex data; races of the lambdas for one vertex;
labels that change while they are compared; sums that several workers add to;
masters chosen before the edges that need them are known; maps of counts that
are cut down while they are filled; rank counts that are not powers of two.
`PROJECT.json` lists them under `hazards`, each at its line with the properties
that cover it.

## 2. Plan

Order, most important first. The engine comes before the programs that run on
it, and each layer is checked against what the layer above assumes of it.

1. `Channel`, `WorkQueue`: the queue on which everything concurrent depends. *Done, proved.*
2. `Partition`: the arithmetic of the ranges. *Done, proved.*
3. `Preprocess`: buffers, workers and files of the grid. *Done, proved.*
4. `EdgePass`, `StreamEdges`, `StreamVertices`: the two passes. *Done, proved.*
5. `BFS`, `WCC`, `MIS`, `KCores`, `Radii`, `RankPrograms`: programs on the
   passes, composed in `Examples`. *Done, proved.*
6. `Reduce`: the MPI assignment. `OmpPageRank`, `FSM` (`src/10hw/HW10`): the programs
   with OpenMP loops, composed in `OpenMP`. *Done, proved.*
7. `BigVector`, `WindowedVector`: vectors loaded and saved by windows of whole
   pages, composed with the pass over the vertices. *Done, proved.* Left: the passes over
   the edges of `pagerank.cpp` between them, with `lock`.
8. `Partitioners`: the four cuts of homework 8. *Done, proved.*
9. `CsrGraph`, `MapReduce`, `GraphFiles`: what the programs of homeworks 2, 5, 6,
   8 and 11 make of one file of edges. *Done; the incoming arrays and the binary
   files proved.*
10. Compositions: `Preprocess` and `StreamEdges` with the pill protocol over
    the detailed queue instead of the channel. Left.

Proofs: done for every safety property that the runs check, but for `CsrCorrect`
and `OutDegreesAgree` of `GraphFiles`, which stay with TLC (section 5).

## 3. The modules

| Module | Code | Correspondence |
|---|---|---|
| `Channel` | abstract | a bounded FIFO with call, effect and return of `push` and `pop`: what the queue promises |
| `WorkQueue` | `queue.hpp` 33-48 | one action between any two operations on the mutex or a condition variable; `Lock`, `Sleep`, `Unlock`, `NotifyOne`, `SpuriousWakeup` stand for the standard library |
| `Partition` | `partition.hpp` 20-42 | the two functions as operators |
| `Preprocess` | `preprocess.cpp` 41-261 | main: `Read`, `Occupy`, `Push`, `Spin`, `PushPill`, `FlushLeftovers`, `WriteColumn`, `WriteRow`; worker: `Pop`, `Count`, `Scatter`, `LockCell`, `Store`, `Commit`, `Release` |
| `EdgePass` | abstract | a pass: `process` once for each active edge, then return |
| `StreamEdges` | `graph.hpp` 242-438 | main: `SelectShards`, `OpenWindow`, `EnterCell`, `PushTask`, `PushPill`, `CloseWindow`; worker: `Pop`, `Scan`, `AddValue` |
| `StreamVertices` | `graph.hpp` 147-214 | main: the windows; threads: `TakePartition` and the walk over the words of the bitmap |
| `BigVector` | `bigvector.hpp` 64-180 | the file and the window in memory as sequences of entries; `load`, `save`, `at` and `assign` for `operator[]`. The vector is read and written by whole pages |
| `WindowedVector` | `pagerank.cpp` 95-108 with both | the composition of `StreamVertices` and `BigVector`: `OpenAndLoad` (pre), `ProcessAndUpdate`, `CloseAndSave` (post) |
| `BFS`, `WCC` | `bfs.cpp`, `wcc.cpp` | one pass as a set of pending edges that workers take (what `EdgePass` allows), the lambda step by step |
| `MIS` | `mis.cpp` | a pass as in `BFS`; `CountSurvivors` is the pass over the vertices with the comparison of the counts |
| `KCores` | `k-cores.cpp`, `write_add` | counting pass and discounting passes with `write_add` as `Load` and `Cas`; `Mark` and `Deactivate` are the vertex passes; `BadFunctionCall` is what happens when the vertex data does not fit in memory |
| `Radii` | `radii.cpp` | both rounds; the lambda as `Compare` (with its atomic or), `ReadRadii`, `Test`, `Cas`; `AddCandidates` is one turn of the loop over thresholds |
| `RankPrograms` | `pagerank.cpp`, `pagerank-Delta.cpp`, `spmv.cpp`, `write_add` | `program` says which one runs; `Take`, `Load` and `Cas` are the lambda and its `write_add`; `InitVertices`, `StartPass`, `EndPass`, `Leave` the main thread between the passes, with a disjunct for each program |
| `Examples` | the main programs in `GG/examples` | one of `BFS`, `WCC`, `MIS`, `KCores`, `Radii`, `RankPrograms` runs, each an instance with its own graph; the variables of the others stay 0 |
| `Partitioners` | `8HW/code` | `cut` says which program runs; one action per edge: `EdgeCut`, `VertexCut`, `HybridTarget` or `HybridSource`, `Greedy` (any of the partitions that tie), then `PrintPartitions` |
| `CsrGraph` | `2HW/common/graph.cpp`, `graph_internal.h`, `2HW/tools/graphTools.cpp`, `GG/tools/make_undirect.cpp` | sequential code without state between calls: an operator per function |
| `MapReduce` | `5HW`, `6HW/word_count.py`, `11HW/SimpleApp.py` | mappers and reducers as operators; `Job` is what the framework does between them |
| `GraphFiles` | composition | the file `Partitioners` reads, as the text of a CSR graph and as the lines of a job |
| `FSM` | `10hw/HW10/FSM.cpp`, `graph.cpp` | per thread `Iterate` (one iteration of the parallel loop, with cutting down), `OutOfRange` (`vertexMap.at` throws), `Accumulate` (the atomic addition); main: `Join`, `Merge` (one thread's map at a time), `Filter`, `writeJSON` |
| `OmpPageRank` | `hw2_..._page_rank.cpp` | the master's loop; per thread one step for each `i` of its share, one for its part of the reduction, one barrier per parallel loop. A score is the number of the half-iteration it belongs to (2n: complete in iteration n), -1 if it was computed from anything else |
| `OpenMP` | both programs with OpenMP loops | one of `OmpPageRank`, `FSM` runs; the variables of the other stay 0 |
| `Reduce` | `hw3_..._your_reduce.cpp`, `3HW/main.cpp` | a rank per process: `Call`, `Skip`, `Recv`, `Send`, `Finish` and the barriers of the measuring loop |

Composition. `Preprocess` and `StreamEdges` use the queue as the atomic bounded
FIFO that `WorkQueue` is shown to implement (`ImplementsChannel`, proved as
`QueueIsAChannel`). The files and offsets of `StreamEdges` are constants that
satisfy `IsGrid`: each edge is filed once, and a block holds the edges of its cell.
That is what `GridCorrect` says of `Preprocess`, so the pass works on every grid
that preprocessing can write. `StreamEdges` is shown to implement `EdgePass`
(proved as `PassImplementsEdgePass`); the algorithm modules assume of a pass
what `EdgePass` says: every active edge is processed once, in any order, by
concurrent workers, and the pass
returns when all are done. `Partition` is shared by all of them.

Abstractions. Edges are the elements of a short sequence; offsets and sizes are
counted in edges, not bytes. A pass over vertices whose body touches only its
own vertex is one step in the algorithm modules (`StreamVertices` is where its
threads are modelled). Printing, timing, argument parsing, `O_DIRECT` and
`posix_fadvise` are left out.

Numbers of `RankPrograms` are multiples of 1/`Unit`, with a `Unit` that every
division of the instance divides: rounding is left out, while lost, doubled and
stale additions change the numbers. A division by the degree 0 is 0; the code's
infinity is never read, since such a vertex is the source of no edge. The hash
function of the partitioners is any function from numbers to partitions. An edge
label of `FSM` (strategy, bus code, amount) is one number with the order of the
program's sort, the text of a pattern is a record of what it is made of, and
where the program follows the order of a hash map or of texts (candidates of
equal degree, patterns of equal count), the model takes any order. Of MapReduce
only what the jobs rely on is modelled: a line belongs to one map task, a task
may combine its pairs, and all pairs of a key meet in one reducer.

Unsynchronised accesses. `occupied` in `preprocess.cpp` is a plain `bool`
written by workers and polled by main. It is modelled as a shared variable: the
worker's last read of the buffer precedes the mutex operations that precede its
store, and main's loop reads a different element each time round, so a build
can delay the store but not move a read of the buffer past it. In `wcc.cpp` the
labels compared at line 49 and the old value in `write_min` may be stale; the
model reads them in separate steps, so anything may happen between.

## 4. The runs

Every run uses the specification with fairness, except the expected violations
and `graph_files`, which check no liveness, and all check for
deadlock: a program that has ended takes the stuttering step `Finished`. `Inv` is
in every module the conjunction of its type invariant with the invariants named
in the table.

| Run | Instance | Shows |
|---|---|---|
| `work_queue` | 2 pushers, 2 poppers, 2 items, capacity 2; spurious wake-ups at any time | `TypeOK` (never above capacity); `NoLostWakeup`: as long as a pop sleeps, enough threads are awake or about to notify for the items in the queue, and the same for push; `StallsForCause`: if all sleep, the queue is empty or full accordingly; `ImplementsChannel`: refinement of the channel, with its progress |
| `preprocess` | 2 workers, 4 buffers, reads of 2 edges, small buffers of 2 edges, 4 cells, inputs of 5 and 7 edges | `BufferOwnership`; `EdgesConserved`: each edge is in exactly one place, all the way; `GridCorrect`: the column and row files and their offsets; `Terminates` |
| `stream_edges` | 5 vertices, 3 partitions, 12 edges in their two grids, in pages of 2, reads of 4, bitmap words of 3 bits, queue of 2, 2 workers; windows of 1 and 3 partitions; 7 sets of active vertices | `Inv`: `ReadsSomething` (the assertions `bytes>0`), `ValueComplete`; `ProcessesInWindow`; `ImplementsPass`: refinement of `EdgePass`; `Terminates` |
| `windowed_vector` | 7 vertices in 2 partitions and 2 in 5, words of 3 bits, pages of 3 entries, 2 threads, every bitmap and none, in memory and by windows of all or half of the partitions | `Inv`: `NeverTwice`, `AllProcessed`; `NoUpdateLost`: the vector holds every update at any time; `Terminates` |
| `examples` | `bfs`: 6 vertices, 10 edges (cycle, self-loop, parallel edges, unreachable vertex), any start, 3 workers. The others with 2 workers: `wcc`: 5 vertices, 7 edges; `mis`: the path of 4 vertices; `k-cores`: 4 vertices, 8 edges with a double edge, k = 2 and 3, vertex data that fits or not; `radii`: 5 vertices, 6 edges, 2 searches from any two vertices, both rounds; ranks: 4 vertices, 5 edges, up to 3 iterations | `BfsInv`: `FrontierIsLevel`, `ParentOneLevelUp` (a shortest-path tree), `DiscoversReachable`; `WccInv`: `NothingForgotten`, `Converges`; `MisInv`: `PassRemovesBeaten`, `IterationsNested`; `ResultIsMIS`; `KCoresInv`: `DegreeIsRemaining`, `KeepsCore`, `ResultIsCore`; `RadiiInv`: `BitsExact`, `RadiiAreBounds`; `StartsAreFarthest`; `RankInv`: every iteration is that of the formula; `Terminates` |
| `openmp` | PageRank: 5 nodes, 3 threads with shares of 2, 2 and 1, up to 3 iterations. `FSM`: 5 data sets of up to 7 edges, 3 threads, the 3 candidates of highest degree, support 2, room for 1 pattern per thread | `IterationComplete`, `DiffComplete`, `SolutionUniform`; `CountsExact`, `ReportedAreFrequent`; `Terminates` |
| `openmp_solution`, `openmp_written` | the same | expected violations: `SolutionIsLast` and `WrittenIsWalk`, see below |
| `openmp_found` | `FSM` on one data set, its lines in another order, with room for all patterns | expected violation: `FrequentAreFound`, see below |
| `reduce` | 1 to 6 processes, 2 calls, sends that return at once or when received | `Inv`: `HoldsSubtree`, `SameCall`; `RootHasSum`; `Terminates` |
| `graph_files` | every list of up to 3 edges on 3 vertices, 2 partitions, every hash function, threshold 1, every split of the lines into 2 map tasks | `PartitionsConsistent`, `EdgesPlaced` for the four cuts; for every way the lists of a CSR graph can be ordered, `IncomingIsTranspose` and `BinaryRoundTrips` (truncated files refused); `CsrCorrect`: the graph loaded from text, statistics, `make_undirect`; `OutDegreesAgree`: the counting jobs agree with the CSR graph |
| `graph_files_replicated` | the same | expected violation: `ReplicatedArePrinted`, see below |

Why these bounds are enough to be interesting. Two threads on each side are the
least that allow one to overtake a sleeper, and a capacity of two the least for
which full and empty are not neighbours. With three iterations the pointers of
`OmpPageRank` are swapped an even and an odd number of times; with six
processes `Reduce` has processes without a partner in two steps. Pages, words
and partitions have sizes that do not divide one another, so that their
boundaries meet in every way. The preprocessing inputs make a worker meet runs
of one edge and of several for one cell, a full small buffer, a buffer left over
and an empty cell; there are no more reads than buffers there, and that main
never overwrites a buffer it comes round to is proved (`NoEdgeOverwritten`).
A path is the slowest case of `mis`. In `graph_files` a vertex with two sources
is over the threshold of the hybrid cut, an edge can come back after its vertices
have their masters, and both ends may hash together or apart. The data sets of
`FSM` have walks that share edges, a closed walk, a walk back over an edge, more
candidates than are taken, ties in every order, a vertex in no file (the program
ends with an exception), and a name that breaks the text of a pattern; with room
for one pattern a thread's map is cut down as soon as it holds three. In one of them
all vertices are alike, so that the rotations of a closed walk have one form and would be
counted together. The graph of
the ranks has degrees 1 and 2, for which 128000 = 2 * 40^3 divides exactly in three
iterations, parallel edges, and two vertices at which edges meet. The graphs are fixed; the theorems about
the example programs and PageRank are for every graph.

### Findings

`openmp_solution`. After `std::swap(score_new, score_old)` (line 89) the
scores just computed are those `score_old` points to, but lines 91-93 test and
copy `score_new`. `pageRank` therefore always returns the iteration before the
last (after one iteration: the initial scores), although line 88 found the last
one to have converged. `src/2HW/main.cpp` has a reference implementation with
the same lines.

`openmp_written`. `getCanonicalForm` sorts the three labels of a walk and drops which
edge each belonged to; `writeJSON` announces "Edges using canonical vertex IDs"
(`FSM.cpp:418`) and writes the i-th label as an edge from node i to node i + 1
(lines 423-424). Unless the labels happen to ascend along the walk, the file shows
a label on an edge that does not have it.

`openmp_found`. `hw10.md:25` wants the embeddings of each pattern counted, and
`hw10.md:216-302` calls the rotations of a cycle one pattern. The loops of `FSM.cpp`
skip an edge whose index is not above that of the one before (lines 221 and 232,
"maintain ordering to avoid duplicates"). That keeps a closed walk from being
counted once per rotation, which `ReportedAreFrequent` says, but it also drops
every walk whose edges do not stand in the files in the order of the walk, paths
included, and those have no rotations. `FrequentAreFound` asks, up to
isomorphism, that of the subgraphs that occur often enough at least one has its form
reported; the data set of the run has the two like paths of `Ladder` with the lines of the
accounts in another order, and nothing is found. What is found thus depends on the order
of the lines.

`graph_files_replicated`. Of the edge-cut, `8HW/README.md:88` asks for the number of replicated
edges of a partition, those that are in another one as well;
`Balance_p-way_Edge-cut.cpp:39` prints the number of mirror vertices. They differ when two
edges share a mirror, as in the sample output of that README (5 edges, 4 mirrors).

Noted while modelling, without a run of their own:

- `page_rank.py` joins contributions with ranks by an inner join, so a page
  without in-links leaves the ranks; the homework leaves that open.
- `pagerank-Delta.cpp` divides the first delta by the degree when it is set and
  again when it is passed on. The model follows the code.
- The combined output of `OutDegree.java` has no line for a vertex without
  out-edges, while `5HW/README.md` shows out-degree 0 in its example.
- The edge-cut of homework 8 counts an edge in both its partitions; the hybrid cut
  can leave a repeated edge in two (`EdgesPlaced` says exactly when).
- The form of a pattern in `FSM.cpp` has its labels sorted, so paths that differ only in
  which edge has which label are counted as one pattern. `ReportedAreFrequent` counts
  the subgraphs that have the form (`Embeddings`), and is about forms in that sense.

What the two properties of `FSM` say. `CountsExact` is about the walks that the loops
select (`WalksThrough`: ascending edges, through a vertex among the top): threads, cutting down and
merging neither lose nor double one of them. It does not say that these are the walks
one wants. `ReportedAreFrequent` does not mention the selection: what is reported is
compared with the different subgraphs of the data, as sets of edges, and bounded by them. That all
that is frequent is reported does not hold (`openmp_found`).

Two limits of the code that the models show, and that no document contradicts
precisely enough to call them findings:

- `hint` computes `partition_batch = partitions / x`, which is 0 when the vertex
  data exceeds `partitions` times 0.8 of the memory budget; the loops over the
  windows then never advance. The runs take x at most `partitions`; with x = 4
  for 3 partitions `Terminates` of `StreamEdges` fails.
- `k-cores.cpp` passes `0` for the callbacks, which makes them empty functions;
  when the vertex data does not fit in memory `stream_vertices` calls one, and
  `std::bad_function_call` ends the program (`BadFunctionCall`). `Terminates` of
  `KCores` counts that as an end.

`BigVector::save` writes whole pages and so may leave a file longer than the
vector. Within one program that is harmless (`windowed_vector` starts from both
lengths); the next program that opens the file finds the wrong size and
overwrites it. All the programs here fill their vectors before they read them.

### Fairness

Every thread and the main thread are weakly fair (`WF` of all its steps
together): the operating system runs each thread that can run. The code has no
timeouts and no retry that could give up. `WorkQueue` needs one thing more:
`SF` of `PushLock` and `PopLock`, since the mutex is free and taken again
infinitely often while a thread waits for it; without it one pair of threads
could starve the others for ever, which no scheduler of a mutex does in
practice. Which sleeper `notify_one` wakes is not constrained, and spurious
wake-ups are never assumed. The cas loops of the examples need
no more than `WF`: a cas fails only when another has succeeded. In `FSM` each
thread that has iterations to run runs them, and the main thread goes on after
the join. In `Reduce` a small send may return before or after
its message is received (eager or rendezvous); it is certain to return only
after.

## 5. What is proved

All theorems hold for every value of the constants that satisfies the module's
named assumptions (`QueueAssumption`, `PreprocessAssumption`, `GraphAssumption`,
`GraphAssumptions`, `StreamAssumption`, `VerticesAssumption`, `PageAssumption`,
`ReduceAssumption`, `ProgramAssumptions`, `PartitionersAssumption`,
`FilesAssumption`: the sets are finite where they are counted, the functions have
their domains, vertices are numbered from 0 where they index arrays, the files of
a pass are a grid of the graph, a full read is whole pages, and the numbers are
positive where the code divides or allocates).

`WorkQueueProofs`. `TypeCorrect` and `MutualExclusion` are inductive together.
`NoWakeupIsLost` is the heart: a lost wake-up cannot be excluded by looking at
one thread, since `notify_one` wakes only one sleeper, after the unlock. The
invariant counts: while a pop sleeps, the items in the queue are at most as many
as the threads that are about to notify a pop or are awake inside one. An item
is added by a thread that then counts itself; an awake popper leaves the count
when it takes an item, or when it goes to sleep, and then the queue is empty.
The lemmas `CountJoins`, `CountLeaves`, `CountHandsOver` say what one step does
to the number of threads at a set of places. `NeverStallsInVain` follows, and
`QueueIsAChannel` maps every step to one of the channel or to a stutter.

`WindowedVectorProofs`. `IdIsInRange` is the agreement of the two functions of
`Partition` that every other module relies on; it rests on `Division` and a few
consequences (`QuotientBelow`, `QuotientAtLeast`, `PartitionSizes`) about products,
which the solver cannot find by itself. `RangesTouch` and `RangesCover` say that
the ranges are a partition of the vertices. On them rests `PassIsComplete`, the
safety of `StreamVertices`. Its invariant says where each thread is (`Place`), which
vertices have been handed to `process` by then (`CalledIn`: in a partition that is
done all active ones, in the current one those below the thread's word and bit),
that the private counts add up to the calls (`Counts`), and what the windows that
are behind have covered (`Windows`). The composed program is built from the same
actions (`VectorStep`), and `NoUpdateIsLost` adds what the copy in memory must agree
on with the file: the entries of the pages at the two ends of a window belong to
vertices of other partitions, and saving whole pages is harmless only because the
copy still has the file's values for them.

`PreprocessProofs`. `TypeCorrect` needs more than the type invariant says:
`Types` adds that every task in the queue or with a worker is a pill or a
buffer with at most a full read. `OneUserPerBuffer` is inductive with `Types`:
a buffer that is not `occupied` is in no task, so the cursor at which main stops
spinning is free, and marking it before the push keeps tasks apart. From it
follows `NoEdgeOverwritten`: a read never changes a buffer that a worker has
still to read.
`EdgesAreConserved` follows an edge from there. Its invariant `EdgesIInv` has four
parts. `Contents`: the buffers hold different edges of those read, and a task has
all the edges of its buffer. `Progress`: where each worker is, with what its passes
have left (`Counted` after the first, `Sorted` after the second) and the mutex it
holds. `Filed`: no file holds an edge twice or one of another cell. `Located`: every
edge that has been read is carried in one buffer, by main, the queue or the worker
of the task, or is in one file. The second pass is a counting sort, so the module
proves what a counting sort does, with positions given by cardinalities: positions
are in range and differ (`RankIsPosition`, `RanksDiffer`), every position is taken
(`RanksCover`, by the pigeonhole theorem of the library), and the edges of a cell
are neighbours (`RanksAreGrouped`). Handing on a run is one lemma
(`WorkerHandsOn`) for the three ways the code has: written at once, kept as a
single edge, or written with a full buffer. It needs the mutex, without which two
workers could fill the same place of a cell's buffer.
`GridIsCorrect` adds that nothing waits when main is alone (`Sent`: no task lies
behind a pill, and pills are sent only after the last read), and that the blocks
written so far lie one behind the other from offset to offset (`Laid`). The
vertices are assumed to be below `vertices`, which the program takes from its
command line and never checks.

`StreamEdgesProofs`. A pass is proved for every graph, every grid of it, bitmap,
update mode, window, size of page and read, capacity of the queue and number of
workers. What makes it hard is that reads are rounded down to pages: a read can
begin in a block before the one it was cut for, so that neighbouring reads and
neighbouring windows would process an edge twice if the cursor `offset` did not
keep them apart and the window did not filter. The invariant counts places in the
file. `Reads`: no place is in two queued reads or buffers at a time, and none in a
read to come. `Visited`: the next read starts behind every chosen block that has
been visited. `Called` says exactly which edges `process` has been called for: the
active ones behind the cursor that no read still holds if their source is in the
open window, and those of the windows before. `Counts` ties the private sums and
the shared one to the calls. `Pills`: the pills lie behind the reads, and every
worker that has left took one, so that a round ends with an empty queue (`Rounds`).
At the end, every active edge has been reached because a shard is chosen when its
range has a bit in the bitmap, whose words straddle partitions: that rests on the
same facts about `Partition` as below, and on blocks being neighbours in the file
(`IsGrid`). `PassIsSafe` is `Inv` (no read outside the file, and the value returned
is the number of active edges), `CallsAreInWindow` the action property, and
`PassImplementsEdgePass` maps every step to a call of `process`, to the return, or
to a stutter.

`ExamplesProofs`. The definitions of the results (levels of a search, components,
cores, iterates of a formula) recurse over the naturals or are least sets; the
module starts with what makes them usable: induction for a set of numbers closed
under successor (`NatSet`, `SubsetInduction`) and the existence of the function a
recursive equation defines (`RecursiveSequence`).
`WccIsCorrect`: an edge whose ends differ in label has an end in the frontier, is
pending, or is in the hands of a worker that will still write; with an empty
frontier labels agree along every edge. `BfsIsCorrect`: within a pass, parents are
exactly those of the levels before and whatever the pass has discovered, in order of
the level. `KCoresIsCorrect`: the degree of a vertex that remains is the number
of its edges from vertices not yet discounted, including the read-and-add a worker is
in the middle of; nothing of the core ever goes. `RadiiIsExact`: the bits of a
vertex are those of the searches that reach it within the rounds done, whichever way
the atomic ors and the cas on the radius interleave; the invariant separates the
vertices that are settled from those whose bits are on the way (`RadiiPassed`) and
ties the radius to the last round that changed a bit (`RadiiNoticed`), and
`SecondStartsAreFarthest` is the order in which the second round chooses.
`MisIsFound`: `mis` stops when two counts agree. That this means a fixed
point rests on two facts: the operation of an iteration is antitone
(`MisUnbeatenAntitone`), so that sets nested in one another have nested images, and
nested finite sets of equal size are equal. `MisPassesAreExact` is the other half: an
edge which should remove a vertex still present is pending or in a worker's hands,
so at the join there is none.
`RanksAreExact`: a sum of a finite set of terms does not depend on the order
(`AnyOrder`), so the cell of a vertex holds what the edges done with have brought,
and at the join every edge has brought its term once. The numbers of the rank
programs are multiples of 1/`Unit` rounded down in divisions; the theorem is for
every `Unit`.

`ReduceProofs`. `SubtreesAreSummed` is `HoldsSubtree` for every number of
processes. The rounds are the powers of two (`Powers`, the least set closed under
doubling). The invariant `Passed` says which ranks have handed their subtree on
before each round, and `Messages` that what is in flight is the sum of a whole
subtree, addressed to the one rank that is to add it and for the same call.
`RootGetsSum` follows, since the last subtree of the root is everything.

`OpenMPProofs`. Both programs share a team of threads, private results and a barrier.
Of `pageRank` the invariant says, for each thread, what is true of the
nodes of its share it has done, that its private sum holds exactly what they
add, and that the sums of the threads that arrived at the barrier are in the
shared one. At the barrier all have arrived, hence the sum is complete
(`IterationsAreComplete`, `DiffIsComplete`); `SolutionIsUniform` needs in
addition that the older array is complete too, since that is the one returned.
Of `FSM` the invariant (`MiningIInv`) says that there is an assignment of the
vertices taken to the threads (`MiningCounted`: `taker`) for which each thread's map
and number are those of the walks through its vertices, the merged map is that of
the threads merged, and the total that of the threads that have added theirs. Taking
a vertex extends the assignment by one; a walk is found at exactly one vertex, so
the walks of two threads are disjoint (`WalksApart`) and their frequencies add up
(`FreqSum`, `FitsPlus`). Cutting a map down only lowers counts (`FitsTrim`), and so
do all later additions to it. `WalksAreCountedOnce` follows.
`OnlyFrequentReported` leaves the selected walks behind: edges in ascending order are told
by the set of them (`AscendingOnce`), so there are no more such walks of a form than
subgraphs of the form (`AscendingAreDistinct`), and all their vertices are in the files,
since the thread that took the vertex in their middle would have ended the program
otherwise (`WalksKnown`). It bounds what is reported from above; from below only
`WalksAreCountedOnce` does, for the walks that are selected.

`GraphFilesProofs`. `CutsAreConsistent` is `PartitionsConsistent` for every file,
hash function, number of partitions and threshold. The invariant `IInv` gives each
vertex a home (`Home`: its hash, or its entry in the map of the greedy program) and
says that masters are at home and mirrors are not (`Homes`), that a partition has
the ends of its edges and no mirror without an edge (`Local`), that every vertex
read has a master (`AllHaveMasters`), and that the totals were counted after the
last edge (`Totals`). `Homes` is what makes it inductive: a vertex could otherwise
become a mirror first and a master in the same place later. The lemma `Placed` is
the step of the three cuts with masters, `PutTogether` that of the hybrid cut,
`EndsOfMore` what one more edge adds; the totals count distinct vertices because
masters and mirrors are disjoint finite sets. `EdgesArePlaced` says where an edge is
to be found, for each of the four cuts, and exactly when the hybrid cut leaves it in
two partitions.
`IncomingTransposes` is about `build_incoming_edges`, for every graph and every
order of its lists. Its prefix sums are the numbers of edges to smaller vertices
(`StartsCount`, by induction over the vertices as a statement about sets, `NatSet`),
so the scatter puts the edge at position k where as many edges stand as have a
smaller target, or the same target and a smaller position: its rank. Ranks differ
and are all taken, and those of one target are neighbours (`RanksDiffer`,
`RanksCover`, `RanksAreGrouped`). A position has one owner, and owners ascend
(`BelongsToOne`, `OwnersAscend`), also around vertices without edges; hence the
number of times u stands in the list of v is that of the edges (`CountIncoming`),
and sources ascend, because the scatter is stable (`SourcesAscend`).
`BinaryIsFaithful` follows the numbers of a stored file one by one
(`StoredNumbers`).

Only model-checked: all liveness (ENABLED and fairness are beyond the prover), and
with it the liveness part of the two refinements; `CsrCorrect` and
`OutDegreesAgree`, in which the text of a graph and the pairs of a job are
flattened and added up by folds over sequences of every length, which would need
induction over data; and the four expected violations, which are counterexamples.

## 6. What is not modelled

`PROJECT.json` gives every component with its reason. In short:

- Halide kernels (homework 12): a schedule for a code generator, without state or
  control of their own; the headers beside them are third-party.
- `page_rank.py` and the windows, batches and file discovery of Spark Streaming:
  the control is Spark's. The generator of its input writes random words.
- Rounding of floating-point sums, and with it the order of additions.
- The timing harnesses (`CycleTimer.h`, the loops of `main` that measure), command
  lines and everything printed that no property is about.
- `t2b` (a conversion by `sscanf`) and `add_weight` (random weights).
- The word loops of `Bitmap::clear` and `fill`, and `fill`, `lock` and `sync` of
  `BigVector`: they are modelled by the values they leave, or not called here.
- The bytes on disk: short reads, full disks and failing system calls, which the
  code meets with an assertion.
