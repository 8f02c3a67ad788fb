---------------------------- MODULE StreamEdges ----------------------------
(***************************************************************************)
(* core/graph.hpp, Graph::stream_edges: one pass over the edge grid that   *)
(* tools/preprocess.cpp wrote.  The main thread picks the shards whose     *)
(* source range has an active vertex, cuts them into page-aligned reads    *)
(* and queues those; the workers read, filter and process the edges.  In   *)
(* mode 0 (row file) there is one round of tasks, in mode 1 (column file)  *)
(* one round per window of partition_batch partitions.  Offsets and        *)
(* lengths are counted in edges.                                           *)
(***************************************************************************)
EXTENDS Integers, Sequences, FiniteSets, Partition

CONSTANTS Workers,        \* parallelism of them
          Vertices, Partitions,
          WordBits,       \* bits in a word of a Bitmap (64)
          PAGESIZE,       \* edges in a page (4096 or 12288 bytes)
          IOSIZE,         \* edges in a full read (24 MB)
          TaskCapacity,   \* capacity of the task queue (65536)
          Graph,          \* the edge list: a sequence of <<source, target>>
          RowFile, row_offset, ColumnFile, column_offset, \* the grid
          Bitmaps,        \* the bitmaps passed in: sets of vertices
          NoBitmap,       \* nullptr
          Ratios          \* the values of x in set_partition_batch

parallelism == Cardinality(Workers)
Shards == 0 .. Partitions - 1
Pill == [offset |-> -1, length |-> 0]

VARIABLES
    bitmap, update_mode, partition_batch,
    should_access_shard,
    mainPc,
    cur_partition,       \* first partition of the window
    window,              \* begin_vid, end_vid; empty when no window is open
    cells,               \* cells of the round that main has still to visit,
                         \* each known by its place in the file
    offset,              \* where the next read starts
    pills,
    tasks,               \* Queue<std::tuple<int,long,long>>
    pc,
    reading,             \* the part of the file in w's buffer it has not looked at
    local_value, value,
    calls                \* calls[e]: how often process(e) has run

argVars == <<bitmap, update_mode, partition_batch>>
mainVars == <<should_access_shard, mainPc, cur_partition, window, cells, offset, pills>>
workerVars == <<pc, reading, local_value, value, calls>>
vars == <<argVars, mainVars, tasks, workerVars>>

-----------------------------------------------------------------------------
(* The grid: the edges, block by block, in two files, and the offset at    *)
(* which each block begins.  IsGrid is what Preprocess achieves            *)
(* (GridCorrect): every edge is filed once, in the block of its cell.      *)
Edges == 1 .. Len(Graph)
Source(e) == Graph[e][1]
Target(e) == Graph[e][2]
PartOf(v) == get_partition_id(Vertices, Partitions, v)

Cells == 0 .. Partitions * Partitions - 1
RowCell(e) == PartOf(Source(e)) * Partitions + PartOf(Target(e))
ColumnCell(e) == PartOf(Target(e)) * Partitions + PartOf(Source(e))

IsGrid(file, offsets, cell) ==
    /\ file \in Seq(Edges) /\ Len(file) = Len(Graph)
    /\ \A x, y \in DOMAIN file : file[x] = file[y] => x = y
    /\ \A e \in Edges : \E x \in DOMAIN file : file[x] = e
    /\ offsets \in [0 .. Partitions * Partitions -> 0 .. Len(file)]
    /\ \A k, l \in DOMAIN offsets : k <= l => offsets[k] <= offsets[l]
    /\ \A k \in Cells, x \in DOMAIN file :
          offsets[k] < x /\ x <= offsets[k + 1] <=> cell[file[x]] = k

File == IF update_mode = 0 THEN RowFile ELSE ColumnFile
OffsetOf(k) == IF update_mode = 0 THEN row_offset[k] ELSE column_offset[k]
SourceShard(k) == IF update_mode = 0 THEN k \div Partitions ELSE k % Partitions

ASSUME StreamAssumption ==
    /\ IsFiniteSet(Workers) /\ Workers # {}
    /\ Vertices \in Nat /\ Partitions \in Nat \ {0} /\ WordBits \in Nat \ {0}
    /\ PAGESIZE \in Nat \ {0}
    /\ IOSIZE \in Nat \ {0} /\ IOSIZE % PAGESIZE = 0
    /\ TaskCapacity \in Nat
    /\ Graph \in Seq((0 .. Vertices - 1) \X (0 .. Vertices - 1))
    /\ IsGrid(RowFile, row_offset, [e \in Edges |-> RowCell(e)])
    /\ IsGrid(ColumnFile, column_offset, [e \in Edges |-> ColumnCell(e)])
    /\ Bitmaps \subseteq SUBSET (0 .. Vertices - 1)
    /\ Ratios \subseteq Nat \ {0}

\* The cells of the round that starts at shard cur.
Round(cur) ==
    {k \in Cells : update_mode = 0
                   \/ (cur <= SourceShard(k) /\ SourceShard(k) < cur + partition_batch)}

\* Mutant: the vertex data is counted twice.
set_partition_batch_twice(x) == Partitions \div (2 * x)

set_partition_batch(x) == Partitions \div x

Init ==
    /\ bitmap \in Bitmaps \union {NoBitmap}
    /\ update_mode \in {0, 1}
    /\ partition_batch \in {set_partition_batch(x) : x \in Ratios}
    /\ should_access_shard = [i \in Shards |-> FALSE]
    /\ mainPc = "select"
    /\ cur_partition = 0
    /\ window = [begin |-> 0, end |-> 0]
    /\ cells = {} /\ offset = 0 /\ pills = 0
    /\ tasks = << >>
    /\ pc = [w \in Workers |-> "none"]
    /\ reading = [w \in Workers |-> [at |-> 0, end |-> 0]]
    /\ local_value = [w \in Workers |-> 0]
    /\ value = 0
    /\ calls = [e \in Edges |-> 0]

-----------------------------------------------------------------------------
(* The main thread.                                                        *)

(* A shard is read when some word of the bitmap that overlaps its range    *)
(* of sources is not zero: a neighbour's bit in a shared word counts.      *)
WordsOf(i) == {v \div WordBits : v \in Members(Vertices, Partitions, i)}
\* Mutant: the first word is skipped when the range starts inside it.
AccessFromNextWord(i) ==
    \/ bitmap = NoBitmap
    \/ \E v \in bitmap : /\ v \div WordBits \in WordsOf(i)
                         /\ (v \div WordBits) * WordBits >= RangeAt(Vertices, Partitions, i)
Access(i) ==
    \/ bitmap = NoBitmap
    \/ \E v \in bitmap : v \div WordBits \in WordsOf(i)

SelectShards ==
    /\ mainPc = "select"
    /\ should_access_shard' = [i \in Shards |-> Access(i)]
    /\ mainPc' = "window"
    /\ UNCHANGED <<argVars, cur_partition, window, cells, offset, pills, tasks, workerVars>>

WindowOf(cur) ==
    IF update_mode = 0 THEN [begin |-> 0, end |-> Vertices]
    ELSE [begin |-> RangeAt(Vertices, Partitions, cur),
          end |-> IF cur + partition_batch >= Partitions THEN Vertices
                  ELSE RangeAt(Vertices, Partitions, cur + partition_batch)]

\* pre_source_window, the threads are created, offset starts over.
OpenWindow ==
    /\ mainPc = "window"
    /\ IF cur_partition >= Partitions
       THEN /\ mainPc' = "returned"
            /\ UNCHANGED <<window, cells, offset, pills, pc, local_value>>
       ELSE /\ window' = WindowOf(cur_partition)
            /\ cells' = {k \in Round(cur_partition) : should_access_shard[SourceShard(k)]}
            /\ offset' = 0
            /\ pills' = 0
            /\ pc' = [w \in Workers |-> "pop"]
            /\ local_value' = [w \in Workers |-> 0]
            /\ mainPc' = "cell"
    /\ UNCHANGED <<argVars, should_access_shard, cur_partition, tasks, reading, value, calls>>

RoundUp(n) == ((n + PAGESIZE - 1) \div PAGESIZE) * PAGESIZE

\* The loops visit the cells in the order of the file.
IsNext(k) == k \in cells /\ \A l \in cells : k <= l

(* The next cell: skip to the page its block starts in unless the last     *)
(* read already covers that page, and skip the cell altogether when the    *)
(* last read covers all of it.                                             *)
EnterCell(k) ==
    LET begin_offset == OffsetOf(k)
        start == IF begin_offset - offset >= PAGESIZE
                 THEN (begin_offset \div PAGESIZE) * PAGESIZE ELSE offset
        covered == OffsetOf(k + 1) <= start
    IN
    /\ mainPc = "cell"
    /\ IsNext(k)
    /\ offset' = start
    /\ IF covered THEN cells' = cells \ {k} /\ UNCHANGED mainPc
                  ELSE mainPc' = "tasks" /\ UNCHANGED cells
    /\ UNCHANGED <<argVars, should_access_shard, cur_partition, window, pills, tasks, workerVars>>

\* Full reads while they fit, then one read rounded up to whole pages.
PushTask(k) ==
    LET end_offset == OffsetOf(k + 1)
        length == IF end_offset - offset >= IOSIZE THEN IOSIZE
                  ELSE RoundUp(end_offset - offset)
    IN
    /\ mainPc = "tasks"
    /\ IsNext(k)
    /\ IF end_offset > offset
       THEN /\ Len(tasks) < TaskCapacity
            /\ tasks' = Append(tasks, [offset |-> offset, length |-> length])
            /\ offset' = offset + length
            /\ UNCHANGED <<cells, mainPc>>
       ELSE /\ cells' = cells \ {k}
            /\ mainPc' = "cell"
            /\ UNCHANGED <<tasks, offset>>
    /\ UNCHANGED <<argVars, should_access_shard, cur_partition, window, pills, workerVars>>

PushPill ==
    /\ mainPc = "cell" /\ cells = {}
    /\ pills < parallelism
    /\ Len(tasks) < TaskCapacity
    /\ tasks' = Append(tasks, Pill)
    /\ pills' = pills + 1
    /\ UNCHANGED <<argVars, should_access_shard, mainPc, cur_partition, window,
                   cells, offset, workerVars>>

\* The joins, post_source_window, and on to the next window.
CloseWindow ==
    /\ mainPc = "cell" /\ cells = {} /\ pills = parallelism
    /\ \A w \in Workers : pc[w] = "exited"
    /\ window' = [begin |-> 0, end |-> 0]
    /\ cur_partition' = IF update_mode = 0 THEN Partitions
                        ELSE cur_partition + partition_batch
    /\ mainPc' = "window"
    /\ UNCHANGED <<argVars, should_access_shard, cells, offset, pills, tasks, workerVars>>

MainStep ==
    \/ SelectShards \/ OpenWindow \/ PushPill \/ CloseWindow
    \/ \E k \in cells : EnterCell(k) \/ PushTask(k)

-----------------------------------------------------------------------------
(* A worker thread.                                                        *)

\* pread stops at the end of the file, so the last page may come back short.
Pread(t) == [at  |-> t.offset,
             end |-> IF t.offset + t.length < Len(File) THEN t.offset + t.length ELSE Len(File)]

Pop(w) ==
    /\ pc[w] = "pop"
    /\ tasks # << >>
    /\ tasks' = Tail(tasks)
    /\ IF Head(tasks) = Pill
       THEN pc' = [pc EXCEPT ![w] = "add"] /\ UNCHANGED reading
       ELSE /\ pc' = [pc EXCEPT ![w] = "scan"]
            /\ reading' = [reading EXCEPT ![w] = Pread(Head(tasks))]
    /\ UNCHANGED <<argVars, mainVars, local_value, value, calls>>

InWindow(e) == window.begin <= Source(e) /\ Source(e) < window.end
ActiveSource(e) == bitmap = NoBitmap \/ Source(e) \in bitmap

\* Mutant: the window test is left out.
WantedInAnyWindow(e) == ActiveSource(e)
Wanted(e) == InWindow(e) /\ ActiveSource(e)

\* The next edge in the buffer is processed or passed over.
Scan(w) ==
    /\ pc[w] = "scan"
    /\ IF reading[w].at >= reading[w].end
       THEN /\ pc' = [pc EXCEPT ![w] = "pop"]
            /\ UNCHANGED <<reading, local_value, calls>>
       ELSE LET e == File[reading[w].at + 1] IN
            /\ reading' = [reading EXCEPT ![w].at = @ + 1]
            /\ calls' = IF Wanted(e) THEN [calls EXCEPT ![e] = @ + 1] ELSE calls
            /\ local_value' = IF Wanted(e) THEN [local_value EXCEPT ![w] = @ + 1]
                              ELSE local_value
            /\ UNCHANGED pc
    /\ UNCHANGED <<argVars, mainVars, tasks, value>>

\* Mutant: the thread stores its count instead of adding it.
AddValueOverwrites(w) ==
    /\ pc[w] = "add"
    /\ value' = local_value[w]
    /\ pc' = [pc EXCEPT ![w] = "exited"]
    /\ UNCHANGED <<argVars, mainVars, tasks, reading, local_value, calls>>

\* write_add(&value, local_value), then the thread ends.
AddValue(w) ==
    /\ pc[w] = "add"
    /\ value' = value + local_value[w]
    /\ pc' = [pc EXCEPT ![w] = "exited"]
    /\ UNCHANGED <<argVars, mainVars, tasks, reading, local_value, calls>>

WorkerStep(w) == Pop(w) \/ Scan(w) \/ AddValue(w)

-----------------------------------------------------------------------------
Finished == mainPc = "returned" /\ UNCHANGED vars

Next == MainStep \/ (\E w \in Workers : WorkerStep(w)) \/ Finished

Fairness == WF_vars(MainStep) /\ \A w \in Workers : WF_vars(WorkerStep(w))

Spec == Init /\ [][Next]_vars
FairSpec == Spec /\ Fairness

-----------------------------------------------------------------------------
TypeOK ==
    /\ should_access_shard \in [Shards -> BOOLEAN]
    /\ mainPc \in {"select", "window", "cell", "tasks", "returned"}
    /\ cur_partition \in Nat
    /\ window \in [begin : 0 .. Vertices, end : 0 .. Vertices]
    /\ window.begin <= window.end
    /\ cells \subseteq Cells
    /\ offset \in Nat
    /\ pills \in 0 .. parallelism
    /\ tasks \in Seq([offset : Nat \union {-1}, length : Nat])
    /\ Len(tasks) <= TaskCapacity
    /\ pc \in [Workers -> {"none", "pop", "scan", "add", "exited"}]
    /\ reading \in [Workers -> [at : Nat, end : Nat]]
    /\ local_value \in [Workers -> Nat] /\ value \in Nat
    /\ calls \in [Edges -> Nat]

(* Every read starts inside the file, so pread returns something: the      *)
(* assertions assert(bytes>0) of lines 310 and 378 cannot fail.            *)
ReadsSomething ==
    \A k \in DOMAIN tasks : tasks[k] # Pill =>
        /\ tasks[k].offset < Len(File)
        /\ tasks[k].offset % PAGESIZE = 0
        /\ tasks[k].length > 0

(* In mode 1 process(e) is called only while the window that contains the  *)
(* source of e is open, that is, between the pre and post callbacks that   *)
(* load and save its vertex data.                                          *)
ProcessesInWindow ==
    [][\A e \in DOMAIN calls : calls'[e] # calls[e] =>
          window.begin <= Source(e) /\ Source(e) < window.end]_vars

(* The value returned is the sum of what process returned: here 1 per      *)
(* call, so the number of edges with an active source.                     *)
ValueComplete ==
    mainPc = "returned" => value = Cardinality({e \in Edges : ActiveSource(e)})

(* The three together: what holds of a pass at any time.                   *)
Inv == TypeOK /\ ReadsSomething /\ ValueComplete

Pass == INSTANCE EdgePass WITH
    active <- {e \in Edges : ActiveSource(e)},
    calls <- calls,
    returned <- mainPc = "returned"

(* The pass calls process once for every edge with an active source and    *)
(* for no other, and returns only then: shards skipped, pages shared by    *)
(* neighbouring blocks and windows read several times notwithstanding.     *)
ImplementsPass == Pass!Spec

(* Every pass ends.                                                        *)
Terminates == <>(mainPc = "returned")
=============================================================================
