----------------------------- MODULE Preprocess -----------------------------
(***************************************************************************)
(* tools/preprocess.cpp: sorts an edge list into a grid of blocks.  The    *)
(* main thread reads the file into a pool of 2*parallelism buffers and     *)
(* queues (buffer, bytes) tasks; every worker bucket-sorts a buffer into   *)
(* its local buffer and appends each cell's run of edges to that cell's    *)
(* file, through a small buffer per cell when the run is a single edge.    *)
(* Sizes are counted in edges.  The task queue is the bounded channel that *)
(* core/queue.hpp implements (see WorkQueue).                              *)
(***************************************************************************)
EXTENDS Integers, Sequences, FiniteSets, Partition

CONSTANTS Workers,         \* the threads; parallelism of them
          Vertices, Partitions,
          IOSIZE,          \* edges per read
          GridBufferSize,  \* edges in one grid_buffer[i][j]
          Inputs,          \* edge lists to preprocess
          NoEdge, Nobody

ASSUME PreprocessAssumption ==
    /\ IsFiniteSet(Workers) /\ Workers # {}
    /\ Nobody \notin Workers
    /\ Partitions \in Nat \ {0} /\ IOSIZE \in Nat \ {0} /\ GridBufferSize \in Nat \ {0}
    /\ Vertices \in Nat
    /\ \A edges \in Inputs : edges \in Seq((0 .. Vertices - 1) \X (0 .. Vertices - 1))

parallelism == Cardinality(Workers)
Buffers == 0 .. 2 * parallelism - 1
Cells == 0 .. Partitions * Partitions - 1
LastCell == Partitions * Partitions - 1
Pill == [cursor |-> -1, bytes |-> 0]

VARIABLES
    input,        \* the edge list: a sequence of <<source, target>>
    readPos,      \* edges of it that main has read
    mainPc, cursor,
    bytes,        \* size of the read main has not queued yet
    pills,        \* poison pills main has queued
    buffers,      \* buffers[b]: positions in input of the edges it holds
    occupied,
    tasks,        \* Queue<std::tuple<int,long>>
    pc, task,     \* each worker's place and current task
    ends,         \* local_grid_offset after the prefix sum
    local,        \* local_buffer
    ij,           \* the cell a worker is at
    mutexes,      \* owner of each cell's mutex
    gridBuffer, gridOffset,
    block,        \* the files block-i-j
    column, columnOffset, row, rowOffset

fileVars == <<gridBuffer, gridOffset, block>>
outVars == <<column, columnOffset, row, rowOffset>>
mainVars == <<readPos, mainPc, cursor, bytes, pills>>
workerVars == <<pc, task, ends, local, ij, mutexes>>
vars == <<input, mainVars, buffers, occupied, tasks, workerVars, fileVars, outVars>>

Edge(e) == input[e]
CellOf(e) == get_partition_id(Vertices, Partitions, Edge(e)[1]) * Partitions
             + get_partition_id(Vertices, Partitions, Edge(e)[2])

Init ==
    /\ input \in Inputs
    /\ readPos = 0 /\ mainPc = "read" /\ cursor = 0 /\ bytes = 0 /\ pills = 0
    /\ buffers = [b \in Buffers |-> << >>]
    /\ occupied = [b \in Buffers |-> FALSE]
    /\ tasks = << >>
    /\ pc = [w \in Workers |-> "pop"]
    /\ task = [w \in Workers |-> Pill]
    /\ ends = [w \in Workers |-> [c \in Cells |-> 0]]
    /\ local = [w \in Workers |-> << >>]
    /\ ij = [w \in Workers |-> 0]
    /\ mutexes = [c \in Cells |-> Nobody]
    /\ gridBuffer = [c \in Cells |-> [k \in 1 .. GridBufferSize |-> NoEdge]]
    /\ gridOffset = [c \in Cells |-> 0]
    /\ block = [c \in Cells |-> << >>]
    /\ column = << >> /\ columnOffset = << >>
    /\ row = << >> /\ rowOffset = << >>

-----------------------------------------------------------------------------
(* The main thread.                                                        *)

\* read(fin, buffers[cursor], IOSIZE); 0 bytes at the end of the file.
Read ==
    /\ mainPc = "read"
    /\ LET left == Len(input) - readPos
           n == IF left < IOSIZE THEN left ELSE IOSIZE
       IN  IF n = 0
           THEN /\ mainPc' = "pills"
                /\ UNCHANGED <<readPos, bytes, buffers>>
           ELSE /\ mainPc' = "occupy"
                /\ buffers' = [buffers EXCEPT ![cursor] = [k \in 1 .. n |-> readPos + k]]
                /\ readPos' = readPos + n
                /\ bytes' = n
    /\ UNCHANGED <<input, cursor, pills, occupied, tasks, workerVars, fileVars, outVars>>

Occupy ==
    /\ mainPc = "occupy"
    /\ occupied' = [occupied EXCEPT ![cursor] = TRUE]
    /\ mainPc' = "push"
    /\ UNCHANGED <<input, readPos, cursor, bytes, pills, buffers, tasks,
                   workerVars, fileVars, outVars>>

Push ==
    /\ mainPc = "push"
    /\ Len(tasks) < parallelism
    /\ tasks' = Append(tasks, [cursor |-> cursor, bytes |-> bytes])
    /\ mainPc' = "spin"
    /\ UNCHANGED <<input, readPos, cursor, bytes, pills, buffers, occupied,
                   workerVars, fileVars, outVars>>

\* while (occupied[cursor]) cursor = (cursor + 1) % (parallelism * 2)
Spin ==
    /\ mainPc = "spin"
    /\ IF occupied[cursor]
       THEN cursor' = (cursor + 1) % (2 * parallelism) /\ UNCHANGED mainPc
       ELSE mainPc' = "read" /\ UNCHANGED cursor
    /\ UNCHANGED <<input, readPos, bytes, pills, buffers, occupied, tasks,
                   workerVars, fileVars, outVars>>

PushPill ==
    /\ mainPc = "pills"
    /\ IF pills = parallelism
       THEN mainPc' = "join" /\ UNCHANGED <<tasks, pills>>
       ELSE /\ Len(tasks) < parallelism
            /\ tasks' = Append(tasks, Pill)
            /\ pills' = pills + 1
            /\ UNCHANGED mainPc
    /\ UNCHANGED <<input, readPos, cursor, bytes, buffers, occupied,
                   workerVars, fileVars, outVars>>

(* After the joins main is alone: it writes what is left in the cells'     *)
(* buffers and closes the files.                                           *)
Buffered(c) == [k \in 1 .. gridOffset[c] |-> gridBuffer[c][k]]

FlushLeftovers ==
    /\ mainPc = "join"
    /\ \A w \in Workers : pc[w] = "exited"
    /\ block' = [c \in Cells |-> block[c] \o Buffered(c)]
    /\ mainPc' = "column"
    /\ UNCHANGED <<input, readPos, cursor, bytes, pills, buffers, occupied, tasks,
                   workerVars, gridBuffer, gridOffset, outVars>>

(* The blocks are appended to one file in the given order of cells; the    *)
(* other file gets the offset each one starts at, and the total at the end.*)
\* Mutant: the column file is written row by row.
ColumnOrderTransposed == [k \in 1 .. LastCell + 1 |-> k - 1]
ColumnOrder ==
    [k \in 1 .. LastCell + 1 |->
        ((k - 1) % Partitions) * Partitions + (k - 1) \div Partitions]
RowOrder == [k \in 1 .. LastCell + 1 |-> k - 1]

WriteColumn ==
    /\ mainPc = "column"
    /\ columnOffset' = Append(columnOffset, Len(column))
    /\ IF Len(columnOffset) <= LastCell
       THEN column' = column \o block[ColumnOrder[Len(columnOffset) + 1]] /\ UNCHANGED mainPc
       ELSE mainPc' = "row" /\ UNCHANGED column
    /\ UNCHANGED <<input, readPos, cursor, bytes, pills, buffers, occupied, tasks,
                   workerVars, fileVars, row, rowOffset>>

WriteRow ==
    /\ mainPc = "row"
    /\ rowOffset' = Append(rowOffset, Len(row))
    /\ IF Len(rowOffset) <= LastCell
       THEN row' = row \o block[RowOrder[Len(rowOffset) + 1]] /\ UNCHANGED mainPc
       ELSE mainPc' = "done" /\ UNCHANGED row
    /\ UNCHANGED <<input, readPos, cursor, bytes, pills, buffers, occupied, tasks,
                   workerVars, fileVars, column, columnOffset>>

MainStep ==
    \/ Read \/ Occupy \/ Push \/ Spin \/ PushPill
    \/ FlushLeftovers \/ WriteColumn \/ WriteRow

-----------------------------------------------------------------------------
(* A worker thread.                                                        *)

Go(w, label) == pc' = [pc EXCEPT ![w] = label]

Pop(w) ==
    /\ pc[w] = "pop"
    /\ tasks # << >>
    /\ task' = [task EXCEPT ![w] = Head(tasks)]
    /\ tasks' = Tail(tasks)
    /\ Go(w, IF Head(tasks).cursor = -1 THEN "exited" ELSE "count")
    /\ UNCHANGED <<input, mainVars, buffers, occupied, ends, local, ij, mutexes,
                   fileVars, outVars>>

\* The edges of w's task, as the buffer now holds them.
Chunk(w) == SubSeq(buffers[task[w].cursor], 1, task[w].bytes)

\* Mutant: the buffer is given back before the second pass.
CountAndRelease(w) ==
    /\ pc[w] = "count"
    /\ ends' = [ends EXCEPT ![w] =
           [c \in Cells |-> Cardinality({k \in DOMAIN Chunk(w) : CellOf(Chunk(w)[k]) <= c})]]
    /\ occupied' = [occupied EXCEPT ![task[w].cursor] = FALSE]
    /\ Go(w, "scatter")
    /\ UNCHANGED <<input, mainVars, buffers, tasks, task, local, ij, mutexes,
                   fileVars, outVars>>

\* First pass: where each cell's run will end in local_buffer.
Count(w) ==
    /\ pc[w] = "count"
    /\ ends' = [ends EXCEPT ![w] =
           [c \in Cells |-> Cardinality({k \in DOMAIN Chunk(w) : CellOf(Chunk(w)[k]) <= c})]]
    /\ Go(w, "scatter")
    /\ UNCHANGED <<input, mainVars, buffers, occupied, tasks, task, local, ij, mutexes,
                   fileVars, outVars>>

\* The run of cell c in local_buffer begins behind that of the cell before;
\* an edge goes behind those of its cell that come before it in the buffer.
Start(w, c) == IF c = 0 THEN 0 ELSE ends[w][c - 1]
Position(w, k) ==
    LET c == CellOf(Chunk(w)[k])
    IN  Start(w, c) + Cardinality({m \in 1 .. k : CellOf(Chunk(w)[m]) = c})

\* Second pass: the edges into local_buffer, cell by cell, in input order.
Scatter(w) ==
    /\ pc[w] = "scatter"
    /\ local' = [local EXCEPT ![w] =
           [p \in DOMAIN Chunk(w) |->
               Chunk(w)[CHOOSE k \in DOMAIN Chunk(w) : Position(w, k) = p]]]
    /\ ij' = [ij EXCEPT ![w] = 0]
    /\ Go(w, "lock")
    /\ UNCHANGED <<input, mainVars, buffers, occupied, tasks, task, ends, mutexes,
                   fileVars, outVars>>

\* The run of the cell w is at: local_buffer[start .. local_grid_offset[ij]).
Run(w) == SubSeq(local[w], Start(w, ij[w]) + 1, ends[w][ij[w]])

\* Mutant: the mutex of the cell is not waited for.
LockCellNever(w) ==
    /\ pc[w] = "lock"
    /\ mutexes' = [mutexes EXCEPT ![ij[w]] = w]
    /\ Go(w, "store")
    /\ UNCHANGED <<input, mainVars, buffers, occupied, tasks, task, ends, local, ij,
                   fileVars, outVars>>

LockCell(w) ==
    /\ pc[w] = "lock"
    /\ mutexes[ij[w]] = Nobody
    /\ mutexes' = [mutexes EXCEPT ![ij[w]] = w]
    /\ Go(w, "store")
    /\ UNCHANGED <<input, mainVars, buffers, occupied, tasks, task, ends, local, ij,
                   fileVars, outVars>>

\* Several edges go straight to the file, one edge behind the buffered ones.
Store(w) ==
    LET c == ij[w] IN
    /\ pc[w] = "store"
    /\ block' = IF Len(Run(w)) > 1 THEN [block EXCEPT ![c] = @ \o Run(w)] ELSE block
    /\ gridBuffer' = IF Len(Run(w)) = 1
                     THEN [gridBuffer EXCEPT ![c][gridOffset[c] + 1] = Run(w)[1]]
                     ELSE gridBuffer
    /\ Go(w, "commit")
    /\ UNCHANGED <<input, mainVars, buffers, occupied, tasks, task, ends, local, ij,
                   mutexes, gridOffset, outVars>>

\* Mutant: grid_buffer_offset is not reset when the buffer is written out.
CommitNoReset(w) ==
    LET c == ij[w]
        single == Len(Run(w)) = 1
        full == single /\ gridOffset[c] + 1 = GridBufferSize
    IN
    /\ pc[w] = "commit"
    /\ gridOffset' = [gridOffset EXCEPT ![c] = IF single THEN @ + 1 ELSE @]
    /\ block' = IF full THEN [block EXCEPT ![c] = @ \o gridBuffer[c]] ELSE block
    /\ mutexes' = [mutexes EXCEPT ![c] = Nobody]
    /\ IF c = LastCell
       THEN Go(w, "release") /\ UNCHANGED ij
       ELSE Go(w, "lock") /\ ij' = [ij EXCEPT ![w] = c + 1]
    /\ UNCHANGED <<input, mainVars, buffers, occupied, tasks, task, ends, local,
                   gridBuffer, outVars>>

\* grid_buffer_offset moves on, a full buffer is written out; then unlock.
Commit(w) ==
    LET c == ij[w]
        single == Len(Run(w)) = 1
        full == single /\ gridOffset[c] + 1 = GridBufferSize
    IN
    /\ pc[w] = "commit"
    /\ gridOffset' = [gridOffset EXCEPT ![c] = IF full THEN 0 ELSE IF single THEN @ + 1 ELSE @]
    /\ block' = IF full THEN [block EXCEPT ![c] = @ \o gridBuffer[c]] ELSE block
    /\ mutexes' = [mutexes EXCEPT ![c] = Nobody]
    /\ IF c = LastCell
       THEN Go(w, "release") /\ UNCHANGED ij
       ELSE Go(w, "lock") /\ ij' = [ij EXCEPT ![w] = c + 1]
    /\ UNCHANGED <<input, mainVars, buffers, occupied, tasks, task, ends, local,
                   gridBuffer, outVars>>

\* Mutant: the buffer is never given back.
ReleaseNever(w) ==
    /\ pc[w] = "release"
    /\ Go(w, "pop")
    /\ UNCHANGED <<input, mainVars, buffers, occupied, tasks, task, ends, local, ij,
                   mutexes, fileVars, outVars>>

Release(w) ==
    /\ pc[w] = "release"
    /\ occupied' = [occupied EXCEPT ![task[w].cursor] = FALSE]
    /\ Go(w, "pop")
    /\ UNCHANGED <<input, mainVars, buffers, tasks, task, ends, local, ij, mutexes,
                   fileVars, outVars>>

WorkerStep(w) ==
    \/ Pop(w) \/ Count(w) \/ Scatter(w) \/ LockCell(w)
    \/ Store(w) \/ Commit(w) \/ Release(w)

-----------------------------------------------------------------------------
Finished == mainPc = "done" /\ UNCHANGED vars

Next == MainStep \/ (\E w \in Workers : WorkerStep(w)) \/ Finished

(* Every thread that can run eventually does.  No stronger fairness is     *)
(* needed: each cell's mutex is taken a bounded number of times.           *)
Fairness == WF_vars(MainStep) /\ \A w \in Workers : WF_vars(WorkerStep(w))

Spec == Init /\ [][Next]_vars
FairSpec == Spec /\ Fairness

-----------------------------------------------------------------------------
TypeOK ==
    /\ readPos \in 0 .. Len(input)
    /\ mainPc \in {"read", "occupy", "push", "spin", "pills", "join",
                   "column", "row", "done"}
    /\ cursor \in Buffers
    /\ bytes \in 0 .. IOSIZE
    /\ pills \in 0 .. parallelism
    /\ DOMAIN buffers = Buffers
    /\ occupied \in [Buffers -> BOOLEAN]
    /\ Len(tasks) <= parallelism
    /\ \A k \in DOMAIN tasks : tasks[k] = Pill \/ tasks[k].cursor \in Buffers
    /\ pc \in [Workers -> {"pop", "count", "scatter", "lock", "store", "commit",
                           "release", "exited"}]
    /\ \A w \in Workers : task[w] = Pill \/ task[w].cursor \in Buffers
    /\ ij \in [Workers -> Cells]
    /\ mutexes \in [Cells -> Workers \union {Nobody}]
    /\ gridOffset \in [Cells -> 0 .. GridBufferSize - 1]

Working(w) == pc[w] \in {"count", "scatter", "lock", "store", "commit", "release"}
Reading(w) == pc[w] \in {"count", "scatter"}

(* A buffer belongs to one task at a time, from the read that fills it     *)
(* until its worker clears occupied: no two tasks share a buffer, the      *)
(* buffer of every task is marked, and main reads only into a free one.    *)
BufferOwnership ==
    /\ \A w \in Workers : Working(w) => occupied[task[w].cursor]
    /\ \A k \in DOMAIN tasks : tasks[k] # Pill => occupied[tasks[k].cursor]
    /\ mainPc \in {"read", "occupy"} => ~occupied[cursor]
    /\ mainPc = "push" => occupied[cursor]
    /\ \A w \in Workers : Working(w) /\ mainPc = "push" => task[w].cursor # cursor
    /\ \A k \in DOMAIN tasks : mainPc = "push" => tasks[k].cursor # cursor
    /\ \A v, w \in Workers :
           v # w /\ Working(v) /\ Working(w) => task[v].cursor # task[w].cursor
    /\ \A w \in Workers, k \in DOMAIN tasks :
           Working(w) => task[w].cursor # tasks[k].cursor
    /\ \A k, m \in DOMAIN tasks :
           k # m /\ tasks[k] # Pill => tasks[k].cursor # tasks[m].cursor

(* Main never reads into a buffer whose edges are queued or are still      *)
(* being sorted: the two passes of a worker see the same edges.            *)
InUse == {tasks[k].cursor : k \in DOMAIN tasks}
         \union {task[w].cursor : w \in {v \in Workers : Reading(v)}}
BuffersStable ==
    [][\A b \in Buffers \intersect InUse : buffers'[b] = buffers[b]]_vars

(* Where an edge of the input is: on its way to a worker, in a worker's    *)
(* local buffer and not yet handed on, or in the buffer or file of its     *)
(* cell.  A run of one edge counts as handed on when grid_buffer_offset    *)
(* has passed it, a longer one when it is written.                         *)
Ids(s) == {s[k] : k \in DOMAIN s}
HandedOn(w) == IF pc[w] = "commit" /\ Len(Run(w)) > 1
               THEN ends[w][ij[w]]
               ELSE Start(w, ij[w])
Outgoing(w) ==
    IF pc[w] \in {"lock", "store", "commit"}
    THEN {local[w][p] : p \in HandedOn(w) + 1 .. Len(local[w])}
    ELSE IF Reading(w) THEN Ids(Chunk(w)) ELSE {}
Queued == UNION {Ids(SubSeq(buffers[t.cursor], 1, t.bytes)) :
                    t \in {u \in Ids(tasks) : u # Pill}}
InHand == IF mainPc \in {"occupy", "push"} THEN Ids(buffers[cursor]) ELSE {}
InBlock(c) == block[c] \o (IF mainPc \in {"column", "row", "done"} THEN << >> ELSE Buffered(c))

(* Every edge of the input is in exactly one of these places, and reaches  *)
(* only the file of the cell of its two partitions: none is lost or        *)
(* written twice, whatever the order in which the workers run.             *)
EdgesConserved ==
    /\ \A e \in 1 .. Len(input) :
          1 = (IF e > readPos \/ e \in InHand \/ e \in Queued THEN 1 ELSE 0)
              + Cardinality({w \in Workers : e \in Outgoing(w)})
              + Cardinality({p \in Cells \X (1 .. Len(input)) :
                               /\ p[2] \in DOMAIN InBlock(p[1])
                               /\ InBlock(p[1])[p[2]] = e})
    /\ \A c \in Cells : \A k \in DOMAIN InBlock(c) : CellOf(InBlock(c)[k]) = c

(* What the engine later relies on: between two consecutive offsets lie    *)
(* exactly the edges of one block, in both files.                          *)
BlockAt(file, offset, k) == SubSeq(file, offset[k] + 1, offset[k + 1])
HoldsCell(s, c) ==
    /\ Ids(s) = {e \in 1 .. Len(input) : CellOf(e) = c}
    /\ Len(s) = Cardinality(Ids(s))
GridCorrect ==
    mainPc = "done" =>
        \A i, j \in 0 .. Partitions - 1 :
            /\ HoldsCell(BlockAt(column, columnOffset, j * Partitions + i + 1),
                         i * Partitions + j)
            /\ HoldsCell(BlockAt(row, rowOffset, i * Partitions + j + 1),
                         i * Partitions + j)

(* Preprocessing ends: no schedule leaves main spinning for a buffer,      *)
(* pushing into a full queue, or joining a worker that waits for work.     *)
Terminates == <>(mainPc = "done")
=============================================================================
