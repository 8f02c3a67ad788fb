-------------------------- MODULE PreprocessProofs --------------------------
(***************************************************************************)
(* tools/preprocess.cpp is correct for every number of workers, every grid *)
(* and every input: a buffer has one user at a time, so no edge is         *)
(* overwritten while a worker still has to read it; every edge is in one   *)
(* place from its read to its file; and the two files of the grid hold     *)
(* each block between its offsets, with all its edges and each once.       *)
(***************************************************************************)
EXTENDS Preprocess, FiniteSetTheorems, TLAPS

Task == [cursor : Buffers \union {-1}, bytes : 0 .. IOSIZE]

(* The type invariant with what the steps need to preserve it: what the    *)
(* queue and the workers hold are tasks, and only a real task is worked on.*)
Types ==
    /\ TypeOK
    /\ input \in Seq((0 .. Vertices - 1) \X (0 .. Vertices - 1))
    /\ tasks \in Seq(Task)
    /\ task \in [Workers -> Task]
    /\ \A w \in Workers : Working(w) => task[w].cursor \in Buffers

(* The pool has at least two buffers, numbered from 0.                     *)
LEMMA PoolSize == parallelism \in Nat \ {0} /\ 0 \in Buffers /\ -1 \notin Buffers
<1>1. parallelism \in Nat /\ parallelism # 0
  BY PreprocessAssumption, FS_CardinalityType, FS_EmptySet
     DEF PreprocessAssumption, parallelism
<1>2. QED
  BY <1>1 DEF Buffers

(* Going round the pool stays in the pool.                                 *)
LEMMA NextCursor ==
    ASSUME NEW k \in Buffers
    PROVE  (k + 1) % (2 * parallelism) \in Buffers
BY PoolSize DEF Buffers

(* The cells are numbered from 0 to LastCell.                              *)
LEMMA CellRange == LastCell \in Nat /\ Cells = 0 .. LastCell
<1>1. Partitions * Partitions \in Nat \ {0}
  <2>1. \A p \in Nat \ {0} : p * p \in Nat \ {0}
    OBVIOUS
  <2>2. QED
    BY <2>1, PreprocessAssumption DEF PreprocessAssumption
<1>2. QED
  BY <1>1 DEF Cells, LastCell

LEMMA PillIsTask == Pill \in Task /\ Pill.cursor \notin Buffers
BY PoolSize, PreprocessAssumption DEF Task, Pill, PreprocessAssumption

LEMMA InitTypes == Init => Types
<1> SUFFICES ASSUME Init PROVE Types
  OBVIOUS
<1>1. input \in Seq((0 .. Vertices - 1) \X (0 .. Vertices - 1))
  BY PreprocessAssumption DEF Init, PreprocessAssumption
<1>2. tasks \in Seq(Task) /\ DOMAIN tasks = {} /\ Len(tasks) = 0
  BY DEF Init
<1>3. task \in [Workers -> Task]
  BY PillIsTask DEF Init
<1>4. TypeOK
  BY <1>1, <1>2, PoolSize, CellRange, PreprocessAssumption
     DEF Init, TypeOK, PreprocessAssumption
<1>5. QED
  BY <1>1, <1>2, <1>3, <1>4 DEF Init, Types, Working

(* Adding a task to the queue, and taking the first one.                   *)
LEMMA Appended ==
    ASSUME NEW q \in Seq(Task), NEW t \in Task
    PROVE  /\ Append(q, t) \in Seq(Task)
           /\ Len(Append(q, t)) = Len(q) + 1
           /\ DOMAIN Append(q, t) = DOMAIN q \union {Len(q) + 1}
           /\ \A k \in DOMAIN q : Append(q, t)[k] = q[k]
           /\ Append(q, t)[Len(q) + 1] = t
           /\ \A k \in DOMAIN Append(q, t) :
                 \/ Append(q, t)[k] = t /\ k = Len(q) + 1
                 \/ k \in DOMAIN q /\ Append(q, t)[k] = q[k]
OBVIOUS

LEMMA TakenFirst ==
    ASSUME NEW q \in Seq(Task), q # << >>
    PROVE  /\ 1 \in DOMAIN q /\ Head(q) = q[1] /\ Head(q) \in Task
           /\ Tail(q) \in Seq(Task) /\ Len(Tail(q)) = Len(q) - 1
           /\ \A k \in DOMAIN Tail(q) :
                 k + 1 \in DOMAIN q /\ k + 1 # 1 /\ Tail(q)[k] = q[k + 1]
OBVIOUS

-----------------------------------------------------------------------------
(* What main's steps, and then a worker's, do to the types.                *)
LEMMA MainTypes == Types /\ MainStep => Types'
<1> SUFFICES ASSUME Types, MainStep PROVE Types'
  OBVIOUS
<1> USE DEF Types, TypeOK, Working, mainVars, workerVars, fileVars, outVars
<1>1. CASE Read
  <2>1. CASE mainPc' = "pills"
    BY <1>1, <2>1 DEF Read
  <2>2. CASE mainPc' = "occupy"
    <3> DEFINE left == Len(input) - readPos
               n == IF left < IOSIZE THEN left ELSE IOSIZE
    <3>1. readPos' \in 0 .. Len(input) /\ bytes' \in 0 .. IOSIZE
      <4>1. n # 0 /\ readPos' = readPos + n /\ bytes' = n
        BY <1>1, <2>2 DEF Read
      <4>2. left \in Nat /\ IOSIZE \in Nat
        BY PreprocessAssumption DEF PreprocessAssumption
      <4>3. readPos + n \in 0 .. Len(input) /\ n \in 0 .. IOSIZE
        BY <4>2
      <4>4. QED
        BY <4>1, <4>3
    <3>2. DOMAIN buffers' = Buffers
      BY <1>1, <2>2 DEF Read
    <3>3. QED
      BY <1>1, <2>2, <3>1, <3>2 DEF Read
  <2>3. QED
    BY <1>1, <2>1, <2>2 DEF Read
<1>2. CASE Occupy
  BY <1>2 DEF Occupy
<1>3. CASE Push
  <2> DEFINE t == [cursor |-> cursor, bytes |-> bytes]
  <2>1. t \in Task
    BY DEF Task
  <2>2. tasks' = Append(tasks, t) /\ Len(tasks) < parallelism
    BY <1>3 DEF Push
  <2>3. tasks' \in Seq(Task) /\ Len(tasks') <= parallelism
    BY <2>1, <2>2, Appended, PoolSize
  <2>4. \A k \in DOMAIN tasks' : tasks'[k] = Pill \/ tasks'[k].cursor \in Buffers
    BY <2>1, <2>2, Appended
  <2>5. QED
    BY <1>3, <2>3, <2>4 DEF Push
<1>4. CASE Spin
  BY <1>4, NextCursor DEF Spin
<1>5. CASE PushPill
  <2>1. CASE pills = parallelism
    BY <1>5, <2>1 DEF PushPill
  <2>2. CASE pills # parallelism
    <3>1. tasks' = Append(tasks, Pill) /\ Len(tasks) < parallelism
      BY <1>5, <2>2 DEF PushPill
    <3>2. tasks' \in Seq(Task) /\ Len(tasks') <= parallelism
      BY <3>1, Appended, PillIsTask, PoolSize
    <3>3. \A k \in DOMAIN tasks' : tasks'[k] = Pill \/ tasks'[k].cursor \in Buffers
      BY <3>1, Appended, PillIsTask
    <3>4. pills' \in 0 .. parallelism
      BY <1>5, <2>2, PoolSize DEF PushPill
    <3>5. QED
      BY <1>5, <2>2, <3>2, <3>3, <3>4 DEF PushPill
  <2>3. QED
    BY <2>1, <2>2
<1>6. CASE FlushLeftovers
  BY <1>6 DEF FlushLeftovers
<1>7. CASE WriteColumn
  BY <1>7 DEF WriteColumn
<1>8. CASE WriteRow
  BY <1>8 DEF WriteRow
<1>9. QED
  BY <1>1, <1>2, <1>3, <1>4, <1>5, <1>6, <1>7, <1>8 DEF MainStep

LEMMA WorkerTypes ==
    ASSUME NEW w \in Workers, Types, WorkerStep(w)
    PROVE  Types'
<1> USE DEF Types, TypeOK, Working, Go, mainVars, workerVars, fileVars, outVars
<1>1. CASE Pop(w)
  <2>1. tasks # << >> /\ tasks' = Tail(tasks)
        /\ task' = [task EXCEPT ![w] = Head(tasks)]
    BY <1>1 DEF Pop
  <2>2. tasks' \in Seq(Task) /\ Len(tasks') <= parallelism
    BY <2>1, TakenFirst, PoolSize
  <2>3. \A k \in DOMAIN tasks' : tasks'[k] = Pill \/ tasks'[k].cursor \in Buffers
    BY <2>1, TakenFirst
  <2>4. task' \in [Workers -> Task]
        /\ (Head(tasks) = Pill \/ Head(tasks).cursor \in Buffers)
    BY <2>1, TakenFirst
  <2>5. \A v \in Workers : task'[v] = Pill \/ task'[v].cursor \in Buffers
    BY <2>1, <2>4
  <2>6. pc' = [pc EXCEPT ![w] = IF Head(tasks).cursor = -1 THEN "exited" ELSE "count"]
    BY <1>1 DEF Pop
  <2>7. \A v \in Workers : Working(v)' => task'[v].cursor \in Buffers
    BY <2>1, <2>4, <2>6 DEF Pill
  <2>8. QED
    BY <1>1, <2>2, <2>3, <2>4, <2>5, <2>6, <2>7 DEF Pop
<1>2. CASE Count(w)
  BY <1>2 DEF Count
<1>3. CASE Scatter(w)
  <2>1. 0 \in Cells
    BY CellRange
  <2>2. /\ pc[w] = "scatter" /\ pc' = [pc EXCEPT ![w] = "lock"] /\ ij' = [ij EXCEPT ![w] = 0]
        /\ UNCHANGED <<input, mainVars, buffers, occupied, tasks, task, mutexes, fileVars>>
    BY <1>3 DEF Scatter
  <2>3. QED
    BY <2>1, <2>2
<1>4. CASE LockCell(w)
  BY <1>4 DEF LockCell
<1>5. CASE Store(w)
  BY <1>5 DEF Store
<1>6. CASE Commit(w)
  <2>1. gridOffset' \in [Cells -> 0 .. GridBufferSize - 1]
    <3> DEFINE single == Len(Run(w)) = 1
               full == single /\ gridOffset[ij[w]] + 1 = GridBufferSize
               next == IF full THEN 0
                       ELSE IF single THEN gridOffset[ij[w]] + 1 ELSE gridOffset[ij[w]]
    <3>1. gridOffset' = [gridOffset EXCEPT ![ij[w]] = next]
      BY <1>6 DEF Commit
    <3>2. ij[w] \in Cells /\ gridOffset[ij[w]] \in 0 .. GridBufferSize - 1
      OBVIOUS
    <3>3. next \in 0 .. GridBufferSize - 1
      <4> HIDE DEF single
      <4>1. QED
        BY <3>2, PreprocessAssumption DEF PreprocessAssumption
    <3>4. QED
      BY <3>1, <3>2, <3>3
  <2>2. ij' \in [Workers -> Cells]
    <3>1. ij' = ij \/ (ij[w] # LastCell /\ ij' = [ij EXCEPT ![w] = ij[w] + 1])
      BY <1>6 DEF Commit
    <3>2. ij[w] # LastCell => ij[w] + 1 \in Cells
      BY CellRange
    <3>3. QED
      BY <3>1, <3>2
  <2>3. mutexes' \in [Cells -> Workers \union {Nobody}]
    BY <1>6 DEF Commit
  <2>4. pc' = [pc EXCEPT ![w] = IF ij[w] = LastCell THEN "release" ELSE "lock"]
    BY <1>6 DEF Commit
  <2>5. pc[w] = "commit"
    BY <1>6 DEF Commit
  <2>6. QED
    BY <1>6, <2>1, <2>2, <2>3, <2>4, <2>5 DEF Commit
<1>7. CASE Release(w)
  BY <1>7 DEF Release
<1>8. QED
  BY <1>1, <1>2, <1>3, <1>4, <1>5, <1>6, <1>7 DEF WorkerStep

(* The type invariant of tools/preprocess.cpp holds for every input.       *)
THEOREM TypeCorrect == Spec => []TypeOK
<1>1. Types /\ [Next]_vars => Types'
  <2> SUFFICES ASSUME Types, [Next]_vars PROVE Types'
    OBVIOUS
  <2>1. CASE MainStep
    BY <2>1, MainTypes
  <2>2. ASSUME NEW w \in Workers, WorkerStep(w) PROVE Types'
    BY <2>2, WorkerTypes
  <2>3. CASE UNCHANGED vars
    BY <2>3 DEF vars, mainVars, workerVars, fileVars, outVars, Types, TypeOK, Working
  <2>4. QED
    BY <2>1, <2>2, <2>3 DEF Next, Finished
<1>2. Types => TypeOK
  BY DEF Types
<1>3. QED
  BY InitTypes, <1>1, <1>2, PTL DEF Spec

-----------------------------------------------------------------------------
(* Who owns a buffer.  With the types, BufferOwnership is inductive.       *)
LEMMA InitOwnership == Init => BufferOwnership
BY PoolSize DEF Init, BufferOwnership, Working

LEMMA MainOwnership == Types /\ BufferOwnership /\ MainStep => BufferOwnership'
<1> SUFFICES ASSUME Types, BufferOwnership, MainStep PROVE BufferOwnership'
  OBVIOUS
<1> USE DEF BufferOwnership, Working, mainVars, workerVars, fileVars, outVars
<1>1. CASE Read
  BY <1>1 DEF Read
<1>2. CASE Occupy
  <2>1. cursor \in Buffers /\ occupied \in [Buffers -> BOOLEAN]
        /\ \A w \in Workers : Working(w) => task[w].cursor \in Buffers
        /\ \A k \in DOMAIN tasks : tasks[k] = Pill \/ tasks[k].cursor \in Buffers
    BY DEF Types, TypeOK
  <2>2. occupied' = [occupied EXCEPT ![cursor] = TRUE]
        /\ mainPc = "occupy" /\ mainPc' = "push"
        /\ UNCHANGED <<cursor, tasks, pc, task>>
    BY <1>2 DEF Occupy
  <2>3. \A w \in Workers : Working(w) => task[w].cursor # cursor
    BY <2>2
  <2>4. \A k \in DOMAIN tasks : tasks[k].cursor # cursor
    BY <2>1, <2>2, PillIsTask
  <2>5. QED
    BY <2>1, <2>2, <2>3, <2>4
<1>3. CASE Push
  <2> DEFINE t == [cursor |-> cursor, bytes |-> bytes]
             q == Append(tasks, t)
  <2>1. t \in Task /\ t.cursor = cursor /\ tasks \in Seq(Task)
    BY DEF Types, TypeOK, Task
  <2>2. /\ mainPc = "push" /\ mainPc' = "spin" /\ tasks' = q
        /\ UNCHANGED <<cursor, occupied, pc, task>>
    BY <1>3 DEF Push
  <2>3. \A k \in DOMAIN q :
        \/ q[k] = t /\ k = Len(tasks) + 1
        \/ k \in DOMAIN tasks /\ q[k] = tasks[k]
    BY <2>1, Appended
  <2> HIDE DEF t, q
  <2>4. QED
    BY <2>1, <2>2, <2>3
<1>4. CASE Spin
  BY <1>4 DEF Spin
<1>5. CASE PushPill
  <2>1. CASE pills = parallelism
    BY <1>5, <2>1 DEF PushPill
  <2>2. CASE pills # parallelism
    <3> DEFINE q == Append(tasks, Pill)
    <3>1. /\ mainPc = "pills" /\ tasks' = q
          /\ UNCHANGED <<mainPc, cursor, occupied, pc, task>>
      BY <1>5, <2>2 DEF PushPill
    <3>2. \A k \in DOMAIN q :
          \/ q[k] = Pill
          \/ k \in DOMAIN tasks /\ q[k] = tasks[k]
      BY Appended, PillIsTask DEF Types
    <3>3. \A w \in Workers : Working(w) => task[w].cursor \in Buffers
      BY DEF Types
    <3>4. \A k \in DOMAIN tasks : tasks[k] # Pill => tasks[k].cursor \in Buffers
      BY DEF Types, TypeOK
    <3> HIDE DEF q
    <3>5. QED
      BY <3>1, <3>2, <3>3, <3>4, PillIsTask
  <2>3. QED
    BY <2>1, <2>2
<1>6. CASE FlushLeftovers
  BY <1>6 DEF FlushLeftovers
<1>7. CASE WriteColumn
  BY <1>7 DEF WriteColumn
<1>8. CASE WriteRow
  BY <1>8 DEF WriteRow
<1>9. QED
  BY <1>1, <1>2, <1>3, <1>4, <1>5, <1>6, <1>7, <1>8 DEF MainStep

LEMMA WorkerOwnership ==
    ASSUME NEW w \in Workers, Types, BufferOwnership, WorkerStep(w)
    PROVE  BufferOwnership'
<1> USE DEF BufferOwnership, Working, Go, mainVars, workerVars, fileVars, outVars
<1>0. DOMAIN pc = Workers /\ DOMAIN task = Workers
  BY DEF Types, TypeOK
<1>1. CASE Pop(w)
  <2> DEFINE h == Head(tasks)
             q == Tail(tasks)
  <2>1. /\ tasks # << >> /\ tasks' = q /\ task' = [task EXCEPT ![w] = h]
        /\ pc' = [pc EXCEPT ![w] = IF h.cursor = -1 THEN "exited" ELSE "count"]
        /\ UNCHANGED <<mainPc, cursor, occupied>>
    BY <1>1 DEF Pop
  <2>2. 1 \in DOMAIN tasks /\ h = tasks[1]
    BY <2>1, TakenFirst DEF Types
  <2>3. \A k \in DOMAIN q : k + 1 \in DOMAIN tasks /\ k + 1 # 1 /\ q[k] = tasks[k + 1]
    BY <2>1, TakenFirst DEF Types
  <2>4. DOMAIN q \subseteq Int
    BY <2>1, TakenFirst DEF Types
  <2>5. h.cursor # -1 => h # Pill
    BY DEF Pill
  <2> HIDE DEF h, q
  <2>6. QED
    BY <1>0, <2>1, <2>2, <2>3, <2>4, <2>5
<1>2. CASE Count(w)
  BY <1>0, <1>2 DEF Count
<1>3. CASE Scatter(w)
  BY <1>0, <1>3 DEF Scatter
<1>4. CASE LockCell(w)
  BY <1>0, <1>4 DEF LockCell
<1>5. CASE Store(w)
  BY <1>0, <1>5 DEF Store
<1>6. CASE Commit(w)
  <2>1. /\ pc[w] = "commit" /\ (pc' = [pc EXCEPT ![w] = "release"] \/ pc' = [pc EXCEPT ![w] = "lock"])
        /\ UNCHANGED <<mainPc, cursor, occupied, tasks, task>>
    BY <1>6 DEF Commit
  <2>2. QED
    BY <1>0, <2>1
<1>7. CASE Release(w)
  <2>1. /\ pc[w] = "release" /\ pc' = [pc EXCEPT ![w] = "pop"]
        /\ occupied' = [occupied EXCEPT ![task[w].cursor] = FALSE]
        /\ UNCHANGED <<mainPc, cursor, tasks, task>>
    BY <1>7 DEF Release
  <2>2. cursor \in Buffers /\ occupied \in [Buffers -> BOOLEAN]
        /\ \A v \in Workers : Working(v) => task[v].cursor \in Buffers
        /\ \A k \in DOMAIN tasks : tasks[k] # Pill => tasks[k].cursor \in Buffers
    BY DEF Types, TypeOK
  <2>3. QED
    BY <1>0, <2>1, <2>2
<1>8. QED
  BY <1>1, <1>2, <1>3, <1>4, <1>5, <1>6, <1>7 DEF WorkerStep

(* Main reads only into a buffer that no task uses.                        *)
LEMMA NextStable == Types /\ BufferOwnership /\ [Next]_vars =>
                    \A b \in Buffers \intersect InUse : buffers'[b] = buffers[b]
<1> SUFFICES ASSUME Types, BufferOwnership, [Next]_vars,
                    NEW b \in Buffers, b \in InUse
             PROVE  buffers'[b] = buffers[b]
  OBVIOUS
<1>1. CASE Read
  <2>1. occupied[b]
    <3>1. CASE \E k \in DOMAIN tasks : b = tasks[k].cursor
      BY <3>1, PillIsTask DEF BufferOwnership
    <3>2. CASE \E w \in Workers : Reading(w) /\ b = task[w].cursor
      BY <3>2 DEF BufferOwnership, Reading, Working
    <3>3. QED
      BY <3>1, <3>2 DEF InUse
  <2>2. b # cursor
    BY <1>1, <2>1 DEF Read, BufferOwnership
  <2>3. DOMAIN buffers = Buffers
    BY DEF Types, TypeOK
  <2>4. QED
    BY <1>1, <2>2, <2>3 DEF Read
<1>2. CASE ~Read
  <2>1. UNCHANGED buffers
    BY <1>2 DEF Next, Finished, MainStep, WorkerStep, Occupy, Push, Spin, PushPill,
                FlushLeftovers, WriteColumn, WriteRow, Pop, Count, Scatter, LockCell,
                Store, Commit, Release, vars
  <2>2. QED
    BY <2>1
<1>3. QED
  BY <1>1, <1>2

LEMMA PoolInvariant == Spec => [](Types /\ BufferOwnership)
<1>1. Types /\ BufferOwnership /\ [Next]_vars => (Types /\ BufferOwnership)'
  <2> SUFFICES ASSUME Types, BufferOwnership, [Next]_vars
               PROVE  (Types /\ BufferOwnership)'
    OBVIOUS
  <2>1. CASE MainStep
    BY <2>1, MainTypes, MainOwnership
  <2>2. ASSUME NEW w \in Workers, WorkerStep(w) PROVE (Types /\ BufferOwnership)'
    BY <2>2, WorkerTypes, WorkerOwnership
  <2>3. CASE UNCHANGED vars
    BY <2>3 DEF vars, mainVars, workerVars, fileVars, outVars, Types, TypeOK, Working,
                BufferOwnership
  <2>4. QED
    BY <2>1, <2>2, <2>3 DEF Next, Finished
<1>2. QED
  BY InitTypes, InitOwnership, <1>1, PTL DEF Spec

(* A buffer has one user at a time, from its read to its release.          *)
THEOREM OneUserPerBuffer == Spec => []BufferOwnership
<1>1. Types /\ BufferOwnership => BufferOwnership
  OBVIOUS
<1>2. QED
  BY PoolInvariant, <1>1, PTL

(* No buffer changes while its edges are queued or being sorted.           *)
THEOREM NoEdgeOverwritten == Spec => BuffersStable
<1>1. Types /\ BufferOwnership /\ [Next]_vars =>
          [\A b \in Buffers \intersect InUse : buffers'[b] = buffers[b]]_vars
  BY NextStable
<1>2. QED
  BY PoolInvariant, <1>1, PTL DEF Spec, BuffersStable

-----------------------------------------------------------------------------
(* An edge belongs to a cell: the partition of a vertex is one of the      *)
(* partitions.                                                             *)
LEMMA QuotientBelow ==
    ASSUME NEW a \in Nat, NEW d \in Nat \ {0}, NEW n \in Nat, a < n * d
    PROVE  a \div d \in 0 .. n - 1
<1> DEFINE q == a \div d
<1>1. q \in Nat /\ q * d <= a
  OBVIOUS
<1> HIDE DEF q
<1>2. SUFFICES ASSUME n <= q PROVE FALSE
  BY <1>1 DEF q
<1>3. q * d = n * d + (q - n) * d
  BY <1>1
<1>4. (q - n) * d >= 0
  BY <1>1, <1>2
<1>5. QED
  BY <1>1, <1>3, <1>4

LEMMA IdIsBelow ==
    ASSUME NEW V \in Nat, NEW P \in Nat \ {0}, NEW v \in 0 .. V - 1
    PROVE  get_partition_id(V, P, v) \in 0 .. P - 1
<1> DEFINE q == V \div P
           m == V % P
<1>1. q \in Nat /\ m \in 0 .. P - 1 /\ V = P * q + m
  OBVIOUS
<1>2. get_partition_id(V, P, v) =
        IF m = 0 THEN v \div q
        ELSE IF v < m * (q + 1) THEN v \div (q + 1)
             ELSE (v - m * (q + 1)) \div ((q + 1) - 1) + m
  BY Zenon DEF get_partition_id
<1> HIDE DEF q, m
<1>3. CASE m = 0
  <2>1. q # 0
    BY <1>1, <1>3
  <2>2. v \div q \in 0 .. P - 1
    <3>1. v \in Nat /\ P \in Nat /\ q \in Nat \ {0} /\ v < P * q
      BY <1>1, <1>3, <2>1
    <3>2. QED
      BY <3>1, QuotientBelow
  <2>3. QED
    BY <1>2, <1>3, <2>2
<1>4. CASE m # 0 /\ v < m * (q + 1)
  <2>1. v \div (q + 1) \in 0 .. m - 1
    <3>1. v \in Nat /\ m \in Nat /\ q + 1 \in Nat \ {0} /\ v < m * (q + 1)
      BY <1>1, <1>4
    <3>2. QED
      BY <3>1, QuotientBelow
  <2>2. QED
    BY <1>1, <1>2, <1>4, <2>1
<1>5. CASE m # 0 /\ ~(v < m * (q + 1))
  <2> DEFINE r == v - m * (q + 1)
  <2>1. m * (q + 1) = m * q + m /\ (P - m) * q = P * q - m * q
    BY <1>1
  <2>2. r \in Nat /\ r < (P - m) * q
    BY <1>1, <1>5, <2>1
  <2>3. q # 0
    BY <1>1, <2>2
  <2>4. r \div q \in 0 .. (P - m) - 1
    <3> HIDE DEF r
    <3>1. QED
      BY <1>1, <2>2, <2>3, QuotientBelow
  <2>5. (q + 1) - 1 = q
    BY <1>1
  <2>6. get_partition_id(V, P, v) = r \div q + m
    BY <1>2, <1>5, <2>5
  <2> HIDE DEF r
  <2>7. QED
    BY <1>1, <2>4, <2>6
<1>6. QED
  BY <1>3, <1>4, <1>5

LEMMA CellNumber ==
    ASSUME NEW i \in 0 .. Partitions - 1, NEW j \in 0 .. Partitions - 1
    PROVE  i * Partitions + j \in Cells
<1>1. Partitions \in Nat \ {0}
  BY PreprocessAssumption DEF PreprocessAssumption
<1>2. i * Partitions \in Nat /\ (Partitions - 1 - i) * Partitions \in Nat
  BY <1>1
<1>3. Partitions * Partitions = i * Partitions + (Partitions - 1 - i) * Partitions + Partitions
  BY <1>1
<1>4. QED
  BY <1>1, <1>2, <1>3 DEF Cells

LEMMA EdgesHaveCells ==
    ASSUME Types
    PROVE  \A e \in 1 .. Len(input) : CellOf(e) \in Cells
<1>1. Vertices \in Nat /\ Partitions \in Nat \ {0}
  BY PreprocessAssumption DEF PreprocessAssumption
<1>2. ASSUME NEW e \in 1 .. Len(input) PROVE CellOf(e) \in Cells
  <2>1. input[e] \in (0 .. Vertices - 1) \X (0 .. Vertices - 1)
    BY <1>2 DEF Types
  <2>2. input[e][1] \in 0 .. Vertices - 1 /\ input[e][2] \in 0 .. Vertices - 1
    BY <2>1
  <2>3. QED
    BY <1>1, <2>2, IdIsBelow, CellNumber DEF CellOf, Edge
<1>3. QED
  BY <1>2

-----------------------------------------------------------------------------
(* The counting sort, for cells f[1] .. f[n] of n edges: what lies before  *)
(* cell c, and what does not come behind edge k in the sorted order.       *)
Lower(f, n, c) == {m \in 1 .. n : f[m] < c}
Before(f, n, k) == {m \in 1 .. n : f[m] < f[k] \/ (f[m] = f[k] /\ m <= k)}
Rank(f, n, k) == Cardinality(Before(f, n, k))

LEMMA PartsOfAll ==
    ASSUME NEW n \in Nat, NEW S \in SUBSET (1 .. n)
    PROVE  IsFiniteSet(S) /\ Cardinality(S) \in 0 .. n
<1>1. IsFiniteSet(1 .. n) /\ Cardinality(1 .. n) = n
  BY FS_Interval
<1>2. IsFiniteSet(S) /\ Cardinality(S) <= n
  BY <1>1, FS_Subset
<1>3. QED
  BY <1>2, FS_CardinalityType

LEMMA LargerPart ==
    ASSUME NEW n \in Nat, NEW T \in SUBSET (1 .. n), NEW S \in SUBSET T
    PROVE  /\ Cardinality(S) <= Cardinality(T)
           /\ \A x \in T : x \notin S => Cardinality(S) < Cardinality(T)
<1>1. IsFiniteSet(T) /\ Cardinality(T) \in Nat /\ Cardinality(S) \in Nat
  BY PartsOfAll
<1>2. Cardinality(S) <= Cardinality(T) /\ (Cardinality(T) = Cardinality(S) => T = S)
  BY <1>1, FS_Subset
<1>3. QED
  BY <1>1, <1>2

(* An edge comes behind those of the cells before its own and of its own   *)
(* cell up to itself.                                                      *)
LEMMA RankIsPosition ==
    ASSUME NEW n \in Nat, NEW f \in [1 .. n -> Nat], NEW k \in 1 .. n
    PROVE  /\ Rank(f, n, k) = Cardinality(Lower(f, n, f[k])) + Cardinality({m \in 1 .. k : f[m] = f[k]})
           /\ Rank(f, n, k) \in 1 .. n
           /\ Cardinality(Lower(f, n, f[k])) < Rank(f, n, k)
           /\ Rank(f, n, k) <= Cardinality(Lower(f, n, f[k] + 1))
<1> DEFINE A == Lower(f, n, f[k])
           B == {m \in 1 .. k : f[m] = f[k]}
           C == Before(f, n, k)
<1>1. A \in SUBSET (1 .. n) /\ B \in SUBSET (1 .. n) /\ C \in SUBSET (1 .. n)
  BY DEF Lower, Before
<1>2. C = A \cup B /\ A \cap B = {}
  BY DEF Lower, Before
<1>3. k \in B
  OBVIOUS
<1>4. C \subseteq Lower(f, n, f[k] + 1) /\ Lower(f, n, f[k] + 1) \in SUBSET (1 .. n)
  BY DEF Lower, Before
<1> HIDE DEF A, B, C
<1>5. Cardinality(C) = Cardinality(A) + Cardinality(B)
  <2>1. IsFiniteSet(A) /\ IsFiniteSet(B) /\ Cardinality(A) \in Nat /\ Cardinality(B) \in Nat
    BY <1>1, PartsOfAll
  <2>2. Cardinality(A \cup B) = Cardinality(A) + Cardinality(B) - Cardinality(A \cap B)
    BY <2>1, FS_Union
  <2>3. Cardinality(A \cap B) = 0
    BY <1>2, FS_EmptySet
  <2>4. QED
    BY <1>2, <2>1, <2>2, <2>3
<1>6. Cardinality(A) < Cardinality(C)
  BY <1>1, <1>2, <1>3, LargerPart
<1>7. Cardinality(C) <= Cardinality(Lower(f, n, f[k] + 1))
  BY <1>4, LargerPart
<1>8. Cardinality(C) \in 0 .. n /\ Cardinality(A) \in 0 .. n
  BY <1>1, PartsOfAll
<1>9. QED
  BY <1>5, <1>6, <1>7, <1>8 DEF Rank, A, B, C

(* Two edges never get the same place, hence every place is taken.         *)
LEMMA RanksDiffer ==
    ASSUME NEW n \in Nat, NEW f \in [1 .. n -> Nat], NEW k \in 1 .. n, NEW m \in 1 .. n,
           Rank(f, n, k) = Rank(f, n, m)
    PROVE  k = m
<1>1. ASSUME NEW x \in 1 .. n, NEW y \in 1 .. n, f[x] < f[y] \/ (f[x] = f[y] /\ x < y)
      PROVE  Rank(f, n, x) < Rank(f, n, y)
  <2>1. Before(f, n, y) \in SUBSET (1 .. n) /\ Before(f, n, x) \in SUBSET Before(f, n, y)
    <3>1. Before(f, n, y) \in SUBSET (1 .. n)
      BY DEF Before
    <3>2. ASSUME NEW z \in Before(f, n, x) PROVE z \in Before(f, n, y)
      <4>1. z \in 1 .. n /\ (f[z] < f[x] \/ (f[z] = f[x] /\ z <= x))
        BY DEF Before
      <4>2. f[x] \in Nat /\ f[y] \in Nat /\ f[z] \in Nat
        BY <4>1
      <4>3. f[z] < f[y] \/ (f[z] = f[y] /\ z <= y)
        BY <1>1, <4>1, <4>2
      <4>4. QED
        BY <4>1, <4>3 DEF Before
    <3>3. QED
      BY <3>1, <3>2
  <2>2. y \in Before(f, n, y) /\ y \notin Before(f, n, x)
    BY <1>1 DEF Before
  <2>3. QED
    BY <2>1, <2>2, LargerPart DEF Rank
<1>2. Rank(f, n, k) \in 1 .. n /\ Rank(f, n, m) \in 1 .. n
  BY RankIsPosition
<1>3. f[k] \in Nat /\ f[m] \in Nat
  OBVIOUS
<1>4. QED
  BY <1>1, <1>2, <1>3

LEMMA RanksCover ==
    ASSUME NEW n \in Nat, NEW f \in [1 .. n -> Nat], NEW p \in 1 .. n
    PROVE  \E k \in 1 .. n : Rank(f, n, k) = p
<1> DEFINE g == [k \in 1 .. n |-> Rank(f, n, k)]
<1>1. g \in [1 .. n -> 1 .. n]
  BY RankIsPosition
<1>2. g \in Injection(1 .. n, 1 .. n)
  <2>1. \A k, m \in 1 .. n : g[k] = g[m] => k = m
    BY RanksDiffer
  <2> HIDE DEF g
  <2>2. QED
    BY <1>1, <2>1 DEF Injection, IsInjective
<1>3. g \in Surjection(1 .. n, 1 .. n)
  <2> HIDE DEF g
  <2>1. IsFiniteSet(1 .. n)
    BY FS_Interval
  <2>2. QED
    BY <1>2, <2>1, FS_Injection
<1>4. \E k \in 1 .. n : g[k] = p
  <2> HIDE DEF g
  <2>1. QED
    BY <1>3 DEF Surjection
<1>5. QED
  BY <1>4

(* The places between the ends of two neighbouring cells are those of the  *)
(* edges of the second.                                                    *)
LEMMA LowerCount ==
    ASSUME NEW n \in Nat, NEW f \in [1 .. n -> Nat], NEW c \in Nat
    PROVE  Cardinality(Lower(f, n, c)) \in 0 .. n
BY PartsOfAll DEF Lower

LEMMA LowerGrows ==
    ASSUME NEW n \in Nat, NEW f \in [1 .. n -> Nat], NEW c \in Nat, NEW d \in Nat, c <= d
    PROVE  Cardinality(Lower(f, n, c)) <= Cardinality(Lower(f, n, d))
<1>1. Lower(f, n, d) \in SUBSET (1 .. n)
  BY DEF Lower
<1>2. Lower(f, n, c) \in SUBSET Lower(f, n, d)
  BY DEF Lower
<1>3. QED
  BY <1>1, <1>2, LargerPart

LEMMA RanksAreGrouped ==
    ASSUME NEW n \in Nat, NEW f \in [1 .. n -> Nat], NEW k \in 1 .. n, NEW c \in Nat,
           Rank(f, n, k) \in Cardinality(Lower(f, n, c)) + 1 .. Cardinality(Lower(f, n, c + 1))
    PROVE  f[k] = c
<1> DEFINE r == Rank(f, n, k)
           low(x) == Cardinality(Lower(f, n, x))
<1>1. f[k] \in Nat /\ f[k] + 1 \in Nat /\ c + 1 \in Nat
  OBVIOUS
<1>2. r \in 1 .. n /\ low(f[k]) < r /\ r <= low(f[k] + 1)
  BY RankIsPosition
<1>3. \A x \in Nat : low(x) \in 0 .. n
  BY LowerCount
<1>4. \A x, y \in Nat : x <= y => low(x) <= low(y)
  BY LowerGrows
<1>5. r \in low(c) + 1 .. low(c + 1)
  OBVIOUS
<1> HIDE DEF r, low
<1>6. ~(f[k] < c)
  <2>1. f[k] + 1 <= c => low(f[k] + 1) <= low(c)
    BY <1>1, <1>4
  <2>2. low(c) \in 0 .. n /\ low(f[k] + 1) \in 0 .. n
    BY <1>1, <1>3
  <2>3. ~(f[k] + 1 <= c)
    BY <1>2, <1>5, <2>1, <2>2
  <2>4. QED
    BY <1>1, <2>3
<1>7. ~(c < f[k])
  <2>1. c + 1 <= f[k] => low(c + 1) <= low(f[k])
    BY <1>1, <1>4
  <2>2. low(f[k]) \in 0 .. n /\ low(c + 1) \in 0 .. n
    BY <1>1, <1>3
  <2>3. ~(c + 1 <= f[k])
    BY <1>2, <1>5, <2>1, <2>2
  <2>4. QED
    BY <1>1, <2>3
<1>8. QED
  BY <1>1, <1>6, <1>7

-----------------------------------------------------------------------------
(* The edges main has read, by their positions in the input.               *)
Known == 1 .. readPos
Distinct(s) == \A k, m \in DOMAIN s : s[k] = s[m] => k = m
Sorting(w) == pc[w] \in {"lock", "store", "commit"}
Alone == mainPc \in {"column", "row", "done"}

(* A buffer holds different edges, and a task has all those of its buffer. *)
Contents ==
    /\ buffers \in [Buffers -> Seq(Nat)]
    /\ \A b \in Buffers : Ids(buffers[b]) \subseteq Known /\ Distinct(buffers[b])
    /\ mainPc \in {"occupy", "push"} => bytes = Len(buffers[cursor])
    /\ \A k \in DOMAIN tasks : tasks[k] # Pill => tasks[k].bytes = Len(buffers[tasks[k].cursor])
    /\ \A w \in Workers : Reading(w) => task[w].bytes = Len(buffers[task[w].cursor])

(* What the two passes make of a buffer: how many edges there are up to    *)
(* each cell, and then the edges in the order of their cells.              *)
UpTo(s, c) == {k \in DOMAIN s : CellOf(s[k]) <= c}
Counted(w) == \A c \in Cells : ends[w][c] = Cardinality(UpTo(buffers[task[w].cursor], c))
Sorted(w) ==
    /\ local[w] \in Seq(Nat) /\ Ids(local[w]) \subseteq Known /\ Distinct(local[w])
    /\ \A c \in Cells : /\ ends[w][c] \in 0 .. Len(local[w])
                        /\ Start(w, c) \in 0 .. ends[w][c]
                        /\ \A p \in Start(w, c) + 1 .. ends[w][c] : CellOf(local[w][p]) = c
    /\ ends[w][LastCell] = Len(local[w])

LEMMA Chunks ==
    ASSUME Types, Contents, NEW w \in Workers, Reading(w)
    PROVE  /\ Chunk(w) = buffers[task[w].cursor]
           /\ task[w].cursor \in Buffers
           /\ buffers[task[w].cursor] \in Seq(Nat)
           /\ Ids(buffers[task[w].cursor]) \subseteq Known
           /\ Distinct(buffers[task[w].cursor])
<1>1. task[w].cursor \in Buffers
  BY DEF Types, Reading, Working
<1>2. \A s \in Seq(Nat) : SubSeq(s, 1, Len(s)) = s
  OBVIOUS
<1>3. QED
  BY <1>1, <1>2 DEF Contents, Chunk

LEMMA ScatterSorts ==
    ASSUME Types, Contents, NEW w \in Workers, Counted(w), Scatter(w), DOMAIN local = Workers
    PROVE  /\ Sorted(w)'
           /\ Ids(local'[w]) = Ids(buffers[task[w].cursor])
<1> DEFINE s == buffers[task[w].cursor]
           n == Len(s)
           f == [k \in 1 .. n |-> CellOf(s[k])]
           h == [p \in DOMAIN s |-> CHOOSE k \in DOMAIN s : Rank(f, n, k) = p]
           t == [p \in DOMAIN s |-> s[h[p]]]
<1>1. pc[w] = "scatter" /\ Reading(w)
  BY DEF Scatter, Reading
<1>2. Chunk(w) = s /\ s \in Seq(Nat) /\ Ids(s) \subseteq Known /\ Distinct(s)
  BY <1>1, Chunks
<1>3. n \in Nat /\ DOMAIN s = 1 .. n
  BY <1>2
<1>4. f \in [1 .. n -> Nat] /\ \A k \in 1 .. n : f[k] \in Cells
  <2>1. \A k \in 1 .. n : s[k] \in Known
    BY <1>2, <1>3 DEF Ids
  <2>2. Known \subseteq 1 .. Len(input)
    BY DEF Types, TypeOK, Known
  <2>3. \A k \in 1 .. n : CellOf(s[k]) \in Cells
    BY <2>1, <2>2, EdgesHaveCells
  <2>4. Cells \subseteq Nat
    BY CellRange
  <2> HIDE DEF s, n
  <2>5. QED
    BY <2>3, <2>4
<1>5. \A c \in Cells : ends[w][c] = Cardinality(Lower(f, n, c + 1))
  <2> SUFFICES ASSUME NEW c \in Cells PROVE ends[w][c] = Cardinality(Lower(f, n, c + 1))
    OBVIOUS
  <2>1. ends[w][c] = Cardinality({k \in DOMAIN s : CellOf(s[k]) <= c})
    BY DEF Counted, UpTo
  <2>2. {k \in DOMAIN s : CellOf(s[k]) <= c} = Lower(f, n, c + 1)
    <3>1. \A k \in 1 .. n : f[k] \in Nat /\ CellOf(s[k]) = f[k]
      BY <1>4
    <3>2. c \in Nat
      BY CellRange
    <3> HIDE DEF s, n, f
    <3>3. \A k \in 1 .. n : CellOf(s[k]) <= c <=> f[k] < c + 1
      BY <3>1, <3>2
    <3>4. QED
      BY <1>3, <3>3 DEF Lower
  <2>3. QED
    BY <2>1, <2>2
<1>6. \A c \in Cells : Start(w, c) = Cardinality(Lower(f, n, c))
  <2> SUFFICES ASSUME NEW c \in Cells PROVE Start(w, c) = Cardinality(Lower(f, n, c))
    OBVIOUS
  <2> HIDE DEF s, n, f
  <2>1. CASE c = 0
    <3>1. Lower(f, n, 0) = {}
      BY <1>4 DEF Lower
    <3>2. QED
      BY <2>1, <3>1, FS_EmptySet DEF Start
  <2>2. CASE c # 0
    <3>1. c - 1 \in Cells /\ (c - 1) + 1 = c
      BY <2>2, CellRange
    <3>2. ends[w][c - 1] = Cardinality(Lower(f, n, (c - 1) + 1))
      BY <1>5, <3>1
    <3>3. QED
      BY <2>2, <3>1, <3>2 DEF Start
  <2>3. QED
    BY <2>1, <2>2
<1>7. \A k \in 1 .. n : Position(w, k) = Rank(f, n, k)
  <2> SUFFICES ASSUME NEW k \in 1 .. n PROVE Position(w, k) = Rank(f, n, k)
    OBVIOUS
  <2>1. CellOf(s[k]) = f[k] /\ f[k] \in Cells
    BY <1>4
  <2>2. {m \in 1 .. k : CellOf(s[m]) = f[k]} = {m \in 1 .. k : f[m] = f[k]}
    <3>1. \A m \in 1 .. k : m \in 1 .. n
      BY <1>3
    <3>2. \A m \in 1 .. n : f[m] = CellOf(s[m])
      OBVIOUS
    <3> HIDE DEF s, n, f
    <3>3. QED
      BY <3>1, <3>2
  <2>3. Position(w, k) = Start(w, f[k]) + Cardinality({m \in 1 .. k : CellOf(s[m]) = f[k]})
    <3> HIDE DEF s, n, f
    <3>1. QED
      BY <1>2, <2>1 DEF Position
  <2> HIDE DEF s, n, f
  <2>4. Rank(f, n, k) = Cardinality(Lower(f, n, f[k])) + Cardinality({m \in 1 .. k : f[m] = f[k]})
    BY <1>3, <1>4, RankIsPosition
  <2>5. QED
    BY <1>6, <2>1, <2>2, <2>3, <2>4
<1>8. local'[w] = t /\ ends' = ends /\ readPos' = readPos /\ input' = input
  <2>1. local'[w] = [p \in DOMAIN s |-> s[CHOOSE k \in DOMAIN s : Position(w, k) = p]]
    <3> HIDE DEF s
    <3>1. local' = [local EXCEPT ![w] =
             [p \in DOMAIN s |-> s[CHOOSE k \in DOMAIN s : Position(w, k) = p]]]
      BY <1>2 DEF Scatter
    <3>2. QED
      BY <3>1
  <2>2. \A p \in DOMAIN s : (CHOOSE k \in DOMAIN s : Position(w, k) = p) = h[p]
    <3> SUFFICES ASSUME NEW p \in DOMAIN s
                 PROVE  (CHOOSE k \in DOMAIN s : Position(w, k) = p) = h[p]
      OBVIOUS
    <3>1. h[p] = CHOOSE k \in DOMAIN s : Rank(f, n, k) = p
      OBVIOUS
    <3>2. \A k \in DOMAIN s : Position(w, k) = Rank(f, n, k)
      BY <1>3, <1>7
    <3> HIDE DEF s, n, f, h
    <3>3. (CHOOSE k \in DOMAIN s : Position(w, k) = p) = CHOOSE k \in DOMAIN s : Rank(f, n, k) = p
      BY <3>2
    <3>4. QED
      BY <3>1, <3>3
  <2>3. local'[w] = t
    <3> HIDE DEF s, n, h
    <3>1. QED
      BY <2>1, <2>2
  <2>4. QED
    BY <2>3 DEF Scatter, mainVars
<1> HIDE DEF s, n, f
<1>9. \A p \in 1 .. n : h[p] \in 1 .. n /\ Rank(f, n, h[p]) = p
  <2> SUFFICES ASSUME NEW p \in 1 .. n PROVE h[p] \in 1 .. n /\ Rank(f, n, h[p]) = p
    OBVIOUS
  <2>1. h[p] = CHOOSE k \in DOMAIN s : Rank(f, n, k) = p
    BY <1>3
  <2>2. \E k \in DOMAIN s : Rank(f, n, k) = p
    <3>1. \E k \in 1 .. n : Rank(f, n, k) = p
      BY <1>3, <1>4, RanksCover
    <3>2. QED
      BY <1>3, <3>1
  <2> HIDE DEF h
  <2>3. h[p] \in DOMAIN s /\ Rank(f, n, h[p]) = p
    BY <2>1, <2>2
  <2>4. QED
    BY <1>3, <2>3
<1>10. \A k \in 1 .. n : Rank(f, n, k) \in 1 .. n /\ h[Rank(f, n, k)] = k
  <2>1. \A k \in 1 .. n : Rank(f, n, k) \in 1 .. n
    BY <1>3, <1>4, RankIsPosition
  <2> HIDE DEF h
  <2>2. QED
    BY <1>3, <1>4, <1>9, <2>1, RanksDiffer
<1> HIDE DEF h
<1>20. \A p \in 1 .. n : t[p] = s[h[p]]
  BY <1>3
<1>11. t \in Seq(Nat) /\ Len(t) = n /\ DOMAIN t = 1 .. n
  <2>1. \A p \in 1 .. n : s[h[p]] \in Nat
    BY <1>2, <1>3, <1>9
  <2>2. QED
    BY <1>3, <2>1
<1>12. Ids(t) = Ids(s)
  <2>1. \A p \in 1 .. n : t[p] \in Ids(s)
    BY <1>3, <1>9 DEF Ids
  <2>2. \A k \in 1 .. n : s[k] = t[Rank(f, n, k)] /\ Rank(f, n, k) \in 1 .. n
    BY <1>10, <1>20
  <2> HIDE DEF t
  <2>3. Ids(t) \subseteq Ids(s)
    BY <1>11, <2>1 DEF Ids
  <2>4. Ids(s) \subseteq Ids(t)
    BY <1>3, <1>11, <2>2 DEF Ids
  <2>5. QED
    BY <2>3, <2>4
<1>13. Distinct(t)
  <2> SUFFICES ASSUME NEW p \in 1 .. n, NEW q \in 1 .. n, t[p] = t[q] PROVE p = q
    BY <1>11 DEF Distinct
  <2>1. s[h[p]] = s[h[q]]
    BY <1>20
  <2>2. h[p] = h[q]
    BY <1>2, <1>3, <1>9, <2>1 DEF Distinct
  <2>3. QED
    BY <1>9, <2>2
<1>14. ASSUME NEW c \in Cells
       PROVE  /\ ends[w][c] \in 0 .. n /\ Start(w, c) \in 0 .. ends[w][c]
              /\ \A p \in Start(w, c) + 1 .. ends[w][c] : CellOf(t[p]) = c
  <2>1. c \in Nat /\ c + 1 \in Nat /\ c <= c + 1
    BY CellRange
  <2>2. /\ Cardinality(Lower(f, n, c)) \in 0 .. n /\ Cardinality(Lower(f, n, c + 1)) \in 0 .. n
        /\ Cardinality(Lower(f, n, c)) <= Cardinality(Lower(f, n, c + 1))
    BY <1>3, <1>4, <2>1, LowerCount, LowerGrows
  <2>3. ends[w][c] \in 0 .. n /\ Start(w, c) \in 0 .. ends[w][c]
    BY <1>5, <1>6, <2>2
  <2>4. ASSUME NEW p \in Start(w, c) + 1 .. ends[w][c] PROVE CellOf(t[p]) = c
    <3>1. p \in 1 .. n
      BY <2>3, <1>3
    <3>2. h[p] \in 1 .. n /\ Rank(f, n, h[p]) \in Cardinality(Lower(f, n, c)) + 1 .. Cardinality(Lower(f, n, c + 1))
      BY <1>5, <1>6, <1>9, <3>1
    <3>3. f[h[p]] = c
      BY <1>3, <1>4, <2>1, <3>2, RanksAreGrouped
    <3>4. f[h[p]] = CellOf(s[h[p]])
      BY <3>2 DEF f
    <3>5. QED
      BY <1>20, <3>1, <3>3, <3>4
  <2>5. QED
    BY <2>3, <2>4
<1>15. ends[w][LastCell] = n
  <2>1. LastCell \in Cells
    BY CellRange
  <2>2. Lower(f, n, LastCell + 1) = 1 .. n
    BY <1>4, CellRange DEF Lower
  <2>3. QED
    BY <1>3, <1>5, <2>1, <2>2, FS_Interval
<1> HIDE DEF t
<1>16. \A x : CellOf(x)' = CellOf(x)
  BY <1>8 DEF CellOf, Edge
<1>17. \A c : Start(w, c)' = Start(w, c)
  BY <1>8 DEF Start
<1>18. Sorted(w)'
  BY <1>2, <1>8, <1>11, <1>12, <1>13, <1>14, <1>15, <1>16, <1>17 DEF Sorted, Known
<1>19. QED
  BY <1>8, <1>12, <1>18 DEF s

-----------------------------------------------------------------------------
(* Sequences put one behind the other.                                     *)
LEMMA Concatenated ==
    ASSUME NEW s \in Seq(Nat), NEW t \in Seq(Nat)
    PROVE  /\ s \o t \in Seq(Nat)
           /\ Ids(s \o t) = Ids(s) \union Ids(t)
           /\ Distinct(s \o t) <=> Distinct(s) /\ Distinct(t) /\ Ids(s) \intersect Ids(t) = {}
<1> DEFINE u == s \o t
<1>1. u \in Seq(Nat) /\ DOMAIN u = 1 .. Len(s) + Len(t) /\ Len(s) \in Nat /\ Len(t) \in Nat
      /\ DOMAIN s = 1 .. Len(s) /\ DOMAIN t = 1 .. Len(t)
  OBVIOUS
<1>2. \A k \in 1 .. Len(s) : k \in DOMAIN u /\ u[k] = s[k]
  OBVIOUS
<1>3. \A k \in 1 .. Len(t) : Len(s) + k \in DOMAIN u /\ u[Len(s) + k] = t[k]
  OBVIOUS
<1>4. \A k \in DOMAIN u : k \in 1 .. Len(s) \/ (k - Len(s) \in 1 .. Len(t) /\ u[k] = t[k - Len(s)])
  OBVIOUS
<1> HIDE DEF u
<1>5. Ids(u) = Ids(s) \union Ids(t)
  <2>1. Ids(u) \subseteq Ids(s) \union Ids(t)
    BY <1>1, <1>2, <1>4 DEF Ids
  <2>2. Ids(s) \subseteq Ids(u)
    BY <1>1, <1>2 DEF Ids
  <2>3. Ids(t) \subseteq Ids(u)
    BY <1>1, <1>3 DEF Ids
  <2>4. QED
    BY <2>1, <2>2, <2>3
<1>6. ASSUME Distinct(u) PROVE Distinct(s) /\ Distinct(t) /\ Ids(s) \intersect Ids(t) = {}
  <2>1. Distinct(s)
    BY <1>1, <1>2, <1>6 DEF Distinct
  <2>2. Distinct(t)
    <3> SUFFICES ASSUME NEW k \in 1 .. Len(t), NEW m \in 1 .. Len(t), t[k] = t[m] PROVE k = m
      BY <1>1 DEF Distinct
    <3>1. Len(s) + k = Len(s) + m
      BY <1>3, <1>6 DEF Distinct
    <3>2. QED
      BY <1>1, <3>1
  <2>3. ASSUME NEW k \in 1 .. Len(s), NEW m \in 1 .. Len(t) PROVE s[k] # t[m]
    <3>1. k # Len(s) + m
      BY <1>1
    <3>2. u[k] # u[Len(s) + m]
      BY <1>2, <1>3, <1>6, <3>1 DEF Distinct
    <3>3. QED
      BY <1>2, <1>3, <3>2
  <2>4. QED
    BY <1>1, <2>1, <2>2, <2>3 DEF Ids
<1>7. ASSUME Distinct(s), Distinct(t), Ids(s) \intersect Ids(t) = {} PROVE Distinct(u)
  <2> SUFFICES ASSUME NEW k \in DOMAIN u, NEW m \in DOMAIN u, u[k] = u[m] PROVE k = m
    BY DEF Distinct
  <2>0. \A x \in 1 .. Len(s), y \in 1 .. Len(t) : s[x] # t[y]
    BY <1>1, <1>7 DEF Ids
  <2>1. CASE k \in 1 .. Len(s) /\ m \in 1 .. Len(s)
    BY <1>1, <1>2, <1>7, <2>1 DEF Distinct
  <2>2. CASE k \notin 1 .. Len(s) /\ m \notin 1 .. Len(s)
    <3>1. k - Len(s) \in DOMAIN t /\ m - Len(s) \in DOMAIN t /\ t[k - Len(s)] = t[m - Len(s)]
      BY <1>1, <1>4, <2>2
    <3>2. k - Len(s) = m - Len(s)
      BY <1>7, <3>1 DEF Distinct
    <3>3. QED
      BY <1>1, <3>2
  <2>3. CASE k \in 1 .. Len(s) /\ m \notin 1 .. Len(s)
    BY <1>2, <1>4, <2>0, <2>3
  <2>4. CASE k \notin 1 .. Len(s) /\ m \in 1 .. Len(s)
    BY <1>2, <1>4, <2>0, <2>4
  <2>5. QED
    BY <2>1, <2>2, <2>3, <2>4
<1>8. QED
  BY <1>1, <1>5, <1>6, <1>7 DEF u

(* A run put between what a file has and what its buffer has.              *)
LEMMA Inserted ==
    ASSUME NEW s \in Seq(Nat), NEW r \in Seq(Nat), NEW t \in Seq(Nat),
           Distinct(s \o t), Distinct(r), Ids(s \o t) \intersect Ids(r) = {}
    PROVE  /\ Ids((s \o r) \o t) = Ids(s \o t) \union Ids(r)
           /\ Distinct((s \o r) \o t)
<1>1. s \o r \in Seq(Nat) /\ Ids(s \o r) = Ids(s) \union Ids(r) /\ Ids(s \o t) = Ids(s) \union Ids(t)
  BY Concatenated
<1>2. Distinct(s) /\ Distinct(t) /\ Ids(s) \intersect Ids(t) = {}
  BY Concatenated
<1>3. Distinct(s \o r)
  BY <1>1, <1>2, Concatenated
<1>4. Ids((s \o r) \o t) = Ids(s \o r) \union Ids(t)
      /\ (Distinct((s \o r) \o t) <=> Distinct(s \o r) /\ Distinct(t) /\ Ids(s \o r) \intersect Ids(t) = {})
  BY <1>1, Concatenated
<1>5. QED
  BY <1>1, <1>2, <1>3, <1>4

(* The run of a cell, and the edges that follow the first n of local_buffer*)
Rest(w, n) == {local[w][p] : p \in n + 1 .. Len(local[w])}

LEMMA Runs ==
    ASSUME NEW w \in Workers, Sorted(w), ij[w] \in Cells
    PROVE  /\ Run(w) \in Seq(Nat) /\ Distinct(Run(w)) /\ Ids(Run(w)) \subseteq Known
           /\ \A e \in Ids(Run(w)) : CellOf(e) = ij[w]
           /\ Rest(w, Start(w, ij[w])) = Ids(Run(w)) \union Rest(w, ends[w][ij[w]])
           /\ Ids(Run(w)) \intersect Rest(w, ends[w][ij[w]]) = {}
           /\ Len(Run(w)) = 0 => Start(w, ij[w]) = ends[w][ij[w]]
           /\ Len(Run(w)) = 0 => Ids(Run(w)) = {}
           /\ Len(Run(w)) = 1 => Ids(Run(w)) = {Run(w)[1]} /\ Run(w)[1] \in Nat
<1> DEFINE l == local[w]
           a == Start(w, ij[w])
           z == ends[w][ij[w]]
           r == Run(w)
<1>1. l \in Seq(Nat) /\ Ids(l) \subseteq Known /\ Distinct(l)
  BY DEF Sorted
<1>2. z \in 0 .. Len(l) /\ a \in 0 .. z /\ \A p \in a + 1 .. z : CellOf(l[p]) = ij[w]
  BY DEF Sorted
<1>3. r = SubSeq(l, a + 1, z)
  BY DEF Run
<1>4. Rest(w, a) = {l[p] : p \in a + 1 .. Len(l)} /\ Rest(w, z) = {l[p] : p \in z + 1 .. Len(l)}
  BY DEF Rest
<1> HIDE DEF l, a, z, r
<1>5. Len(l) \in Nat /\ DOMAIN l = 1 .. Len(l) /\ a \in Nat /\ z \in Nat
  BY <1>1, <1>2
<1>6. /\ r \in Seq(Nat) /\ Len(r) = z - a /\ DOMAIN r = 1 .. z - a
      /\ \A k \in 1 .. z - a : r[k] = l[a + k]
  BY <1>1, <1>2, <1>3
<1>7. Ids(r) = {l[p] : p \in a + 1 .. z}
  <2>1. \A k \in 1 .. z - a : a + k \in a + 1 .. z
    BY <1>5
  <2>2. \A p \in a + 1 .. z : p - a \in 1 .. z - a /\ r[p - a] = l[p]
    <3> SUFFICES ASSUME NEW p \in a + 1 .. z PROVE p - a \in 1 .. z - a /\ r[p - a] = l[p]
      OBVIOUS
    <3>1. p - a \in 1 .. z - a /\ a + (p - a) = p
      BY <1>5
    <3>2. QED
      BY <1>6, <3>1
  <2>3. Ids(r) \subseteq {l[p] : p \in a + 1 .. z}
    BY <1>6, <2>1 DEF Ids
  <2>4. {l[p] : p \in a + 1 .. z} \subseteq Ids(r)
    BY <1>6, <2>2 DEF Ids
  <2>5. QED
    BY <2>3, <2>4
<1>8. Distinct(r)
  <2> SUFFICES ASSUME NEW k \in 1 .. z - a, NEW m \in 1 .. z - a, r[k] = r[m] PROVE k = m
    BY <1>6 DEF Distinct
  <2>1. l[a + k] = l[a + m] /\ a + k \in DOMAIN l /\ a + m \in DOMAIN l
    BY <1>2, <1>5, <1>6
  <2>2. a + k = a + m
    BY <1>1, <2>1 DEF Distinct
  <2>3. QED
    BY <1>5, <2>2
<1>9. Ids(r) \subseteq Known
  <2>1. \A p \in a + 1 .. z : p \in DOMAIN l
    BY <1>2, <1>5
  <2>2. QED
    BY <1>1, <1>7, <2>1 DEF Ids
<1>10. Rest(w, a) = Ids(r) \union Rest(w, z)
  <2>1. \A p : p \in a + 1 .. Len(l) <=> (p \in a + 1 .. z \/ p \in z + 1 .. Len(l))
    BY <1>2, <1>5
  <2>2. QED
    BY <1>4, <1>7, <2>1
<1>11. Ids(r) \intersect Rest(w, z) = {}
  <2>1. ASSUME NEW p \in a + 1 .. z, NEW q \in z + 1 .. Len(l) PROVE l[p] # l[q]
    <3>1. p \in DOMAIN l /\ q \in DOMAIN l /\ p # q
      BY <1>2, <1>5
    <3>2. QED
      BY <1>1, <3>1 DEF Distinct
  <2>2. QED
    BY <1>4, <1>7, <2>1
<1>12. Len(r) = 0 => a = z /\ Ids(r) = {}
  BY <1>5, <1>6 DEF Ids
<1>13. ASSUME Len(r) = 1 PROVE Ids(r) = {r[1]} /\ r[1] \in Nat
  <2>0. r \in Seq(Nat)
    BY <1>6
  <2>1. DOMAIN r = {1}
    BY <1>13, <2>0
  <2>2. Ids(r) = {r[1]}
    BY <2>1 DEF Ids
  <2>3. r[1] \in Nat
    <3>1. \A k \in DOMAIN r : r[k] \in Nat
      BY <2>0
    <3>2. QED
      BY <2>1, <3>1
  <2>4. QED
    BY <2>2, <2>3
<1>14. \A e \in Ids(r) : CellOf(e) = ij[w]
  BY <1>2, <1>7
<1>15. QED
  BY <1>6, <1>8, <1>9, <1>10, <1>11, <1>12, <1>13, <1>14 DEF a, z, r

-----------------------------------------------------------------------------
(* Where each worker is: the passes done so far, and the cell it holds.    *)
InPlace(w) ==
    /\ pc[w] = "scatter" => Counted(w)
    /\ Sorting(w) => Sorted(w)
    /\ pc[w] \in {"store", "commit"} => mutexes[ij[w]] = w
    /\ pc[w] = "commit" /\ Len(Run(w)) = 1 =>
          gridBuffer[ij[w]][gridOffset[ij[w]] + 1] = Run(w)[1]
Progress ==
    /\ DOMAIN ends = Workers /\ DOMAIN local = Workers
    /\ \A w \in Workers : InPlace(w)
    /\ Alone => \A w \in Workers : pc[w] = "exited"

Filed ==
    /\ block \in [Cells -> Seq(Nat)]
    /\ gridBuffer \in [Cells -> [1 .. GridBufferSize -> Nat \union {NoEdge}]]
    /\ \A c \in Cells :
          /\ Buffered(c) \in Seq(Nat)
          /\ Distinct(InBlock(c))
          /\ \A e \in Ids(InBlock(c)) : CellOf(e) = c

(* The edges on their way in the buffer b: queued or about to be, or with  *)
(* the worker that sorts them.  An edge main has read is in one buffer or  *)
(* in the file of one cell.                                                *)
Waiting(b) ==
    \/ mainPc \in {"occupy", "push"} /\ cursor = b
    \/ \E k \in DOMAIN tasks : tasks[k].cursor = b
Carried(b) ==
    {e \in Nat : \/ Waiting(b) /\ e \in Ids(buffers[b])
                 \/ \E w \in Workers : task[w].cursor = b /\ e \in Outgoing(w)}
OnePlace(C, F, n) ==
    /\ \A b \in Buffers : C[b] \subseteq 1 .. n
    /\ \A c \in Cells : F[c] \subseteq 1 .. n
    /\ \A a, b \in Buffers : a # b => C[a] \intersect C[b] = {}
    /\ \A b \in Buffers, c \in Cells : C[b] \intersect F[c] = {}
    /\ \A e \in 1 .. n : (\E b \in Buffers : e \in C[b]) \/ \E c \in Cells : e \in F[c]
Carriage == [b \in Buffers |-> Carried(b)]
Written == [c \in Cells |-> Ids(InBlock(c))]
Located == OnePlace(Carriage, Written, readPos)

EdgesIInv == Contents /\ Progress /\ Filed /\ Located

LEMMA OutgoingIs ==
    ASSUME NEW w \in Workers
    PROVE  /\ Sorting(w) => Outgoing(w) = Rest(w, HandedOn(w))
           /\ Reading(w) => Outgoing(w) = Ids(Chunk(w))
           /\ ~Working(w) => Outgoing(w) = {}
           /\ pc[w] = "release" => Outgoing(w) = {}
BY DEF Outgoing, Sorting, Reading, Working, Rest

(* A step that leaves alone what a worker uses leaves it in its place.     *)
LEMMA Undisturbed ==
    ASSUME NEW v \in Workers, InPlace(v), input' = input,
           readPos \in Nat, readPos' \in Nat, readPos <= readPos',
           pc'[v] = pc[v], task'[v] = task[v], ends'[v] = ends[v], local'[v] = local[v], ij'[v] = ij[v],
           Reading(v) => buffers'[task[v].cursor] = buffers[task[v].cursor],
           pc[v] \in {"store", "commit"} =>
              /\ mutexes'[ij[v]] = mutexes[ij[v]] /\ gridBuffer'[ij[v]] = gridBuffer[ij[v]]
              /\ gridOffset'[ij[v]] = gridOffset[ij[v]]
    PROVE  InPlace(v)' /\ Outgoing(v)' = Outgoing(v)
<1>1. \A e : CellOf(e)' = CellOf(e)
  BY DEF CellOf, Edge
<1>2. \A c : Start(v, c)' = Start(v, c)
  BY DEF Start
<1>3. Run(v)' = Run(v)
  BY <1>2 DEF Run
<1>4. pc[v] = "scatter" => Counted(v)'
  <2> SUFFICES ASSUME pc[v] = "scatter" PROVE Counted(v)'
    OBVIOUS
  <2>1. Counted(v)
    BY DEF InPlace
  <2>2. buffers'[task'[v].cursor] = buffers[task[v].cursor]
    BY DEF Reading
  <2>3. \A s, c : UpTo(s, c)' = UpTo(s, c)
    BY <1>1 DEF UpTo
  <2>4. QED
    BY <2>1, <2>2, <2>3 DEF Counted
<1>5. Sorting(v) => Sorted(v)'
  <2>1. Known \subseteq Known'
    BY DEF Known
  <2>2. QED
    BY <1>1, <1>2, <2>1 DEF Sorted, InPlace
<1>6. InPlace(v)'
  BY <1>3, <1>4, <1>5 DEF InPlace, Sorting
<1>7. Outgoing(v)' = Outgoing(v)
  <2>1. Reading(v) => Chunk(v)' = Chunk(v)
    BY DEF Chunk
  <2>2. HandedOn(v)' = HandedOn(v)
    BY <1>2, <1>3 DEF HandedOn
  <2>3. QED
    BY <2>1, <2>2 DEF Outgoing, Reading
<1>8. QED
  BY <1>6, <1>7

(* What is in its place stays there.                                       *)
LEMMA SamePlaces ==
    ASSUME Located, readPos' = readPos,
           \A b \in Buffers : Carried(b)' = Carried(b),
           \A c \in Cells : InBlock(c)' = InBlock(c)
    PROVE  Located'
<1>1. Carriage' = Carriage
  BY DEF Carriage
<1>2. Written' = Written
  BY DEF Written
<1>3. QED
  BY <1>1, <1>2 DEF Located

LEMMA SameFiles ==
    ASSUME Filed, input' = input, UNCHANGED fileVars, (Alone)' <=> Alone
    PROVE  Filed' /\ \A c \in Cells : InBlock(c)' = InBlock(c)
<1>1. \A c \in Cells : Buffered(c)' = Buffered(c)
  BY DEF fileVars, Buffered
<1>2. \A c \in Cells : InBlock(c)' = InBlock(c)
  BY <1>1 DEF fileVars, InBlock, Alone
<1>3. \A e : CellOf(e)' = CellOf(e)
  BY DEF CellOf, Edge
<1>4. QED
  BY <1>1, <1>2, <1>3 DEF Filed, fileVars

LEMMA InitEdges == Init => EdgesIInv
<1> SUFFICES ASSUME Init PROVE EdgesIInv
  OBVIOUS
<1> USE DEF Init
<1>1. Contents
  <2>1. << >> \in Seq(Nat) /\ Ids(<< >>) = {} /\ Distinct(<< >>)
    BY DEF Ids, Distinct
  <2>2. DOMAIN tasks = {}
    OBVIOUS
  <2>3. QED
    BY <2>1, <2>2 DEF Contents, Reading
<1>2. Progress
  BY DEF Progress, InPlace, Sorting, Alone
<1>3. \A c \in Cells : Buffered(c) = << >> /\ InBlock(c) = << >>
  <2>1. \A c \in Cells : Buffered(c) = << >>
    BY DEF Buffered
  <2>2. \A c \in Cells : block[c] \o << >> = << >>
    OBVIOUS
  <2>3. QED
    BY <2>1, <2>2 DEF InBlock
<1>4. Filed
  <2>1. << >> \in Seq(Nat) /\ Ids(<< >>) = {} /\ Distinct(<< >>)
    BY DEF Ids, Distinct
  <2>2. block \in [Cells -> Seq(Nat)]
    BY <2>1
  <2>3. gridBuffer \in [Cells -> [1 .. GridBufferSize -> Nat \union {NoEdge}]]
    OBVIOUS
  <2> HIDE DEF Init
  <2>4. QED
    BY <1>3, <2>1, <2>2, <2>3 DEF Filed
<1>5. \A c \in Cells : Written[c] = {}
  BY <1>3 DEF Written, Ids
<1>6. \A b \in Buffers : Carriage[b] = {}
  <2>1. \A w \in Workers : Outgoing(w) = {}
    BY DEF Outgoing, Reading
  <2>2. \A b \in Buffers : ~Waiting(b)
    BY DEF Waiting
  <2>3. QED
    BY <2>1, <2>2 DEF Carriage, Carried
<1>7. Located
  BY <1>5, <1>6 DEF Located, OnePlace
<1>8. QED
  BY <1>1, <1>2, <1>4, <1>7 DEF EdgesIInv

-----------------------------------------------------------------------------
(* The steps of main before the joins.                                     *)
LEMMA MainFrame ==
    ASSUME Types, EdgesIInv, (Alone)' <=> Alone,
           UNCHANGED <<input, readPos, buffers, workerVars, fileVars>>
    PROVE  /\ Progress' /\ Filed'
           /\ \A c \in Cells : InBlock(c)' = InBlock(c)
           /\ \A w \in Workers : Outgoing(w)' = Outgoing(w)
<1>1. readPos \in Nat
  BY DEF Types, TypeOK
<1>2. \A w \in Workers : InPlace(w)' /\ Outgoing(w)' = Outgoing(w)
  BY <1>1, Undisturbed DEF EdgesIInv, Progress, workerVars, fileVars
<1>3. Progress'
  BY <1>2 DEF EdgesIInv, Progress, workerVars
<1>4. Filed' /\ \A c \in Cells : InBlock(c)' = InBlock(c)
  BY SameFiles DEF EdgesIInv
<1>5. QED
  BY <1>2, <1>3, <1>4

LEMMA MainSamePlaces ==
    ASSUME Types, EdgesIInv, (Alone)' <=> Alone, Contents',
           UNCHANGED <<input, readPos, buffers, workerVars, fileVars>>,
           \A b \in Buffers : Waiting(b)' <=> Waiting(b)
    PROVE  EdgesIInv'
<1>1. /\ Progress' /\ Filed'
      /\ \A c \in Cells : InBlock(c)' = InBlock(c)
      /\ \A w \in Workers : Outgoing(w)' = Outgoing(w)
  BY MainFrame
<1>2. \A b \in Buffers : Carried(b)' = Carried(b)
  BY <1>1 DEF Carried, workerVars
<1>3. Located'
  BY <1>1, <1>2, SamePlaces DEF EdgesIInv
<1>4. QED
  BY <1>1, <1>3 DEF EdgesIInv

LEMMA OccupyEdges == Types /\ EdgesIInv /\ Occupy => EdgesIInv'
<1> SUFFICES ASSUME Types, EdgesIInv, Occupy PROVE EdgesIInv'
  OBVIOUS
<1>1. /\ mainPc = "occupy" /\ mainPc' = "push"
      /\ UNCHANGED <<input, readPos, cursor, bytes, buffers, tasks, workerVars, fileVars>>
  BY DEF Occupy
<1>2. ~Alone /\ ~(Alone)'
  BY <1>1 DEF Alone
<1>3. Contents'
  BY <1>1 DEF EdgesIInv, Contents, Known, Reading, workerVars
<1>4. \A b \in Buffers : Waiting(b)' <=> Waiting(b)
  BY <1>1 DEF Waiting
<1>5. QED
  BY <1>1, <1>2, <1>3, <1>4, MainSamePlaces

LEMMA PushEdges == Types /\ EdgesIInv /\ Push => EdgesIInv'
<1> SUFFICES ASSUME Types, EdgesIInv, Push PROVE EdgesIInv'
  OBVIOUS
<1> DEFINE t == [cursor |-> cursor, bytes |-> bytes]
<1>1. /\ mainPc = "push" /\ mainPc' = "spin" /\ tasks' = Append(tasks, t)
      /\ UNCHANGED <<input, readPos, cursor, bytes, buffers, workerVars, fileVars>>
  BY DEF Push
<1>2. ~Alone /\ ~(Alone)'
  BY <1>1 DEF Alone
<1>3. t \in Task /\ t.cursor = cursor /\ t.bytes = bytes /\ tasks \in Seq(Task) /\ bytes = Len(buffers[cursor])
  BY <1>1 DEF Types, TypeOK, Task, EdgesIInv, Contents
<1>4. /\ DOMAIN tasks' = DOMAIN tasks \union {Len(tasks) + 1}
      /\ \A k \in DOMAIN tasks : tasks'[k] = tasks[k]
      /\ tasks'[Len(tasks) + 1] = t
  BY <1>1, <1>3, Appended
<1> HIDE DEF t
<1>5. Contents'
  BY <1>1, <1>3, <1>4 DEF EdgesIInv, Contents, Known, Reading, workerVars
<1>6. \A b \in Buffers : Waiting(b)' <=> Waiting(b)
  BY <1>1, <1>3, <1>4 DEF Waiting
<1>7. QED
  BY <1>1, <1>2, <1>5, <1>6, MainSamePlaces

LEMMA SpinEdges == Types /\ EdgesIInv /\ Spin => EdgesIInv'
<1> SUFFICES ASSUME Types, EdgesIInv, Spin PROVE EdgesIInv'
  OBVIOUS
<1>1. /\ mainPc = "spin" /\ mainPc' \in {"spin", "read"}
      /\ UNCHANGED <<input, readPos, bytes, buffers, tasks, workerVars, fileVars>>
  BY DEF Spin
<1>2. ~Alone /\ ~(Alone)'
  BY <1>1 DEF Alone
<1>3. Contents'
  BY <1>1 DEF EdgesIInv, Contents, Known, Reading, workerVars
<1>4. \A b \in Buffers : Waiting(b)' <=> Waiting(b)
  BY <1>1 DEF Waiting
<1>5. QED
  BY <1>1, <1>2, <1>3, <1>4, MainSamePlaces

LEMMA PushPillEdges == Types /\ EdgesIInv /\ PushPill => EdgesIInv'
<1> SUFFICES ASSUME Types, EdgesIInv, PushPill PROVE EdgesIInv'
  OBVIOUS
<1>1. /\ mainPc = "pills" /\ mainPc' \in {"pills", "join"}
      /\ tasks' = tasks \/ tasks' = Append(tasks, Pill)
      /\ UNCHANGED <<input, readPos, cursor, bytes, buffers, workerVars, fileVars>>
  BY DEF PushPill
<1>2. ~Alone /\ ~(Alone)'
  BY <1>1 DEF Alone
<1>3. /\ \A k \in DOMAIN tasks : k \in DOMAIN tasks' /\ tasks'[k] = tasks[k]
      /\ \A k \in DOMAIN tasks' : tasks'[k] = Pill \/ (k \in DOMAIN tasks /\ tasks'[k] = tasks[k])
  <2>1. tasks \in Seq(Task) /\ Pill \in Task
    BY PillIsTask DEF Types
  <2>2. CASE tasks' = tasks
    BY <2>2
  <2>3. CASE tasks' = Append(tasks, Pill)
    BY <2>1, <2>3, Appended
  <2>4. QED
    BY <1>1, <2>2, <2>3
<1>4. Contents'
  BY <1>1, <1>3 DEF EdgesIInv, Contents, Known, Reading, workerVars
<1>5. \A b \in Buffers : Waiting(b)' <=> Waiting(b)
  BY <1>1, <1>3, PillIsTask DEF Waiting
<1>6. QED
  BY <1>1, <1>2, <1>4, <1>5, MainSamePlaces

(* A read takes the next edges into a buffer nobody uses.                  *)
LEMMA ReadEdges == Types /\ BufferOwnership /\ EdgesIInv /\ Read => EdgesIInv'
<1> SUFFICES ASSUME Types, BufferOwnership, EdgesIInv, Read PROVE EdgesIInv'
  OBVIOUS
<1> DEFINE left == Len(input) - readPos
           n == IF left < IOSIZE THEN left ELSE IOSIZE
           s == [k \in 1 .. n |-> readPos + k]
<1>1. mainPc = "read" /\ UNCHANGED <<input, cursor, tasks, workerVars, fileVars>>
  BY DEF Read
<1>2. n \in Nat /\ readPos \in Nat
  BY PreprocessAssumption DEF Types, TypeOK, PreprocessAssumption
<1>3. CASE n = 0
  <2>1. mainPc' = "pills" /\ UNCHANGED <<readPos, bytes, buffers>>
    BY <1>3 DEF Read
  <2>2. ~Alone /\ ~(Alone)'
    BY <1>1, <2>1 DEF Alone
  <2>3. Contents'
    BY <1>1, <2>1 DEF EdgesIInv, Contents, Known, Reading, workerVars
  <2>4. \A b \in Buffers : Waiting(b)' <=> Waiting(b)
    BY <1>1, <2>1 DEF Waiting
  <2>5. QED
    BY <1>1, <2>1, <2>2, <2>3, <2>4, MainSamePlaces
<1>4. CASE n # 0
  <2>1. /\ mainPc' = "occupy" /\ buffers' = [buffers EXCEPT ![cursor] = s]
        /\ readPos' = readPos + n /\ bytes' = n
    BY <1>4 DEF Read
  <2>2. ~Alone /\ ~(Alone)'
    BY <1>1, <2>1 DEF Alone
  <2>3. s \in Seq(Nat) /\ Len(s) = n /\ Ids(s) = readPos + 1 .. readPos + n /\ Distinct(s)
    <3> HIDE DEF n
    <3>1. s \in Seq(Nat) /\ Len(s) = n /\ DOMAIN s = 1 .. n
      BY <1>2
    <3>2. Ids(s) \subseteq readPos + 1 .. readPos + n
      BY <1>2 DEF Ids
    <3>3. \A e \in readPos + 1 .. readPos + n : e - readPos \in 1 .. n /\ s[e - readPos] = e
      BY <1>2
    <3>4. readPos + 1 .. readPos + n \subseteq Ids(s)
      <4> HIDE DEF s
      <4>1. QED
        BY <3>1, <3>3 DEF Ids
    <3>5. Distinct(s)
      BY <1>2 DEF Distinct
    <3>6. QED
      BY <3>1, <3>2, <3>4, <3>5
  <2> HIDE DEF n, s
  <2>4. cursor \in Buffers /\ buffers \in [Buffers -> Seq(Nat)] /\ ~occupied[cursor]
    BY <1>1 DEF Types, TypeOK, EdgesIInv, Contents, BufferOwnership
  <2>5. \A k \in DOMAIN tasks : tasks[k].cursor # cursor
    BY <2>4, PillIsTask DEF BufferOwnership
  <2>6. \A w \in Workers : Working(w) => task[w].cursor # cursor
    BY <2>4 DEF BufferOwnership
  <2>7. /\ buffers' \in [Buffers -> Seq(Nat)] /\ buffers'[cursor] = s
        /\ \A b \in Buffers : b # cursor => buffers'[b] = buffers[b]
    BY <2>1, <2>3, <2>4
  <2>8. Known \subseteq Known' /\ Known' = Known \union (readPos + 1 .. readPos + n)
    BY <1>2, <2>1 DEF Known
  <2>9. Contents'
    <3>1. \A b \in Buffers : Ids(buffers[b]) \subseteq Known /\ Distinct(buffers[b])
      BY DEF EdgesIInv, Contents
    <3>2. \A b \in Buffers : Ids(buffers'[b]) \subseteq Known' /\ Distinct(buffers'[b])
      BY <2>3, <2>7, <2>8, <3>1
    <3>3. \A k \in DOMAIN tasks : tasks[k] # Pill => tasks[k].bytes = Len(buffers'[tasks[k].cursor])
      BY <2>5, <2>7 DEF EdgesIInv, Contents, Types, TypeOK
    <3>4. \A w \in Workers : Reading(w) => task[w].bytes = Len(buffers'[task[w].cursor])
      BY <2>6, <2>7 DEF EdgesIInv, Contents, Types, Reading, Working
    <3>5. QED
      BY <1>1, <2>1, <2>3, <2>7, <3>2, <3>3, <3>4 DEF Contents, Reading, workerVars
  <2>10. \A w \in Workers : InPlace(w)' /\ Outgoing(w)' = Outgoing(w)
    <3> SUFFICES ASSUME NEW w \in Workers PROVE InPlace(w)' /\ Outgoing(w)' = Outgoing(w)
      OBVIOUS
    <3>1. Reading(w) => buffers'[task[w].cursor] = buffers[task[w].cursor]
      BY <2>6, <2>7 DEF Types, Reading, Working
    <3>2. InPlace(w)
      BY DEF EdgesIInv, Progress
    <3>3. readPos' \in Nat /\ readPos <= readPos'
      BY <1>2, <2>1
    <3>4. QED
      BY <1>1, <1>2, <3>1, <3>2, <3>3, Undisturbed DEF workerVars, fileVars
  <2>11. Progress'
    BY <1>1, <2>2, <2>10 DEF EdgesIInv, Progress, workerVars
  <2>12. Filed' /\ \A c \in Cells : InBlock(c)' = InBlock(c)
    BY <1>1, <2>2, SameFiles DEF EdgesIInv
  <2>13. Carried(cursor) = {} /\ Carried(cursor)' = readPos + 1 .. readPos + n
    <3>1. ~Waiting(cursor)
      BY <1>1, <2>5 DEF Waiting
    <3>2. Waiting(cursor)'
      BY <1>1, <2>1 DEF Waiting
    <3>3. \A w \in Workers : task[w].cursor = cursor => Outgoing(w) = {}
      BY <2>6, OutgoingIs
    <3>4. \A w \in Workers : task'[w].cursor = cursor => Outgoing(w)' = {}
      BY <1>1, <2>10, <3>3 DEF workerVars
    <3>5. cursor' = cursor
      BY <1>1
    <3>6. Carried(cursor) = {}
      BY <3>1, <3>3 DEF Carried
    <3>7. Carried(cursor)' = {e \in Nat : e \in Ids(buffers'[cursor])}
      BY <3>2, <3>4, <3>5 DEF Carried
    <3>8. QED
      BY <1>2, <2>3, <2>7, <3>6, <3>7
  <2>14. \A b \in Buffers : b # cursor => Carried(b)' = Carried(b)
    <3> SUFFICES ASSUME NEW b \in Buffers, b # cursor PROVE Carried(b)' = Carried(b)
      OBVIOUS
    <3>1. Waiting(b)' <=> Waiting(b)
      BY <1>1, <2>1 DEF Waiting
    <3>2. QED
      BY <1>1, <2>7, <2>10, <3>1 DEF Carried, workerVars
  <2>15. Located'
    <3> DEFINE C == Carriage
               F == Written
               D == Carriage'
    <3>1. OnePlace(C, F, readPos)
      BY DEF EdgesIInv, Located
    <3>2. Written' = F
      BY <2>12 DEF Written
    <3>3. /\ C[cursor] = {} /\ D[cursor] = readPos + 1 .. readPos + n
          /\ \A b \in Buffers : b # cursor => D[b] = C[b]
      BY <2>4, <2>13, <2>14, <1>1 DEF Carriage
    <3> HIDE DEF C, F, D
    <3>4. OnePlace(D, F, readPos + n)
      <4>1. \A b \in Buffers : D[b] \subseteq 1 .. readPos + n
        <5>1. 1 .. readPos \subseteq 1 .. readPos + n /\ readPos + 1 .. readPos + n \subseteq 1 .. readPos + n
          BY <1>2
        <5>2. \A b \in Buffers : b # cursor => D[b] \subseteq 1 .. readPos
          BY <3>1, <3>3 DEF OnePlace
        <5>3. QED
          BY <3>3, <5>1, <5>2
      <4>2. \A c \in Cells : F[c] \subseteq 1 .. readPos + n
        BY <1>2, <3>1 DEF OnePlace
      <4>3. \A a, b \in Buffers : a # b => D[a] \intersect D[b] = {}
        <5>1. \A b \in Buffers : b # cursor => D[b] \intersect D[cursor] = {}
          BY <1>2, <3>1, <3>3 DEF OnePlace
        <5>2. QED
          BY <3>1, <3>3, <5>1 DEF OnePlace
      <4>4. \A b \in Buffers, c \in Cells : D[b] \intersect F[c] = {}
        <5>1. \A c \in Cells : D[cursor] \intersect F[c] = {}
          BY <1>2, <3>1, <3>3 DEF OnePlace
        <5>2. QED
          BY <3>1, <3>3, <5>1 DEF OnePlace
      <4>5. ASSUME NEW e \in 1 .. readPos + n
            PROVE  (\E b \in Buffers : e \in D[b]) \/ \E c \in Cells : e \in F[c]
        <5>1. CASE e \in 1 .. readPos
          BY <3>1, <3>3, <5>1 DEF OnePlace
        <5>2. CASE e \in readPos + 1 .. readPos + n
          BY <2>4, <3>3, <5>2
        <5>3. QED
          BY <1>2, <5>1, <5>2
      <4>6. QED
        BY <4>1, <4>2, <4>3, <4>4, <4>5 DEF OnePlace
    <3>5. QED
      BY <2>1, <3>2, <3>4 DEF Located, D
  <2>16. QED
    BY <2>9, <2>11, <2>12, <2>15 DEF EdgesIInv
<1>5. QED
  BY <1>3, <1>4

LEMMA FlushEdges == Types /\ EdgesIInv /\ FlushLeftovers => EdgesIInv'
<1> SUFFICES ASSUME Types, EdgesIInv, FlushLeftovers PROVE EdgesIInv'
  OBVIOUS
<1>1. /\ mainPc = "join" /\ mainPc' = "column" /\ \A w \in Workers : pc[w] = "exited"
      /\ block' = [c \in Cells |-> block[c] \o Buffered(c)]
      /\ UNCHANGED <<input, readPos, cursor, bytes, buffers, tasks, workerVars, gridBuffer, gridOffset>>
  BY DEF FlushLeftovers
<1>2. ~Alone /\ (Alone)'
  BY <1>1 DEF Alone
<1>3. block \in [Cells -> Seq(Nat)] /\ \A c \in Cells : Buffered(c) \in Seq(Nat)
  BY DEF EdgesIInv, Filed
<1>4. block' \in [Cells -> Seq(Nat)]
  BY <1>1, <1>3
<1>5. \A c \in Cells : InBlock(c)' = InBlock(c) /\ Buffered(c)' = Buffered(c)
  <2> SUFFICES ASSUME NEW c \in Cells PROVE InBlock(c)' = InBlock(c) /\ Buffered(c)' = Buffered(c)
    OBVIOUS
  <2>1. Buffered(c)' = Buffered(c)
    BY <1>1 DEF Buffered
  <2>2. InBlock(c) = block[c] \o Buffered(c) /\ InBlock(c)' = block'[c] \o << >>
    BY <1>2 DEF InBlock, Alone
  <2>3. block'[c] = block[c] \o Buffered(c)
    BY <1>1
  <2>4. block'[c] \in Seq(Nat)
    BY <1>4
  <2>5. \A s \in Seq(Nat) : s \o << >> = s
    OBVIOUS
  <2>6. QED
    BY <2>1, <2>2, <2>3, <2>4, <2>5
<1>6. \A w \in Workers : InPlace(w)' /\ Outgoing(w)' = Outgoing(w)
  <2>1. readPos \in Nat
    BY DEF Types, TypeOK
  <2>2. QED
    BY <1>1, <2>1, Undisturbed DEF EdgesIInv, Progress, workerVars
<1>7. Progress'
  BY <1>1, <1>6 DEF EdgesIInv, Progress, workerVars
<1>8. Filed'
  <2>1. \A e : CellOf(e)' = CellOf(e)
    BY <1>1 DEF CellOf, Edge
  <2>2. QED
    BY <1>1, <1>4, <1>5, <2>1 DEF EdgesIInv, Filed
<1>9. Contents'
  BY <1>1 DEF EdgesIInv, Contents, Known, Reading, workerVars
<1>10. \A b \in Buffers : Waiting(b)' <=> Waiting(b)
  BY <1>1 DEF Waiting
<1>11. \A b \in Buffers : Carried(b)' = Carried(b)
  BY <1>1, <1>6, <1>10 DEF Carried, workerVars
<1>12. Located'
  BY <1>1, <1>5, <1>11, SamePlaces DEF EdgesIInv
<1>13. QED
  BY <1>7, <1>8, <1>9, <1>12 DEF EdgesIInv

LEMMA WriteEdges == Types /\ EdgesIInv /\ (WriteColumn \/ WriteRow) => EdgesIInv'
<1> SUFFICES ASSUME Types, EdgesIInv, WriteColumn \/ WriteRow PROVE EdgesIInv'
  OBVIOUS
<1>1. /\ mainPc \in {"column", "row"} /\ mainPc' \in {"column", "row", "done"}
      /\ UNCHANGED <<input, readPos, cursor, bytes, buffers, tasks, workerVars, fileVars>>
  BY DEF WriteColumn, WriteRow
<1>2. (Alone)' <=> Alone
  BY <1>1 DEF Alone
<1>3. Contents'
  BY <1>1 DEF EdgesIInv, Contents, Known, Reading, workerVars
<1>4. \A b \in Buffers : Waiting(b)' <=> Waiting(b)
  BY <1>1 DEF Waiting
<1>5. QED
  BY <1>1, <1>2, <1>3, <1>4, MainSamePlaces

LEMMA MainEdges == Types /\ BufferOwnership /\ EdgesIInv /\ MainStep => EdgesIInv'
BY ReadEdges, OccupyEdges, PushEdges, SpinEdges, PushPillEdges, FlushEdges, WriteEdges DEF MainStep

-----------------------------------------------------------------------------
(* The steps of a worker that leave the files alone.                       *)
LEMMA OthersUndisturbed ==
    ASSUME Types, EdgesIInv, NEW w \in Workers,
           UNCHANGED <<input, readPos, buffers>>,
           \A v \in Workers : v # w =>
              /\ pc'[v] = pc[v] /\ task'[v] = task[v] /\ ends'[v] = ends[v]
              /\ local'[v] = local[v] /\ ij'[v] = ij[v]
              /\ pc[v] \in {"store", "commit"} =>
                    /\ mutexes'[ij[v]] = mutexes[ij[v]] /\ gridBuffer'[ij[v]] = gridBuffer[ij[v]]
                    /\ gridOffset'[ij[v]] = gridOffset[ij[v]]
    PROVE  \A v \in Workers : v # w => InPlace(v)' /\ Outgoing(v)' = Outgoing(v)
<1> SUFFICES ASSUME NEW v \in Workers, v # w PROVE InPlace(v)' /\ Outgoing(v)' = Outgoing(v)
  OBVIOUS
<1>1. readPos \in Nat /\ InPlace(v)
  BY DEF Types, TypeOK, EdgesIInv, Progress
<1>2. QED
  BY <1>1, Undisturbed

(* A worker at work shows that main has not come to the joins.             *)
LEMMA NotAlone == ASSUME EdgesIInv, NEW w \in Workers, pc[w] # "exited" PROVE ~Alone
BY DEF EdgesIInv, Progress

(* The edges of w's buffer stay w's, or become so.                         *)
LEMMA WorkerSamePlaces ==
    ASSUME Types, EdgesIInv, NEW w \in Workers, pc[w] # "exited",
           UNCHANGED <<input, mainVars, buffers, fileVars>>,
           Contents', DOMAIN ends' = Workers, DOMAIN local' = Workers,
           InPlace(w)', \A v \in Workers : v # w => InPlace(v)' /\ Outgoing(v)' = Outgoing(v),
           \A b \in Buffers : Carried(b)' = Carried(b)
    PROVE  EdgesIInv'
<1>1. ~Alone /\ ~(Alone)'
  BY NotAlone DEF Alone, mainVars
<1>2. Progress'
  BY <1>1 DEF Progress
<1>3. Filed' /\ \A c \in Cells : InBlock(c)' = InBlock(c)
  BY <1>1, SameFiles DEF EdgesIInv
<1>4. Located'
  BY <1>3, SamePlaces DEF EdgesIInv, mainVars
<1>5. QED
  BY <1>2, <1>3, <1>4 DEF EdgesIInv

-----------------------------------------------------------------------------
(* The steps of a worker: it takes a task, counts, sorts, and locks.       *)
LEMMA PopEdges ==
    ASSUME Types, BufferOwnership, EdgesIInv, NEW w \in Workers, Pop(w)
    PROVE  EdgesIInv'
<1> DEFINE h == Head(tasks)
           q == Tail(tasks)
<1>1. /\ pc[w] = "pop" /\ tasks # << >> /\ tasks' = q /\ task' = [task EXCEPT ![w] = h]
      /\ pc' = [pc EXCEPT ![w] = IF h.cursor = -1 THEN "exited" ELSE "count"]
      /\ UNCHANGED <<input, mainVars, buffers, ends, local, ij, mutexes, fileVars>>
  BY DEF Pop, Go
<1>2. DOMAIN pc = Workers /\ DOMAIN task = Workers /\ DOMAIN tasks = 1 .. Len(tasks)
  BY DEF Types, TypeOK
<1>3. /\ 1 \in DOMAIN tasks /\ h = tasks[1]
      /\ \A k \in DOMAIN q : k + 1 \in DOMAIN tasks /\ k + 1 # 1 /\ q[k] = tasks[k + 1]
  BY <1>1, TakenFirst DEF Types
<1>4. \A k \in DOMAIN tasks : k # 1 => k - 1 \in DOMAIN q /\ q[k - 1] = tasks[k]
  <2>1. tasks \in Seq(Task)
    BY DEF Types
  <2>2. QED
    BY <1>1, <2>1
<1> HIDE DEF h, q
<1>5. /\ pc'[w] = (IF h.cursor = -1 THEN "exited" ELSE "count") /\ task'[w] = h
      /\ \A v \in Workers : v # w => pc'[v] = pc[v] /\ task'[v] = task[v]
  BY <1>1, <1>2
<1>6. h.cursor # -1 => h # Pill /\ h.cursor \in Buffers
  BY <1>3 DEF Pill, Types, TypeOK
<1>7. ASSUME h.cursor # -1
      PROVE  /\ h.bytes = Len(buffers[h.cursor])
             /\ \A v \in Workers : Working(v) => task[v].cursor # h.cursor
             /\ \A k \in DOMAIN tasks : k # 1 => tasks[k].cursor # h.cursor
             /\ ~(mainPc \in {"occupy", "push"} /\ cursor = h.cursor)
  <2>1. h # Pill /\ h = tasks[1] /\ 1 \in DOMAIN tasks
    BY <1>3, <1>6, <1>7
  <2>2. occupied[h.cursor] /\ h.bytes = Len(buffers[h.cursor])
    BY <2>1 DEF BufferOwnership, EdgesIInv, Contents
  <2>3. QED
    BY <2>1, <2>2 DEF BufferOwnership
<1>8. Contents'
  <2>1. \A k \in DOMAIN q : q[k] # Pill => q[k].bytes = Len(buffers[q[k].cursor])
    BY <1>3 DEF EdgesIInv, Contents
  <2>2. \A v \in Workers : Reading(v)' => task'[v].bytes = Len(buffers[task'[v].cursor])
    <3>1. CASE h.cursor = -1
      BY <1>5, <3>1 DEF EdgesIInv, Contents, Reading
    <3>2. CASE h.cursor # -1
      BY <1>5, <1>7, <3>2 DEF EdgesIInv, Contents, Reading
    <3>3. QED
      BY <3>1, <3>2
  <2>3. QED
    BY <1>1, <2>1, <2>2 DEF EdgesIInv, Contents, Known, mainVars
<1>9. InPlace(w)'
  BY <1>5 DEF InPlace, Sorting
<1>10. \A v \in Workers : v # w => InPlace(v)' /\ Outgoing(v)' = Outgoing(v)
  BY <1>1, <1>5, OthersUndisturbed DEF mainVars, fileVars
<1>11. Outgoing(w) = {}
  BY <1>1, OutgoingIs DEF Working
<1>12. h.cursor = -1 => Outgoing(w)' = {}
  BY <1>5 DEF Outgoing, Reading
<1>13. ASSUME h.cursor # -1 PROVE Outgoing(w)' = Ids(buffers[h.cursor])
  <2>1. Outgoing(w)' = Ids(Chunk(w)')
    BY <1>5, <1>13 DEF Outgoing, Reading
  <2>2. Chunk(w)' = SubSeq(buffers[h.cursor], 1, h.bytes)
    BY <1>1, <1>5 DEF Chunk
  <2>3. buffers[h.cursor] \in Seq(Nat) /\ h.bytes = Len(buffers[h.cursor])
    BY <1>6, <1>7, <1>13 DEF EdgesIInv, Contents
  <2>4. \A s \in Seq(Nat) : SubSeq(s, 1, Len(s)) = s
    OBVIOUS
  <2>5. QED
    BY <2>1, <2>2, <2>3, <2>4
<1>14. ASSUME NEW b \in Buffers PROVE Carried(b)' = Carried(b)
  <2>1. b # -1
    BY PoolSize
  <2>2. CASE b # h.cursor
    <3>1. Waiting(b)' <=> Waiting(b)
      <4>1. (\E k \in DOMAIN tasks : tasks[k].cursor = b) <=> (\E k \in DOMAIN q : q[k].cursor = b)
        BY <1>3, <1>4, <2>2
      <4>2. QED
        BY <1>1, <4>1 DEF Waiting, mainVars
    <3>2. \A v \in Workers : \A e : task'[v].cursor = b /\ e \in Outgoing(v)'
                                      <=> task[v].cursor = b /\ e \in Outgoing(v)
      BY <1>5, <1>10, <1>11, <2>2
    <3>3. QED
      BY <1>1, <3>1, <3>2 DEF Carried
  <2>3. CASE b = h.cursor
    <3>1. Waiting(b)
      BY <1>3, <2>3 DEF Waiting
    <3>2. ~Waiting(b)'
      <4>1. \A k \in DOMAIN q : q[k].cursor # b
        BY <1>3, <1>7, <2>1, <2>3
      <4>2. QED
        BY <1>1, <1>7, <2>1, <2>3, <4>1 DEF Waiting, mainVars
    <3>3. \A v \in Workers : task[v].cursor = b => Outgoing(v) = {}
      BY <1>7, <2>1, <2>3, OutgoingIs
    <3>4. \A v \in Workers : v # w /\ task'[v].cursor = b => Outgoing(v)' = {}
      BY <1>5, <1>10, <3>3
    <3>5. task'[w].cursor = b /\ Outgoing(w)' = Ids(buffers[b])
      BY <1>5, <1>13, <2>1, <2>3
    <3>6. Carried(b) = {e \in Nat : e \in Ids(buffers[b])}
      BY <3>1, <3>3 DEF Carried
    <3>7. Carried(b)' = {e \in Nat : e \in Ids(buffers[b])}
      BY <3>2, <3>4, <3>5 DEF Carried
    <3>8. QED
      BY <3>6, <3>7
  <2>4. QED
    BY <2>2, <2>3
<1>15. DOMAIN ends' = Workers /\ DOMAIN local' = Workers
  BY <1>1 DEF EdgesIInv, Progress
<1>16. QED
  BY <1>1, <1>8, <1>9, <1>10, <1>14, <1>15, WorkerSamePlaces

(* A step in which w keeps its task and its edges.                         *)
LEMMA WorkerKeepsEdges ==
    ASSUME Types, EdgesIInv, NEW w \in Workers, pc[w] # "exited",
           UNCHANGED <<input, mainVars, buffers, tasks, task, fileVars>>,
           \A v \in Workers : v # w =>
              /\ pc'[v] = pc[v] /\ ends'[v] = ends[v] /\ local'[v] = local[v] /\ ij'[v] = ij[v]
              /\ pc[v] \in {"store", "commit"} => mutexes'[ij[v]] = mutexes[ij[v]],
           DOMAIN ends' = Workers, DOMAIN local' = Workers,
           Reading(w)' => Reading(w), InPlace(w)', Outgoing(w)' = Outgoing(w)
    PROVE  EdgesIInv'
<1>1. \A v \in Workers : v # w => InPlace(v)' /\ Outgoing(v)' = Outgoing(v)
  BY OthersUndisturbed DEF mainVars, fileVars
<1>2. Contents'
  <2>1. \A v \in Workers : Reading(v)' => Reading(v)
    BY DEF Reading
  <2>2. QED
    BY <2>1 DEF EdgesIInv, Contents, Known, mainVars
<1>3. \A b \in Buffers : Waiting(b)' <=> Waiting(b)
  BY DEF Waiting, mainVars
<1>4. \A b \in Buffers : Carried(b)' = Carried(b)
  BY <1>1, <1>3 DEF Carried
<1>5. QED
  BY <1>1, <1>2, <1>4, WorkerSamePlaces

LEMMA CountEdges ==
    ASSUME Types, EdgesIInv, NEW w \in Workers, Count(w)
    PROVE  EdgesIInv'
<1>1. /\ pc[w] = "count" /\ pc' = [pc EXCEPT ![w] = "scatter"]
      /\ UNCHANGED <<input, mainVars, buffers, tasks, task, local, ij, mutexes, fileVars>>
  BY DEF Count, Go
<1>2. ends' = [ends EXCEPT ![w] =
         [c \in Cells |-> Cardinality({k \in DOMAIN Chunk(w) : CellOf(Chunk(w)[k]) <= c})]]
  BY DEF Count
<1>3. DOMAIN pc = Workers /\ DOMAIN ends = Workers /\ DOMAIN local = Workers
  BY DEF Types, TypeOK, EdgesIInv, Progress
<1>4. Reading(w) /\ Chunk(w) = buffers[task[w].cursor]
  BY <1>1, Chunks DEF Reading, EdgesIInv
<1>5. pc'[w] = "scatter" /\ \A c \in Cells : ends'[w][c] = Cardinality(UpTo(buffers[task[w].cursor], c))
  BY <1>1, <1>2, <1>3, <1>4 DEF UpTo
<1>6. Counted(w)'
  <2>1. \A e : CellOf(e)' = CellOf(e)
    BY <1>1 DEF CellOf, Edge
  <2>2. \A s, c : UpTo(s, c)' = UpTo(s, c)
    BY <2>1 DEF UpTo
  <2>3. QED
    BY <1>1, <1>5, <2>2 DEF Counted
<1>7. InPlace(w)'
  BY <1>5, <1>6 DEF InPlace, Sorting
<1>8. Outgoing(w)' = Outgoing(w)
  BY <1>1, <1>4, <1>5 DEF Outgoing, Reading, Chunk
<1>9. QED
  <2>1. \A v \in Workers : v # w => pc'[v] = pc[v] /\ ends'[v] = ends[v]
    BY <1>1, <1>2, <1>3
  <2>2. DOMAIN ends' = Workers
    BY <1>2, <1>3
  <2>3. QED
    BY <1>1, <1>3, <1>4, <1>7, <1>8, <2>1, <2>2, WorkerKeepsEdges

LEMMA ScatterEdges ==
    ASSUME Types, EdgesIInv, NEW w \in Workers, Scatter(w)
    PROVE  EdgesIInv'
<1>1. /\ pc[w] = "scatter" /\ pc' = [pc EXCEPT ![w] = "lock"] /\ ij' = [ij EXCEPT ![w] = 0]
      /\ DOMAIN local' = DOMAIN local /\ \A v \in Workers : v # w => local'[v] = local[v]
      /\ UNCHANGED <<input, mainVars, buffers, tasks, task, ends, mutexes, fileVars>>
  BY DEF Scatter, Go
<1>2. DOMAIN pc = Workers /\ DOMAIN ij = Workers /\ DOMAIN ends = Workers /\ DOMAIN local = Workers
  BY DEF Types, TypeOK, EdgesIInv, Progress
<1>3. /\ pc'[w] = "lock" /\ ij'[w] = 0
      /\ \A v \in Workers : v # w => pc'[v] = pc[v] /\ ij'[v] = ij[v]
  BY <1>1, <1>2
<1>4. Counted(w) /\ Contents
  BY <1>1 DEF EdgesIInv, Progress, InPlace
<1>5. Sorted(w)' /\ Ids(local'[w]) = Ids(buffers[task[w].cursor])
  BY <1>2, <1>4, ScatterSorts
<1>6. InPlace(w)'
  BY <1>3, <1>5 DEF InPlace, Sorting
<1>7. Outgoing(w)' = Outgoing(w)
  <2>1. Outgoing(w) = Ids(buffers[task[w].cursor])
    BY <1>1, <1>4, Chunks, OutgoingIs DEF Reading
  <2>2. HandedOn(w)' = 0
    BY <1>3 DEF HandedOn, Start
  <2>3. Outgoing(w)' = {local'[w][p] : p \in 0 + 1 .. Len(local'[w])}
    BY <1>3, <2>2 DEF Outgoing
  <2>4. local'[w] \in Seq(Nat)
    BY <1>5 DEF Sorted
  <2>5. {local'[w][p] : p \in 0 + 1 .. Len(local'[w])} = Ids(local'[w])
    <3>1. \A s \in Seq(Nat) : {s[p] : p \in 0 + 1 .. Len(s)} = Ids(s)
      BY DEF Ids
    <3>2. QED
      BY <2>4, <3>1
  <2>6. QED
    BY <1>5, <2>1, <2>3, <2>5
<1>8. ~Reading(w)'
  BY <1>3 DEF Reading
<1>9. QED
  BY <1>1, <1>2, <1>3, <1>6, <1>7, <1>8, WorkerKeepsEdges

LEMMA LockCellEdges ==
    ASSUME Types, EdgesIInv, NEW w \in Workers, LockCell(w)
    PROVE  EdgesIInv'
<1>1. /\ pc[w] = "lock" /\ pc' = [pc EXCEPT ![w] = "store"]
      /\ mutexes[ij[w]] = Nobody /\ mutexes' = [mutexes EXCEPT ![ij[w]] = w]
      /\ UNCHANGED <<input, mainVars, buffers, tasks, task, ends, local, ij, fileVars>>
  BY DEF LockCell, Go
<1>2. /\ DOMAIN pc = Workers /\ DOMAIN mutexes = Cells /\ ij[w] \in Cells
      /\ DOMAIN ends = Workers /\ DOMAIN local = Workers
  BY DEF Types, TypeOK, EdgesIInv, Progress
<1>3. pc'[w] = "store" /\ mutexes'[ij[w]] = w /\ \A v \in Workers : v # w => pc'[v] = pc[v]
  BY <1>1, <1>2
<1>4. \A v \in Workers : v # w /\ pc[v] \in {"store", "commit"} => mutexes'[ij[v]] = mutexes[ij[v]]
  <2> SUFFICES ASSUME NEW v \in Workers, pc[v] \in {"store", "commit"}
               PROVE  mutexes'[ij[v]] = mutexes[ij[v]]
    OBVIOUS
  <2>1. mutexes[ij[v]] = v /\ v # Nobody
    BY PreprocessAssumption DEF EdgesIInv, Progress, InPlace, PreprocessAssumption
  <2>2. ij[v] # ij[w]
    BY <1>1, <2>1
  <2>3. QED
    BY <1>1, <2>2
<1>5. \A e : CellOf(e)' = CellOf(e)
  BY <1>1 DEF CellOf, Edge
<1>6. \A c : Start(w, c)' = Start(w, c)
  BY <1>1 DEF Start
<1>7. Sorted(w)'
  <2>1. Sorted(w)
    BY <1>1 DEF EdgesIInv, Progress, InPlace, Sorting
  <2>2. QED
    BY <1>1, <1>5, <1>6, <2>1 DEF Sorted, Known, mainVars
<1>8. InPlace(w)'
  BY <1>1, <1>3, <1>7 DEF InPlace
<1>9. Outgoing(w)' = Outgoing(w)
  <2>1. HandedOn(w)' = HandedOn(w)
    BY <1>1, <1>3, <1>6 DEF HandedOn
  <2>2. QED
    BY <1>1, <1>3, <2>1 DEF Outgoing
<1>10. ~Reading(w)'
  BY <1>3 DEF Reading
<1>11. QED
  BY <1>1, <1>2, <1>3, <1>4, <1>8, <1>9, <1>10, WorkerKeepsEdges

LEMMA ReleaseEdges ==
    ASSUME Types, EdgesIInv, NEW w \in Workers, Release(w)
    PROVE  EdgesIInv'
<1>1. /\ pc[w] = "release" /\ pc' = [pc EXCEPT ![w] = "pop"]
      /\ UNCHANGED <<input, mainVars, buffers, tasks, task, ends, local, ij, mutexes, fileVars>>
  BY DEF Release, Go
<1>2. DOMAIN pc = Workers /\ DOMAIN ends = Workers /\ DOMAIN local = Workers
  BY DEF Types, TypeOK, EdgesIInv, Progress
<1>3. pc'[w] = "pop" /\ \A v \in Workers : v # w => pc'[v] = pc[v]
  BY <1>1, <1>2
<1>4. InPlace(w)' /\ ~Reading(w)'
  BY <1>3 DEF InPlace, Sorting, Reading
<1>5. Outgoing(w)' = Outgoing(w)
  BY <1>1, <1>3 DEF Outgoing, Reading
<1>6. QED
  BY <1>1, <1>2, <1>3, <1>4, <1>5, WorkerKeepsEdges

-----------------------------------------------------------------------------
(* The steps with which a worker hands edges to the file of a cell.        *)
Handed(C, F, D, G, a, d, S) ==
    /\ S \subseteq C[a] /\ D[a] = C[a] \ S
    /\ \A b \in Buffers : b # a => D[b] = C[b]
    /\ G[d] = F[d] \union S
    /\ \A c \in Cells : c # d => G[c] = F[c]

LEMMA HandOn ==
    ASSUME NEW C, NEW F, NEW D, NEW G, NEW n, NEW a \in Buffers, NEW d \in Cells, NEW S,
           OnePlace(C, F, n), Handed(C, F, D, G, a, d, S)
    PROVE  OnePlace(D, G, n)
<1> USE DEF Handed
<1>1. \A b \in Buffers : D[b] \subseteq C[b]
  OBVIOUS
<1>2. \A c \in Cells : F[c] \subseteq G[c] /\ G[c] \subseteq F[c] \union S
  OBVIOUS
<1>3. \A b \in Buffers : D[b] \subseteq 1 .. n
  BY <1>1 DEF OnePlace
<1>4. \A c \in Cells : G[c] \subseteq 1 .. n
  <2>1. S \subseteq 1 .. n
    BY DEF OnePlace
  <2>2. QED
    BY <1>2, <2>1 DEF OnePlace
<1>5. \A b, x \in Buffers : b # x => D[b] \intersect D[x] = {}
  BY <1>1 DEF OnePlace
<1>6. \A b \in Buffers, c \in Cells : D[b] \intersect G[c] = {}
  <2> SUFFICES ASSUME NEW b \in Buffers, NEW c \in Cells PROVE D[b] \intersect G[c] = {}
    OBVIOUS
  <2>1. D[b] \intersect F[c] = {}
    BY <1>1 DEF OnePlace
  <2>2. D[b] \intersect S = {}
    BY <1>1 DEF OnePlace
  <2>3. QED
    BY <1>2, <2>1, <2>2
<1>7. ASSUME NEW e \in 1 .. n PROVE (\E b \in Buffers : e \in D[b]) \/ \E c \in Cells : e \in G[c]
  <2>1. CASE e \in S
    BY <2>1
  <2>2. CASE \E c \in Cells : e \in F[c]
    BY <1>2, <2>2
  <2>3. CASE e \notin S /\ \E b \in Buffers : e \in C[b]
    BY <2>3
  <2>4. QED
    BY <2>1, <2>2, <2>3 DEF OnePlace
<1>8. QED
  BY <1>3, <1>4, <1>5, <1>6, <1>7 DEF OnePlace

(* What a working worker has still to hand on is what its buffer carries.  *)
LEMMA WorkerCarries ==
    ASSUME Types, BufferOwnership, NEW w \in Workers, Working(w)
    PROVE  /\ task[w].cursor \in Buffers
           /\ ~Waiting(task[w].cursor)
           /\ \A v \in Workers : v # w /\ task[v].cursor = task[w].cursor => Outgoing(v) = {}
           /\ Carried(task[w].cursor) = {e \in Nat : e \in Outgoing(w)}
<1>1. task[w].cursor \in Buffers
  BY DEF Types
<1>2. ~Waiting(task[w].cursor)
  BY DEF Waiting, BufferOwnership
<1>3. \A v \in Workers : v # w /\ task[v].cursor = task[w].cursor => Outgoing(v) = {}
  BY OutgoingIs DEF BufferOwnership
<1>4. Carried(task[w].cursor) = {e \in Nat : e \in Outgoing(w)}
  BY <1>2, <1>3 DEF Carried
<1>5. QED
  BY <1>1, <1>2, <1>3, <1>4

(* The run a worker has still to hand on is not yet in the file.           *)
LEMMA RunIsNew ==
    ASSUME Types, BufferOwnership, EdgesIInv, NEW w \in Workers, pc[w] \in {"store", "commit"},
           Ids(Run(w)) \subseteq Outgoing(w)
    PROVE  Ids(InBlock(ij[w])) \intersect Ids(Run(w)) = {}
<1>1. Working(w) /\ Sorted(w) /\ ij[w] \in Cells
  BY DEF Working, EdgesIInv, Progress, InPlace, Sorting, Types, TypeOK
<1>2. Ids(Run(w)) \subseteq Nat
  BY <1>1, Runs DEF Ids
<1>3. Ids(Run(w)) \subseteq Carriage[task[w].cursor]
  BY <1>1, <1>2, WorkerCarries DEF Carriage
<1>4. Carriage[task[w].cursor] \intersect Written[ij[w]] = {}
  BY <1>1, WorkerCarries DEF EdgesIInv, Located, OnePlace
<1>5. QED
  BY <1>1, <1>3, <1>4 DEF Written

(* A step of w that touches what belongs to the cell d only, and moves the *)
(* edges S there.                                                          *)
Apart(w, d) ==
    /\ UNCHANGED <<input, mainVars, buffers, tasks, task, ends, local>>
    /\ \A v \in Workers : v # w => pc'[v] = pc[v] /\ ij'[v] = ij[v]
    /\ \A c \in Cells : c # d =>
          /\ mutexes'[c] = mutexes[c] /\ gridBuffer'[c] = gridBuffer[c]
          /\ gridOffset'[c] = gridOffset[c] /\ block'[c] = block[c]
    /\ block' \in [Cells -> Seq(Nat)]
    /\ gridBuffer' \in [Cells -> [1 .. GridBufferSize -> Nat \union {NoEdge}]]
    /\ Buffered(d)' \in Seq(Nat)
Moves(w, d, s, S) ==
    /\ s = InBlock(d)' /\ Distinct(s) /\ Ids(s) = Ids(InBlock(d)) \union S
    /\ S \subseteq Outgoing(w) /\ S \subseteq Ids(Run(w)) /\ Outgoing(w)' = Outgoing(w) \ S

LEMMA WorkerHandsOn ==
    ASSUME Types, BufferOwnership, EdgesIInv,
           NEW w \in Workers, pc[w] \in {"store", "commit"}, NEW d \in Cells, d = ij[w],
           Apart(w, d), NEW s, NEW S, Moves(w, d, s, S), InPlace(w)', ~Reading(w)'
    PROVE  EdgesIInv'
<1> USE DEF Apart, Moves
<1>1. Working(w) /\ Sorted(w) /\ ij[w] \in Cells /\ mutexes[ij[w]] = w
  BY DEF Working, EdgesIInv, Progress, InPlace, Sorting, Types, TypeOK
<1>2. ~Alone /\ ~(Alone)'
  BY NotAlone DEF Alone, mainVars
<1>3. \A v \in Workers : v # w => InPlace(v)' /\ Outgoing(v)' = Outgoing(v)
  <2>1. \A v \in Workers : v # w /\ pc[v] \in {"store", "commit"} => ij[v] \in Cells /\ ij[v] # d
    BY <1>1 DEF EdgesIInv, Progress, InPlace, Types, TypeOK
  <2>2. QED
    BY <2>1, OthersUndisturbed DEF mainVars
<1>4. Contents'
  <2>1. \A v \in Workers : Reading(v)' => Reading(v)
    BY DEF Reading
  <2>2. QED
    BY <2>1 DEF EdgesIInv, Contents, Known, mainVars
<1>5. Progress'
  BY <1>2, <1>3 DEF EdgesIInv, Progress
<1>6. \A c \in Cells : c # d => Buffered(c)' = Buffered(c) /\ InBlock(c)' = InBlock(c)
  <2>1. \A c \in Cells : c # d => Buffered(c)' = Buffered(c)
    BY DEF Buffered
  <2>2. QED
    BY <1>2, <2>1 DEF InBlock, Alone
<1>7. Filed'
  <2>1. \A e : CellOf(e)' = CellOf(e)
    BY DEF CellOf, Edge
  <2>2. \A e \in Ids(s) : CellOf(e) = d
    BY <1>1, Runs DEF EdgesIInv, Filed
  <2> SUFFICES ASSUME NEW c \in Cells
               PROVE  /\ Buffered(c)' \in Seq(Nat) /\ Distinct(InBlock(c)')
                      /\ \A e \in Ids(InBlock(c)') : CellOf(e)' = c
    BY DEF Filed
  <2>3. CASE c = d
    BY <2>1, <2>2, <2>3
  <2>4. CASE c # d
    BY <1>6, <2>1, <2>4 DEF EdgesIInv, Filed
  <2>5. QED
    BY <2>3, <2>4
<1>8. \A b \in Buffers : Waiting(b)' <=> Waiting(b)
  BY DEF Waiting, mainVars
<1> DEFINE a == task[w].cursor
<1>9. a \in Buffers /\ Carried(a) = {e \in Nat : e \in Outgoing(w)} /\ S \subseteq Carried(a)
  <2>1. Ids(Run(w)) \subseteq Nat
    BY <1>1, Runs DEF Ids
  <2>2. QED
    BY <1>1, <2>1, WorkerCarries
<1>10. Carried(a)' = Carried(a) \ S
  <2>1. ~Waiting(a)'
    BY <1>1, <1>8, WorkerCarries
  <2>2. \A v \in Workers : v # w /\ task'[v].cursor = a => Outgoing(v)' = {}
    BY <1>1, <1>3, WorkerCarries
  <2>3. a' = a
    OBVIOUS
  <2>4. Carried(a)' = {e \in Nat : e \in Outgoing(w)'}
    BY <2>1, <2>2, <2>3 DEF Carried
  <2>5. QED
    BY <1>9, <2>4
<1>11. ASSUME NEW b \in Buffers, b # a PROVE Carried(b)' = Carried(b)
  <2>1. \A v \in Workers : task[v].cursor = b => task'[v].cursor = b /\ Outgoing(v)' = Outgoing(v)
    BY <1>3, <1>11
  <2>2. \A v \in Workers : task'[v].cursor = b => task[v].cursor = b
    OBVIOUS
  <2>3. Ids(buffers'[b]) = Ids(buffers[b]) /\ (Waiting(b)' <=> Waiting(b))
    BY <1>8
  <2>4. \A e \in Nat : e \in Carried(b)' <=> e \in Carried(b)
    BY <2>1, <2>2, <2>3 DEF Carried
  <2>5. QED
    BY <2>4 DEF Carried
<1>12. Located'
  <2>1. OnePlace(Carriage, Written, readPos)
    BY DEF EdgesIInv, Located
  <2>2. /\ S \subseteq Carriage[a] /\ Carriage'[a] = Carriage[a] \ S
        /\ \A b \in Buffers : b # a => Carriage'[b] = Carriage[b]
    <3>1. Carriage' = [b \in Buffers |-> Carried(b)']
      BY DEF Carriage
    <3> HIDE DEF a
    <3>2. QED
      BY <1>9, <1>10, <1>11, <3>1 DEF Carriage, a
  <2>3. /\ Written'[d] = Written[d] \union S
        /\ \A c \in Cells : c # d => Written'[c] = Written[c]
    <3>1. Written' = [c \in Cells |-> Ids(InBlock(c)')]
      BY DEF Written
    <3>2. QED
      BY <1>1, <1>6, <3>1 DEF Written
  <2>4. OnePlace(Carriage', Written', readPos)
    <3> DEFINE C == Carriage
               F == Written
               D == Carriage'
               G == Written'
    <3>1. OnePlace(C, F, readPos) /\ Handed(C, F, D, G, a, d, S) /\ a \in Buffers
      BY <1>9, <2>1, <2>2, <2>3 DEF Handed
    <3> HIDE DEF a, C, F, D, G
    <3>2. OnePlace(D, G, readPos)
      BY <3>1, HandOn
    <3>3. QED
      BY <3>2 DEF D, G
  <2>5. QED
    BY <2>4 DEF Located, mainVars
<1>13. QED
  BY <1>4, <1>5, <1>7, <1>12 DEF EdgesIInv

-----------------------------------------------------------------------------
(* What holds when the worker w is about to touch the file of the cell d.  *)
Arrived(w, d) ==
    /\ d \in Cells /\ Working(w) /\ Sorting(w) /\ Sorted(w) /\ mutexes[d] = w
    /\ ~Alone /\ InBlock(d) = block[d] \o Buffered(d)
    /\ block[d] \in Seq(Nat) /\ Buffered(d) \in Seq(Nat)
    /\ gridOffset[d] \in 0 .. GridBufferSize - 1 /\ GridBufferSize \in Nat
    /\ Buffered(d) = [k \in 1 .. gridOffset[d] |-> gridBuffer[d][k]]
    /\ Run(w) \in Seq(Nat) /\ Distinct(Run(w)) /\ Len(Run(w)) \in Nat
    /\ Outgoing(w) = Rest(w, HandedOn(w))

LEMMA AtCell ==
    ASSUME Types, EdgesIInv, NEW w \in Workers, pc[w] \in {"store", "commit"}, NEW d, d = ij[w]
    PROVE  Arrived(w, d)
<1>1. d \in Cells /\ Working(w) /\ Sorting(w) /\ Sorted(w) /\ mutexes[d] = w
  BY DEF Working, EdgesIInv, Progress, InPlace, Sorting, Types, TypeOK
<1>2. ~Alone
  BY <1>1, NotAlone
<1>3. InBlock(d) = block[d] \o Buffered(d)
  BY <1>2 DEF InBlock, Alone
<1>4. block[d] \in Seq(Nat) /\ Buffered(d) \in Seq(Nat)
  BY <1>1 DEF EdgesIInv, Filed
<1>5. gridOffset[d] \in 0 .. GridBufferSize - 1 /\ GridBufferSize \in Nat
  BY <1>1, PreprocessAssumption DEF Types, TypeOK
<1>6. Buffered(d) = [k \in 1 .. gridOffset[d] |-> gridBuffer[d][k]]
  BY DEF Buffered
<1>7. Run(w) \in Seq(Nat) /\ Distinct(Run(w)) /\ Len(Run(w)) \in Nat
  BY <1>1, Runs
<1>8. Outgoing(w) = Rest(w, HandedOn(w))
  BY <1>1, OutgoingIs
<1>9. QED
  BY <1>1, <1>2, <1>3, <1>4, <1>5, <1>6, <1>7, <1>8 DEF Arrived

(* The buffer of a cell with the edge that has just been put behind those  *)
(* it had, and the whole of it when that was its last place.               *)
LEMMA BufferGrows ==
    ASSUME NEW G \in Nat, NEW NE, NEW g \in [1 .. G -> Nat \union {NE}], NEW o \in 0 .. G - 1,
           NEW x \in Nat, g[o + 1] = x, NEW B, B = [k \in 1 .. o |-> g[k]], B \in Seq(Nat)
    PROVE  /\ [k \in 1 .. o + 1 |-> g[k]] = B \o <<x>>
           /\ [k \in 1 .. o + 1 |-> g[k]] \in Seq(Nat)
           /\ o + 1 = G => g = B \o <<x>>
<1> DEFINE u == [k \in 1 .. o + 1 |-> g[k]]
           v == B \o <<x>>
<1>1. DOMAIN B = 1 .. o /\ Len(B) = o
  <2>1. DOMAIN B = 1 .. o /\ Len(B) \in Nat /\ DOMAIN B = 1 .. Len(B) /\ o \in Nat
    OBVIOUS
  <2>2. ~(o < Len(B)) /\ ~(Len(B) < o)
    <3>1. o < Len(B) => Len(B) \in 1 .. Len(B) /\ Len(B) \notin 1 .. o
      BY <2>1
    <3>2. Len(B) < o => o \in 1 .. o /\ o \notin 1 .. Len(B)
      BY <2>1
    <3>3. QED
      BY <2>1, <3>1, <3>2
  <2>3. QED
    BY <2>1, <2>2
<1>2. v \in Seq(Nat) /\ Len(v) = o + 1 /\ DOMAIN v = 1 .. o + 1
  BY <1>1
<1>3. \A k \in 1 .. o + 1 : v[k] = g[k]
  BY <1>1
<1>4. v = [k \in 1 .. o + 1 |-> v[k]]
  BY <1>2
<1>5. v = u
  BY <1>3, <1>4
<1>6. o + 1 = G => g = u
  OBVIOUS
<1>7. QED
  BY <1>2, <1>5, <1>6

(* The two steps inside the lock: the run is stored, then committed.       *)
LEMMA StoreEdges ==
    ASSUME Types, BufferOwnership, EdgesIInv, NEW w \in Workers, Store(w)
    PROVE  EdgesIInv'
<1> DEFINE r == Run(w)
<1>1. PICK d : d = ij[w]
  OBVIOUS
<1>2. /\ pc[w] = "store" /\ pc' = [pc EXCEPT ![w] = "commit"]
      /\ block' = IF Len(r) > 1 THEN [block EXCEPT ![d] = @ \o r] ELSE block
      /\ gridBuffer' = IF Len(r) = 1
                       THEN [gridBuffer EXCEPT ![d] = [@ EXCEPT ![gridOffset[d] + 1] = r[1]]]
                       ELSE gridBuffer
      /\ UNCHANGED <<input, mainVars, buffers, tasks, task, ends, local, ij, mutexes, gridOffset>>
  BY <1>1 DEF Store, Go
<1>3. /\ d \in Cells /\ Working(w) /\ Sorting(w) /\ Sorted(w) /\ mutexes[d] = w
      /\ ~Alone /\ InBlock(d) = block[d] \o Buffered(d)
      /\ block[d] \in Seq(Nat) /\ Buffered(d) \in Seq(Nat)
      /\ gridOffset[d] \in 0 .. GridBufferSize - 1 /\ GridBufferSize \in Nat
      /\ Buffered(d) = [k \in 1 .. gridOffset[d] |-> gridBuffer[d][k]]
      /\ r \in Seq(Nat) /\ Distinct(r) /\ Len(r) \in Nat
      /\ Outgoing(w) = Rest(w, HandedOn(w))
  <2>1. pc[w] \in {"store", "commit"} /\ d = ij[w]
    BY <1>1, <1>2
  <2>2. Arrived(w, d)
    BY <2>1, AtCell
  <2>3. QED
    BY <2>2 DEF Arrived
<1>4. DOMAIN pc = Workers /\ pc'[w] = "commit" /\ \A v \in Workers : v # w => pc'[v] = pc[v]
  BY <1>2 DEF Types, TypeOK
<1>5. block \in [Cells -> Seq(Nat)]
      /\ gridBuffer \in [Cells -> [1 .. GridBufferSize -> Nat \union {NoEdge}]]
  BY DEF EdgesIInv, Filed
<1>6. r' = r /\ Start(w, d)' = Start(w, d) /\ ij'[w] = d
  <2>1. \A c : Start(w, c)' = Start(w, c)
    BY <1>2 DEF Start
  <2>2. QED
    BY <1>1, <1>2, <2>1 DEF Run
<1>7. /\ Outgoing(w) = Rest(w, Start(w, d))
      /\ Outgoing(w)' = Rest(w, IF Len(r) > 1 THEN ends[w][d] ELSE Start(w, d))
  <2>1. HandedOn(w) = Start(w, d)
    BY <1>1, <1>2 DEF HandedOn
  <2>2. HandedOn(w)' = IF Len(r) > 1 THEN ends[w][d] ELSE Start(w, d)
    BY <1>1, <1>2, <1>4, <1>6 DEF HandedOn
  <2>3. Outgoing(w)' = Rest(w, HandedOn(w)')
    BY <1>2, <1>4 DEF Outgoing, Rest
  <2>4. QED
    BY <1>3, <2>1, <2>2, <2>3
<1>8. /\ Rest(w, Start(w, d)) = Ids(r) \union Rest(w, ends[w][d])
      /\ Ids(r) \intersect Rest(w, ends[w][d]) = {}
      /\ Len(r) = 1 => r[1] \in Nat
  BY <1>1, <1>3, Runs
<1>9. Ids(InBlock(d)) \intersect Ids(r) = {}
  BY <1>1, <1>2, <1>7, <1>8, RunIsNew
<1> HIDE DEF r
<1>10. Buffered(d)' = Buffered(d)
  <2>1. ASSUME NEW k \in 1 .. gridOffset[d] PROVE gridBuffer'[d][k] = gridBuffer[d][k]
    <3>1. k # gridOffset[d] + 1
      BY <1>3
    <3>2. CASE Len(r) = 1
      <4>1. gridBuffer'[d] = [gridBuffer[d] EXCEPT ![gridOffset[d] + 1] = r[1]]
        BY <1>2, <1>3, <1>5, <3>2
      <4>2. k \in DOMAIN gridBuffer[d]
        BY <1>3, <1>5
      <4>3. QED
        BY <3>1, <4>1, <4>2
    <3>3. CASE Len(r) # 1
      BY <1>2, <3>3
    <3>4. QED
      BY <3>2, <3>3
  <2>2. Buffered(d)' = [k \in 1 .. gridOffset[d] |-> gridBuffer'[d][k]]
    BY <1>2 DEF Buffered
  <2>3. QED
    BY <1>3, <2>1, <2>2
<1>11. InBlock(d)' = block'[d] \o Buffered(d)
  <2>1. ~(Alone)'
    BY <1>2, <1>3 DEF Alone, mainVars
  <2>2. QED
    BY <1>10, <2>1 DEF InBlock, Alone
<1>12. gridBuffer' \in [Cells -> [1 .. GridBufferSize -> Nat \union {NoEdge}]]
  <2>1. CASE Len(r) = 1
    <3>1. gridOffset[d] + 1 \in 1 .. GridBufferSize /\ r[1] \in Nat
      BY <1>3, <1>8, <2>1
    <3>2. [gridBuffer[d] EXCEPT ![gridOffset[d] + 1] = r[1]] \in [1 .. GridBufferSize -> Nat \union {NoEdge}]
      BY <1>3, <1>5, <3>1
    <3>3. gridBuffer' = [gridBuffer EXCEPT ![d] = [gridBuffer[d] EXCEPT ![gridOffset[d] + 1] = r[1]]]
      BY <1>2, <2>1
    <3>4. QED
      BY <1>3, <1>5, <3>2, <3>3
  <2>2. CASE Len(r) # 1
    BY <1>2, <1>5, <2>2
  <2>3. QED
    BY <2>1, <2>2
<1>13. InPlace(w)' /\ ~Reading(w)'
  <2>1. Sorted(w)'
    <3>1. \A e : CellOf(e)' = CellOf(e)
      BY <1>2 DEF CellOf, Edge
    <3>2. \A c : Start(w, c)' = Start(w, c)
      BY <1>2 DEF Start
    <3>3. Known' = Known
      BY <1>2 DEF Known, mainVars
    <3>4. QED
      BY <1>2, <1>3, <3>1, <3>2, <3>3 DEF Sorted
  <2>2. mutexes'[d] = w
    BY <1>2, <1>3
  <2>3. Len(r) = 1 => gridBuffer'[d][gridOffset[d] + 1] = r[1]
    <3>1. gridOffset[d] + 1 \in 1 .. GridBufferSize
      BY <1>3
    <3>2. QED
      BY <1>2, <1>3, <1>5, <3>1
  <2>4. QED
    BY <1>2, <1>4, <1>6, <2>1, <2>2, <2>3 DEF InPlace, Reading, r
<1>14. /\ \A v \in Workers : v # w => pc'[v] = pc[v] /\ ij'[v] = ij[v]
       /\ \A c \in Cells : c # d =>
              /\ mutexes'[c] = mutexes[c] /\ gridBuffer'[c] = gridBuffer[c]
              /\ gridOffset'[c] = gridOffset[c] /\ block'[c] = block[c]
  BY <1>2, <1>3, <1>4, <1>5
<1>15. CASE Len(r) > 1
  <2>0. block[d] \o r \in Seq(Nat) /\ block' = [block EXCEPT ![d] = block[d] \o r]
    BY <1>2, <1>3, <1>15
  <2>1. block'[d] = block[d] \o r /\ block' \in [Cells -> Seq(Nat)]
    BY <1>3, <1>5, <2>0
  <2>2. PICK s : s = InBlock(d)'
    OBVIOUS
  <2>3. Distinct(block[d] \o Buffered(d)) /\ s = (block[d] \o r) \o Buffered(d)
    BY <1>3, <1>11, <2>1, <2>2 DEF EdgesIInv, Filed
  <2>4. Distinct(s) /\ Ids(s) = Ids(InBlock(d)) \union Ids(r)
    <3> DEFINE u == block[d]
               t == Buffered(d)
    <3>1. /\ u \in Seq(Nat) /\ r \in Seq(Nat) /\ t \in Seq(Nat) /\ s = (u \o r) \o t
          /\ Distinct(u \o t) /\ Distinct(r) /\ Ids(u \o t) \intersect Ids(r) = {}
          /\ InBlock(d) = u \o t
      BY <1>3, <1>9, <2>3
    <3> HIDE DEF u, t
    <3>2. QED
      BY <3>1, Inserted
  <2>5. Outgoing(w)' = Outgoing(w) \ Ids(r) /\ Ids(r) \subseteq Outgoing(w)
    BY <1>7, <1>8, <1>15
  <2>6. QED
    <3>1. Apart(w, d)
      BY <1>2, <1>3, <1>10, <1>12, <1>14, <2>1 DEF Apart
    <3>2. Moves(w, d, s, Ids(r))
      BY <2>2, <2>4, <2>5 DEF Moves, r
    <3>3. pc[w] \in {"store", "commit"}
      BY <1>2
    <3>4. QED
      BY <1>1, <1>3, <1>13, <3>1, <3>2, <3>3, WorkerHandsOn
<1>16. CASE ~(Len(r) > 1)
  <2>1. block' = block
    BY <1>2, <1>16
  <2>2. PICK s : s = InBlock(d)'
    OBVIOUS
  <2>3. s = InBlock(d)
    BY <1>3, <1>11, <2>1, <2>2
  <2>4. Distinct(s) /\ Ids(s) = Ids(InBlock(d)) \union {}
    BY <1>3, <2>3 DEF EdgesIInv, Filed
  <2>5. Outgoing(w)' = Outgoing(w) \ {} /\ {} \subseteq Outgoing(w) /\ {} \subseteq Ids(Run(w))
    BY <1>7, <1>16
  <2>6. QED
    <3>1. Apart(w, d)
      BY <1>2, <1>3, <1>5, <1>10, <1>12, <1>14, <2>1 DEF Apart
    <3>2. Moves(w, d, s, {})
      BY <2>2, <2>4, <2>5 DEF Moves
    <3>3. pc[w] \in {"store", "commit"}
      BY <1>2
    <3>4. QED
      BY <1>1, <1>3, <1>13, <3>1, <3>2, <3>3, WorkerHandsOn
<1>17. QED
  BY <1>15, <1>16

-----------------------------------------------------------------------------
(* A full buffer goes to the file as it is; otherwise it keeps the edge.   *)
LEMMA CommitFiles ==
    ASSUME Types, EdgesIInv, NEW w \in Workers, Commit(w), NEW d, d = ij[w], NEW s, s = InBlock(d)',
           Ids(InBlock(d)) \intersect Ids(Run(w)) = {}, Len(Run(w)) = 1
    PROVE  /\ Buffered(d)' \in Seq(Nat) /\ block' \in [Cells -> Seq(Nat)]
           /\ Distinct(s) /\ Ids(s) = Ids(InBlock(d)) \union Ids(Run(w))
<1> DEFINE r == Run(w)
           g == gridBuffer[d]
           B == Buffered(d)
           o == gridOffset[d]
           x == r[1]
           u == block[d]
           full == o + 1 = GridBufferSize
<1>1. pc[w] = "commit" /\ Arrived(w, d) /\ d = ij[w]
  BY AtCell DEF Commit
<1>2. gridOffset' = [gridOffset EXCEPT ![d] = IF full THEN 0 ELSE @ + 1]
  BY DEF Commit
<1>3. block' = IF full THEN [block EXCEPT ![d] = @ \o g] ELSE block
  BY DEF Commit
<1>4. gridBuffer' = gridBuffer /\ mainPc' = mainPc
  BY DEF Commit, mainVars
<1>5. block \in [Cells -> Seq(Nat)] /\ g \in [1 .. GridBufferSize -> Nat \union {NoEdge}]
      /\ DOMAIN gridOffset = Cells /\ d \in Cells
  BY <1>1 DEF EdgesIInv, Filed, Arrived, Types, TypeOK
<1>6. x \in Nat /\ g[o + 1] = x /\ Ids(r) = {x}
  BY <1>1, Runs DEF EdgesIInv, Progress, InPlace, Arrived
<1>7. r = <<x>>
  BY <1>1 DEF Arrived
<1>8. /\ o \in 0 .. GridBufferSize - 1 /\ GridBufferSize \in Nat
      /\ B = [k \in 1 .. o |-> g[k]] /\ B \in Seq(Nat) /\ u \in Seq(Nat)
      /\ InBlock(d) = u \o B /\ ~Alone /\ r \in Seq(Nat) /\ Distinct(r)
  BY <1>1 DEF Arrived
<1>9. Distinct(u \o B)
  BY <1>5, <1>8 DEF EdgesIInv, Filed
<1>10. s = block'[d] \o Buffered(d)'
  <2>1. ~(Alone)'
    BY <1>4, <1>8 DEF Alone
  <2>2. QED
    BY <2>1 DEF InBlock, Alone
<1>11. Buffered(d)' = [k \in 1 .. gridOffset'[d] |-> g[k]]
  BY <1>4 DEF Buffered
<1> HIDE DEF g, B, o, x, u, r
<1>12. /\ [k \in 1 .. o + 1 |-> g[k]] = B \o r /\ [k \in 1 .. o + 1 |-> g[k]] \in Seq(Nat)
       /\ full => g = B \o r
  BY <1>5, <1>6, <1>7, <1>8, BufferGrows
<1>13. B \o r \in Seq(Nat) /\ Distinct(u \o (B \o r)) /\ Ids(u \o (B \o r)) = Ids(u \o B) \union Ids(r)
  <2>1. u \in Seq(Nat) /\ B \in Seq(Nat) /\ r \in Seq(Nat) /\ Distinct(r)
    BY <1>8
  <2>2. /\ Ids(u \o B) = Ids(u) \union Ids(B)
        /\ Distinct(u \o B) <=> Distinct(u) /\ Distinct(B) /\ Ids(u) \intersect Ids(B) = {}
    BY <2>1, Concatenated
  <2>3. Ids(u \o B) \intersect Ids(r) = {}
    BY <1>8 DEF r
  <2>4. /\ B \o r \in Seq(Nat) /\ Ids(B \o r) = Ids(B) \union Ids(r)
        /\ Distinct(B \o r) <=> Distinct(B) /\ Distinct(r) /\ Ids(B) \intersect Ids(r) = {}
    BY <2>1, Concatenated
  <2>5. /\ Ids(u \o (B \o r)) = Ids(u) \union Ids(B \o r)
        /\ Distinct(u \o (B \o r)) <=>
              Distinct(u) /\ Distinct(B \o r) /\ Ids(u) \intersect Ids(B \o r) = {}
    <3> DEFINE t == B \o r
    <3>1. t \in Seq(Nat)
      BY <2>4
    <3> HIDE DEF t
    <3>2. /\ Ids(u \o t) = Ids(u) \union Ids(t)
          /\ Distinct(u \o t) <=> Distinct(u) /\ Distinct(t) /\ Ids(u) \intersect Ids(t) = {}
      BY <2>1, <3>1, Concatenated
    <3>3. QED
      BY <3>2 DEF t
  <2>6. QED
    BY <1>9, <2>1, <2>2, <2>3, <2>4, <2>5
<1>14. CASE full
  <2>1. gridOffset'[d] = 0 /\ block'[d] = u \o g
    BY <1>2, <1>3, <1>5, <1>14 DEF u
  <2>2. Buffered(d)' = << >>
    BY <1>11, <2>1
  <2>3. u \o g \in Seq(Nat) /\ g \in Seq(Nat)
    BY <1>8, <1>12, <1>13, <1>14
  <2>4. s = u \o (B \o r)
    <3>1. s = (u \o g) \o << >>
      BY <1>10, <2>1, <2>2
    <3>2. (u \o g) \o << >> = u \o g
      BY <2>3
    <3>3. QED
      BY <1>12, <1>14, <3>1, <3>2
  <2>5. block' \in [Cells -> Seq(Nat)]
    BY <1>3, <1>5, <1>14, <2>3 DEF u
  <2>6. << >> \in Seq(Nat)
    OBVIOUS
  <2>7. QED
    BY <1>8, <1>13, <2>2, <2>4, <2>5, <2>6 DEF r
<1>15. CASE ~full
  <2>1. gridOffset'[d] = o + 1 /\ block' = block /\ block'[d] = u
    BY <1>2, <1>3, <1>5, <1>15 DEF u, o
  <2>2. Buffered(d)' = B \o r
    BY <1>11, <1>12, <2>1
  <2>3. QED
    BY <1>5, <1>8, <1>10, <1>13, <2>1, <2>2 DEF r
<1>16. QED
  BY <1>14, <1>15

(* A single edge is handed on by the commit, a longer run by the store.    *)
LEMMA CommitEdges ==
    ASSUME Types, BufferOwnership, EdgesIInv, NEW w \in Workers, Commit(w)
    PROVE  EdgesIInv'
<1> DEFINE r == Run(w)
<1>1. PICK d : d = ij[w]
  OBVIOUS
<1>2. PICK s : s = InBlock(d)'
  OBVIOUS
<1>3. pc[w] = "commit" /\ Arrived(w, d)
  BY <1>1, AtCell DEF Commit
<1>4. /\ UNCHANGED <<input, mainVars, buffers, tasks, task, ends, local, gridBuffer>>
      /\ mutexes' = [mutexes EXCEPT ![d] = Nobody]
      /\ pc' = [pc EXCEPT ![w] = IF d = LastCell THEN "release" ELSE "lock"]
      /\ ij' = [ij EXCEPT ![w] = IF d = LastCell THEN ij[w] ELSE d + 1]
      /\ Len(r) # 1 => block' = block /\ gridOffset' = gridOffset
      /\ \A c \in Cells : c # d => block'[c] = block[c] /\ gridOffset'[c] = gridOffset[c]
  <2>1. /\ UNCHANGED <<input, mainVars, buffers, tasks, task, ends, local, gridBuffer>>
        /\ mutexes' = [mutexes EXCEPT ![d] = Nobody]
    BY <1>1 DEF Commit
  <2>2. ij \in [Workers -> Cells] /\ gridOffset \in [Cells -> 0 .. GridBufferSize - 1]
    BY DEF Types, TypeOK
  <2>3. /\ pc' = [pc EXCEPT ![w] = IF d = LastCell THEN "release" ELSE "lock"]
        /\ ij' = [ij EXCEPT ![w] = IF d = LastCell THEN ij[w] ELSE d + 1]
    BY <1>1, <2>2 DEF Commit, Go
  <2>4. block \in [Cells -> Seq(Nat)]
    BY DEF EdgesIInv, Filed
  <2>5. Len(r) # 1 => block' = block /\ gridOffset' = gridOffset
    BY <1>1, <2>2, <2>4 DEF Commit
  <2>6. \A c \in Cells : c # d => block'[c] = block[c] /\ gridOffset'[c] = gridOffset[c]
    BY <1>1, <2>2, <2>4 DEF Commit
  <2>7. QED
    BY <2>1, <2>3, <2>5, <2>6
<1>5. /\ DOMAIN pc = Workers /\ DOMAIN mutexes = Cells /\ DOMAIN ij = Workers
      /\ block \in [Cells -> Seq(Nat)]
      /\ gridBuffer \in [Cells -> [1 .. GridBufferSize -> Nat \union {NoEdge}]]
  BY DEF Types, TypeOK, EdgesIInv, Filed
<1>6. /\ d \in Cells /\ Working(w) /\ Sorting(w) /\ Sorted(w)
      /\ ~Alone /\ InBlock(d) = block[d] \o Buffered(d)
      /\ r \in Seq(Nat) /\ Distinct(r) /\ Len(r) \in Nat /\ Buffered(d) \in Seq(Nat)
      /\ Outgoing(w) = Rest(w, HandedOn(w))
  BY <1>3 DEF Arrived
<1>7. /\ pc'[w] \in {"lock", "release"} /\ \A v \in Workers : v # w => pc'[v] = pc[v] /\ ij'[v] = ij[v]
      /\ \A c \in Cells : c # d => mutexes'[c] = mutexes[c]
  BY <1>4, <1>5, <1>6
<1>8. /\ Rest(w, Start(w, d)) = Ids(r) \union Rest(w, ends[w][d])
      /\ Ids(r) \intersect Rest(w, ends[w][d]) = {}
      /\ Len(r) = 0 => Start(w, d) = ends[w][d]
  BY <1>1, <1>6, Runs
<1>9. Outgoing(w) = Rest(w, IF Len(r) = 1 THEN Start(w, d) ELSE ends[w][d])
  <2>1. HandedOn(w) = IF Len(r) = 1 THEN Start(w, d) ELSE ends[w][d]
    <3>1. HandedOn(w) = IF Len(r) > 1 THEN ends[w][d] ELSE Start(w, d)
      BY <1>1, <1>3 DEF HandedOn
    <3>2. \A n \in Nat : n > 1 \/ n = 1 \/ n = 0
      OBVIOUS
    <3>3. Len(r) > 1 \/ Len(r) = 1 \/ Len(r) = 0
      BY <1>6, <3>2
    <3>4. ~(1 > 1)
      OBVIOUS
    <3>5. CASE Len(r) = 1
      BY <3>1, <3>4, <3>5
    <3>6. CASE Len(r) = 0
      BY <1>8, <3>1, <3>6
    <3>7. QED
      BY <3>1, <3>3, <3>5, <3>6
  <2>2. QED
    BY <1>6, <2>1
<1>10. Outgoing(w)' = Rest(w, ends[w][d])
  <2>1. CASE d = LastCell
    <3>1. Outgoing(w)' = {}
      BY <1>4, <1>5, <2>1 DEF Outgoing, Reading
    <3>2. ends[w][d] = Len(local[w]) /\ Len(local[w]) \in Nat
      BY <1>6, <2>1 DEF Sorted
    <3>3. Len(local[w]) + 1 .. Len(local[w]) = {}
      BY <3>2
    <3>4. QED
      BY <3>1, <3>2, <3>3 DEF Rest
  <2>2. CASE d # LastCell
    <3>1. pc'[w] = "lock" /\ ij'[w] = d + 1
      BY <1>4, <1>5, <2>2
    <3>2. d \in Nat
      BY <1>6, CellRange
    <3>3. HandedOn(w)' = ends[w][d]
      <4>1. HandedOn(w)' = IF d + 1 = 0 THEN 0 ELSE ends[w][(d + 1) - 1]
        BY <1>4, <3>1 DEF HandedOn, Start
      <4>2. d + 1 # 0 /\ (d + 1) - 1 = d
        BY <3>2
      <4>3. QED
        BY <4>1, <4>2
    <3>4. Outgoing(w)' = {local'[w][p] : p \in HandedOn(w)' + 1 .. Len(local'[w])}
      BY <3>1 DEF Outgoing
    <3>5. QED
      BY <1>4, <3>3, <3>4 DEF Rest
  <2>3. QED
    BY <2>1, <2>2
<1>11. InPlace(w)' /\ ~Reading(w)'
  <2>1. Sorted(w)'
    <3>1. \A e : CellOf(e)' = CellOf(e)
      BY <1>4 DEF CellOf, Edge
    <3>2. \A c : Start(w, c)' = Start(w, c)
      BY <1>4 DEF Start
    <3>3. Known' = Known
      BY <1>4 DEF Known, mainVars
    <3>4. QED
      BY <1>4, <1>6, <3>1, <3>2, <3>3 DEF Sorted
  <2>2. QED
    BY <1>7, <2>1 DEF InPlace, Reading
<1>12. ~(Alone)'
  BY <1>4, <1>6 DEF Alone, mainVars
<1>13. \A S : Moves(w, d, s, S) /\ Buffered(d)' \in Seq(Nat) /\ block' \in [Cells -> Seq(Nat)] => EdgesIInv'
  <2> SUFFICES ASSUME NEW S, Moves(w, d, s, S), Buffered(d)' \in Seq(Nat), block' \in [Cells -> Seq(Nat)]
               PROVE  EdgesIInv'
    OBVIOUS
  <2>1. Apart(w, d)
    BY <1>4, <1>5, <1>7 DEF Apart
  <2>2. pc[w] \in {"store", "commit"}
    BY <1>3
  <2>3. QED
    BY <1>1, <1>6, <1>11, <2>1, <2>2, WorkerHandsOn
<1>14. CASE Len(r) = 1
  <2>1. Ids(InBlock(d)) \intersect Ids(r) = {}
    BY <1>1, <1>3, <1>8, <1>9, <1>14, RunIsNew
  <2>2. /\ Buffered(d)' \in Seq(Nat) /\ block' \in [Cells -> Seq(Nat)]
        /\ Distinct(s) /\ Ids(s) = Ids(InBlock(d)) \union Ids(r)
    BY <1>1, <1>2, <1>14, <2>1, CommitFiles
  <2>3. Outgoing(w)' = Outgoing(w) \ Ids(r) /\ Ids(r) \subseteq Outgoing(w)
    BY <1>8, <1>9, <1>10, <1>14
  <2>4. Moves(w, d, s, Ids(r))
    BY <1>2, <2>2, <2>3 DEF Moves
  <2>5. QED
    BY <1>13, <2>2, <2>4
<1>15. CASE Len(r) # 1
  <2>1. Buffered(d)' = Buffered(d) /\ block' = block
    BY <1>4, <1>15 DEF Buffered
  <2>2. s = InBlock(d)
    BY <1>2, <1>6, <1>12, <2>1 DEF InBlock, Alone
  <2>3. Distinct(s) /\ Ids(s) = Ids(InBlock(d)) \union {}
    BY <1>6, <2>2 DEF EdgesIInv, Filed
  <2>4. Outgoing(w)' = Outgoing(w) \ {}
    BY <1>9, <1>10, <1>15
  <2>5. Moves(w, d, s, {})
    BY <1>2, <2>3, <2>4 DEF Moves
  <2>6. QED
    BY <1>5, <1>6, <1>13, <2>1, <2>5
<1>16. QED
  BY <1>14, <1>15

-----------------------------------------------------------------------------
(* EdgesIInv holds in every reachable state.                               *)
LEMMA WorkerEdges ==
    ASSUME Types, BufferOwnership, EdgesIInv, NEW w \in Workers, WorkerStep(w)
    PROVE  EdgesIInv'
BY PopEdges, CountEdges, ScatterEdges, LockCellEdges, StoreEdges, CommitEdges, ReleaseEdges
   DEF WorkerStep

LEMMA EdgesInvariant == Spec => [](Types /\ BufferOwnership /\ EdgesIInv)
<1>1. Types /\ BufferOwnership /\ EdgesIInv /\ [Next]_vars => EdgesIInv'
  <2> SUFFICES ASSUME Types, BufferOwnership, EdgesIInv, [Next]_vars PROVE EdgesIInv'
    OBVIOUS
  <2>1. CASE MainStep
    BY <2>1, MainEdges
  <2>2. ASSUME NEW w \in Workers, WorkerStep(w) PROVE EdgesIInv'
    BY <2>2, WorkerEdges
  <2>3. CASE UNCHANGED vars
    <3>1. UNCHANGED <<input, readPos, mainPc, cursor, bytes, buffers, tasks, workerVars, fileVars>>
      BY <2>3 DEF vars, mainVars
    <3>2. (Alone)' <=> Alone
      BY <3>1 DEF Alone
    <3>3. Contents'
      BY <3>1 DEF EdgesIInv, Contents, Known, Reading, workerVars
    <3>4. \A b \in Buffers : Waiting(b)' <=> Waiting(b)
      BY <3>1 DEF Waiting
    <3>5. QED
      BY <3>1, <3>2, <3>3, <3>4, MainSamePlaces
  <2>4. QED
    BY <2>1, <2>2, <2>3 DEF Next, Finished
<1>2. QED
  BY PoolInvariant, InitEdges, <1>1, PTL DEF Spec

(* A file holds at most as many edges as there are to put in it.           *)
LEMMA PositionBound ==
    ASSUME NEW s \in Seq(Nat), NEW n \in Nat, Distinct(s), Ids(s) \subseteq 1 .. n
    PROVE  Len(s) <= n
<1> DEFINE L == Len(s)
<1>1. L \in Nat /\ DOMAIN s = 1 .. L /\ s \in [1 .. L -> Nat]
  OBVIOUS
<1>2. \A k \in 1 .. L : s[k] \in 1 .. n
  BY <1>1 DEF Ids
<1>3. s \in Injection(1 .. L, 1 .. n)
  <2>1. s \in [1 .. L -> 1 .. n]
    BY <1>1, <1>2
  <2>2. QED
    BY <1>1, <2>1 DEF Distinct, Injection, IsInjective
<1> HIDE DEF L
<1>4. IsFiniteSet(1 .. n) /\ Cardinality(1 .. n) = n
  <2>1. IsFiniteSet(1 .. n) /\ Cardinality(1 .. n) = IF 1 > n THEN 0 ELSE n - 1 + 1
    BY FS_Interval
  <2>2. QED
    BY <2>1
<1>5. Cardinality(1 .. L) = L
  <2>1. Cardinality(1 .. L) = IF 1 > L THEN 0 ELSE L - 1 + 1
    BY <1>1, FS_Interval
  <2>2. QED
    BY <1>1, <2>1
<1>6. Cardinality(1 .. L) <= Cardinality(1 .. n)
  BY <1>3, <1>4, FS_Injection
<1>7. QED
  BY <1>4, <1>5, <1>6 DEF L

(* EdgesConserved speaks of tasks and workers, EdgesIInv of buffers: the   *)
(* places are the same.                                                    *)
LEMMA WhereWaiting ==
    ASSUME Types, Contents, NEW e
    PROVE  e \in InHand \/ e \in Queued <=> \E b \in Buffers : Waiting(b) /\ e \in Ids(buffers[b])
<1>1. e \in InHand <=> mainPc \in {"occupy", "push"} /\ e \in Ids(buffers[cursor])
  BY DEF InHand
<1>2. cursor \in Buffers
  BY DEF Types, TypeOK
<1>3. \A k \in DOMAIN tasks : tasks[k] # Pill =>
         /\ tasks[k].cursor \in Buffers
         /\ SubSeq(buffers[tasks[k].cursor], 1, tasks[k].bytes) = buffers[tasks[k].cursor]
  <2>1. \A s \in Seq(Nat) : SubSeq(s, 1, Len(s)) = s
    OBVIOUS
  <2>2. QED
    <3> SUFFICES ASSUME NEW k \in DOMAIN tasks, tasks[k] # Pill
                 PROVE  /\ tasks[k].cursor \in Buffers
                        /\ SubSeq(buffers[tasks[k].cursor], 1, tasks[k].bytes) = buffers[tasks[k].cursor]
      OBVIOUS
    <3>1. tasks[k].cursor \in Buffers /\ tasks[k].bytes = Len(buffers[tasks[k].cursor])
      BY DEF Types, TypeOK, Contents
    <3>2. buffers[tasks[k].cursor] \in Seq(Nat)
      BY <3>1 DEF Contents
    <3>3. QED
      BY <2>1, <3>1, <3>2
<1>4. \A k \in DOMAIN tasks : tasks[k].cursor \in Buffers => tasks[k] # Pill
  BY PillIsTask
<1>5. e \in Queued <=> \E k \in DOMAIN tasks : tasks[k].cursor \in Buffers /\ e \in Ids(buffers[tasks[k].cursor])
  <2>1. e \in Queued <=> \E t \in Ids(tasks) : t # Pill /\ e \in Ids(SubSeq(buffers[t.cursor], 1, t.bytes))
    BY DEF Queued
  <2>2. \A t : t \in Ids(tasks) <=> \E k \in DOMAIN tasks : t = tasks[k]
    BY DEF Ids
  <2>3. ASSUME NEW k \in DOMAIN tasks, tasks[k].cursor \in Buffers, e \in Ids(buffers[tasks[k].cursor])
        PROVE  e \in Queued
    <3>1. tasks[k] \in Ids(tasks) /\ tasks[k] # Pill
      BY <1>4, <2>3 DEF Ids
    <3>2. e \in Ids(SubSeq(buffers[tasks[k].cursor], 1, tasks[k].bytes))
      BY <1>3, <2>3, <3>1
    <3>3. QED
      BY <2>1, <3>1, <3>2
  <2>4. ASSUME e \in Queued
        PROVE  \E k \in DOMAIN tasks : tasks[k].cursor \in Buffers /\ e \in Ids(buffers[tasks[k].cursor])
    <3>1. PICK t \in Ids(tasks) : t # Pill /\ e \in Ids(SubSeq(buffers[t.cursor], 1, t.bytes))
      BY <2>1, <2>4
    <3>2. PICK k \in DOMAIN tasks : t = tasks[k]
      BY DEF Ids
    <3>3. tasks[k].cursor \in Buffers /\ e \in Ids(buffers[tasks[k].cursor])
      BY <1>3, <3>1, <3>2
    <3>4. QED
      BY <3>3
  <2>5. QED
    BY <2>3, <2>4
<1>6. QED
  BY <1>1, <1>2, <1>5 DEF Waiting

LEMMA WhereOutgoing ==
    ASSUME Types, BufferOwnership, EdgesIInv, NEW e \in Nat, NEW w \in Workers, e \in Outgoing(w)
    PROVE  /\ Working(w) /\ task[w].cursor \in Buffers /\ ~Waiting(task[w].cursor)
           /\ e \in Carriage[task[w].cursor]
<1>1. Working(w)
  BY OutgoingIs
<1>2. QED
  BY <1>1, WorkerCarries DEF Carriage

-----------------------------------------------------------------------------
(* The places of one edge: the workers that have still to hand it on, and  *)
(* its positions in the files.                                             *)
Holders(e) == {w \in Workers : e \in Outgoing(w)}
Spots(e) == {p \in Cells \X (1 .. Len(input)) :
                p[2] \in DOMAIN InBlock(p[1]) /\ InBlock(p[1])[p[2]] = e}

(* Two workers never hold the same edge.                                   *)
LEMMA HolderIsAlone ==
    ASSUME Types, BufferOwnership, EdgesIInv, NEW e \in Nat
    PROVE  IF \E w \in Workers : e \in Outgoing(w)
           THEN \E w \in Workers : Holders(e) = {w} ELSE Holders(e) = {}
<1>1. ASSUME NEW v \in Workers, NEW w \in Workers, e \in Outgoing(v), e \in Outgoing(w) PROVE v = w
  <2>1. /\ Working(v) /\ task[v].cursor \in Buffers /\ e \in Carriage[task[v].cursor]
        /\ Working(w) /\ task[w].cursor \in Buffers /\ e \in Carriage[task[w].cursor]
    BY <1>1, WhereOutgoing
  <2>2. task[v].cursor = task[w].cursor
    BY <2>1 DEF EdgesIInv, Located, OnePlace
  <2>3. QED
    BY <2>1, <2>2 DEF BufferOwnership
<1>2. QED
  BY <1>1 DEF Holders

(* An edge is at most once in the files.                                   *)
LEMMA SpotIsOne ==
    ASSUME Types, EdgesIInv, NEW e \in Nat
    PROVE  IF \E c \in Cells : e \in Ids(InBlock(c))
           THEN \E p : Spots(e) = {p} ELSE Spots(e) = {}
<1>1. \A c \in Cells : /\ InBlock(c) \in Seq(Nat) /\ Distinct(InBlock(c))
                       /\ \A k \in DOMAIN InBlock(c) : CellOf(InBlock(c)[k]) = c
  <2> SUFFICES ASSUME NEW c \in Cells
               PROVE  /\ InBlock(c) \in Seq(Nat) /\ Distinct(InBlock(c))
                      /\ \A k \in DOMAIN InBlock(c) : CellOf(InBlock(c)[k]) = c
    OBVIOUS
  <2>1. block[c] \in Seq(Nat) /\ Buffered(c) \in Seq(Nat) /\ Distinct(InBlock(c))
        /\ \A x \in Ids(InBlock(c)) : CellOf(x) = c
    BY DEF EdgesIInv, Filed
  <2>2. << >> \in Seq(Nat)
    OBVIOUS
  <2>3. InBlock(c) \in Seq(Nat)
    BY <2>1, <2>2 DEF InBlock
  <2>4. QED
    BY <2>1, <2>3 DEF Ids
<1>2. \A c \in Cells : Len(InBlock(c)) <= Len(input)
  <2> SUFFICES ASSUME NEW c \in Cells PROVE Len(InBlock(c)) <= Len(input)
    OBVIOUS
  <2>1. readPos \in 0 .. Len(input) /\ Len(input) \in Nat
    BY DEF Types, TypeOK
  <2>2. Ids(InBlock(c)) \subseteq 1 .. readPos
    BY DEF EdgesIInv, Located, OnePlace, Written
  <2>3. Len(InBlock(c)) <= readPos /\ Len(InBlock(c)) \in Nat
    BY <1>1, <2>1, <2>2, PositionBound
  <2>4. QED
    BY <2>1, <2>3
<1>3. ASSUME NEW p \in Spots(e), NEW q \in Spots(e) PROVE p = q
  <2>1. /\ p \in Cells \X (1 .. Len(input)) /\ q \in Cells \X (1 .. Len(input))
        /\ p[2] \in DOMAIN InBlock(p[1]) /\ InBlock(p[1])[p[2]] = e
        /\ q[2] \in DOMAIN InBlock(q[1]) /\ InBlock(q[1])[q[2]] = e
    BY <1>3 DEF Spots
  <2>2. p[1] = q[1]
    BY <1>1, <2>1
  <2>3. p[2] = q[2]
    BY <1>1, <2>1, <2>2 DEF Distinct
  <2>4. QED
    BY <2>1, <2>2, <2>3
<1>4. CASE \E c \in Cells : e \in Ids(InBlock(c))
  <2>0. PICK c \in Cells : \E k \in DOMAIN InBlock(c) : InBlock(c)[k] = e
    BY <1>4 DEF Ids
  <2>1. PICK k \in DOMAIN InBlock(c) : InBlock(c)[k] = e
    BY <2>0
  <2>2. k \in 1 .. Len(input)
    <3>1. Len(input) \in Nat
      BY DEF Types
    <3>2. Len(InBlock(c)) \in Nat /\ DOMAIN InBlock(c) = 1 .. Len(InBlock(c)) /\ Len(InBlock(c)) <= Len(input)
      BY <1>1, <1>2
    <3>3. QED
      BY <3>1, <3>2
  <2>3. <<c, k>> \in Spots(e)
    BY <2>1, <2>2 DEF Spots
  <2>4. Spots(e) = {<<c, k>>}
    BY <1>3, <2>3
  <2>5. QED
    BY <1>4, <2>4
<1>5. CASE ~\E c \in Cells : e \in Ids(InBlock(c))
  BY <1>5 DEF Spots, Ids
<1>6. QED
  BY <1>4, <1>5

(* An edge waits for main or in the queue, or is with one worker, or in    *)
(* one place of the file of its cell, and never in two of these.           *)
LEMMA OncePlaced ==
    ASSUME Types, BufferOwnership, EdgesIInv, NEW e \in 1 .. Len(input)
    PROVE  1 = (IF e > readPos \/ e \in InHand \/ e \in Queued THEN 1 ELSE 0)
               + Cardinality(Holders(e)) + Cardinality(Spots(e))
<1> DEFINE W == e > readPos \/ e \in InHand \/ e \in Queued
           H == \E w \in Workers : e \in Outgoing(w)
           P == \E c \in Cells : e \in Ids(InBlock(c))
<1>1. readPos \in 0 .. Len(input) /\ Len(input) \in Nat /\ e \in Nat
  BY DEF Types, TypeOK
<1>2. e \in InHand \/ e \in Queued <=> \E b \in Buffers : Waiting(b) /\ e \in Ids(buffers[b])
  BY WhereWaiting DEF EdgesIInv
<1>3. e \in InHand \/ e \in Queued <=> \E b \in Buffers : Waiting(b) /\ e \in Carriage[b]
  <2>1. \A b \in Buffers : Waiting(b) /\ e \in Ids(buffers[b]) => e \in Carriage[b]
    BY <1>1 DEF Carriage, Carried
  <2>2. ASSUME NEW b \in Buffers, Waiting(b), e \in Carriage[b] PROVE e \in Ids(buffers[b])
    <3>1. \/ e \in Ids(buffers[b])
          \/ \E w \in Workers : task[w].cursor = b /\ e \in Outgoing(w)
      BY <2>2 DEF Carriage, Carried
    <3>2. \A w \in Workers : e \in Outgoing(w) => ~Waiting(task[w].cursor)
      BY <1>1, WhereOutgoing
    <3>3. QED
      BY <2>2, <3>1, <3>2
  <2>3. QED
    BY <1>2, <2>1, <2>2
<1>4. H <=> \E b \in Buffers : ~Waiting(b) /\ e \in Carriage[b]
  <2>1. ASSUME NEW w \in Workers, e \in Outgoing(w)
        PROVE  \E b \in Buffers : ~Waiting(b) /\ e \in Carriage[b]
    BY <1>1, <2>1, WhereOutgoing
  <2>2. ASSUME NEW b \in Buffers, ~Waiting(b), e \in Carriage[b] PROVE H
    BY <2>2 DEF Carriage, Carried
  <2>3. QED
    BY <2>1, <2>2
<1>5. P <=> \E c \in Cells : e \in Written[c]
  BY DEF Written
<1>6. OnePlace(Carriage, Written, readPos)
  BY DEF EdgesIInv, Located
<1> DEFINE I == e \in InHand \/ e \in Queued
<1>7. W <=> (e > readPos \/ I)
  OBVIOUS
<1> HIDE DEF W, H, P, I
<1>8. ~(W /\ H) /\ ~(W /\ P) /\ ~(H /\ P) /\ (W \/ H \/ P)
  <2>1. I <=> \E b \in Buffers : Waiting(b) /\ e \in Carriage[b]
    BY <1>3 DEF I
  <2>2. (I \/ H) => ~P
    BY <1>4, <1>5, <1>6, <2>1 DEF OnePlace
  <2>3. ~(I /\ H)
    BY <1>4, <1>6, <2>1 DEF OnePlace
  <2>4. e > readPos => ~I /\ ~H /\ ~P
    <3>1. e > readPos => e \notin 1 .. readPos
      BY <1>1
    <3>2. QED
      BY <1>4, <1>5, <1>6, <2>1, <3>1 DEF OnePlace
  <2>5. e > readPos \/ I \/ H \/ P
    <3>1. e > readPos \/ e \in 1 .. readPos
      BY <1>1
    <3>2. QED
      BY <1>4, <1>5, <1>6, <2>1, <3>1 DEF OnePlace
  <2>6. QED
    BY <1>7, <2>2, <2>3, <2>4, <2>5
<1>9. Cardinality(Holders(e)) = IF H THEN 1 ELSE 0
  <2>1. H => \E w \in Workers : Holders(e) = {w}
    BY <1>1, HolderIsAlone DEF H
  <2>2. ~H => Holders(e) = {}
    BY DEF H, Holders
  <2>3. QED
    BY <2>1, <2>2, FS_EmptySet, FS_Singleton
<1>10. Cardinality(Spots(e)) = IF P THEN 1 ELSE 0
  <2>1. (P => \E p : Spots(e) = {p}) /\ (~P => Spots(e) = {})
    BY <1>1, SpotIsOne DEF P
  <2>2. QED
    BY <2>1, FS_EmptySet, FS_Singleton
<1>11. 1 = (IF W THEN 1 ELSE 0) + Cardinality(Holders(e)) + Cardinality(Spots(e))
  BY <1>8, <1>9, <1>10
<1>12. QED
  BY <1>11 DEF W

(* No edge is lost or written twice, and each reaches only the file of the *)
(* cell of its two partitions.                                             *)
THEOREM EdgesAreConserved == Spec => []EdgesConserved
<1>1. Types /\ BufferOwnership /\ EdgesIInv => EdgesConserved
  <2> SUFFICES ASSUME Types, BufferOwnership, EdgesIInv PROVE EdgesConserved
    OBVIOUS
  <2>1. \A e \in 1 .. Len(input) :
          1 = (IF e > readPos \/ e \in InHand \/ e \in Queued THEN 1 ELSE 0)
              + Cardinality({w \in Workers : e \in Outgoing(w)})
              + Cardinality({p \in Cells \X (1 .. Len(input)) :
                               /\ p[2] \in DOMAIN InBlock(p[1])
                               /\ InBlock(p[1])[p[2]] = e})
    BY OncePlaced DEF Holders, Spots
  <2>2. \A c \in Cells : \A k \in DOMAIN InBlock(c) : CellOf(InBlock(c)[k]) = c
    BY DEF EdgesIInv, Filed, Ids
  <2>3. QED
    BY <2>1, <2>2 DEF EdgesConserved
<1>2. QED
  BY EdgesInvariant, <1>1, PTL

-----------------------------------------------------------------------------
(* The two files of the grid.  A block is found again from its number.     *)
LEMMA DivMod ==
    ASSUME NEW P \in Nat \ {0}, NEW q \in Nat, NEW i \in 0 .. P - 1
    PROVE  (q * P + i) % P = i /\ (q * P + i) \div P = q
OBVIOUS

(* Parts of a file that grows at its end.                                  *)
LEMMA Slice ==
    ASSUME NEW s \in Seq(Nat), NEW a \in Nat, NEW b \in 0 .. Len(s), a <= b
    PROVE  /\ SubSeq(s, a + 1, b) \in Seq(Nat) /\ Len(SubSeq(s, a + 1, b)) = b - a
           /\ \A k \in 1 .. b - a : SubSeq(s, a + 1, b)[k] = s[a + k]
OBVIOUS

LEMMA Slices ==
    ASSUME NEW s \in Seq(Nat), NEW t \in Seq(Nat)
    PROVE  /\ \A a, b \in 0 .. Len(s) : a <= b =>
                SubSeq(s \o t, a + 1, b) = SubSeq(s, a + 1, b)
           /\ SubSeq(s \o t, Len(s) + 1, Len(s \o t)) = t
<1> DEFINE u == s \o t
<1>1. /\ u \in Seq(Nat) /\ Len(u) = Len(s) + Len(t) /\ Len(s) \in Nat /\ Len(t) \in Nat
      /\ \A k \in 1 .. Len(s) : u[k] = s[k]
      /\ \A k \in 1 .. Len(t) : u[Len(s) + k] = t[k]
  OBVIOUS
<1>2. \A p, q \in Seq(Nat) : Len(p) = Len(q) /\ (\A k \in 1 .. Len(p) : p[k] = q[k]) => p = q
  <2> SUFFICES ASSUME NEW p \in Seq(Nat), NEW q \in Seq(Nat), Len(p) = Len(q),
                      \A k \in 1 .. Len(p) : p[k] = q[k]
               PROVE  p = q
    OBVIOUS
  <2>1. p = [k \in 1 .. Len(p) |-> p[k]] /\ q = [k \in 1 .. Len(q) |-> q[k]]
    OBVIOUS
  <2>2. QED
    BY <2>1
<1> HIDE DEF u
<1>3. ASSUME NEW a \in 0 .. Len(s), NEW b \in 0 .. Len(s), a <= b
      PROVE  SubSeq(u, a + 1, b) = SubSeq(s, a + 1, b)
  <2> DEFINE p == SubSeq(u, a + 1, b)
             q == SubSeq(s, a + 1, b)
  <2>0. b \in 0 .. Len(u)
    BY <1>1, <1>3
  <2>1. p \in Seq(Nat) /\ Len(p) = b - a /\ \A k \in 1 .. b - a : p[k] = u[a + k]
    <3>1. a \in Nat /\ u \in Seq(Nat)
      BY <1>1
    <3>2. /\ SubSeq(u, a + 1, b) \in Seq(Nat) /\ Len(SubSeq(u, a + 1, b)) = b - a
          /\ \A k \in 1 .. b - a : SubSeq(u, a + 1, b)[k] = u[a + k]
      BY <1>3, <2>0, <3>1, Slice
    <3>3. QED
      BY <3>2
  <2>2. q \in Seq(Nat) /\ Len(q) = b - a /\ \A k \in 1 .. b - a : q[k] = s[a + k]
    BY <1>3, Slice
  <2>3. \A k \in 1 .. b - a : u[a + k] = s[a + k]
    <3> SUFFICES ASSUME NEW k \in 1 .. b - a PROVE u[a + k] = s[a + k]
      OBVIOUS
    <3>1. a + k \in 1 .. Len(s)
      BY <1>1, <1>3
    <3>2. QED
      BY <1>1, <3>1
  <2> HIDE DEF p, q
  <2>4. p = q
    BY <1>2, <2>1, <2>2, <2>3
  <2>5. QED
    BY <2>4 DEF p, q
<1>4. SubSeq(u, Len(s) + 1, Len(u)) = t
  <2> DEFINE p == SubSeq(u, Len(s) + 1, Len(u))
  <2> DEFINE a == Len(s)
             b == Len(u)
  <2>0. a \in Nat /\ b \in Nat /\ b - a = Len(t) /\ a <= b
    BY <1>1
  <2>1. p \in Seq(Nat) /\ Len(p) = Len(t) /\ \A k \in 1 .. Len(t) : p[k] = u[Len(s) + k]
    <3>1. p = SubSeq(u, a + 1, b)
      OBVIOUS
    <3>2. b \in 0 .. Len(u)
      BY <1>1
    <3> HIDE DEF a, b, p
    <3>3. p \in Seq(Nat) /\ Len(p) = b - a /\ \A k \in 1 .. b - a : p[k] = u[a + k]
      BY <1>1, <2>0, <3>1, <3>2, Slice
    <3>4. QED
      BY <2>0, <3>3 DEF a
  <2> HIDE DEF p
  <2>2. p = t
    BY <1>1, <1>2, <2>1
  <2>3. QED
    BY <2>2 DEF p
<1>5. QED
  BY <1>3, <1>4 DEF u

(* The blocks written so far lie one behind the other, in the order that   *)
(* is asked for, each from its offset to the next one.                     *)
End(file, offset, k) == IF k < Len(offset) THEN offset[k + 1] ELSE Len(file)
Laid(B, file, offset, order) ==
    /\ file \in Seq(Nat) /\ offset \in Seq(Nat)
    /\ \A k \in 1 .. LastCell + 1 : k <= Len(offset) =>
          /\ End(file, offset, k) \in 0 .. Len(file)
          /\ offset[k] \in 0 .. End(file, offset, k)
          /\ SubSeq(file, offset[k] + 1, End(file, offset, k)) = B[order[k]]

LEMMA LaidOn ==
    ASSUME NEW B, NEW file, NEW offset, NEW order, Laid(B, file, offset, order), NEW x \in Seq(Nat),
           Len(offset) <= LastCell => x = B[order[Len(offset) + 1]]
    PROVE  Laid(B, file \o x, Append(offset, Len(file)), order)
<1> DEFINE u == file \o x
           v == Append(offset, Len(file))
           n == Len(offset)
<1>1. /\ file \in Seq(Nat) /\ offset \in Seq(Nat) /\ n \in Nat /\ Len(file) \in Nat
      /\ u \in Seq(Nat) /\ v \in Seq(Nat) /\ Len(v) = n + 1
      /\ Len(u) = Len(file) + Len(x) /\ Len(x) \in Nat
      /\ v[n + 1] = Len(file) /\ \A k \in 1 .. n : v[k] = offset[k]
  BY DEF Laid
<1>2. /\ \A a, b \in 0 .. Len(file) : a <= b => SubSeq(u, a + 1, b) = SubSeq(file, a + 1, b)
      /\ SubSeq(u, Len(file) + 1, Len(u)) = x
  BY <1>1, Slices
<1>3. LastCell \in Nat
  BY CellRange
<1> HIDE DEF u, v, n
<1>4. ASSUME NEW k \in 1 .. LastCell + 1, k <= n
      PROVE  /\ End(u, v, k) \in 0 .. Len(u) /\ v[k] \in 0 .. End(u, v, k)
             /\ SubSeq(u, v[k] + 1, End(u, v, k)) = B[order[k]]
  <2>1. /\ End(file, offset, k) \in 0 .. Len(file)
        /\ offset[k] \in 0 .. End(file, offset, k)
        /\ SubSeq(file, offset[k] + 1, End(file, offset, k)) = B[order[k]]
    BY <1>4 DEF Laid, n
  <2>2. v[k] = offset[k]
    <3>1. k \in 1 .. n
      BY <1>1, <1>3, <1>4
    <3>2. QED
      BY <1>1, <3>1
  <2>3. End(u, v, k) = End(file, offset, k)
    <3>1. End(u, v, k) = v[k + 1]
      BY <1>1, <1>3, <1>4 DEF End
    <3>2. CASE k < n
      <4>1. v[k + 1] = offset[k + 1]
        BY <1>1, <1>3, <1>4, <3>2
      <4>2. QED
        BY <3>1, <3>2, <4>1 DEF End, n
    <3>3. CASE ~(k < n)
      <4>1. k = n
        BY <1>1, <1>3, <1>4, <3>3
      <4>2. QED
        BY <1>1, <3>1, <3>3, <4>1 DEF End, n
    <3>4. QED
      BY <3>2, <3>3
  <2>4. QED
    <3> DEFINE a == offset[k]
               b == End(file, offset, k)
    <3>1. v[k] = a /\ End(u, v, k) = b /\ b \in 0 .. Len(file) /\ a \in 0 .. b
          /\ SubSeq(file, a + 1, b) = B[order[k]]
      BY <2>1, <2>2, <2>3
    <3> HIDE DEF a, b
    <3>2. a \in 0 .. Len(file) /\ a <= b /\ b \in 0 .. Len(u)
      <4>1. Len(file) \in Nat /\ Len(u) \in Nat /\ Len(file) <= Len(u)
        BY <1>1
      <4>2. QED
        BY <3>1, <4>1
    <3>3. SubSeq(u, a + 1, b) = SubSeq(file, a + 1, b)
      BY <1>2, <3>1, <3>2
    <3>4. QED
      BY <3>1, <3>2, <3>3
<1>5. ASSUME n + 1 \in 1 .. LastCell + 1
      PROVE  /\ End(u, v, n + 1) \in 0 .. Len(u) /\ v[n + 1] \in 0 .. End(u, v, n + 1)
             /\ SubSeq(u, v[n + 1] + 1, End(u, v, n + 1)) = B[order[n + 1]]
  <2>1. End(u, v, n + 1) = Len(u)
    BY <1>1 DEF End
  <2>2. x = B[order[n + 1]]
    BY <1>1, <1>3, <1>5 DEF n
  <2>3. QED
    BY <1>1, <1>2, <2>1, <2>2
<1>6. \A k \in 1 .. LastCell + 1 : k <= Len(v) => k <= n \/ k = n + 1
  BY <1>1, <1>3
<1>7. Laid(B, u, v, order)
  BY <1>1, <1>4, <1>5, <1>6 DEF Laid
<1>8. QED
  BY <1>7 DEF u, v

(* No task lies behind a pill, and main sends pills only when it has read  *)
(* the whole input: when the workers have gone nothing waits any more.     *)
Sending == mainPc \in {"read", "occupy", "push", "spin"}
Sent ==
    /\ Sending => /\ \A k \in DOMAIN tasks : tasks[k] # Pill
                  /\ \A w \in Workers : pc[w] # "exited"
    /\ ~Sending => readPos = Len(input)
    /\ \A k, m \in DOMAIN tasks : k < m /\ tasks[k] = Pill => tasks[m] = Pill
    /\ \A w \in Workers : pc[w] = "exited" => \A k \in DOMAIN tasks : tasks[k] = Pill

WriteIInv ==
    /\ Laid(block, column, columnOffset, ColumnOrder)
    /\ Laid(block, row, rowOffset, RowOrder)
    /\ ~Alone => columnOffset = << >>
    /\ mainPc \notin {"row", "done"} => rowOffset = << >>
    /\ mainPc = "column" => Len(columnOffset) <= LastCell + 1
    /\ mainPc = "row" => Len(rowOffset) <= LastCell + 1
    /\ mainPc \in {"row", "done"} => Len(columnOffset) = LastCell + 2
    /\ mainPc = "done" => Len(rowOffset) = LastCell + 2

-----------------------------------------------------------------------------
(* Sent is inductive.                                                      *)
LEMMA InitWrites == Init => Sent /\ WriteIInv
<1> SUFFICES ASSUME Init PROVE Sent /\ WriteIInv
  OBVIOUS
<1>1. Sent
  BY DEF Init, Sent, Sending
<1>2. column = << >> /\ columnOffset = << >> /\ row = << >> /\ rowOffset = << >> /\ mainPc = "read"
  BY DEF Init
<1>3. \A B, order : Laid(B, << >>, << >>, order)
  <2>1. << >> \in Seq(Nat) /\ Len(<< >>) = 0
    OBVIOUS
  <2>2. LastCell \in Nat
    BY CellRange
  <2>3. QED
    BY <2>1, <2>2 DEF Laid
<1>4. QED
  BY <1>1, <1>2, <1>3 DEF WriteIInv, Alone

LEMMA SentSame ==
    ASSUME Sent, UNCHANGED <<input, readPos, tasks>>, Sending' <=> Sending,
           \A w \in Workers : pc'[w] = "exited" <=> pc[w] = "exited"
    PROVE  Sent'
BY DEF Sent

LEMMA MainSent == Types /\ Sent /\ MainStep => Sent'
<1> SUFFICES ASSUME Types, Sent, MainStep PROVE Sent'
  OBVIOUS
<1>1. CASE Read
  <2>1. UNCHANGED <<input, tasks, pc>> /\ mainPc = "read"
    BY <1>1 DEF Read, workerVars
  <2>2. Sending /\ readPos \in 0 .. Len(input) /\ Len(input) \in Nat /\ IOSIZE \in Nat \ {0}
    BY <2>1, PreprocessAssumption DEF Sending, Types, TypeOK, PreprocessAssumption
  <2>3. CASE mainPc' = "pills"
    <3>1. readPos' = readPos /\ readPos = Len(input)
      BY <1>1, <2>2, <2>3 DEF Read
    <3>2. QED
      BY <2>1, <2>2, <2>3, <3>1 DEF Sent, Sending
  <2>4. CASE mainPc' = "occupy"
    BY <2>1, <2>2, <2>4 DEF Sent, Sending
  <2>5. QED
    BY <1>1, <2>3, <2>4 DEF Read
<1>2. CASE Occupy \/ Spin
  BY <1>2, SentSame DEF Occupy, Spin, workerVars, Sending
<1>3. CASE Push
  <2> DEFINE t == [cursor |-> cursor, bytes |-> bytes]
  <2>1. /\ tasks' = Append(tasks, t) /\ Sending /\ Sending' /\ UNCHANGED <<input, readPos, pc>>
    BY <1>3 DEF Push, workerVars, Sending
  <2>2. tasks \in Seq(Task) /\ t \in Task /\ t # Pill
    BY PillIsTask DEF Types, TypeOK, Task
  <2> HIDE DEF t
  <2>3. \A k \in DOMAIN tasks' : tasks'[k] # Pill
    BY <2>1, <2>2, Appended DEF Sent
  <2>4. QED
    BY <2>1, <2>3 DEF Sent
<1>4. CASE PushPill
  <2>1. ~Sending /\ ~Sending' /\ UNCHANGED <<input, readPos, pc>>
    BY <1>4 DEF PushPill, workerVars, Sending
  <2>2. CASE UNCHANGED tasks
    BY <2>1, <2>2, SentSame
  <2>3. CASE tasks' = Append(tasks, Pill)
    <3>1. /\ Len(tasks') = Len(tasks) + 1 /\ DOMAIN tasks' = 1 .. Len(tasks) + 1
          /\ \A k \in 1 .. Len(tasks) : tasks'[k] = tasks[k]
          /\ tasks'[Len(tasks) + 1] = Pill /\ Len(tasks) \in Nat /\ DOMAIN tasks = 1 .. Len(tasks)
      BY <2>3, PillIsTask DEF Types
    <3>2. \A k \in DOMAIN tasks' : tasks'[k] = Pill \/ (k \in DOMAIN tasks /\ tasks'[k] = tasks[k])
      BY <3>1
    <3>3. \A k, m \in DOMAIN tasks' : k < m /\ tasks'[k] = Pill => tasks'[m] = Pill
      <4> SUFFICES ASSUME NEW k \in DOMAIN tasks', NEW m \in DOMAIN tasks', k < m, tasks'[k] = Pill,
                          m \in DOMAIN tasks, tasks'[m] = tasks[m]
                   PROVE  tasks'[m] = Pill
        BY <3>2
      <4>1. k \in DOMAIN tasks /\ tasks[k] = Pill
        BY <3>1
      <4>2. QED
        BY <4>1 DEF Sent
    <3>4. QED
      BY <2>1, <3>2, <3>3 DEF Sent
  <2>4. QED
    BY <1>4, <2>2, <2>3 DEF PushPill
<1>5. CASE FlushLeftovers \/ WriteColumn \/ WriteRow
  BY <1>5, SentSame DEF FlushLeftovers, WriteColumn, WriteRow, workerVars, Sending
<1>6. QED
  BY <1>1, <1>2, <1>3, <1>4, <1>5 DEF MainStep

LEMMA PopSent ==
    ASSUME Types, Sent, NEW w \in Workers, Pop(w)
    PROVE  Sent'
<1> DEFINE h == Head(tasks)
           q == Tail(tasks)
<1>1. /\ tasks # << >> /\ tasks' = q /\ UNCHANGED <<input, mainVars>>
      /\ pc' = [pc EXCEPT ![w] = IF h.cursor = -1 THEN "exited" ELSE "count"]
  BY DEF Pop, Go
<1>2. /\ tasks \in Seq(Task) /\ DOMAIN pc = Workers
      /\ \A k \in DOMAIN tasks : tasks[k] = Pill \/ tasks[k].cursor \in Buffers
  BY DEF Types, TypeOK
<1>3. /\ 1 \in DOMAIN tasks /\ h = tasks[1]
      /\ \A k \in DOMAIN q : k + 1 \in DOMAIN tasks /\ k \in Nat /\ 1 < k + 1 /\ q[k] = tasks[k + 1]
  BY <1>1, <1>2
<1>4. h.cursor = -1 <=> h = Pill
  BY <1>2, <1>3, PoolSize DEF Pill
<1> HIDE DEF h, q
<1>5. Sending' <=> Sending
  BY <1>1 DEF Sending, mainVars
<1>6. Sending => /\ \A k \in DOMAIN q : q[k] # Pill
                 /\ \A v \in Workers : pc'[v] # "exited"
  BY <1>1, <1>2, <1>3, <1>4 DEF Sent
<1>7. \A k, m \in DOMAIN q : k < m /\ q[k] = Pill => q[m] = Pill
  <2> SUFFICES ASSUME NEW k \in DOMAIN q, NEW m \in DOMAIN q, k < m, q[k] = Pill PROVE q[m] = Pill
    OBVIOUS
  <2>1. k + 1 < m + 1
    BY <1>3
  <2>2. QED
    BY <1>3, <2>1 DEF Sent
<1>8. ASSUME NEW v \in Workers, pc'[v] = "exited", NEW k \in DOMAIN q PROVE q[k] = Pill
  <2>1. k + 1 \in DOMAIN tasks /\ 1 < k + 1 /\ q[k] = tasks[k + 1]
    BY <1>3
  <2>2. CASE v = w
    <3>1. tasks[1] = Pill
      BY <1>1, <1>2, <1>3, <1>4, <1>8, <2>2
    <3>2. QED
      BY <1>3, <2>1, <3>1 DEF Sent
  <2>3. CASE v # w
    BY <1>1, <1>2, <1>8, <2>1, <2>3 DEF Sent
  <2>4. QED
    BY <2>2, <2>3
<1>9. QED
  BY <1>1, <1>5, <1>6, <1>7, <1>8 DEF Sent, mainVars

LEMMA NextSent == Types /\ Sent /\ [Next]_vars => Sent'
<1> SUFFICES ASSUME Types, Sent, [Next]_vars PROVE Sent'
  OBVIOUS
<1>1. CASE MainStep
  BY <1>1, MainSent
<1>2. ASSUME NEW w \in Workers, WorkerStep(w) PROVE Sent'
  <2>1. CASE Pop(w)
    BY <2>1, PopSent
  <2>2. CASE ~Pop(w)
    <3>1. UNCHANGED <<input, mainVars, tasks>> /\ pc[w] # "exited"
          /\ \E l \in {"scatter", "lock", "store", "commit", "release", "pop"} : Go(w, l)
      BY <1>2, <2>2 DEF WorkerStep, Count, Scatter, LockCell, Store, Commit, Release
    <3>2. DOMAIN pc = Workers
      BY DEF Types, TypeOK
    <3>3. \A v \in Workers : pc'[v] = "exited" <=> pc[v] = "exited"
      BY <3>1, <3>2 DEF Go
    <3>4. QED
      BY <3>1, <3>3, SentSame DEF mainVars, Sending
  <2>3. QED
    BY <2>1, <2>2
<1>3. CASE UNCHANGED vars
  BY <1>3, SentSame DEF vars, mainVars, workerVars, Sending
<1>4. QED
  BY <1>1, <1>2, <1>3 DEF Next, Finished

-----------------------------------------------------------------------------
(* WriteIInv is inductive: the blocks change only before main is alone.    *)
LEMMA NotYetWritten ==
    ASSUME WriteIInv, ~Alone, UNCHANGED outVars, mainPc' \notin {"row", "done"}
    PROVE  WriteIInv'
<1>1. columnOffset = << >> /\ rowOffset = << >> /\ column \in Seq(Nat) /\ row \in Seq(Nat)
  BY DEF WriteIInv, Alone, Laid
<1>2. \A B, file, order : file \in Seq(Nat) => Laid(B, file, << >>, order)
  <2>1. << >> \in Seq(Nat) /\ Len(<< >>) = 0
    OBVIOUS
  <2>2. LastCell \in Nat
    BY CellRange
  <2>3. QED
    BY <2>1, <2>2 DEF Laid
<1>3. Len(<< >>) <= LastCell + 1
  BY CellRange
<1>4. Laid(block', column', columnOffset', ColumnOrder) /\ Laid(block', row', rowOffset', RowOrder)
  BY <1>1, <1>2 DEF outVars
<1>5. QED
  BY <1>1, <1>3, <1>4 DEF WriteIInv, outVars

(* Both files go through the cells.                                        *)
LEMMA OrdersAreCells ==
    ASSUME NEW k \in 1 .. LastCell + 1
    PROVE  /\ ColumnOrder[k] \in Cells /\ RowOrder[k] \in Cells
           /\ ColumnOrder[k] = ((k - 1) % Partitions) * Partitions + (k - 1) \div Partitions
           /\ RowOrder[k] = k - 1
<1>1. Partitions \in Nat \ {0} /\ LastCell \in Nat /\ Cells = 0 .. LastCell
  BY PreprocessAssumption, CellRange DEF PreprocessAssumption
<1>2. k - 1 \in Nat /\ k - 1 < Partitions * Partitions
  BY <1>1 DEF LastCell
<1>3. ColumnOrder[k] = ((k - 1) % Partitions) * Partitions + (k - 1) \div Partitions
  BY DEF ColumnOrder
<1>4. (k - 1) % Partitions \in 0 .. Partitions - 1
  BY <1>1, <1>2
<1>5. (k - 1) \div Partitions \in 0 .. Partitions - 1
  <2>1. Partitions \in Nat
    BY <1>1
  <2>2. QED
    BY <1>1, <1>2, <2>1, QuotientBelow
<1>6. ColumnOrder[k] \in Cells
  BY <1>3, <1>4, <1>5, CellNumber
<1>7. RowOrder[k] = k - 1 /\ k - 1 \in Cells
  BY <1>1 DEF RowOrder
<1>8. QED
  BY <1>3, <1>6, <1>7

(* One step of writing a file.                                             *)
Further(B, file, offset, order, file2) ==
    /\ Len(offset) <= LastCell + 1
    /\ \A k \in 1 .. LastCell + 1 : order[k] \in Cells
    /\ file2 = IF Len(offset) <= LastCell THEN file \o B[order[Len(offset) + 1]] ELSE file
LEMMA LaidByStep ==
    ASSUME NEW B \in [Cells -> Seq(Nat)], NEW file, NEW offset, NEW order, NEW file2,
           Laid(B, file, offset, order), Further(B, file, offset, order, file2)
    PROVE  /\ Laid(B, file2, Append(offset, Len(file)), order)
           /\ Len(Append(offset, Len(file))) = Len(offset) + 1
           /\ Len(offset) \in Nat
<1> USE DEF Further
<1>1. file \in Seq(Nat) /\ offset \in Seq(Nat) /\ Len(offset) \in Nat /\ LastCell \in Nat
  BY CellRange DEF Laid
<1>2. Len(Append(offset, Len(file))) = Len(offset) + 1
  BY <1>1
<1>3. CASE Len(offset) <= LastCell
  <2>1. Len(offset) + 1 \in 1 .. LastCell + 1
    BY <1>1, <1>3
  <2>2. PICK x \in Seq(Nat) : x = B[order[Len(offset) + 1]]
    BY <2>1
  <2>3. Laid(B, file \o x, Append(offset, Len(file)), order)
    BY <2>2, LaidOn
  <2>4. QED
    BY <1>1, <1>2, <1>3, <2>2, <2>3
<1>4. CASE ~(Len(offset) <= LastCell)
  <2>0. << >> \in Seq(Nat)
    OBVIOUS
  <2>1. PICK x \in Seq(Nat) : x = << >>
    BY <2>0
  <2>2. Laid(B, file \o x, Append(offset, Len(file)), order)
    BY <1>4, LaidOn
  <2>3. file \o x = file
    BY <1>1, <2>1
  <2>4. QED
    BY <1>1, <1>2, <1>4, <2>2, <2>3
<1>5. QED
  BY <1>3, <1>4

LEMMA WriteColumnLays ==
    ASSUME EdgesIInv, WriteIInv, WriteColumn
    PROVE  WriteIInv'
<1>1. /\ mainPc = "column" /\ columnOffset' = Append(columnOffset, Len(column))
      /\ mainPc' = IF Len(columnOffset) <= LastCell THEN "column" ELSE "row"
      /\ column' = IF Len(columnOffset) <= LastCell
                   THEN column \o block[ColumnOrder[Len(columnOffset) + 1]] ELSE column
      /\ block' = block /\ row' = row /\ rowOffset' = rowOffset
  BY DEF WriteColumn, fileVars
<1>2. /\ Laid(block, column, columnOffset, ColumnOrder) /\ Len(columnOffset) <= LastCell + 1
      /\ Laid(block, row, rowOffset, RowOrder) /\ rowOffset = << >>
      /\ block \in [Cells -> Seq(Nat)]
  BY <1>1 DEF WriteIInv, EdgesIInv, Filed
<1>3. /\ Laid(block, column', columnOffset', ColumnOrder)
      /\ Len(columnOffset') = Len(columnOffset) + 1 /\ Len(columnOffset) \in Nat
  <2>1. PICK f : f = column'
    OBVIOUS
  <2>2. f = IF Len(columnOffset) <= LastCell
            THEN column \o block[ColumnOrder[Len(columnOffset) + 1]] ELSE column
    BY <1>1, <2>1
  <2>3. \A k \in 1 .. LastCell + 1 : ColumnOrder[k] \in Cells
    BY OrdersAreCells
  <2>4. /\ Laid(block, f, Append(columnOffset, Len(column)), ColumnOrder)
        /\ Len(Append(columnOffset, Len(column))) = Len(columnOffset) + 1
        /\ Len(columnOffset) \in Nat
    <3>1. Further(block, column, columnOffset, ColumnOrder, f)
      BY <1>2, <2>2, <2>3 DEF Further
    <3>2. QED
      BY <1>2, <3>1, LaidByStep
  <2>5. QED
    BY <1>1, <2>1, <2>4
<1>4. LastCell \in Nat /\ Len(<< >>) <= LastCell + 1
  BY CellRange
<1>5. Laid(block', column', columnOffset', ColumnOrder) /\ Laid(block', row', rowOffset', RowOrder)
  BY <1>1, <1>2, <1>3
<1>6. CASE Len(columnOffset) <= LastCell
  <2>1. mainPc' = "column" /\ Len(columnOffset') <= LastCell + 1
    BY <1>1, <1>3, <1>4, <1>6
  <2>2. QED
    BY <1>1, <1>2, <1>5, <2>1 DEF WriteIInv, Alone
<1>7. CASE ~(Len(columnOffset) <= LastCell)
  <2>1. mainPc' = "row" /\ Len(columnOffset') = LastCell + 2
    BY <1>1, <1>2, <1>3, <1>4, <1>7
  <2>2. QED
    BY <1>1, <1>2, <1>4, <1>5, <2>1 DEF WriteIInv, Alone
<1>8. QED
  BY <1>6, <1>7

LEMMA WriteRowLays ==
    ASSUME EdgesIInv, WriteIInv, WriteRow
    PROVE  WriteIInv'
<1>1. /\ mainPc = "row" /\ rowOffset' = Append(rowOffset, Len(row))
      /\ mainPc' = IF Len(rowOffset) <= LastCell THEN "row" ELSE "done"
      /\ row' = IF Len(rowOffset) <= LastCell
                THEN row \o block[RowOrder[Len(rowOffset) + 1]] ELSE row
      /\ block' = block /\ column' = column /\ columnOffset' = columnOffset
  BY DEF WriteRow, fileVars
<1>2. /\ Laid(block, row, rowOffset, RowOrder) /\ Len(rowOffset) <= LastCell + 1
      /\ Laid(block, column, columnOffset, ColumnOrder) /\ Len(columnOffset) = LastCell + 2
      /\ block \in [Cells -> Seq(Nat)]
  BY <1>1 DEF WriteIInv, EdgesIInv, Filed
<1>3. /\ Laid(block, row', rowOffset', RowOrder)
      /\ Len(rowOffset') = Len(rowOffset) + 1 /\ Len(rowOffset) \in Nat
  <2>1. PICK f : f = row'
    OBVIOUS
  <2>2. f = IF Len(rowOffset) <= LastCell
            THEN row \o block[RowOrder[Len(rowOffset) + 1]] ELSE row
    BY <1>1, <2>1
  <2>3. \A k \in 1 .. LastCell + 1 : RowOrder[k] \in Cells
    BY OrdersAreCells
  <2>4. /\ Laid(block, f, Append(rowOffset, Len(row)), RowOrder)
        /\ Len(Append(rowOffset, Len(row))) = Len(rowOffset) + 1
        /\ Len(rowOffset) \in Nat
    <3>1. Further(block, row, rowOffset, RowOrder, f)
      BY <1>2, <2>2, <2>3 DEF Further
    <3>2. QED
      BY <1>2, <3>1, LaidByStep
  <2>5. QED
    BY <1>1, <2>1, <2>4
<1>4. LastCell \in Nat
  BY CellRange
<1>5. Laid(block', column', columnOffset', ColumnOrder) /\ Laid(block', row', rowOffset', RowOrder)
  BY <1>1, <1>2, <1>3
<1>6. CASE Len(rowOffset) <= LastCell
  <2>1. mainPc' = "row" /\ Len(rowOffset') <= LastCell + 1
    BY <1>1, <1>3, <1>4, <1>6
  <2>2. QED
    BY <1>1, <1>2, <1>5, <2>1 DEF WriteIInv, Alone
<1>7. CASE ~(Len(rowOffset) <= LastCell)
  <2>1. mainPc' = "done" /\ Len(rowOffset') = LastCell + 2
    BY <1>1, <1>2, <1>3, <1>4, <1>7
  <2>2. QED
    BY <1>1, <1>2, <1>5, <2>1 DEF WriteIInv, Alone
<1>8. QED
  BY <1>6, <1>7

LEMMA NextWrites ==
    ASSUME Types, EdgesIInv, WriteIInv, [Next]_vars
    PROVE  WriteIInv'
<1>1. CASE MainStep
  <2>1. CASE WriteColumn
    BY <2>1, WriteColumnLays
  <2>2. CASE WriteRow
    BY <2>2, WriteRowLays
  <2>3. CASE Read \/ Occupy \/ Push \/ Spin \/ PushPill \/ FlushLeftovers
    <3>1. ~Alone /\ UNCHANGED outVars /\ mainPc' \notin {"row", "done"}
      BY <2>3 DEF Read, Occupy, Push, Spin, PushPill, FlushLeftovers, Alone
    <3>2. QED
      BY <3>1, NotYetWritten
  <2>4. QED
    BY <1>1, <2>1, <2>2, <2>3 DEF MainStep
<1>2. ASSUME NEW w \in Workers, WorkerStep(w) PROVE WriteIInv'
  <2>1. pc[w] # "exited" /\ UNCHANGED <<mainVars, outVars>>
    BY <1>2 DEF WorkerStep, Pop, Count, Scatter, LockCell, Store, Commit, Release
  <2>2. ~Alone
    BY <2>1, NotAlone
  <2>3. QED
    BY <2>1, <2>2, NotYetWritten DEF Alone, mainVars
<1>3. CASE UNCHANGED vars
  BY <1>3 DEF WriteIInv, Alone, vars, mainVars, fileVars, outVars
<1>4. QED
  BY <1>1, <1>2, <1>3 DEF Next, Finished

LEMMA GridInvariant == Spec => [](Types /\ BufferOwnership /\ EdgesIInv /\ Sent /\ WriteIInv)
<1>1. Types /\ BufferOwnership /\ EdgesIInv /\ Sent /\ WriteIInv /\ [Next]_vars => Sent' /\ WriteIInv'
  BY NextSent, NextWrites
<1>2. QED
  BY EdgesInvariant, InitWrites, <1>1, PTL DEF Spec

-----------------------------------------------------------------------------
(* When the workers have gone every edge is in a file, so the file of a    *)
(* cell has all the edges of that cell, each once.                         *)
LEMMA BlocksAreCells ==
    ASSUME Types, EdgesIInv, Sent, Alone, NEW c \in Cells
    PROVE  HoldsCell(block[c], c)
<1>1. \A w \in Workers : pc[w] = "exited"
  BY DEF EdgesIInv, Progress
<1>2. readPos = Len(input) /\ \A k \in DOMAIN tasks : tasks[k] = Pill
  <2>1. ~Sending
    BY DEF Alone, Sending
  <2>2. Workers # {}
    BY PreprocessAssumption DEF PreprocessAssumption
  <2>3. QED
    BY <1>1, <2>1, <2>2 DEF Sent
<1>3. \A b \in Buffers : Carriage[b] = {}
  <2>1. \A b \in Buffers : ~Waiting(b)
    BY <1>2, PillIsTask DEF Waiting, Alone
  <2>2. \A w \in Workers : Outgoing(w) = {}
    BY <1>1, OutgoingIs DEF Working
  <2>3. QED
    BY <2>1, <2>2 DEF Carriage, Carried
<1>4. \A x \in Cells : InBlock(x) = block[x]
  <2>1. \A x \in Cells : block[x] \o << >> = block[x]
    BY DEF EdgesIInv, Filed
  <2>2. QED
    BY <2>1 DEF InBlock, Alone
<1>5. OnePlace(Carriage, Written, readPos)
  BY DEF EdgesIInv, Located
<1>6. block[c] \in Seq(Nat) /\ Distinct(block[c]) /\ \A x \in Cells : \A e \in Ids(block[x]) : CellOf(e) = x
  BY <1>4 DEF EdgesIInv, Filed
<1>7. Ids(block[c]) = {e \in 1 .. Len(input) : CellOf(e) = c}
  <2>1. Ids(block[c]) \subseteq 1 .. Len(input)
    BY <1>2, <1>4, <1>5 DEF OnePlace, Written
  <2>2. ASSUME NEW e \in 1 .. Len(input), CellOf(e) = c PROVE e \in Ids(block[c])
    <3>1. PICK x \in Cells : e \in Written[x]
      BY <1>2, <1>3, <1>5 DEF OnePlace
    <3>2. e \in Ids(block[x])
      BY <1>4, <3>1 DEF Written
    <3>3. QED
      BY <1>6, <2>2, <3>2
  <2>3. QED
    BY <1>6, <2>1, <2>2
<1>8. Len(block[c]) = Cardinality(Ids(block[c]))
  <2> DEFINE s == block[c]
             n == Len(s)
  <2>1. n \in Nat /\ DOMAIN s = 1 .. n /\ s \in [1 .. n -> Nat]
    BY <1>6
  <2>2. IsFiniteSet(Ids(s))
    <3>1. Len(input) \in Nat
      BY DEF Types
    <3>2. IsFiniteSet(1 .. Len(input))
      BY <3>1, FS_Interval
    <3>3. QED
      BY <1>7, <3>2, FS_Subset
  <2>3. s \in Injection(1 .. n, Ids(s)) /\ s \in Surjection(1 .. n, Ids(s))
    <3> HIDE DEF n
    <3>1. s \in [1 .. n -> Ids(s)]
      BY <2>1 DEF Ids
    <3>2. \A x \in Ids(s) : \E k \in 1 .. n : s[k] = x
      BY <2>1 DEF Ids
    <3>3. \A k, m \in 1 .. n : s[k] = s[m] => k = m
      BY <1>6, <2>1 DEF Distinct
    <3> HIDE DEF s
    <3>4. QED
      BY <3>1, <3>2, <3>3 DEF Injection, IsInjective, Surjection
  <2> HIDE DEF n, s
  <2>4. Cardinality(1 .. n) = Cardinality(Ids(s))
    BY <2>2, <2>3, FS_Injection
  <2>5. Cardinality(1 .. n) = n
    <3>1. Cardinality(1 .. n) = IF 1 > n THEN 0 ELSE n - 1 + 1
      BY <2>1, FS_Interval
    <3>2. QED
      BY <2>1, <3>1
  <2>6. QED
    BY <2>4, <2>5 DEF n, s
<1>9. QED
  BY <1>7, <1>8 DEF HoldsCell

(* Between its two offsets lies the block that was written there.          *)
LEMMA BlocksAreFound ==
    ASSUME NEW B, NEW file, NEW offset, NEW order, Laid(B, file, offset, order),
           Len(offset) = LastCell + 2, NEW k \in 1 .. LastCell + 1
    PROVE  BlockAt(file, offset, k) = B[order[k]]
<1>1. LastCell \in Nat
  BY CellRange
<1>2. k <= Len(offset) /\ k < Len(offset)
  BY <1>1
<1>3. End(file, offset, k) = offset[k + 1]
  BY <1>2 DEF End
<1>4. QED
  BY <1>2, <1>3 DEF Laid, BlockAt

(* What the engine later reads between two offsets of either file is the   *)
(* block it takes it for, with all of its edges and each of them once.     *)
THEOREM GridIsCorrect == Spec => []GridCorrect
<1>1. Types /\ EdgesIInv /\ Sent /\ WriteIInv => GridCorrect
  <2> SUFFICES ASSUME Types, EdgesIInv, Sent, WriteIInv, mainPc = "done",
                      NEW i \in 0 .. Partitions - 1, NEW j \in 0 .. Partitions - 1
               PROVE  /\ HoldsCell(BlockAt(column, columnOffset, j * Partitions + i + 1),
                                   i * Partitions + j)
                      /\ HoldsCell(BlockAt(row, rowOffset, i * Partitions + j + 1),
                                   i * Partitions + j)
    BY DEF GridCorrect
  <2> DEFINE c == i * Partitions + j
             k == j * Partitions + i
  <2>1. Alone /\ Len(columnOffset) = LastCell + 2 /\ Len(rowOffset) = LastCell + 2
        /\ Laid(block, column, columnOffset, ColumnOrder) /\ Laid(block, row, rowOffset, RowOrder)
    BY DEF WriteIInv, Alone
  <2>2. c \in Cells /\ k \in Cells
    BY CellNumber
  <2>3. k % Partitions = i /\ k \div Partitions = j
    BY PreprocessAssumption, DivMod DEF PreprocessAssumption
  <2> HIDE DEF c, k
  <2>4. HoldsCell(block[c], c)
    BY <2>1, <2>2, BlocksAreCells
  <2>5. /\ k + 1 \in 1 .. LastCell + 1 /\ (k + 1) - 1 = k
        /\ c + 1 \in 1 .. LastCell + 1 /\ (c + 1) - 1 = c
    BY <2>2, CellRange
  <2>6. ColumnOrder[k + 1] = c
    <3>1. ColumnOrder[k + 1] = (k % Partitions) * Partitions + k \div Partitions
      <4>1. PICK m : m = k + 1
        OBVIOUS
      <4>2. ColumnOrder[m] = ((m - 1) % Partitions) * Partitions + (m - 1) \div Partitions /\ m - 1 = k
        BY <2>5, <4>1, OrdersAreCells
      <4>3. QED
        BY <4>1, <4>2
    <3>2. QED
      BY <2>3, <3>1 DEF c
  <2>7. RowOrder[c + 1] = c
    BY <2>5, OrdersAreCells
  <2>8. BlockAt(column, columnOffset, k + 1) = block[c]
    BY <2>1, <2>5, <2>6, BlocksAreFound
  <2>9. BlockAt(row, rowOffset, c + 1) = block[c]
    BY <2>1, <2>5, <2>7, BlocksAreFound
  <2>10. QED
    BY <2>4, <2>8, <2>9 DEF c, k
<1>2. QED
  BY GridInvariant, <1>1, PTL
=============================================================================
