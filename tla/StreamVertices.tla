--------------------------- MODULE StreamVertices ---------------------------
(***************************************************************************)
(* core/graph.hpp, Graph::stream_vertices: OpenMP threads take partitions  *)
(* in any order and call process on the vertices of their range.  With a   *)
(* bitmap they walk its words and skip the zero ones; without one and with *)
(* vertex data beyond the memory budget, they go window by window between  *)
(* the pre and post callbacks.  Each thread adds its count to the value.   *)
(***************************************************************************)
EXTENDS Integers, Sequences, FiniteSets, Partition

CONSTANTS Threads,        \* num_threads(parallelism)
          Sizes,          \* pairs <<vertices, partitions>> of a grid
          WordBits,       \* bits in a word of a Bitmap (64)
          NoBitmap,       \* nullptr
          Ratios          \* the values of x in set_partition_batch

ASSUME VerticesAssumption ==
    /\ Sizes \subseteq Nat \X (Nat \ {0})
    /\ WordBits \in Nat \ {0}
    /\ Ratios \subseteq Nat \ {0}

VARIABLES
    vertices, partitions, partition_batch,
    bitmap,               \* a set of vertices, or NoBitmap
    windowed,             \* vertex data does not fit into the budget
    cur_partition,        \* first partition of the window
    todo,                 \* partitions of the window no thread has taken
    mainPc,
    pc, partition_id,     \* each thread's place and partition
    i, j, word,           \* the walk: vertex, bit in the word, shifted word
    local_value, value,
    calls                 \* calls[v]: how often process(v) has run

argVars == <<vertices, partitions, partition_batch, bitmap, windowed>>
walkVars == <<i, j, word>>
vars == <<argVars, cur_partition, todo, mainPc, pc, partition_id, walkVars,
          local_value, value, calls>>

VertexIds == 0 .. vertices - 1
RangeOf(p) == get_partition_range(vertices, partitions, p)

set_partition_batch(x) == partitions \div x

Init ==
    /\ \E size \in Sizes : vertices = size[1] /\ partitions = size[2]
    /\ \E x \in Ratios : partition_batch = set_partition_batch(x)
    /\ bitmap \in (SUBSET VertexIds) \union {NoBitmap}
    /\ windowed \in BOOLEAN
    /\ cur_partition = 0
    /\ todo = {}
    /\ mainPc = "window"
    /\ pc = [t \in Threads |-> "idle"]
    /\ partition_id = [t \in Threads |-> 0]
    /\ i = [t \in Threads |-> 0]
    /\ j = [t \in Threads |-> 0]
    /\ word = [t \in Threads |-> {}]
    /\ local_value = [t \in Threads |-> 0]
    /\ value = 0
    /\ calls = [v \in VertexIds |-> 0]

-----------------------------------------------------------------------------
(* The windows.  Only the call without a bitmap is ever windowed; the      *)
(* in-memory call is a single round over all the partitions.               *)
ByWindow == windowed /\ bitmap = NoBitmap

OpenWindow ==
    /\ mainPc = "window"
    /\ cur_partition < partitions
    /\ todo' = IF ByWindow
               THEN {p \in cur_partition .. cur_partition + partition_batch - 1 : p < partitions}
               ELSE 0 .. partitions - 1
    /\ mainPc' = "loop"
    /\ UNCHANGED <<argVars, cur_partition, pc, partition_id, walkVars,
                   local_value, value, calls>>

\* The barrier at the end of the parallel loop, then post and the next window.
CloseWindow ==
    /\ mainPc = "loop"
    /\ todo = {}
    /\ \A t \in Threads : pc[t] = "idle"
    /\ cur_partition' = IF ByWindow THEN cur_partition + partition_batch ELSE partitions
    /\ mainPc' = "window"
    /\ UNCHANGED <<argVars, todo, pc, partition_id, walkVars, local_value, value, calls>>

Return ==
    /\ mainPc = "window"
    /\ cur_partition >= partitions
    /\ mainPc' = "returned"
    /\ UNCHANGED <<argVars, cur_partition, todo, pc, partition_id, walkVars,
                   local_value, value, calls>>

-----------------------------------------------------------------------------
(* One thread of the parallel loop, schedule(dynamic).                     *)

TakePartition(t) ==
    /\ mainPc = "loop"
    /\ pc[t] = "idle"
    /\ \E p \in todo :
          /\ todo' = todo \ {p}
          /\ partition_id' = [partition_id EXCEPT ![t] = p]
          /\ i' = [i EXCEPT ![t] = RangeOf(p).begin]
    /\ local_value' = [local_value EXCEPT ![t] = 0]
    /\ pc' = [pc EXCEPT ![t] = IF bitmap = NoBitmap THEN "each" ELSE "word"]
    /\ UNCHANGED <<argVars, cur_partition, mainPc, j, word, value, calls>>

process(t, v) ==
    /\ calls' = [calls EXCEPT ![v] = @ + 1]
    /\ local_value' = [local_value EXCEPT ![t] = @ + 1]

\* No bitmap: for (i = begin_vid; i < end_vid; i++)
EachVertex(t) ==
    /\ pc[t] = "each"
    /\ IF i[t] < RangeOf(partition_id[t]).end
       THEN /\ process(t, i[t])
            /\ i' = [i EXCEPT ![t] = @ + 1]
            /\ UNCHANGED pc
       ELSE /\ pc' = [pc EXCEPT ![t] = "add"]
            /\ UNCHANGED <<i, calls, local_value>>
    /\ UNCHANGED <<argVars, cur_partition, todo, mainPc, partition_id, j, word, value>>

(* A word is the set of the positions of its one bits; >> n moves them     *)
(* down.                                                                   *)
data(k) == {v % WordBits : v \in {u \in bitmap : u \div WordBits = k}}
ShiftRight(bits, n) == {b - n : b \in {c \in bits : c >= n}}

\* Mutant: the walk starts the word from its first bit.
LoadWordUnshifted(t) ==
    LET v == i[t]
    IN
    /\ pc[t] = "word"
    /\ v < RangeOf(partition_id[t]).end
    /\ data(v \div WordBits) # {}
    /\ j' = [j EXCEPT ![t] = v % WordBits]
    /\ word' = [word EXCEPT ![t] = data(v \div WordBits)]
    /\ pc' = [pc EXCEPT ![t] = "bit"]
    /\ UNCHANGED <<argVars, cur_partition, todo, mainPc, partition_id, i,
                   local_value, value, calls>>

\* The word of vertex i, shifted so that its bit comes first.
LoadWord(t) ==
    LET v == i[t]
    IN
    /\ pc[t] = "word"
    /\ v < RangeOf(partition_id[t]).end
    /\ data(v \div WordBits) # {}
    /\ j' = [j EXCEPT ![t] = v % WordBits]
    /\ word' = [word EXCEPT ![t] = ShiftRight(data(v \div WordBits), v % WordBits)]
    /\ pc' = [pc EXCEPT ![t] = "bit"]
    /\ UNCHANGED <<argVars, cur_partition, todo, mainPc, partition_id, i,
                   local_value, value, calls>>

\* Mutant: the walk goes to the start of the word, not of the next one.
SkipWordNever(t) ==
    LET v == i[t]
    IN
    /\ pc[t] = "word"
    /\ v < RangeOf(partition_id[t]).end
    /\ data(v \div WordBits) = {}
    /\ i' = [i EXCEPT ![t] = (v \div WordBits) * WordBits]
    /\ UNCHANGED <<argVars, cur_partition, todo, mainPc, pc, partition_id, j, word,
                   local_value, value, calls>>

\* A zero word: on to the first vertex of the next one.
SkipWord(t) ==
    LET v == i[t]
    IN
    /\ pc[t] = "word"
    /\ v < RangeOf(partition_id[t]).end
    /\ data(v \div WordBits) = {}
    /\ i' = [i EXCEPT ![t] = (v \div WordBits + 1) * WordBits]
    /\ UNCHANGED <<argVars, cur_partition, todo, mainPc, pc, partition_id, j, word,
                   local_value, value, calls>>

\* One turn of while (word!=0), up to if (i==end_vid) break.
TestBit(t) ==
    /\ pc[t] = "bit"
    /\ word[t] # {}
    /\ IF 0 \in word[t] THEN process(t, i[t]) ELSE UNCHANGED <<calls, local_value>>
    /\ i' = [i EXCEPT ![t] = @ + 1]
    /\ j' = [j EXCEPT ![t] = @ + 1]
    /\ word' = [word EXCEPT ![t] = ShiftRight(@, 1)]
    /\ pc' = [pc EXCEPT ![t] = IF i[t] + 1 = RangeOf(partition_id[t]).end THEN "next" ELSE "bit"]
    /\ UNCHANGED <<argVars, cur_partition, todo, mainPc, partition_id, value>>

\* i += (64 - j)
NextWord(t) ==
    /\ \/ pc[t] = "next"
       \/ pc[t] = "bit" /\ word[t] = {}
    /\ i' = [i EXCEPT ![t] = @ + (WordBits - j[t])]
    /\ pc' = [pc EXCEPT ![t] = "word"]
    /\ UNCHANGED <<argVars, cur_partition, todo, mainPc, partition_id, j, word,
                   local_value, value, calls>>

WalkEnds(t) ==
    /\ pc[t] = "word"
    /\ i[t] >= RangeOf(partition_id[t]).end
    /\ pc' = [pc EXCEPT ![t] = "add"]
    /\ UNCHANGED <<argVars, cur_partition, todo, mainPc, partition_id, walkVars,
                   local_value, value, calls>>

\* write_add(&value, local_value)
AddValue(t) ==
    /\ pc[t] = "add"
    /\ value' = value + local_value[t]
    /\ pc' = [pc EXCEPT ![t] = "idle"]
    /\ UNCHANGED <<argVars, cur_partition, todo, mainPc, partition_id, walkVars,
                   local_value, calls>>

ThreadStep(t) ==
    \/ TakePartition(t) \/ EachVertex(t) \/ LoadWord(t) \/ SkipWord(t)
    \/ TestBit(t) \/ NextWord(t) \/ WalkEnds(t) \/ AddValue(t)

MainStep == OpenWindow \/ CloseWindow \/ Return

-----------------------------------------------------------------------------
Finished == mainPc = "returned" /\ UNCHANGED vars

Next == MainStep \/ (\E t \in Threads : ThreadStep(t)) \/ Finished

Fairness == WF_vars(MainStep) /\ \A t \in Threads : WF_vars(ThreadStep(t))

Spec == Init /\ [][Next]_vars
FairSpec == Spec /\ Fairness

-----------------------------------------------------------------------------
TypeOK ==
    /\ cur_partition \in Nat
    /\ todo \subseteq 0 .. partitions - 1
    /\ mainPc \in {"window", "loop", "returned"}
    /\ pc \in [Threads -> {"idle", "each", "word", "bit", "next", "add"}]
    /\ partition_id \in [Threads -> 0 .. partitions - 1]
    /\ i \in [Threads -> Nat]
    /\ j \in [Threads -> 0 .. WordBits]
    /\ word \in [Threads -> SUBSET (0 .. WordBits - 1)]
    /\ local_value \in [Threads -> 0 .. vertices]
    /\ value \in 0 .. vertices

Wanted == IF bitmap = NoBitmap THEN VertexIds ELSE bitmap

(* process runs at most once per vertex and only where the bitmap has a    *)
(* bit, although a word may straddle the ranges of two threads and the     *)
(* ranges of a grid may differ by one vertex or be empty.                  *)
NeverTwice == \A v \in VertexIds : calls[v] <= IF v \in Wanted THEN 1 ELSE 0

(* The call returns only when every wanted vertex has been processed, and  *)
(* the value is what the calls returned (1 each), whatever the order in    *)
(* which the threads take partitions and add their counts.                 *)
AllProcessed ==
    mainPc = "returned" =>
        /\ \A v \in Wanted : calls[v] = 1
        /\ value = Cardinality(Wanted)

(* At any time: no call too many, and none missing at the end.             *)
Inv == TypeOK /\ NeverTwice /\ AllProcessed

(* Every call ends.                                                        *)
Terminates == <>(mainPc = "returned")
=============================================================================
