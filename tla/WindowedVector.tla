--------------------------- MODULE WindowedVector ---------------------------
(***************************************************************************)
(* A pass over the vertices that updates a BigVector, the way the passes   *)
(* of examples/pagerank.cpp do: pre loads the window's entries, process(v) *)
(* reads and writes entry v, and post saves the window.                    *)
(***************************************************************************)
EXTENDS StreamVertices, BigVector

allVars == <<vars, vectorVars>>

(* Entry v is the pair of v and the number of updates it has had.  A pass  *)
(* finds the file with just its entries or, when the program has made a    *)
(* pass by windows before, filled up to a whole page.                      *)
Entries(n) == [k \in 1 .. n |-> IF k <= vertices THEN <<k - 1, 0>> ELSE Zero]

VectorInit ==
    /\ Init
    /\ \E n \in {vertices} \union (IF windowed THEN {WholePages(vertices)} ELSE {}) : Opened(Entries(n))

\* begin_vid and end_vid of the window, the arguments of pre.
begin_vid == RangeOf(cur_partition).begin
end_vid == IF cur_partition + partition_batch >= partitions THEN vertices
           ELSE RangeOf(cur_partition + partition_batch).begin

\* pre(...), and the parallel loop starts.
OpenAndLoad ==
    /\ OpenWindow
    /\ IF ByWindow THEN load(begin_vid, end_vid) ELSE UNCHANGED vectorVars

\* The barrier, and post(...).
CloseAndSave ==
    /\ CloseWindow
    /\ IF ByWindow THEN save ELSE UNCHANGED vectorVars

\* process(i) updates entry i.
ProcessAndUpdate(t) ==
    /\ EachVertex(t) \/ TestBit(t)
    /\ IF calls' = calls THEN UNCHANGED vectorVars
       ELSE assign(i[t], <<at(i[t])[1], at(i[t])[2] + 1>>)

Walk(t) ==
    /\ \/ TakePartition(t) \/ LoadWord(t) \/ SkipWord(t)
       \/ NextWord(t) \/ WalkEnds(t) \/ AddValue(t)
    /\ UNCHANGED vectorVars

VectorMain == OpenAndLoad \/ CloseAndSave \/ (Return /\ UNCHANGED vectorVars)
VectorThread(t) == ProcessAndUpdate(t) \/ Walk(t)
VectorFinished == Finished /\ UNCHANGED vectorVars

VectorNext == VectorMain \/ (\E t \in Threads : VectorThread(t)) \/ VectorFinished

VectorFairness ==
    WF_allVars(VectorMain) /\ \A t \in Threads : WF_allVars(VectorThread(t))

VectorSpec == VectorInit /\ [][VectorNext]_allVars
FairVectorSpec == VectorSpec /\ VectorFairness

-----------------------------------------------------------------------------
\* Where entry v is at present: in the window's copy or in the file.
Entry(v) == IF in_memory /\ begin_vid <= v /\ v < end_vid THEN at(v) ELSE file[v + 1]

(* Every update is there, at any time: process touches the entries of the  *)
(* window only, which is what is in memory; neighbouring windows share     *)
(* pages, and neither saves an old copy of the other's entries.            *)
NoUpdateLost == \A v \in VertexIds : Entry(v) = <<v, calls[v]>>
=============================================================================
