--------------------------- MODULE MCStreamEdges ---------------------------
(* StreamEdges on a graph of 5 vertices in 3 partitions {0,1} {2,3} {4}.   *)
(* Bitmap words of 3 bits straddle partitions.  Pages of 2 edges and reads *)
(* of at most 4 make blocks start in the middle of a page, share a page,   *)
(* be empty (cells (1,0), (2,1)), and need a full read and a partial one.  *)
EXTENDS StreamEdges

CONSTANTS w1, w2
MCWorkers == {w1, w2}
MCGraph == <<
    <<0, 1>>, <<1, 1>>, <<0, 0>>, <<1, 0>>, <<1, 1>>, \* cell (0, 0): 5 edges
    <<0, 2>>,                                         \* cell (0, 1)
    <<2, 3>>, <<3, 2>>,                               \* cell (1, 1)
    <<4, 0>>,                                         \* cell (2, 0)
    <<1, 4>>, <<3, 4>>, <<4, 4>> >>                   \* the last column

\* The blocks of the nine cells, by source and by target.
MCRowFile == <<1, 2, 3, 4, 5, 6, 10, 7, 8, 11, 9, 12>>
MCColumnFile == <<1, 2, 3, 4, 5, 9, 6, 7, 8, 10, 11, 12>>
MCRowOffset == [k \in 0 .. 9 |-> <<0, 5, 6, 7, 7, 9, 10, 11, 11, 12>>[k + 1]]
MCColumnOffset == [k \in 0 .. 9 |-> <<0, 5, 5, 6, 7, 9, 9, 10, 11, 12>>[k + 1]]

MCBitmaps == {{}, {0}, {2}, {3}, {4}, {1, 4}, {0, 1, 2, 3, 4}}
=============================================================================
