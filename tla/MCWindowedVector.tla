-------------------------- MODULE MCWindowedVector --------------------------
(* WindowedVector with words of 3 bits: 7 vertices in 2 partitions of 4    *)
(* and 3 (three words; each range has a word of its own and shares one),   *)
(* and 2 vertices in 5 partitions (three empty ones, windows of 5 or 2).   *)
(* Pages of 3 entries: vertex 3 shares a page with vertices 4 and 5 of the *)
(* other window, and the last page is not full.                            *)
EXTENDS WindowedVector

MCSizes == {<<7, 2>>, <<2, 5>>}
=============================================================================
