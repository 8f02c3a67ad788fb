---------------------------- MODULE MCPreprocess ----------------------------
(* Preprocess on short edge lists of a graph of 3 vertices in 2 partitions *)
(* (vertex 2 alone in the second): the lists give every read more than one *)
(* single-edge run per cell, runs of several edges and cells left empty.   *)
EXTENDS Preprocess

CONSTANTS w1, w2
MCWorkers == {w1, w2}
MCInputs == {
    << <<0, 1>>, <<1, 0>>, <<2, 2>>, <<0, 0>>, <<1, 2>> >>,
    << <<0, 2>>, <<1, 2>>, <<2, 0>>, <<0, 2>>, <<2, 1>>, <<0, 2>>, <<2, 2>> >>}
=============================================================================
