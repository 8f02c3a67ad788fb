---------------------------- MODULE MCGraphFiles ----------------------------
(* Every list of up to three edges on three vertices, self-loops and       *)
(* repeated edges included, two partitions, and every hash function; the   *)
(* second source of a vertex is over the threshold of the hybrid cut.      *)
EXTENDS GraphFiles

MCVertices == 0 .. 2
MCFiles == UNION {[1 .. k -> MCVertices \X MCVertices] : k \in 0 .. 3}
=============================================================================
