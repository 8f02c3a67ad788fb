----------------------------- MODULE Partition -----------------------------
(***************************************************************************)
(* core/partition.hpp: the vertices 0 .. vertices-1 are cut into           *)
(* consecutive ranges; when the division leaves a remainder, the first     *)
(* vertices % partitions ranges are one vertex longer.                     *)
(***************************************************************************)
EXTENDS Naturals

get_partition_id(vertices, partitions, vertex_id) ==
    IF vertices % partitions = 0
    THEN vertex_id \div (vertices \div partitions)
    ELSE LET size == vertices \div partitions + 1
             split == (vertices % partitions) * size
         IN  IF vertex_id < split
             THEN vertex_id \div size
             ELSE (vertex_id - split) \div (size - 1) + (vertices % partitions)

(* get_partition_range returns the pair (begin, end), end excluded.        *)
RangeAt(vertices, partitions, id) ==
    LET long == vertices % partitions
        size == vertices \div partitions + 1
    IN  IF id < long
        THEN id * size
        ELSE long * size + (id - long) * (size - 1)

get_partition_range(vertices, partitions, id) ==
    [begin |-> RangeAt(vertices, partitions, id),
     end   |-> LET long == vertices % partitions
                   size == vertices \div partitions + 1
               IN  IF id < long
                   THEN (id + 1) * size
                   ELSE long * size + (id - long + 1) * (size - 1)]

Members(vertices, partitions, id) ==
    LET r == get_partition_range(vertices, partitions, id)
    IN  {v \in 0 .. vertices - 1 : r.begin <= v /\ v < r.end}
=============================================================================
