----------------------------- MODULE MCExamples -----------------------------
(* bfs from every vertex of a graph with two shortest paths to vertex 3, a *)
(* cycle, a self-loop, parallel edges, and a vertex nobody reaches.        *)
(* wcc on an undirected path 1 - 3 - 2 - 0 in which the labels are out of  *)
(* order, and a directed edge into its middle.                             *)
(* mis on the path 0 - 1 - 2 - 3, which takes five iterations, since a     *)
(* vertex settles one iteration after its smaller neighbour.               *)
(* k-cores on the path 0 = 1 - 2 - 3 whose first edge is double: for k = 2 *)
(* the tail falls off in two rounds and {0, 1} stays, for k = 3 neighbours *)
(* go in the same round and nothing stays.                                 *)
(* radii on a cycle 0, 1, 2 through which a search comes back to its       *)
(* start, an edge 2 - 3 in both directions, and a vertex 4 that no search  *)
(* from elsewhere reaches.                                                 *)
(* The ranks on a graph with parallel edges, two edges that meet in 1 and  *)
(* in 2, a cycle, and a vertex without edges; the degrees are 1 and 2, so  *)
(* that 128000 = 2 * 40^3 divides exactly for three iterations.            *)
EXTENDS Examples

MCBfsGraph == <<<<0, 1>>, <<0, 2>>, <<1, 3>>, <<2, 3>>, <<1, 2>>, <<3, 4>>, <<3, 4>>,
             <<4, 0>>, <<4, 4>>, <<5, 0>>>>
MCBfsVertices == 0 .. 5
MCWccGraph == <<<<1, 3>>, <<3, 1>>, <<3, 2>>, <<2, 3>>, <<2, 0>>, <<0, 2>>, <<4, 2>>>>
MCWccVertices == 0 .. 4
MCMisGraph == <<<<0, 1>>, <<1, 0>>, <<1, 2>>, <<2, 1>>, <<2, 3>>, <<3, 2>>>>
MCMisVertices == 0 .. 3
MCKCoresGraph == <<<<0, 1>>, <<1, 0>>, <<0, 1>>, <<1, 0>>, <<1, 2>>, <<2, 1>>,
             <<2, 3>>, <<3, 2>>>>
MCKCoresVertices == 0 .. 3
MCRadiiGraph == <<<<0, 1>>, <<1, 2>>, <<2, 0>>, <<2, 3>>, <<3, 2>>, <<4, 3>>>>
MCRadiiVertices == 0 .. 4
MCRankGraph == <<<<0, 1>>, <<0, 2>>, <<1, 2>>, <<2, 1>>, <<2,1>>>>
MCRankVertices == 0 .. 3
MCWeight == [e \in 1 .. 5 |-> 1 + e]
=============================================================================
