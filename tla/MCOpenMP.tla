------------------------------ MODULE MCOpenMP ------------------------------
(* pageRank on five nodes, two of them without outgoing edges and in the   *)
(* shares of different threads; FSM on five small graphs.                  *)
EXTENDS OpenMP

CONSTANTS t1, t2, t3
MCNodes == 0 .. 4
MCShare == [t \in {t1, t2, t3} |->
               IF t = t1 THEN {0, 1} ELSE IF t = t2 THEN {2, 3} ELSE {4}]
MCIncoming == [i \in MCNodes |->
                  CASE i = 0 -> {2} [] i = 2 -> {0, 2, 4} [] i = 3 -> {4} [] i = 4 -> {0} [] OTHER -> {}]

Names == <<<<0, "a">>, <<1, "a">>, <<2, "b">>, <<3, "a">>>>

\* Two pairs of equal vertices, walks that share edges, a triangle 0, 1, 2 and
\* a way back 1 - 2 - 1; labels that do not ascend along the walks.
Triangle == [account |-> Names, card |-> <<<<4, "c">>>>,
    account_to_account |-> <<<<0, 1, 2>>, <<3, 1, 2>>, <<1, 2, 1>>, <<2, 0, 1>>, <<2, 1, 2>>>>,
    account_to_card |-> <<<<0, 4, 1>>, <<1, 4, 1>>>>]
\* A card that replaces an account, walks of one pattern through two middles.
Ladder == [account |-> Names, card |-> <<<<2, "a">>, <<4, "a">>, <<5, "a|b">>>>,
    account_to_account |-> <<<<0, 1, 1>>, <<0, 2, 1>>, <<1, 3, 1>>, <<2, 3, 1>>>>,
    account_to_card |-> <<<<3, 4, 1>>, <<3, 5, 2>>>>]
\* An edge to a vertex in no file.
Dangling == [account |-> Names, card |-> << >>,
    account_to_account |-> <<<<0, 1, 1>>, <<1, 2, 1>>>>, account_to_card |-> <<<<2, 9, 1>>>>]

\* More candidates than HIGHEST_DEGREE, in every order, and one pattern.
Ring == [account |-> <<<<0, "a">>, <<1, "a">>, <<2, "a">>, <<3, "a">>>>, card |-> << >>,
    account_to_account |-> <<<<0, 1, 1>>, <<1, 2, 1>>, <<2, 3, 1>>, <<3, 0, 1>>, <<0, 1, 1>>>>,
    account_to_card |-> << >>]

\* One subgraph with three rotations of one form.
Circle == [account |-> <<<<0, "a">>, <<1, "a">>, <<2, "a">>>>, card |-> << >>,
    account_to_account |-> <<<<0, 1, 1>>, <<1, 2, 1>>, <<2, 0, 1>>>>, account_to_card |-> << >>]

MCData == {Triangle, Ladder, Dangling, Ring, Circle}

\* The ladder with its lines in another order: the two like paths from 0 to 4 have
\* an edge into 3 that stands before the edge from 0.
MCReversed == {[Ladder EXCEPT !.account_to_account = <<<<1, 3, 1>>, <<2, 3, 1>>, <<0, 1, 1>>, <<0, 2, 1>>>>]}
=============================================================================
