---------------------------- MODULE OmpPageRank ----------------------------
(***************************************************************************)
(* src/2HW, pageRank: every iteration runs two OpenMP loops over the       *)
(* nodes, with a reduction and an implicit barrier at the end of each, and *)
(* swaps the pointers to its two arrays of scores.                         *)
(*                                                                         *)
(* A score is abstracted to how it came about: 2 * n is a score of the     *)
(* n-th iteration (0: the initial one), 2 * n - 1 one that still lacks the *)
(* share of the nodes without outgoing edges, and Mixed anything else.  A  *)
(* sum is abstracted to the set of the nodes it has summed up.             *)
(***************************************************************************)
EXTENDS Integers, FiniteSets

CONSTANTS Threads,
          Nodes,          \* 0 .. numNodes - 1
          Share,          \* Share[t]: the nodes the schedule gives to t
          Incoming,       \* Incoming[i]: the sources of the edges into i
          MAXITER         \* 20

Dangling == {i \in Nodes : \A j \in Nodes : i \notin Incoming[j]}
Arrays == {"solution", "solution_new"}
Mixed == -1

PageRankAssumption ==
    /\ Nodes \subseteq Nat /\ IsFiniteSet(Nodes) /\ Nodes # {}
    /\ Share \in [Threads -> SUBSET Nodes]
    /\ UNION {Share[t] : t \in Threads} = Nodes
    /\ \A t, u \in Threads : t # u => Share[t] \intersect Share[u] = {}
    /\ Incoming \in [Nodes -> SUBSET Nodes]
    /\ MAXITER \in Nat \ {0}

VARIABLES
    scores,               \* the two arrays
    score_old, score_new, \* which array each pointer points to
    iter, converged,
    broadcastScore, globalDiff,
    mainPc,
    todo,                 \* todo[t]: iterations of the loop t has to do
    private,              \* private[t]: t's copy of the reduction variable
    arrived               \* the threads at the barrier

loopVars == <<todo, private, arrived>>
vars == <<scores, score_old, score_new, iter, converged, broadcastScore, globalDiff,
          mainPc, loopVars>>

Init ==
    /\ scores = [a \in Arrays |-> [i \in Nodes |-> IF a = "solution" THEN 0 ELSE Mixed]]
    /\ score_old = "solution" /\ score_new = "solution_new"
    /\ iter = 0 /\ converged = FALSE
    /\ broadcastScore = {} /\ globalDiff = {}
    /\ mainPc = "while"
    /\ todo = [t \in Threads |-> {}]
    /\ private = [t \in Threads |-> {}]
    /\ arrived = {}

-----------------------------------------------------------------------------
\* #pragma omp parallel for reduction(+: ...)
Fork ==
    /\ todo' = Share
    /\ private' = [t \in Threads |-> {}]
    /\ arrived' = {}

\* t runs the body of the loop for the next of its nodes and adds to its sum.
Body(t, i, score, adds) ==
    /\ i \in todo[t] /\ \A j \in todo[t] : i <= j
    /\ scores' = [scores EXCEPT ![score_new][i] = score]
    /\ private' = [private EXCEPT ![t] = IF adds THEN @ \union {i} ELSE @]
    /\ todo' = [todo EXCEPT ![t] = @ \ {i}]
    /\ UNCHANGED arrived

\* t is through with its share and adds its sum to the shared one.
Arrive(t) ==
    /\ todo[t] = {} /\ t \notin arrived
    /\ arrived' = arrived \union {t}
    /\ UNCHANGED <<todo, private>>

\* while (!converged && iter < MAXITER) iter++; and the first loop starts.
BeginIteration ==
    /\ mainPc = "while" /\ ~converged /\ iter < MAXITER
    /\ iter' = iter + 1
    /\ broadcastScore' = {} /\ globalDiff' = {}
    /\ Fork
    /\ mainPc' = "gather"
    /\ UNCHANGED <<scores, score_old, score_new, converged>>

Gathered(i) == IF \A j \in Incoming[i] : scores[score_old][j] = 2 * (iter - 1)
               THEN 2 * iter - 1 ELSE Mixed
Gather(t) ==
    /\ mainPc = "gather"
    /\ \E i \in Nodes : Body(t, i, Gathered(i), i \in Dangling)
    /\ UNCHANGED <<score_old, score_new, iter, converged, broadcastScore, globalDiff, mainPc>>

\* Mutant: the sum is shared without a reduction, and an update gets lost.
ReduceBroadcastRacing(t) ==
    /\ mainPc = "gather" /\ Arrive(t)
    /\ broadcastScore' \in {broadcastScore \union private[t], private[t]}
    /\ UNCHANGED <<scores, score_old, score_new, iter, converged, globalDiff, mainPc>>

ReduceBroadcast(t) ==
    /\ mainPc = "gather" /\ Arrive(t)
    /\ broadcastScore' = broadcastScore \union private[t]
    /\ UNCHANGED <<scores, score_old, score_new, iter, converged, globalDiff, mainPc>>

\* The barrier at the end of the first loop, and the second one starts.
GatherBarrier ==
    /\ mainPc = "gather" /\ arrived = Threads
    /\ Fork
    /\ mainPc' = "add"
    /\ UNCHANGED <<scores, score_old, score_new, iter, converged, broadcastScore, globalDiff>>

Added(i) == IF scores[score_new][i] = 2 * iter - 1 /\ broadcastScore = Dangling
            THEN 2 * iter ELSE Mixed
Add(t) ==
    /\ mainPc = "add"
    /\ \E i \in Nodes : Body(t, i, Added(i), TRUE)
    /\ UNCHANGED <<score_old, score_new, iter, converged, broadcastScore, globalDiff, mainPc>>

ReduceDiff(t) ==
    /\ mainPc = "add" /\ Arrive(t)
    /\ globalDiff' = globalDiff \union private[t]
    /\ UNCHANGED <<scores, score_old, score_new, iter, converged, broadcastScore, mainPc>>

\* Mutant: main does not wait at the barrier of the second loop.
EndIterationEarly ==
    /\ mainPc = "add" /\ arrived # {}
    /\ converged' \in BOOLEAN
    /\ score_old' = score_new /\ score_new' = score_old
    /\ mainPc' = "while"
    /\ UNCHANGED <<scores, iter, broadcastScore, globalDiff, loopVars>>

(* The barrier of the second loop, the test of globalDiff, which may come  *)
(* out either way, and std::swap(score_new, score_old).                    *)
EndIteration ==
    /\ mainPc = "add" /\ arrived = Threads
    /\ converged' \in BOOLEAN
    /\ score_old' = score_new /\ score_new' = score_old
    /\ mainPc' = "while"
    /\ UNCHANGED <<scores, iter, broadcastScore, globalDiff, loopVars>>

Leave(copied) ==
    /\ mainPc = "while" /\ (converged \/ iter >= MAXITER)
    /\ scores' = IF score_new = "solution" THEN scores
                 ELSE [scores EXCEPT !["solution"] =
                          [i \in Nodes |-> IF i \in copied THEN scores[score_new][i] ELSE @[i]]]
    /\ mainPc' = "done"
    /\ UNCHANGED <<score_old, score_new, iter, converged, broadcastScore, globalDiff, loopVars>>

\* Mutant: memcpy is given the number of scores, not their size.
ReturnShortCopy == Leave({0})
\* if (score_new != solution) memcpy(solution, score_new, ...)
Return == Leave(Nodes)

MainStep == BeginIteration \/ GatherBarrier \/ EndIteration \/ Return
ThreadStep(t) == Gather(t) \/ ReduceBroadcast(t) \/ Add(t) \/ ReduceDiff(t)

Finished == mainPc = "done" /\ UNCHANGED vars
Next == MainStep \/ (\E t \in Threads : ThreadStep(t)) \/ Finished

Spec == Init /\ [][Next]_vars

-----------------------------------------------------------------------------
TypeOK ==
    /\ scores \in [Arrays -> [Nodes -> -1 .. 2 * MAXITER]]
    /\ score_old \in Arrays /\ score_new \in Arrays \ {score_old}
    /\ iter \in 0 .. MAXITER /\ converged \in BOOLEAN
    /\ broadcastScore \subseteq Dangling /\ globalDiff \subseteq Nodes
    /\ mainPc \in {"while", "gather", "add", "done"}
    /\ todo \in [Threads -> SUBSET Nodes] /\ private \in [Threads -> SUBSET Nodes]
    /\ arrived \subseteq Threads

(* Between iterations score_old holds the complete scores of the iteration *)
(* just done: every one was computed from complete scores of the iteration *)
(* before and from the whole sum over the nodes without outgoing edges.    *)
IterationComplete ==
    mainPc = "while" => \A i \in Nodes : scores[score_old][i] = 2 * iter

(* The test for convergence has looked at every node.                      *)
DiffComplete ==
    mainPc = "while" /\ iter > 0 => globalDiff = Nodes

(* The caller gets the scores of one iteration, not a mixture, and of one  *)
(* of the last two.                                                        *)
SolutionUniform ==
    mainPc = "done" =>
        \E n \in {iter - 1, iter} : \A i \in Nodes : scores["solution"][i] = 2 * n

(* The caller gets the scores of the iteration that converged.             *)
SolutionIsLast ==
    mainPc = "done" => \A i \in Nodes : scores["solution"][i] = 2 * iter
=============================================================================
