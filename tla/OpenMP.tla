------------------------------- MODULE OpenMP -------------------------------
(***************************************************************************)
(* The two programs whose threads are those of an OpenMP region: pageRank  *)
(* of 2HW and the frequent subgraph mining of 10hw.  A team of threads     *)
(* shares the iterations of a loop, adds what each has computed to a       *)
(* shared variable, and meets at the barrier at the end of the region,     *)
(* behind which the main thread goes on alone.  One of the programs runs.  *)
(***************************************************************************)
EXTENDS Integers, Sequences, FiniteSets

CONSTANTS Threads,
          Nodes, Share, Incoming, MAXITER,                    \* see OmpPageRank
          Data, Broken, SUPPORT_THRESHOLD, HIGHEST_DEGREE,
          MAX_PATTERNS, Slack                                 \* see FSM

VARIABLES
    program, mainPc,
    scores, score_old, score_new, iter, converged,
    broadcastScore, globalDiff, todo, private, arrived,       \* pageRank
    g, degreeList, v_idx, threadPatterns, localEnumerated, pc,
    totalEnumerated, trimmed, merged, patterns, written       \* FSM

O == INSTANCE OmpPageRank
F == INSTANCE FSM

ASSUME ProgramAssumptions == O!PageRankAssumption /\ F!FSMAssumption

-----------------------------------------------------------------------------
rankVars == <<scores, score_old, score_new, iter, converged, broadcastScore, globalDiff,
              todo, private, arrived>>
miningVars == <<g, degreeList, v_idx, threadPatterns, localEnumerated, pc,
                totalEnumerated, trimmed, merged, patterns, written>>
vars == <<program, mainPc, rankVars, miningVars>>

\* A variable that the running program does not have stays 0.
NoRank ==
    /\ scores = 0 /\ score_old = 0 /\ score_new = 0 /\ iter = 0 /\ converged = 0
    /\ broadcastScore = 0 /\ globalDiff = 0 /\ todo = 0 /\ private = 0 /\ arrived = 0
NoMining ==
    /\ g = 0 /\ degreeList = 0 /\ v_idx = 0 /\ threadPatterns = 0 /\ localEnumerated = 0
    /\ pc = 0 /\ totalEnumerated = 0 /\ trimmed = 0 /\ merged = 0 /\ patterns = 0 /\ written = 0

Init ==
    \/ program = "pageRank" /\ O!Init /\ NoMining
    \/ program = "FSM" /\ F!Init /\ NoRank

\* The program takes one of its steps.
Rank(step) == program = "pageRank" /\ step /\ UNCHANGED <<program, miningVars>>
Mining(step) == program = "FSM" /\ step /\ UNCHANGED <<program, rankVars>>

MainStep == Rank(O!MainStep) \/ Mining(F!MainStep)
ThreadStep(t) == Rank(O!ThreadStep(t)) \/ Mining(F!ThreadStep(t))

Finished == mainPc \in {"done", "terminated"} /\ UNCHANGED vars
Next == MainStep \/ (\E t \in Threads : ThreadStep(t)) \/ Finished

(* Every thread of the team runs.                                          *)
Fairness == WF_vars(MainStep) /\ \A t \in Threads : WF_vars(ThreadStep(t))

Spec == Init /\ [][Next]_vars
FairSpec == Spec /\ Fairness

-----------------------------------------------------------------------------
(* 2HW pageRank: between iterations score_old holds the complete scores of *)
(* the iteration just done, each computed from complete scores of the one  *)
(* before and from the whole sum over the nodes without outgoing edges.    *)
IterationComplete == program = "pageRank" => O!IterationComplete

(* 2HW pageRank: the test for convergence has looked at every node.        *)
DiffComplete == program = "pageRank" => O!DiffComplete

(* 2HW pageRank: the caller gets the scores of one iteration, not a        *)
(* mixture, and of one of the last two.                                    *)
SolutionUniform == program = "pageRank" => O!SolutionUniform

(* 2HW pageRank: the caller gets the scores of the iteration that          *)
(* converged.                                                              *)
SolutionIsLast == program = "pageRank" => O!SolutionIsLast

(* 10hw FSM: whatever thread takes which vertex, every walk that the loops *)
(* select (edges in the order of their lines) through the vertices taken   *)
(* is in the map of exactly one thread, and once in what has been merged;  *)
(* a map that is cut down only loses counts.  The number printed is that   *)
(* of these walks, and what is frequent among them is reported.            *)
CountsExact == program = "FSM" => F!CountsExact

(* 10hw FSM: a pattern is reported with a frequency of at least the        *)
(* support and at most the number of different subgraphs that have it,     *)
(* and the number printed is at most that of the subgraphs.                *)
ReportedAreFrequent == program = "FSM" => F!ReportedAreFrequent

(* hw10.md:25, "it counts embeddings of the patterns whose appearances     *)
(* exceed the threshold": a frequent pattern is found.                     *)
FrequentAreFound == program = "FSM" => F!FrequentAreFound

(* FSM.cpp:418: "Edges using canonical vertex IDs": what is written is a   *)
(* walk of the data, each label on the edge between the nodes it names.    *)
WrittenIsWalk == program = "FSM" => F!WrittenIsWalk

(* The loops, the barriers and the rest of the program end.                *)
Terminates == <>(mainPc \in {"done", "terminated"})
=============================================================================
