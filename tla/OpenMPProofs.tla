---------------------------- MODULE OpenMPProofs ----------------------------
(***************************************************************************)
(* Theorems about the OpenMP programs: for every graph, every number of    *)
(* threads and every way in which the iterations of a loop are given to    *)
(* them.                                                                   *)
(***************************************************************************)
EXTENDS OpenMP, FiniteSetTheorems, TLAPS

LEMMA OneProgram ==
    ASSUME [Next]_vars
    PROVE  /\ program' = program
           /\ program = "pageRank" =>
                O!MainStep \/ (\E t \in Threads : O!ThreadStep(t)) \/ UNCHANGED O!vars
           /\ program = "FSM" =>
                F!MainStep \/ (\E t \in Threads : F!ThreadStep(t)) \/ UNCHANGED F!vars
BY DEF Next, MainStep, ThreadStep, Rank, Mining, Finished, vars, rankVars, miningVars,
       O!vars, O!loopVars, F!vars

-----------------------------------------------------------------------------
(* pageRank                                                                *)
LEMMA RankAssumption ==
    /\ Nodes \subseteq Nat
    /\ Share \in [Threads -> SUBSET Nodes]
    /\ UNION {Share[t] : t \in Threads} = Nodes
    /\ \A t, u \in Threads : t # u => Share[t] \intersect Share[u] = {}
    /\ Incoming \in [Nodes -> SUBSET Nodes]
    /\ MAXITER \in Nat \ {0}
BY ProgramAssumptions DEF O!PageRankAssumption

\* The array a holds the number n in every place.
RankHolds(a, n) == \A i \in Nodes : scores[a][i] = n

\* What both loops keep: the shares that are left, and who has arrived.
RankSharing ==
    /\ iter # 0
    /\ RankHolds(score_old, 2 * (iter - 1))
    /\ \A t \in Threads : todo[t] \subseteq Share[t]
    /\ \A t \in arrived : todo[t] = {}

RankAtWhile ==
    mainPc = "while" =>
        /\ RankHolds(score_old, 2 * iter)
        /\ iter # 0 => RankHolds(score_new, 2 * (iter - 1)) /\ globalDiff = Nodes
        /\ iter = 0 => ~converged

RankInGather ==
    mainPc = "gather" =>
        /\ RankSharing
        /\ \A t \in Threads : \A i \in Share[t] \ todo[t] :
              /\ scores[score_new][i] = 2 * iter - 1
              /\ i \in O!Dangling => i \in private[t]
        /\ \A t \in Threads : private[t] \subseteq O!Dangling
        /\ \A t \in arrived : private[t] \subseteq broadcastScore

RankInAdd ==
    mainPc = "add" =>
        /\ RankSharing
        /\ broadcastScore = O!Dangling
        /\ \A t \in Threads : \A i \in Share[t] :
              scores[score_new][i] = IF i \in todo[t] THEN 2 * iter - 1 ELSE 2 * iter
        /\ \A t \in Threads : Share[t] \ todo[t] \subseteq private[t]
        /\ \A t \in arrived : private[t] \subseteq globalDiff

RankAtDone == mainPc = "done" => iter # 0 /\ RankHolds("solution", 2 * (iter - 1))

(* The inductive invariant: what is true of the node a thread has not come *)
(* to yet, of those it is done with, and of the sums it has not shared.    *)
RankIInv == O!TypeOK /\ RankAtWhile /\ RankInGather /\ RankInAdd /\ RankAtDone

-----------------------------------------------------------------------------
LEMMA DanglingAreNodes == O!Dangling \subseteq Nodes
BY DEF O!Dangling

\* Every node is in somebody's share, and in nobody else's.
LEMMA RankShared ==
    /\ \A i \in Nodes : \E t \in Threads : i \in Share[t]
    /\ \A t \in Threads : Share[t] \subseteq Nodes
    /\ \A t, u \in Threads : \A i \in Share[t] : i \in Share[u] => t = u
BY RankAssumption

LEMMA RankInit == O!Init => RankIInv
<1> SUFFICES ASSUME O!Init PROVE RankIInv
  OBVIOUS
<1> USE RankAssumption DEF O!Init, O!Arrays, O!Mixed
<1>1. O!TypeOK
  <2>1. 0 \in -1 .. 2 * MAXITER /\ -1 \in -1 .. 2 * MAXITER
    <3>1. \A n \in Nat : 0 \in -1 .. 2 * n /\ -1 \in -1 .. 2 * n
      OBVIOUS
    <3>2. QED
      BY <3>1
  <2>2. \A a \in O!Arrays : scores[a] \in [Nodes -> -1 .. 2 * MAXITER]
    BY <2>1
  <2>3. \A T : (\A a \in O!Arrays : scores[a] \in T) => scores \in [O!Arrays -> T]
    OBVIOUS
  <2>4. scores \in [O!Arrays -> [Nodes -> -1 .. 2 * MAXITER]]
    BY ONLY <2>2, <2>3, Zenon
  <2>5. todo \in [Threads -> SUBSET Nodes] /\ private \in [Threads -> SUBSET Nodes]
    OBVIOUS
  <2>6. score_old \in O!Arrays /\ score_new \in O!Arrays \ {score_old} /\ iter \in 0 .. MAXITER
    OBVIOUS
  <2>7. QED
    BY <2>4, <2>5, <2>6 DEF O!TypeOK
<1>2. RankAtWhile
  BY DEF RankAtWhile, RankHolds
<1>3. QED
  BY <1>1, <1>2 DEF RankIInv, RankInGather, RankInAdd, RankAtDone

LEMMA RankBeginIteration == RankIInv /\ O!BeginIteration => RankIInv'
<1> SUFFICES ASSUME RankIInv, O!BeginIteration PROVE RankIInv'
  OBVIOUS
<1> USE RankAssumption DEF O!BeginIteration, O!Fork
<1>1. O!TypeOK'
  BY DEF RankIInv, O!TypeOK
<1>2. RankInGather'
  <2>1. iter' # 0 /\ iter = iter' - 1
    <3>1. iter \in Nat /\ iter' = iter + 1
      BY DEF RankIInv, O!TypeOK
    <3>2. QED
      BY ONLY <3>1
  <2>2. RankSharing'
    BY <2>1 DEF RankIInv, RankAtWhile, RankSharing, RankHolds
  <2>3. QED
    BY <2>2 DEF RankInGather
<1>3. QED
  BY <1>1, <1>2 DEF RankIInv, RankAtWhile, RankInAdd, RankAtDone

LEMMA RankGather == ASSUME RankIInv, NEW t \in Threads, O!Gather(t) PROVE RankIInv'
<1>1. PICK i \in Nodes : O!Body(t, i, O!Gathered(i), i \in O!Dangling)
  BY DEF O!Gather
<1> USE DEF O!Gather, O!Body
<1>2. iter \in Nat /\ iter # 0 /\ iter <= MAXITER /\ MAXITER \in Nat /\ Incoming[i] \subseteq Nodes
  BY RankAssumption DEF RankIInv, O!TypeOK, RankInGather, RankSharing
<1>3. O!Gathered(i) = 2 * iter - 1
  BY <1>2 DEF RankIInv, RankInGather, RankSharing, RankHolds, O!Gathered
<1>4. /\ scores' = [scores EXCEPT ![score_new][i] = 2 * iter - 1]
      /\ score_new \in O!Arrays /\ score_old \in O!Arrays /\ score_old # score_new
      /\ scores \in [O!Arrays -> [Nodes -> -1 .. 2 * MAXITER]]
  BY <1>1, <1>3 DEF RankIInv, O!TypeOK
<1>5. O!TypeOK'
  <2>1. 2 * iter - 1 \in -1 .. 2 * MAXITER
    BY <1>2
  <2>2. scores' \in [O!Arrays -> [Nodes -> -1 .. 2 * MAXITER]]
    BY <1>4, <2>1
  <2>3. todo' \in [Threads -> SUBSET Nodes] /\ private' \in [Threads -> SUBSET Nodes]
    BY <1>1 DEF RankIInv, O!TypeOK
  <2>4. QED
    BY <1>1, <2>2, <2>3 DEF RankIInv, O!TypeOK
<1>6. \A j \in Nodes : /\ scores'[score_old][j] = scores[score_old][j]
                       /\ scores'[score_new][j] = IF j = i THEN 2 * iter - 1
                                                  ELSE scores[score_new][j]
  BY <1>4
<1>7. i \in todo[t] /\ i \in Share[t] /\ t \notin arrived
  BY <1>1 DEF RankIInv, RankInGather, RankSharing
<1>8. \A u \in Threads : /\ todo'[u] = IF u = t THEN todo[t] \ {i} ELSE todo[u]
                         /\ u # t => private'[u] = private[u]
  BY <1>1 DEF RankIInv, O!TypeOK
<1>9. private'[t] = IF i \in O!Dangling THEN private[t] \union {i} ELSE private[t]
  BY <1>1 DEF RankIInv, O!TypeOK
<1>10. RankSharing'
  <2>1. RankHolds(score_old, 2 * (iter - 1))'
    BY <1>6 DEF RankIInv, RankInGather, RankSharing, RankHolds
  <2>2. \A u \in Threads : todo'[u] \subseteq Share[u]
    BY <1>8 DEF RankIInv, RankInGather, RankSharing
  <2>3. \A u \in arrived : todo'[u] = {}
    BY <1>7, <1>8 DEF RankIInv, RankInGather, RankSharing, O!TypeOK
  <2>4. QED
    BY <1>1, <1>2, <2>1, <2>2, <2>3 DEF RankSharing
<1>11. ASSUME NEW u \in Threads, NEW j \in Share[u] \ todo'[u]
       PROVE  scores'[score_new][j] = 2 * iter - 1 /\ (j \in O!Dangling => j \in private'[u])
  <2>1. j \in Nodes
    BY RankShared
  <2>2. CASE j = i
    <3>1. u = t
      BY <1>7, <2>2, RankShared
    <3>2. QED
      BY <1>6, <1>9, <2>1, <2>2, <3>1
  <2>3. CASE j # i
    <3>1. j \in Share[u] \ todo[u]
      BY <1>8, <2>3
    <3>2. QED
      BY <1>6, <1>8, <1>9, <2>1, <2>3, <3>1 DEF RankIInv, RankInGather
  <2>4. QED
    BY <2>2, <2>3
<1>12. RankInGather'
  <2>1. \A u \in Threads : private'[u] \subseteq O!Dangling
    BY <1>8, <1>9 DEF RankIInv, RankInGather
  <2>2. \A u \in arrived : private'[u] \subseteq broadcastScore
    BY <1>7, <1>8 DEF RankIInv, RankInGather, O!TypeOK
  <2>3. QED
    BY <1>1, <1>10, <1>11, <2>1, <2>2 DEF RankInGather
<1>13. QED
  BY <1>5, <1>12 DEF RankIInv, RankAtWhile, RankInAdd, RankAtDone

LEMMA RankReduceBroadcast == ASSUME RankIInv, NEW t \in Threads, O!ReduceBroadcast(t) PROVE RankIInv'
<1> USE DEF O!ReduceBroadcast, O!Arrive
<1>1. private[t] \subseteq O!Dangling
  BY DEF RankIInv, RankInGather
<1>2. O!TypeOK'
  BY <1>1 DEF RankIInv, O!TypeOK
<1>3. RankInGather'
  BY DEF RankIInv, RankInGather, RankSharing, RankHolds
<1>4. QED
  BY <1>2, <1>3 DEF RankIInv, RankAtWhile, RankInAdd, RankAtDone

LEMMA RankGatherBarrier == RankIInv /\ O!GatherBarrier => RankIInv'
<1> SUFFICES ASSUME RankIInv, O!GatherBarrier PROVE RankIInv'
  OBVIOUS
<1> USE DEF O!GatherBarrier, O!Fork
<1>1. O!TypeOK'
  BY RankAssumption DEF RankIInv, O!TypeOK
<1>2. \A t \in Threads : todo[t] = {}
  BY DEF RankIInv, RankInGather, RankSharing
<1>3. broadcastScore = O!Dangling
  <2>1. ASSUME NEW i \in O!Dangling PROVE i \in broadcastScore
    <3>1. PICK t \in Threads : i \in Share[t]
      BY DanglingAreNodes, RankShared
    <3>2. i \in private[t]
      BY <1>2, <3>1 DEF RankIInv, RankInGather
    <3>3. QED
      BY <3>2 DEF RankIInv, RankInGather
  <2>2. QED
    BY <2>1 DEF RankIInv, O!TypeOK
<1>4. \A t \in Threads : \A i \in Share[t] : scores[score_new][i] = 2 * iter - 1
  BY <1>2 DEF RankIInv, RankInGather
<1>5. RankSharing'
  BY DEF RankIInv, RankInGather, RankSharing, RankHolds
<1>6. RankInAdd'
  BY <1>3, <1>4, <1>5 DEF RankInAdd
<1>7. QED
  BY <1>1, <1>6 DEF RankIInv, RankAtWhile, RankInGather, RankAtDone

LEMMA RankAdd == ASSUME RankIInv, NEW t \in Threads, O!Add(t) PROVE RankIInv'
<1>1. PICK i \in Nodes : O!Body(t, i, O!Added(i), TRUE)
  BY DEF O!Add
<1> USE DEF O!Add, O!Body
<1>2. iter \in Nat /\ iter # 0 /\ iter <= MAXITER /\ MAXITER \in Nat
  BY RankAssumption DEF RankIInv, O!TypeOK, RankInAdd, RankSharing
<1>3. i \in todo[t] /\ i \in Share[t] /\ t \notin arrived
  BY <1>1 DEF RankIInv, RankInAdd, RankSharing
<1>4. O!Added(i) = 2 * iter
  BY <1>3 DEF RankIInv, RankInAdd, O!Added
<1>5. /\ scores' = [scores EXCEPT ![score_new][i] = 2 * iter]
      /\ score_new \in O!Arrays /\ score_old \in O!Arrays /\ score_old # score_new
      /\ scores \in [O!Arrays -> [Nodes -> -1 .. 2 * MAXITER]]
  BY <1>1, <1>4 DEF RankIInv, O!TypeOK
<1>6. O!TypeOK'
  <2>1. 2 * iter \in -1 .. 2 * MAXITER
    BY <1>2
  <2>2. scores' \in [O!Arrays -> [Nodes -> -1 .. 2 * MAXITER]]
    BY <1>5, <2>1
  <2>3. todo' \in [Threads -> SUBSET Nodes] /\ private' \in [Threads -> SUBSET Nodes]
    BY <1>1 DEF RankIInv, O!TypeOK
  <2>4. QED
    BY <1>1, <2>2, <2>3 DEF RankIInv, O!TypeOK
<1>7. \A j \in Nodes : /\ scores'[score_old][j] = scores[score_old][j]
                       /\ scores'[score_new][j] = IF j = i THEN 2 * iter
                                                  ELSE scores[score_new][j]
  BY <1>5
<1>8. \A u \in Threads : /\ todo'[u] = IF u = t THEN todo[t] \ {i} ELSE todo[u]
                         /\ private'[u] = IF u = t THEN private[t] \union {i} ELSE private[u]
  BY <1>1 DEF RankIInv, O!TypeOK
<1>9. RankSharing'
  <2>1. RankHolds(score_old, 2 * (iter - 1))'
    BY <1>7 DEF RankIInv, RankInAdd, RankSharing, RankHolds
  <2>2. \A u \in Threads : todo'[u] \subseteq Share[u]
    BY <1>8 DEF RankIInv, RankInAdd, RankSharing
  <2>3. \A u \in arrived : todo'[u] = {}
    BY <1>3, <1>8 DEF RankIInv, RankInAdd, RankSharing, O!TypeOK
  <2>4. QED
    BY <1>1, <1>2, <2>1, <2>2, <2>3 DEF RankSharing
<1>10. ASSUME NEW u \in Threads, NEW j \in Share[u]
       PROVE  /\ scores'[score_new][j] = IF j \in todo'[u] THEN 2 * iter - 1 ELSE 2 * iter
              /\ j \notin todo'[u] => j \in private'[u]
  <2>1. j \in Nodes
    BY RankShared
  <2>2. CASE j = i
    <3>1. u = t
      BY <1>3, <2>2, RankShared
    <3>2. QED
      BY <1>7, <1>8, <2>1, <2>2, <3>1
  <2>3. CASE j # i
    <3>1. j \in todo'[u] <=> j \in todo[u]
      BY <1>8, <2>3
    <3>2. QED
      BY <1>7, <1>8, <2>1, <2>3, <3>1 DEF RankIInv, RankInAdd
  <2>4. QED
    BY <2>2, <2>3
<1>11. RankInAdd'
  <2>1. \A u \in arrived : private'[u] \subseteq globalDiff
    BY <1>3, <1>8 DEF RankIInv, RankInAdd, O!TypeOK
  <2>2. broadcastScore = O!Dangling
    BY DEF RankIInv, RankInAdd
  <2>3. QED
    BY <1>1, <1>9, <1>10, <2>1, <2>2 DEF RankInAdd, O!Dangling
<1>12. QED
  BY <1>6, <1>11 DEF RankIInv, RankAtWhile, RankInGather, RankAtDone

LEMMA RankReduceDiff == ASSUME RankIInv, NEW t \in Threads, O!ReduceDiff(t) PROVE RankIInv'
<1> USE DEF O!ReduceDiff, O!Arrive
<1>1. O!TypeOK'
  BY DEF RankIInv, O!TypeOK
<1>2. RankInAdd'
  BY DEF RankIInv, RankInAdd, RankSharing, RankHolds, O!Dangling
<1>3. QED
  BY <1>1, <1>2 DEF RankIInv, RankAtWhile, RankInGather, RankAtDone

LEMMA RankEndIteration == RankIInv /\ O!EndIteration => RankIInv'
<1> SUFFICES ASSUME RankIInv, O!EndIteration PROVE RankIInv'
  OBVIOUS
<1> USE DEF O!EndIteration, O!loopVars
<1>1. O!TypeOK'
  BY DEF RankIInv, O!TypeOK
<1>2. \A t \in Threads : todo[t] = {}
  BY DEF RankIInv, RankInAdd, RankSharing
<1>3. \A i \in Nodes : scores[score_new][i] = 2 * iter
  BY <1>2, RankShared DEF RankIInv, RankInAdd
<1>4. globalDiff = Nodes
  <2>1. ASSUME NEW i \in Nodes PROVE i \in globalDiff
    <3>1. PICK t \in Threads : i \in Share[t]
      BY RankShared
    <3>2. i \in private[t]
      BY <1>2, <3>1 DEF RankIInv, RankInAdd
    <3>3. QED
      BY <3>2 DEF RankIInv, RankInAdd
  <2>2. QED
    BY <2>1 DEF RankIInv, O!TypeOK
<1>5. iter # 0 /\ \A i \in Nodes : scores[score_old][i] = 2 * (iter - 1)
  BY DEF RankIInv, RankInAdd, RankSharing, RankHolds
<1>6. RankAtWhile'
  BY <1>3, <1>4, <1>5 DEF RankAtWhile, RankHolds
<1>7. QED
  BY <1>1, <1>6 DEF RankIInv, RankInGather, RankInAdd, RankAtDone

LEMMA RankReturn == RankIInv /\ O!Return => RankIInv'
<1> SUFFICES ASSUME RankIInv, O!Return PROVE RankIInv'
  OBVIOUS
<1> USE DEF O!Return, O!Leave, O!loopVars
<1>1. iter # 0
  BY RankAssumption DEF RankIInv, O!TypeOK, RankAtWhile
<1>2. /\ score_new \in O!Arrays /\ "solution" \in O!Arrays
      /\ scores \in [O!Arrays -> [Nodes -> -1 .. 2 * MAXITER]]
      /\ \A i \in Nodes : scores[score_new][i] = 2 * (iter - 1)
  BY <1>1 DEF RankIInv, O!TypeOK, RankAtWhile, RankHolds, O!Arrays
<1>3. scores' \in [O!Arrays -> [Nodes -> -1 .. 2 * MAXITER]]
  BY <1>2
<1>4. \A i \in Nodes : scores'["solution"][i] = 2 * (iter - 1)
  BY <1>2
<1>5. O!TypeOK'
  BY <1>3 DEF RankIInv, O!TypeOK
<1>6. QED
  BY <1>1, <1>4, <1>5 DEF RankIInv, RankAtWhile, RankInGather, RankInAdd, RankAtDone, RankHolds

LEMMA RankNext ==
    ASSUME RankIInv, O!MainStep \/ (\E t \in Threads : O!ThreadStep(t)) \/ UNCHANGED O!vars
    PROVE  RankIInv'
<1>1. RankIInv /\ UNCHANGED O!vars => RankIInv'
  BY DEF RankIInv, O!vars, O!loopVars, O!TypeOK, RankAtWhile, RankInGather, RankInAdd, RankAtDone,
         RankSharing, RankHolds, O!Dangling
<1>2. QED
  BY <1>1, RankBeginIteration, RankGather, RankReduceBroadcast, RankGatherBarrier, RankAdd,
     RankReduceDiff, RankEndIteration, RankReturn
     DEF O!MainStep, O!ThreadStep

LEMMA RankInvariance == Spec => [](program = "pageRank" => RankIInv)
<1> DEFINE I == program = "pageRank" => RankIInv
<1>1. Init => I
  BY RankInit DEF Init
<1>2. I /\ [Next]_vars => I'
  BY OneProgram, RankNext
<1>3. QED
  BY <1>1, <1>2, PTL DEF Spec

(* page_rank.cpp 67-89: the reductions and the barriers make every         *)
(* iteration complete, and none reads a score of its own.                  *)
THEOREM IterationsAreComplete == Spec => []IterationComplete
<1>1. (program = "pageRank" => RankIInv) => IterationComplete
  BY DEF RankIInv, RankAtWhile, RankHolds, IterationComplete, O!IterationComplete
<1>2. QED
  BY <1>1, RankInvariance, PTL

(* The convergence test has the change of every node in its sum.           *)
THEOREM DiffIsComplete == Spec => []DiffComplete
<1>1. (program = "pageRank" => RankIInv) => DiffComplete
  BY DEF RankIInv, O!TypeOK, RankAtWhile, DiffComplete, O!DiffComplete
<1>2. QED
  BY <1>1, RankInvariance, PTL

(* The solution is never a mixture of iterations.                          *)
THEOREM SolutionIsUniform == Spec => []SolutionUniform
<1>1. (program = "pageRank" => RankIInv) => SolutionUniform
  BY DEF RankIInv, RankAtDone, RankHolds, SolutionUniform, O!SolutionUniform
<1>2. QED
  BY <1>1, RankInvariance, PTL

-----------------------------------------------------------------------------
(* FSM.  How often a form occurs among some walks, and what a map has for  *)
(* a form.                                                                 *)
Freq(graph, S, f) == Cardinality({c \in S : F!getCanonicalForm(graph, c) = f})
Forms(graph, S) == {F!getCanonicalForm(graph, c) : c \in S}
Value(map, f) == IF f \in DOMAIN map THEN map[f] ELSE 0
IsMap(map) == map \in [DOMAIN map -> Nat]

LEMMA MiningSizes == \A S : F!Cardinality(S) = Cardinality(S)
BY Zenon DEF F!Cardinality, Cardinality

LEMMA MiningAssumption ==
    /\ IsFiniteSet(Threads) /\ Threads # {} /\ HIGHEST_DEGREE \in Nat
    /\ \A files \in Data :
          /\ files.account_to_account \in Seq(Nat \X Nat \X Nat)
          /\ files.account_to_card \in Seq(Nat \X Nat \X Nat)
<1>1. \A S : F!IsFiniteSet(S) <=> IsFiniteSet(S)
  BY DEF F!IsFiniteSet, IsFiniteSet
<1>2. F!FSMAssumption
  BY ProgramAssumptions
<1>3. IsFiniteSet(Threads) /\ Threads # {} /\ HIGHEST_DEGREE \in Nat
  BY Zenon, <1>1, <1>2 DEF F!FSMAssumption
<1>4. \A files \in Data :
          /\ files.account_to_account \in Seq(Nat \X Nat \X Nat)
          /\ files.account_to_card \in Seq(Nat \X Nat \X Nat)
  BY Zenon, <1>2 DEF F!FSMAssumption
<1>5. QED
  BY <1>3, <1>4

LEMMA CountIs ==
    ASSUME NEW graph, NEW S
    PROVE  F!Count(graph, S) = [f \in Forms(graph, S) |-> Freq(graph, S, f)]
<1> DEFINE forms == [c \in S |-> F!getCanonicalForm(graph, c)]
<1>1. F!Count(graph, S) = [f \in {forms[c] : c \in S} |-> F!Cardinality({c \in S : forms[c] = f})]
  BY DEF F!Count, forms
<1>2. {forms[c] : c \in S} = Forms(graph, S)
  BY DEF Forms
<1>3. \A f : {c \in S : forms[c] = f} = {c \in S : F!getCanonicalForm(graph, c) = f}
  OBVIOUS
<1> HIDE DEF forms
<1>4. \A f : F!Cardinality({c \in S : forms[c] = f}) = Freq(graph, S, f)
  BY <1>3, MiningSizes DEF Freq
<1>5. QED
  BY <1>1, <1>2, <1>4

LEMMA FreqIsNat ==
    ASSUME NEW graph, NEW S, IsFiniteSet(S)
    PROVE  \A f : /\ Freq(graph, S, f) \in Nat
                  /\ f \notin Forms(graph, S) => Freq(graph, S, f) = 0
<1> TAKE f
<1> DEFINE T == {c \in S : F!getCanonicalForm(graph, c) = f}
<1>1. IsFiniteSet(T)
  BY FS_Subset
<1>2. f \notin Forms(graph, S) => T = {}
  BY DEF Forms
<1>3. Freq(graph, S, f) = Cardinality(T)
  BY DEF Freq
<1> HIDE DEF T
<1>4. QED
  BY <1>1, <1>2, <1>3, FS_CardinalityType, FS_EmptySet

LEMMA CountIsMap ==
    ASSUME NEW graph, NEW S, IsFiniteSet(S)
    PROVE  /\ IsMap(F!Count(graph, S)) /\ DOMAIN F!Count(graph, S) = Forms(graph, S)
           /\ \A f : Value(F!Count(graph, S), f) = Freq(graph, S, f)
           /\ \A f \in Forms(graph, S) : F!Count(graph, S)[f] = Freq(graph, S, f)
<1> DEFINE C == F!Count(graph, S)
<1>1. C = [f \in Forms(graph, S) |-> Freq(graph, S, f)]
  BY CountIs
<1> HIDE DEF C
<1>2. DOMAIN C = Forms(graph, S) /\ \A f \in Forms(graph, S) : C[f] = Freq(graph, S, f)
  BY <1>1
<1>3. IsMap(C)
  BY <1>1, <1>2, FreqIsNat DEF IsMap
<1>4. \A f : Value(C, f) = Freq(graph, S, f)
  BY <1>2, FreqIsNat DEF Value
<1>5. QED
  BY <1>2, <1>3, <1>4 DEF C

\* Disjoint sets of walks have the sum of their frequencies.
LEMMA FreqSum ==
    ASSUME NEW graph, NEW A, NEW B, IsFiniteSet(A), IsFiniteSet(B), A \intersect B = {}
    PROVE  /\ IsFiniteSet(A \union B)
           /\ Forms(graph, A \union B) = Forms(graph, A) \union Forms(graph, B)
           /\ \A f : Freq(graph, A \union B, f) = Freq(graph, A, f) + Freq(graph, B, f)
           /\ Cardinality(A \union B) = Cardinality(A) + Cardinality(B)
           /\ Cardinality(A) \in Nat /\ Cardinality(B) \in Nat
<1>1. \A S, T : IsFiniteSet(S) /\ IsFiniteSet(T) /\ S \intersect T = {} =>
          /\ IsFiniteSet(S \union T) /\ Cardinality(S) \in Nat /\ Cardinality(T) \in Nat
          /\ Cardinality(S \union T) = Cardinality(S) + Cardinality(T)
  <2> TAKE S, T
  <2> HAVE IsFiniteSet(S) /\ IsFiniteSet(T) /\ S \intersect T = {}
  <2>1. IsFiniteSet(S \union T)
        /\ Cardinality(S \union T) = Cardinality(S) + Cardinality(T) - Cardinality(S \intersect T)
    BY FS_Union
  <2>2. Cardinality(S) \in Nat /\ Cardinality(T) \in Nat
    BY FS_CardinalityType
  <2>3. Cardinality(S \intersect T) = 0
    BY FS_EmptySet
  <2>4. QED
    BY <2>1, <2>2, <2>3
<1>2. Forms(graph, A \union B) = Forms(graph, A) \union Forms(graph, B)
  BY DEF Forms
<1>3. ASSUME NEW f PROVE Freq(graph, A \union B, f) = Freq(graph, A, f) + Freq(graph, B, f)
  <2> DEFINE P(S) == {c \in S : F!getCanonicalForm(graph, c) = f}
  <2>1. P(A \union B) = P(A) \union P(B) /\ P(A) \intersect P(B) = {}
    OBVIOUS
  <2>2. IsFiniteSet(P(A)) /\ IsFiniteSet(P(B))
    BY FS_Subset
  <2>3. \A S : Freq(graph, S, f) = Cardinality(P(S))
    BY DEF Freq
  <2> HIDE DEF P
  <2>4. Cardinality(P(A) \union P(B)) = Cardinality(P(A)) + Cardinality(P(B))
    BY <1>1, <2>1, <2>2
  <2>5. QED
    BY <2>1, <2>3, <2>4
<1>4. QED
  BY <1>1, <1>2, <1>3

LEMMA PlusIs ==
    ASSUME NEW a, NEW b, IsMap(a), IsMap(b)
    PROVE  /\ DOMAIN F!Plus(a, b) = DOMAIN a \union DOMAIN b
           /\ F!Plus(a, b) = [f \in DOMAIN a \union DOMAIN b |-> Value(a, f) + Value(b, f)]
           /\ \A f \in DOMAIN a \union DOMAIN b : F!Plus(a, b)[f] = Value(a, f) + Value(b, f)
           /\ IsMap(F!Plus(a, b))
<1>1. F!Plus(a, b) = [f \in DOMAIN a \union DOMAIN b |-> Value(a, f) + Value(b, f)]
  BY DEF F!Plus, Value
<1>2. \A f : Value(a, f) \in Nat /\ Value(b, f) \in Nat
  BY DEF Value, IsMap
<1>3. QED
  BY <1>1, <1>2 DEF IsMap

\* A map holds the walks: exactly, or no more than them when maps are cut down.
Fits(cut, graph, map, S) ==
    /\ IsMap(map)
    /\ cut => /\ DOMAIN map \subseteq Forms(graph, S)
              /\ \A f \in DOMAIN map : map[f] <= Freq(graph, S, f)
    /\ ~cut => map = F!Count(graph, S)

LEMMA FitsValue ==
    ASSUME NEW cut \in BOOLEAN, NEW graph, NEW S, IsFiniteSet(S), NEW map, Fits(cut, graph, map, S)
    PROVE  /\ DOMAIN map \subseteq Forms(graph, S)
           /\ \A f : /\ Value(map, f) \in Nat /\ Freq(graph, S, f) \in Nat
                     /\ Value(map, f) <= Freq(graph, S, f)
                     /\ ~cut => Value(map, f) = Freq(graph, S, f)
           /\ ~cut => DOMAIN map = Forms(graph, S)
<1>1. \A f : Value(map, f) \in Nat /\ Freq(graph, S, f) \in Nat
  BY FreqIsNat DEF Value, Fits, IsMap
<1>2. CASE cut
  BY <1>1, <1>2 DEF Fits, Value
<1>3. CASE ~cut
  BY <1>1, <1>3, CountIsMap DEF Fits
<1>4. QED
  BY <1>1, <1>2, <1>3

LEMMA FitsCut ==
    ASSUME NEW cut \in BOOLEAN, NEW graph, NEW S, IsFiniteSet(S), NEW map, Fits(cut, graph, map, S)
    PROVE  Fits(TRUE, graph, map, S)
BY FitsValue DEF Fits, Value

\* The sum of two maps holds the walks of both.
LEMMA FitsPlus ==
    ASSUME NEW cut \in BOOLEAN, NEW graph, NEW A, NEW B, NEW a, NEW b,
           IsFiniteSet(A), IsFiniteSet(B), A \intersect B = {},
           Fits(cut, graph, a, A), Fits(cut, graph, b, B)
    PROVE  Fits(cut, graph, F!Plus(a, b), A \union B)
<1> DEFINE p == F!Plus(a, b)
<1>1. IsMap(a) /\ IsMap(b)
  BY DEF Fits
<1>2. /\ DOMAIN p = DOMAIN a \union DOMAIN b /\ IsMap(p)
      /\ p = [f \in DOMAIN a \union DOMAIN b |-> Value(a, f) + Value(b, f)]
      /\ \A f \in DOMAIN p : p[f] = Value(a, f) + Value(b, f)
  BY <1>1, PlusIs
<1> HIDE DEF p
<1>3. /\ DOMAIN a \subseteq Forms(graph, A) /\ DOMAIN b \subseteq Forms(graph, B)
      /\ ~cut => DOMAIN a = Forms(graph, A) /\ DOMAIN b = Forms(graph, B)
  BY FitsValue
<1>4. \A f : /\ Value(a, f) \in Nat /\ Freq(graph, A, f) \in Nat /\ Value(a, f) <= Freq(graph, A, f)
             /\ Value(b, f) \in Nat /\ Freq(graph, B, f) \in Nat /\ Value(b, f) <= Freq(graph, B, f)
             /\ ~cut => Value(a, f) = Freq(graph, A, f) /\ Value(b, f) = Freq(graph, B, f)
  <2>1. \A f : /\ Value(a, f) \in Nat /\ Freq(graph, A, f) \in Nat /\ Value(a, f) <= Freq(graph, A, f)
               /\ ~cut => Value(a, f) = Freq(graph, A, f)
    BY FitsValue
  <2>2. \A f : /\ Value(b, f) \in Nat /\ Freq(graph, B, f) \in Nat /\ Value(b, f) <= Freq(graph, B, f)
               /\ ~cut => Value(b, f) = Freq(graph, B, f)
    BY FitsValue
  <2>3. QED
    BY <2>1, <2>2
<1>5. /\ Forms(graph, A \union B) = Forms(graph, A) \union Forms(graph, B)
      /\ \A f : Freq(graph, A \union B, f) = Freq(graph, A, f) + Freq(graph, B, f)
  <2>1. Forms(graph, A \union B) = Forms(graph, A) \union Forms(graph, B)
    BY DEF Forms
  <2>2. \A f : Freq(graph, A \union B, f) = Freq(graph, A, f) + Freq(graph, B, f)
    BY FreqSum
  <2>3. QED
    BY <2>1, <2>2
<1>6. CASE cut
  <2>1. DOMAIN p \subseteq Forms(graph, A \union B)
    BY <1>2, <1>3, <1>5
  <2>2. ASSUME NEW f \in DOMAIN p PROVE p[f] <= Freq(graph, A \union B, f)
    <3>1. p[f] = Value(a, f) + Value(b, f) /\ Freq(graph, A \union B, f) = Freq(graph, A, f) + Freq(graph, B, f)
      BY <1>2, <1>5
    <3>2. /\ Value(a, f) \in Nat /\ Freq(graph, A, f) \in Nat /\ Value(a, f) <= Freq(graph, A, f)
          /\ Value(b, f) \in Nat /\ Freq(graph, B, f) \in Nat /\ Value(b, f) <= Freq(graph, B, f)
      BY <1>4
    <3>3. QED
      BY <3>1, <3>2
  <2>3. QED
    BY <1>2, <1>6, <2>1, <2>2 DEF Fits, p
<1>7. CASE ~cut
  <2>1. F!Count(graph, A \union B) = [f \in Forms(graph, A \union B) |-> Freq(graph, A \union B, f)]
    BY CountIs
  <2>2. p = [f \in Forms(graph, A \union B) |-> Freq(graph, A \union B, f)]
    BY <1>2, <1>3, <1>4, <1>5, <1>7
  <2>3. QED
    BY <1>2, <1>7, <2>1, <2>2 DEF Fits, p
<1>8. QED
  BY <1>6, <1>7

LEMMA FitsTrim ==
    ASSUME NEW graph, NEW S, NEW map, Fits(TRUE, graph, map, S), NEW kept \in F!Trims(map)
    PROVE  Fits(TRUE, graph, kept, S)
<1>1. PICK K \in SUBSET DOMAIN map : kept = [f \in K |-> map[f]]
  BY DEF F!Trims
<1>2. DOMAIN kept = K /\ \A f \in K : kept[f] = map[f]
  BY <1>1
<1>3. IsMap(kept)
  BY <1>1, <1>2 DEF Fits, IsMap
<1>4. QED
  BY <1>2, <1>3 DEF Fits

LEMMA FitsNothing == \A cut, graph : Fits(cut, graph, F!None, {})
<1> TAKE cut, graph
<1>1. Forms(graph, {}) = {}
  BY DEF Forms
<1>2. F!None = F!Count(graph, {})
  BY <1>1, CountIs DEF F!None
<1>3. IsMap(F!None) /\ DOMAIN F!None = {}
  BY DEF F!None, IsMap
<1>4. QED
  BY <1>2, <1>3 DEF Fits

\* The ascending walks through the vertices in these places of the list.
Walks(graph, list, places) ==
    {c \in (DOMAIN graph.edges) \X (DOMAIN graph.edges) \X (DOMAIN graph.edges) :
        /\ graph.edges[c[1]].target = graph.edges[c[2]].source
        /\ graph.edges[c[2]].target = graph.edges[c[3]].source
        /\ c[1] < c[2] /\ c[2] < c[3]
        /\ \E i \in places : graph.edges[c[1]].target = list[i]}
\* The places up to n whose takers are among the threads T.
Part(taker, n, T) == {i \in 1 .. n : taker[i] \in T}

MiningData ==
    /\ IsFiniteSet(DOMAIN g.edges)
    /\ Len(degreeList) \in Nat
    /\ \A i, j \in 1 .. Len(degreeList) : i # j => degreeList[i] # degreeList[j]

MiningTypes ==
    /\ v_idx \in 1 .. F!topK + 1
    /\ mainPc \in {"parallel", "merge", "write", "done", "terminated"}
    /\ pc \in [Threads -> {"loop", "added"}]
    /\ \E R : threadPatterns \in [Threads -> R]
    /\ localEnumerated \in [Threads -> Nat]
    /\ trimmed \in BOOLEAN /\ merged \subseteq Threads

Added == {t \in Threads : pc[t] = "added"}
MiningStage ==
    /\ mainPc = "parallel" => merged = {}
    /\ Added # {} => v_idx > F!topK
    /\ mainPc \in {"merge", "write", "done"} => v_idx > F!topK /\ Added = Threads

\* A map and a number for the walks S.
Counted(cut, graph, map, number, S) == Fits(cut, graph, map, S) /\ number = Cardinality(S)

\* What the maps and numbers are when each vertex was taken by its taker.
MiningCounted(taker) ==
    /\ taker \in [1 .. v_idx - 1 -> Threads]
    /\ \A t \in Threads : Counted(trimmed, g, threadPatterns[t], localEnumerated[t],
                                  Walks(g, degreeList, Part(taker, v_idx - 1, {t})))
    /\ totalEnumerated = Cardinality(Walks(g, degreeList, Part(taker, v_idx - 1, Added)))
    /\ mainPc \in {"parallel", "merge"} =>
          Fits(trimmed, g, patterns, Walks(g, degreeList, Part(taker, v_idx - 1, merged)))

\* The map after the filter.
Reported(cut, graph, map, S) ==
    /\ IsMap(map)
    /\ \A f \in DOMAIN map : /\ f \in Forms(graph, S) /\ Freq(graph, S, f) >= map[f]
                             /\ map[f] >= SUPPORT_THRESHOLD
    /\ ~cut => map = [f \in {h \in Forms(graph, S) : Freq(graph, S, h) >= SUPPORT_THRESHOLD}
                         |-> Freq(graph, S, f)]
MiningReported ==
    mainPc \in {"write", "done"} =>
        Reported(trimmed, g, patterns, Walks(g, degreeList, 1 .. F!topK))

(* The inductive invariant: there is a thread for every vertex taken whose *)
(* map and number have the walks through it, and through it alone.         *)
MiningIInv ==
    /\ MiningData /\ MiningTypes /\ MiningStage /\ MiningReported
    /\ \E taker : MiningCounted(taker)

-----------------------------------------------------------------------------
LEMMA WalksThroughIs == \A P : F!WalksThrough(P) = Walks(g, degreeList, P)
BY DEF F!WalksThrough, F!Chains, Walks

LEMMA ChainsOfIs == \A i : F!ChainsOf(degreeList[i]) = Walks(g, degreeList, {i})
<1> TAKE i
<1>1. F!ChainsOf(degreeList[i]) =
        {c \in F!Chains : g.edges[c[1]].target = degreeList[i] /\ c[1] < c[2] /\ c[2] < c[3]}
  <2>1. \A c \in F!Chains : c[1] \in DOMAIN g.edges
    BY DEF F!Chains
  <2>2. QED
    BY <2>1 DEF F!ChainsOf, F!inAdj
<1>2. QED
  BY <1>1 DEF F!Chains, Walks

LEMMA WalksFinite ==
    ASSUME NEW graph, NEW list, NEW P, IsFiniteSet(DOMAIN graph.edges)
    PROVE  IsFiniteSet(Walks(graph, list, P))
<1> DEFINE D == DOMAIN graph.edges
           T == D \X D \X D
           pair == [c \in T |-> <<<<c[1], c[2]>>, c[3]>>]
<1>1. IsFiniteSet(D \X D)
  <2> HIDE DEF D
  <2>1. IsFiniteSet(D)
    BY DEF D
  <2>2. QED
    BY <2>1, FS_Product
<1>2. IsFiniteSet((D \X D) \X D)
  <2> DEFINE E == D \X D
  <2>1. IsFiniteSet(D) /\ IsFiniteSet(E)
    BY <1>1
  <2> HIDE DEF D, E
  <2>2. IsFiniteSet(E \X D)
    BY <2>1, FS_Product
  <2>3. QED
    BY <2>2 DEF E
<1>3. pair \in Injection(T, (D \X D) \X D)
  <2>1. pair \in [T -> (D \X D) \X D]
    OBVIOUS
  <2>2. \A c, d \in T : pair[c] = pair[d] => c = d
    OBVIOUS
  <2>3. QED
    BY <2>1, <2>2 DEF Injection, IsInjective
<1>4. IsFiniteSet(T)
  <2> DEFINE U == (D \X D) \X D
  <2> HIDE DEF T, U, pair
  <2>1. pair \in Injection(T, U) /\ IsFiniteSet(U)
    BY <1>2, <1>3 DEF U
  <2>2. QED
    BY <2>1, FS_Injection
<1>5. Walks(graph, list, P) \subseteq T
  BY DEF Walks
<1> HIDE DEF T
<1>6. QED
  BY <1>4, <1>5, FS_Subset

LEMMA WalksUnion ==
    ASSUME NEW graph, NEW list, NEW P, NEW Q
    PROVE  Walks(graph, list, P \union Q) = Walks(graph, list, P) \union Walks(graph, list, Q)
BY DEF Walks

LEMMA WalksOfNone == \A graph, list : Walks(graph, list, {}) = {}
BY DEF Walks

\* A walk goes through one vertex, which is in one place.
LEMMA WalksApart ==
    ASSUME NEW graph, NEW list, NEW n,
           \A i, j \in 1 .. n : i # j => list[i] # list[j],
           NEW P \in SUBSET (1 .. n), NEW Q \in SUBSET (1 .. n), P \intersect Q = {}
    PROVE  Walks(graph, list, P) \intersect Walks(graph, list, Q) = {}
<1> SUFFICES ASSUME NEW c \in Walks(graph, list, P), c \in Walks(graph, list, Q) PROVE FALSE
  OBVIOUS
<1>1. PICK i \in P : graph.edges[c[1]].target = list[i]
  BY DEF Walks
<1>2. PICK j \in Q : graph.edges[c[1]].target = list[j]
  BY DEF Walks
<1>3. QED
  BY <1>1, <1>2

\* The walks of two disjoint sets of places, put together.
LEMMA WalksSum ==
    ASSUME MiningData, NEW P \in SUBSET (1 .. Len(degreeList)),
           NEW Q \in SUBSET (1 .. Len(degreeList)), P \intersect Q = {}
    PROVE  LET A == Walks(g, degreeList, P)
               B == Walks(g, degreeList, Q)
           IN  /\ IsFiniteSet(A) /\ IsFiniteSet(B) /\ A \intersect B = {}
               /\ Walks(g, degreeList, P \union Q) = A \union B
               /\ Cardinality(A \union B) = Cardinality(A) + Cardinality(B)
<1> DEFINE A == Walks(g, degreeList, P)
           B == Walks(g, degreeList, Q)
<1>1. IsFiniteSet(A) /\ IsFiniteSet(B)
  BY WalksFinite DEF MiningData
<1>2. A \intersect B = {}
  BY WalksApart DEF MiningData
<1>3. Walks(g, degreeList, P \union Q) = A \union B
  BY WalksUnion
<1> HIDE DEF A, B
<1>4. Cardinality(A \union B) = Cardinality(A) + Cardinality(B)
  BY <1>1, <1>2, FreqSum
<1>5. QED
  BY <1>1, <1>2, <1>3, <1>4 DEF A, B

LEMMA TopIsInList == MiningData => F!topK \in Nat /\ F!topK <= Len(degreeList)
BY MiningAssumption DEF MiningData, F!topK

LEMMA PartIsInList ==
    ASSUME MiningData, MiningTypes, NEW taker
    PROVE  /\ \A T : Part(taker, v_idx - 1, T) \subseteq 1 .. Len(degreeList)
           /\ v_idx \in Nat /\ v_idx # 0 /\ v_idx <= F!topK + 1
<1>1. F!topK \in Nat /\ F!topK <= Len(degreeList) /\ Len(degreeList) \in Nat
  BY TopIsInList DEF MiningData
<1>2. v_idx \in Nat /\ v_idx # 0 /\ v_idx <= F!topK + 1
  BY <1>1 DEF MiningTypes
<1>3. 1 .. v_idx - 1 \subseteq 1 .. Len(degreeList)
  BY <1>1, <1>2
<1>4. QED
  BY <1>2, <1>3 DEF Part

-----------------------------------------------------------------------------
LEMMA MiningInit == F!Init => MiningIInv
<1> SUFFICES ASSUME F!Init PROVE MiningIInv
  OBVIOUS
<1>1. PICK files \in Data : g = F!loadGraph(files)
  BY DEF F!Init
<1> DEFINE lines == files.account_to_account \o files.account_to_card
<1>2. lines \in Seq(Nat \X Nat \X Nat)
  BY MiningAssumption
<1>3. g.edges = [i \in DOMAIN lines |->
                   [source |-> lines[i][1], target |-> lines[i][2], label |-> lines[i][3]]]
  BY <1>1 DEF F!loadGraph, F!loadEdges
<1>4. IsFiniteSet(DOMAIN g.edges)
  <2> HIDE DEF lines
  <2>1. DOMAIN g.edges = 1 .. Len(lines) /\ Len(lines) \in Nat
    BY <1>2, <1>3
  <2>2. QED
    BY <2>1, FS_Interval
<1>5. Cardinality(F!Candidates) \in Nat
  <2> DEFINE S == {g.edges[i].source : i \in DOMAIN g.edges}
  <2>1. IsFiniteSet(S)
    <3> DEFINE f == [i \in DOMAIN g.edges |-> g.edges[i].source]
    <3>1. f \in Surjection(DOMAIN g.edges, S)
      BY DEF Surjection
    <3> HIDE DEF f, S
    <3>2. QED
      BY <1>4, <3>1, FS_Surjection
  <2>2. F!Candidates \subseteq S
    BY DEF F!Candidates
  <2> HIDE DEF S
  <2>3. QED
    BY <2>1, <2>2, FS_Subset, FS_CardinalityType
<1>6. PICK n \in Nat : /\ degreeList \in [1 .. n -> F!Candidates]
                       /\ \A i, j \in 1 .. n : i < j => degreeList[i] # degreeList[j]
  <2>1. degreeList \in [1 .. F!Cardinality(F!Candidates) -> F!Candidates]
        /\ \A i, j \in DOMAIN degreeList : i < j => degreeList[i] # degreeList[j]
    BY DEF F!Init
  <2>2. DOMAIN degreeList = 1 .. F!Cardinality(F!Candidates)
    BY <2>1
  <2>3. QED
    BY <1>5, <2>1, <2>2, MiningSizes
<1>7. MiningData
  <2>1. Len(degreeList) = n
    BY <1>6
  <2>2. \A i, j \in 1 .. n : i # j => degreeList[i] # degreeList[j]
    <3> TAKE i, j \in 1 .. n
    <3> HAVE i # j
    <3>1. i < j \/ j < i
      OBVIOUS
    <3>2. QED
      BY <1>6, <3>1
  <2>3. QED
    BY <1>4, <1>6, <2>1, <2>2 DEF MiningData
<1>8. MiningTypes
  <2>1. v_idx = 1 /\ v_idx \in 1 .. F!topK + 1
    BY <1>7, TopIsInList DEF F!Init
  <2>2. threadPatterns \in [Threads -> {F!None}]
    BY DEF F!Init
  <2>3. mainPc = "parallel" /\ pc \in [Threads -> {"loop", "added"}]
        /\ localEnumerated \in [Threads -> Nat] /\ trimmed \in BOOLEAN /\ merged \subseteq Threads
    BY DEF F!Init
  <2>4. QED
    BY <2>1, <2>2, <2>3 DEF MiningTypes
<1>9. Added = {} /\ merged = {} /\ mainPc = "parallel" /\ v_idx = 1 /\ trimmed = FALSE
      /\ totalEnumerated = 0 /\ patterns = F!None
      /\ \A t \in Threads : threadPatterns[t] = F!None /\ localEnumerated[t] = 0
  BY DEF F!Init, Added
<1>10. \E taker : MiningCounted(taker)
  <2> DEFINE taker == [i \in 1 .. 0 |-> CHOOSE t \in Threads : TRUE]
  <2>1. taker \in [1 .. v_idx - 1 -> Threads] /\ \A T : Part(taker, v_idx - 1, T) = {}
    <3>1. 1 .. v_idx - 1 = {} /\ 1 .. 0 = {}
      BY <1>9
    <3>2. QED
      BY <3>1 DEF Part
  <2>2. \A T : Walks(g, degreeList, Part(taker, v_idx - 1, T)) = {}
    BY <2>1, WalksOfNone
  <2>3. Fits(trimmed, g, F!None, {}) /\ Cardinality({}) = 0
    BY FitsNothing, FS_EmptySet
  <2> HIDE DEF taker
  <2>4. MiningCounted(taker)
    BY <1>9, <2>1, <2>2, <2>3 DEF MiningCounted, Counted
  <2>5. QED
    BY <2>4
<1>11. QED
  BY <1>7, <1>8, <1>9, <1>10 DEF MiningIInv, MiningStage, MiningReported

(* One iteration: the thread becomes the taker of the next place.          *)
LEMMA IterateCounts ==
    ASSUME MiningIInv, NEW t \in Threads, F!Iterate(t), NEW taker, MiningCounted(taker)
    PROVE  MiningTypes' /\ \E next : MiningCounted(next)'
<1>0. PICK v : v = v_idx
  OBVIOUS
<1> DEFINE n == v - 1
           next == [i \in 1 .. v |-> IF i = v THEN t ELSE taker[i]]
           W(P) == Walks(g, degreeList, P)
           local == F!Plus(threadPatterns[t], F!Count(g, F!ChainsOf(degreeList[v_idx])))
<1>1. /\ mainPc = "parallel" /\ v_idx <= F!topK /\ v_idx' = v_idx + 1
      /\ UNCHANGED <<g, degreeList, mainPc, pc, totalEnumerated, merged, patterns>>
      /\ localEnumerated' = [localEnumerated EXCEPT ![t] = @ + F!Cardinality(F!ChainsOf(degreeList[v_idx]))]
      /\ \/ /\ \E kept \in F!Trims(local) : threadPatterns' = [threadPatterns EXCEPT ![t] = kept]
            /\ trimmed' = TRUE
         \/ threadPatterns' = [threadPatterns EXCEPT ![t] = local] /\ UNCHANGED trimmed
  BY DEF F!Iterate
<1>2. v \in Nat /\ v # 0 /\ F!topK \in Nat /\ v <= Len(degreeList) /\ Len(degreeList) \in Nat
  BY <1>0, <1>1, TopIsInList, PartIsInList DEF MiningIInv, MiningData
<1>3. merged = {} /\ Added = {} /\ Added' = Added /\ F!topK' = F!topK
  BY <1>0, <1>1, <1>2 DEF MiningIInv, MiningStage, Added, F!topK
<1>4. taker \in [1 .. n -> Threads] /\ next \in [1 .. v -> Threads]
  BY <1>0, <1>2 DEF MiningCounted
<1>5. \A T : /\ t \in T => Part(next, v, T) = Part(taker, n, T) \union {v}
             /\ t \notin T => Part(next, v, T) = Part(taker, n, T)
             /\ Part(taker, n, T) \subseteq 1 .. Len(degreeList)
             /\ v \notin Part(taker, n, T)
  <2> TAKE T
  <2>1. \A i : i \in 1 .. v <=> i \in 1 .. n \/ i = v
    BY <1>2
  <2>2. next[v] = t /\ \A i \in 1 .. n : next[i] = taker[i]
    BY <1>2
  <2>3. v \notin 1 .. n /\ 1 .. n \subseteq 1 .. Len(degreeList)
    BY <1>2
  <2> HIDE DEF next, n
  <2>4. QED
    BY <2>1, <2>2, <2>3 DEF Part
<1>6. F!ChainsOf(degreeList[v_idx]) = W({v})
  BY <1>0, ChainsOfIs
<1>7. IsFiniteSet(W({v})) /\ \A T : IsFiniteSet(W(Part(taker, n, T)))
  BY WalksFinite DEF MiningIInv, MiningData
<1>8. trimmed \in BOOLEAN /\ trimmed' \in BOOLEAN
  <2>1. trimmed \in BOOLEAN
    BY DEF MiningIInv, MiningTypes
  <2>2. trimmed' = TRUE \/ trimmed' = trimmed
    BY <1>1
  <2>3. QED
    BY <2>1, <2>2
<1>9. ASSUME NEW u \in Threads
       PROVE  Counted(trimmed, g, threadPatterns[u], localEnumerated[u], W(Part(taker, n, {u})))
  BY <1>0 DEF MiningCounted, n
<1> HIDE DEF next, n, local
<1>10. Fits(trimmed, g, local, W(Part(next, v, {t})))
       /\ Cardinality(W(Part(next, v, {t}))) = localEnumerated[t] + Cardinality(W({v}))
  <2> DEFINE P == Part(taker, n, {t})
  <2>1. Fits(trimmed, g, F!Count(g, W({v})), W({v}))
    <3>1. IsMap(F!Count(g, W({v})))
          /\ DOMAIN F!Count(g, W({v})) = Forms(g, W({v}))
          /\ \A f \in Forms(g, W({v})) : F!Count(g, W({v}))[f] = Freq(g, W({v}), f)
      BY <1>7, CountIsMap
    <3>2. \A f : Freq(g, W({v}), f) \in Nat
      BY <1>7, FreqIsNat
    <3>3. QED
      BY <3>1, <3>2 DEF Fits
  <2>2. P \in SUBSET (1 .. Len(degreeList)) /\ {v} \in SUBSET (1 .. Len(degreeList))
        /\ P \intersect {v} = {} /\ Part(next, v, {t}) = P \union {v}
    BY <1>2, <1>5
  <2> HIDE DEF P
  <2>3. /\ W(P) \intersect W({v}) = {} /\ W(P \union {v}) = W(P) \union W({v})
        /\ IsFiniteSet(W(P)) /\ IsFiniteSet(W({v}))
        /\ Cardinality(W(P) \union W({v})) = Cardinality(W(P)) + Cardinality(W({v}))
    BY <2>2, WalksSum DEF MiningIInv
  <2>4. Fits(trimmed, g, threadPatterns[t], W(P)) /\ localEnumerated[t] = Cardinality(W(P))
    BY <1>9 DEF Counted, P
  <2> HIDE DEF W
  <2>5. Fits(trimmed, g, local, W(P) \union W({v}))
    BY <1>6, <1>8, <2>1, <2>3, <2>4, FitsPlus DEF local
  <2>6. QED
    BY <2>2, <2>3, <2>4, <2>5
<1>11. ASSUME NEW u \in Threads
       PROVE  Counted(trimmed', g, threadPatterns'[u], localEnumerated'[u], W(Part(next, v, {u})))
  <2> DEFINE S == W(Part(next, v, {u}))
  <2>0. IsFiniteSet(S)
    BY WalksFinite DEF MiningIInv, MiningData
  <2>1. \E R : threadPatterns \in [Threads -> R]
    BY DEF MiningIInv, MiningTypes
  <2>2. localEnumerated \in [Threads -> Nat]
    BY DEF MiningIInv, MiningTypes
  <2>3. CASE u = t
    <3>1. localEnumerated'[t] = localEnumerated[t] + Cardinality(W({v}))
      BY <1>1, <1>6, <2>2, MiningSizes
    <3>2. Fits(trimmed, g, local, S) /\ localEnumerated'[t] = Cardinality(S)
      BY <1>10, <2>3, <3>1
    <3> HIDE DEF S, W
    <3>3. CASE \E kept \in F!Trims(local) :
                  threadPatterns' = [threadPatterns EXCEPT ![t] = kept] /\ trimmed' = TRUE
      <4>1. PICK kept \in F!Trims(local) :
                  threadPatterns' = [threadPatterns EXCEPT ![t] = kept] /\ trimmed' = TRUE
        BY <3>3
      <4>2. threadPatterns'[t] = kept
        BY <2>1, <4>1
      <4>3. Fits(TRUE, g, local, S)
        BY <1>8, <2>0, <3>2, FitsCut
      <4>4. Fits(TRUE, g, kept, S)
        BY <4>3, FitsTrim
      <4>5. QED
        BY <2>3, <3>2, <4>1, <4>2, <4>4 DEF Counted, S
    <3>4. CASE threadPatterns' = [threadPatterns EXCEPT ![t] = local] /\ trimmed' = trimmed
      <4>1. threadPatterns'[t] = local
        BY <2>1, <3>4
      <4>2. QED
        BY <2>3, <3>2, <3>4, <4>1 DEF Counted, S
    <3>5. QED
      BY <1>1, <3>3, <3>4
  <2>4. CASE u # t
    <3>1. threadPatterns'[u] = threadPatterns[u] /\ localEnumerated'[u] = localEnumerated[u]
      BY <1>1, <2>1, <2>2, <2>4
    <3>2. Part(next, v, {u}) = Part(taker, n, {u})
      BY <1>5, <2>4
    <3>3. Fits(trimmed, g, threadPatterns[u], S) /\ localEnumerated[u] = Cardinality(S)
      BY <1>9, <3>2 DEF Counted
    <3> HIDE DEF S, W
    <3>4. Fits(trimmed', g, threadPatterns[u], S)
      <4>1. CASE trimmed' = trimmed
        BY <3>3, <4>1
      <4>2. CASE trimmed' = TRUE
        <5>1. Fits(TRUE, g, threadPatterns[u], S)
          BY <1>8, <2>0, <3>3, FitsCut
        <5>2. QED
          BY <4>2, <5>1
      <4>3. QED
        BY <1>1, <4>1, <4>2
    <3>5. QED
      BY <3>1, <3>3, <3>4 DEF Counted, S
  <2>5. QED
    BY <2>3, <2>4
<1>12. Part(next, v, {}) = {} /\ Part(taker, n, {}) = {}
  BY DEF Part
<1>13. totalEnumerated' = Cardinality(W(Part(next, v, Added')))
  BY <1>0, <1>1, <1>3, <1>12 DEF MiningCounted, n
<1>14. Fits(trimmed', g, patterns', W(Part(next, v, merged')))
  <2>1. Fits(trimmed, g, patterns, W({}))
    BY <1>0, <1>1, <1>3, <1>12 DEF MiningCounted, n
  <2>2. Fits(trimmed', g, patterns, W({}))
    <3>1. CASE trimmed' = trimmed
      BY <2>1, <3>1
    <3>2. CASE trimmed' = TRUE
      <4>1. IsFiniteSet(W({}))
        BY WalksFinite DEF MiningIInv, MiningData
      <4> HIDE DEF W
      <4>2. Fits(TRUE, g, patterns, W({}))
        BY <1>8, <2>1, <4>1, FitsCut
      <4>3. QED
        BY <3>2, <4>2
    <3>3. QED
      BY <1>1, <3>1, <3>2
  <2>3. QED
    BY <1>1, <1>3, <1>12, <2>2
<1>15. MiningCounted(next)'
  <2>1. v_idx' - 1 = v
    BY <1>0, <1>1, <1>2
  <2>2. next \in [1 .. v -> Threads]
    BY <1>4
  <2>3. QED
    BY <1>1, <1>11, <1>13, <1>14, <2>1, <2>2 DEF MiningCounted
<1>16. MiningTypes'
  <2>1. v_idx' \in 1 .. F!topK' + 1
    BY <1>0, <1>1, <1>2, <1>3
  <2>2. \E R : threadPatterns' \in [Threads -> R]
    <3>1. DOMAIN threadPatterns' = Threads /\ threadPatterns' = [u \in Threads |-> threadPatterns'[u]]
      BY <1>1 DEF MiningIInv, MiningTypes
    <3>2. threadPatterns' \in [Threads -> {threadPatterns'[u] : u \in Threads}]
      BY <3>1
    <3>3. QED
      BY <3>2
  <2>3. Cardinality(W({v})) \in Nat
    BY <1>7, FS_CardinalityType
  <2>4. localEnumerated' \in [Threads -> Nat]
    BY <1>1, <1>6, <2>3, MiningSizes DEF MiningIInv, MiningTypes
  <2>5. QED
    BY <1>1, <1>8, <2>1, <2>2, <2>4 DEF MiningIInv, MiningTypes
<1>17. QED
  BY <1>15, <1>16

LEMMA IterateKeeps == ASSUME MiningIInv, NEW t \in Threads, F!Iterate(t) PROVE MiningIInv'
<1>1. PICK taker : MiningCounted(taker)
  BY DEF MiningIInv
<1>2. MiningTypes' /\ \E next : MiningCounted(next)'
  BY <1>1, IterateCounts
<1>3. /\ mainPc = "parallel" /\ v_idx <= F!topK /\ v_idx' = v_idx + 1
      /\ UNCHANGED <<g, degreeList, mainPc, pc, merged>>
  BY DEF F!Iterate
<1>4. MiningData'
  BY <1>3 DEF MiningIInv, MiningData
<1>5. MiningStage' /\ MiningReported'
  <2>1. Added = {} /\ Added' = {} /\ merged' = {}
    <3>1. v_idx \in Nat /\ F!topK \in Nat
      BY PartIsInList, TopIsInList DEF MiningIInv
    <3>2. Added = {} /\ merged = {}
      BY <1>3, <3>1 DEF MiningIInv, MiningStage
    <3>3. QED
      BY <1>3, <3>2 DEF Added
  <2>2. QED
    BY <1>3, <2>1 DEF MiningStage, MiningReported
<1>6. (\E next : MiningCounted(next))'
  BY <1>2
<1>7. QED
  BY <1>2, <1>4, <1>5, <1>6 DEF MiningIInv

\* The walks of one more thread.
LEMMA PartOneMore ==
    ASSUME MiningData, MiningTypes, NEW taker, NEW T, NEW t, t \notin T
    PROVE  LET P == Part(taker, v_idx - 1, T)
               Q == Part(taker, v_idx - 1, {t})
           IN  /\ Part(taker, v_idx - 1, T \union {t}) = P \union Q
               /\ P \in SUBSET (1 .. Len(degreeList)) /\ Q \in SUBSET (1 .. Len(degreeList))
               /\ P \intersect Q = {}
BY PartIsInList DEF Part

LEMMA AccumulateKeeps == ASSUME MiningIInv, NEW t \in Threads, F!Accumulate(t) PROVE MiningIInv'
<1>1. PICK taker : MiningCounted(taker)
  BY DEF MiningIInv
<1>2. /\ mainPc = "parallel" /\ pc[t] = "loop" /\ v_idx > F!topK
      /\ totalEnumerated' = totalEnumerated + localEnumerated[t]
      /\ pc' = [pc EXCEPT ![t] = "added"]
      /\ UNCHANGED <<g, degreeList, v_idx, mainPc, threadPatterns, localEnumerated,
                     trimmed, merged, patterns>>
  BY DEF F!Accumulate
<1>3. F!topK' = F!topK
  BY <1>2 DEF F!topK
<1>4. MiningData' /\ MiningTypes'
  BY <1>2, <1>3 DEF MiningIInv, MiningData, MiningTypes
<1>5. Added' = Added \union {t} /\ t \notin Added
  BY <1>2 DEF MiningIInv, MiningTypes, Added
<1>6. MiningStage' /\ MiningReported'
  BY <1>2, <1>3 DEF MiningIInv, MiningStage, MiningReported
<1>7. totalEnumerated' = Cardinality(Walks(g, degreeList, Part(taker, v_idx - 1, Added')))
  <2> DEFINE P == Part(taker, v_idx - 1, Added)
             Q == Part(taker, v_idx - 1, {t})
             W(X) == Walks(g, degreeList, X)
  <2>1. /\ Part(taker, v_idx - 1, Added \union {t}) = P \union Q /\ P \intersect Q = {}
        /\ P \in SUBSET (1 .. Len(degreeList)) /\ Q \in SUBSET (1 .. Len(degreeList))
    BY <1>5, PartOneMore DEF MiningIInv
  <2>2. totalEnumerated = Cardinality(W(P)) /\ localEnumerated[t] = Cardinality(W(Q))
    BY <1>1 DEF MiningCounted, Counted
  <2> HIDE DEF P, Q
  <2>3. Cardinality(W(P) \union W(Q)) = Cardinality(W(P)) + Cardinality(W(Q))
        /\ W(P \union Q) = W(P) \union W(Q)
    BY <2>1, WalksSum DEF MiningIInv
  <2>4. QED
    BY <1>2, <1>5, <2>1, <2>2, <2>3
<1>8. MiningCounted(taker)'
  BY <1>1, <1>2, <1>7 DEF MiningCounted, Counted
<1>9. (\E next : MiningCounted(next))'
  BY <1>8
<1>10. QED
  BY <1>4, <1>6, <1>9 DEF MiningIInv

LEMMA MergeKeeps == ASSUME MiningIInv, NEW t \in Threads, F!Merge(t) PROVE MiningIInv'
<1>1. PICK taker : MiningCounted(taker)
  BY DEF MiningIInv
<1>2. /\ mainPc = "merge" /\ t \notin merged
      /\ patterns' = F!Plus(patterns, threadPatterns[t])
      /\ merged' = merged \union {t}
      /\ UNCHANGED <<g, degreeList, v_idx, mainPc, threadPatterns, localEnumerated, pc,
                     totalEnumerated, trimmed>>
  BY DEF F!Merge
<1>3. F!topK' = F!topK /\ Added' = Added
  BY <1>2 DEF F!topK, Added
<1>4. MiningData' /\ MiningTypes'
  BY <1>2, <1>3 DEF MiningIInv, MiningData, MiningTypes
<1>5. MiningStage' /\ MiningReported'
  BY <1>2, <1>3 DEF MiningIInv, MiningStage, MiningReported
<1>6. Fits(trimmed, g, patterns', Walks(g, degreeList, Part(taker, v_idx - 1, merged')))
  <2> DEFINE P == Part(taker, v_idx - 1, merged)
             Q == Part(taker, v_idx - 1, {t})
             W(X) == Walks(g, degreeList, X)
  <2>1. /\ Part(taker, v_idx - 1, merged \union {t}) = P \union Q /\ P \intersect Q = {}
        /\ P \in SUBSET (1 .. Len(degreeList)) /\ Q \in SUBSET (1 .. Len(degreeList))
    BY <1>2, PartOneMore DEF MiningIInv
  <2>2. Fits(trimmed, g, patterns, W(P)) /\ Fits(trimmed, g, threadPatterns[t], W(Q))
    BY <1>1, <1>2 DEF MiningCounted, Counted
  <2> HIDE DEF P, Q
  <2>3. IsFiniteSet(W(P)) /\ IsFiniteSet(W(Q)) /\ W(P) \intersect W(Q) = {}
        /\ W(P \union Q) = W(P) \union W(Q)
    BY <2>1, WalksSum DEF MiningIInv
  <2>4. trimmed \in BOOLEAN
    BY DEF MiningIInv, MiningTypes
  <2> HIDE DEF W
  <2>5. Fits(trimmed, g, F!Plus(patterns, threadPatterns[t]), W(P) \union W(Q))
    BY <2>2, <2>3, <2>4, FitsPlus
  <2>6. QED
    BY <1>2, <2>1, <2>3, <2>5 DEF W
<1>7. MiningCounted(taker)'
  BY <1>1, <1>2, <1>3, <1>6 DEF MiningCounted, Counted
<1>8. (\E next : MiningCounted(next))'
  BY <1>7
<1>9. QED
  BY <1>4, <1>5, <1>8 DEF MiningIInv

\* Behind the barrier all places are taken, and all threads have added.
LEMMA AllTaken ==
    ASSUME MiningIInv, NEW taker, MiningCounted(taker), mainPc \in {"merge", "write", "done"}
    PROVE  Part(taker, v_idx - 1, Threads) = 1 .. F!topK /\ Added = Threads
<1>1. v_idx \in Nat /\ F!topK \in Nat /\ v_idx <= F!topK + 1 /\ v_idx > F!topK
  BY PartIsInList, TopIsInList DEF MiningIInv, MiningStage
<1>2. v_idx - 1 = F!topK
  BY <1>1
<1>3. taker \in [1 .. F!topK -> Threads]
  BY <1>2 DEF MiningCounted
<1>4. QED
  BY <1>2, <1>3 DEF Part, MiningIInv, MiningStage

LEMMA FilterKeeps == ASSUME MiningIInv, F!Filter PROVE MiningIInv'
<1>1. PICK taker : MiningCounted(taker)
  BY DEF MiningIInv
<1>2. /\ mainPc = "merge" /\ merged = Threads /\ mainPc' = "write"
      /\ patterns' = [f \in {h \in DOMAIN patterns : patterns[h] >= SUPPORT_THRESHOLD} |-> patterns[f]]
      /\ UNCHANGED <<g, degreeList, v_idx, threadPatterns, localEnumerated, pc,
                     totalEnumerated, trimmed, merged>>
  BY DEF F!Filter
<1>3. F!topK' = F!topK /\ Added' = Added
  BY <1>2 DEF F!topK, Added
<1>4. MiningData' /\ MiningTypes' /\ MiningStage'
  BY <1>2, <1>3 DEF MiningIInv, MiningData, MiningTypes, MiningStage
<1> DEFINE S == Walks(g, degreeList, 1 .. F!topK)
<1>5. Fits(trimmed, g, patterns, S) /\ IsFiniteSet(S) /\ trimmed \in BOOLEAN
  BY <1>1, <1>2, AllTaken, WalksFinite DEF MiningIInv, MiningData, MiningTypes, MiningCounted
<1>6. Reported(trimmed, g, patterns', S)
  <2> HIDE DEF S
  <2>1. /\ DOMAIN patterns \subseteq Forms(g, S)
        /\ \A f \in DOMAIN patterns : /\ patterns[f] \in Nat /\ Freq(g, S, f) \in Nat
                                      /\ patterns[f] <= Freq(g, S, f)
                                      /\ ~trimmed => patterns[f] = Freq(g, S, f)
        /\ ~trimmed => DOMAIN patterns = Forms(g, S)
    BY <1>5, FitsValue DEF Value
  <2>2. \A f \in DOMAIN patterns' : /\ f \in DOMAIN patterns /\ patterns'[f] = patterns[f]
                                    /\ patterns[f] >= SUPPORT_THRESHOLD
    BY <1>2
  <2>3. \A f \in DOMAIN patterns' : /\ f \in Forms(g, S) /\ Freq(g, S, f) >= patterns'[f]
                                    /\ patterns'[f] >= SUPPORT_THRESHOLD
    BY <2>1, <2>2
  <2>4. ASSUME ~trimmed
        PROVE  patterns' = [f \in {h \in Forms(g, S) : Freq(g, S, h) >= SUPPORT_THRESHOLD}
                               |-> Freq(g, S, f)]
    <3>1. {h \in DOMAIN patterns : patterns[h] >= SUPPORT_THRESHOLD}
             = {h \in Forms(g, S) : Freq(g, S, h) >= SUPPORT_THRESHOLD}
      BY <2>1, <2>4
    <3>2. \A f \in {h \in DOMAIN patterns : patterns[h] >= SUPPORT_THRESHOLD} : patterns[f] = Freq(g, S, f)
      BY <2>1, <2>4
    <3>3. QED
      BY <1>2, <3>1, <3>2
  <2>5. IsMap(patterns')
    <3>1. \A f \in DOMAIN patterns' : patterns'[f] \in Nat
      BY <2>1, <2>2
    <3>2. patterns' = [f \in DOMAIN patterns' |-> patterns'[f]]
      BY <1>2
    <3>3. QED
      BY <3>1, <3>2 DEF IsMap
  <2>6. QED
    BY <2>3, <2>4, <2>5 DEF Reported
<1>7. MiningReported'
  BY <1>2, <1>3, <1>6 DEF MiningReported
<1>8. MiningCounted(taker)'
  BY <1>1, <1>2, <1>3 DEF MiningCounted, Counted
<1>9. (\E next : MiningCounted(next))'
  BY <1>8
<1>10. QED
  BY <1>4, <1>7, <1>9 DEF MiningIInv

\* The steps that only move the main thread on.
LEMMA MovesOn ==
    ASSUME MiningIInv, UNCHANGED <<g, degreeList, v_idx, threadPatterns, localEnumerated, pc,
                                   totalEnumerated, trimmed, merged, patterns>>,
           \/ mainPc' = mainPc
           \/ mainPc = "parallel" /\ mainPc' = "terminated"
           \/ mainPc = "parallel" /\ Added = Threads /\ mainPc' = "merge"
           \/ mainPc = "write" /\ mainPc' = "done"
    PROVE  MiningIInv'
<1>1. PICK taker : MiningCounted(taker)
  BY DEF MiningIInv
<1>2. F!topK' = F!topK /\ Added' = Added
  BY DEF F!topK, Added
<1>3. MiningData' /\ MiningTypes'
  BY <1>2 DEF MiningIInv, MiningData, MiningTypes
<1>4. MiningStage'
  BY <1>2, MiningAssumption DEF MiningIInv, MiningStage
<1>5. MiningReported'
  BY <1>2 DEF MiningIInv, MiningReported
<1>6. MiningCounted(taker)'
  BY <1>1, <1>2 DEF MiningCounted, Counted
<1>7. (\E next : MiningCounted(next))'
  BY <1>6
<1>8. QED
  BY <1>3, <1>4, <1>5, <1>7 DEF MiningIInv

LEMMA MiningNext ==
    ASSUME MiningIInv, F!MainStep \/ (\E t \in Threads : F!ThreadStep(t)) \/ UNCHANGED F!vars
    PROVE  MiningIInv'
<1>1. CASE F!Join
  <2>1. Added = Threads
    BY <1>1 DEF F!Join, Added
  <2>2. QED
    BY <1>1, <2>1, MovesOn DEF F!Join
<1>2. CASE \E t \in Threads : F!Merge(t)
  BY <1>2, MergeKeeps
<1>3. CASE F!Filter
  BY <1>3, FilterKeeps
<1>4. CASE F!writeJSON
  BY <1>4, MovesOn DEF F!writeJSON
<1>5. CASE \E t \in Threads : F!Iterate(t)
  BY <1>5, IterateKeeps
<1>6. CASE \E t \in Threads : F!OutOfRange(t)
  BY <1>6, MovesOn DEF F!OutOfRange
<1>7. CASE \E t \in Threads : F!Accumulate(t)
  BY <1>7, AccumulateKeeps
<1>8. CASE UNCHANGED F!vars
  BY <1>8, MovesOn DEF F!vars
<1>9. QED
  BY <1>1, <1>2, <1>3, <1>4, <1>5, <1>6, <1>7, <1>8 DEF F!MainStep, F!ThreadStep

LEMMA MiningInvariance == Spec => [](program = "FSM" => MiningIInv)
<1> DEFINE I == program = "FSM" => MiningIInv
<1>1. Init => I
  BY MiningInit DEF Init
<1>2. I /\ [Next]_vars => I'
  BY OneProgram, MiningNext
<1>3. QED
  BY <1>1, <1>2, PTL DEF Spec

-----------------------------------------------------------------------------
LEMMA FitsHolds ==
    ASSUME NEW map, NEW P, IsFiniteSet(F!WalksThrough(P)), Fits(trimmed, g, map, F!WalksThrough(P))
    PROVE  F!Holds(map, F!WalksThrough(P))
<1> DEFINE S == F!WalksThrough(P)
<1> HIDE DEF S
<1>1. IsFiniteSet(S) /\ Fits(trimmed, g, map, S)
  BY DEF S
<1>2. DOMAIN F!Count(g, S) = Forms(g, S) /\ \A f \in Forms(g, S) : F!Count(g, S)[f] = Freq(g, S, f)
  BY <1>1, CountIsMap
<1>3. F!Holds(map, S)
  BY <1>1, <1>2 DEF F!Holds, Fits
<1>4. QED
  BY <1>3 DEF S

(* FSM.cpp 187-284: of the walks that the loops select (edges in the order *)
(* of their lines), the loop gives every vertex to one thread, and the     *)
(* maps together hold every one through the vertices taken exactly once,   *)
(* and no more than once where a map was cut down; the number printed is   *)
(* theirs, and without cutting down the forms reported are those frequent  *)
(* among them: for every input and number of threads.                      *)
THEOREM WalksAreCountedOnce == Spec => []CountsExact
<1>1. ASSUME MiningIInv, mainPc \in {"parallel", "merge"}
      PROVE  \E taker \in [1 .. v_idx - 1 -> Threads] :
                /\ \A t \in Threads :
                      LET walks == F!WalksThrough({i \in 1 .. v_idx - 1 : taker[i] = t})
                      IN  F!Holds(threadPatterns[t], walks) /\ localEnumerated[t] = F!Cardinality(walks)
                /\ F!Holds(patterns, F!WalksThrough({i \in 1 .. v_idx - 1 : taker[i] \in merged}))
  <2>1. PICK taker : MiningCounted(taker)
    BY <1>1 DEF MiningIInv
  <2> DEFINE n == v_idx - 1
  <2>2. \A P : IsFiniteSet(F!WalksThrough(P)) /\ F!WalksThrough(P) = Walks(g, degreeList, P)
    BY <1>1, WalksThroughIs, WalksFinite DEF MiningIInv, MiningData
  <2>3. ASSUME NEW t \in Threads
        PROVE  LET walks == F!WalksThrough({i \in 1 .. v_idx - 1 : taker[i] = t})
               IN  F!Holds(threadPatterns[t], walks) /\ localEnumerated[t] = F!Cardinality(walks)
    <3> DEFINE Q == {i \in 1 .. v_idx - 1 : taker[i] = t}
    <3>1. Q = Part(taker, v_idx - 1, {t})
      BY DEF Part
    <3>2. Counted(trimmed, g, threadPatterns[t], localEnumerated[t], F!WalksThrough(Q))
      BY <2>1, <2>2, <3>1 DEF MiningCounted
    <3> HIDE DEF Q
    <3>3. F!Holds(threadPatterns[t], F!WalksThrough(Q))
          /\ localEnumerated[t] = F!Cardinality(F!WalksThrough(Q))
      BY <2>2, <3>2, FitsHolds, MiningSizes DEF Counted
    <3>4. QED
      BY <3>3 DEF Q
  <2>4. F!Holds(patterns, F!WalksThrough({i \in 1 .. v_idx - 1 : taker[i] \in merged}))
    <3> DEFINE Q == {i \in 1 .. v_idx - 1 : taker[i] \in merged}
    <3>1. Q = Part(taker, v_idx - 1, merged)
      BY DEF Part
    <3>2. Fits(trimmed, g, patterns, F!WalksThrough(Q))
      BY <1>1, <2>1, <2>2, <3>1 DEF MiningCounted
    <3> HIDE DEF Q
    <3>3. F!Holds(patterns, F!WalksThrough(Q))
      BY <2>2, <3>2, FitsHolds
    <3>4. QED
      BY <3>3 DEF Q
  <2>5. taker \in [1 .. v_idx - 1 -> Threads]
    BY <2>1 DEF MiningCounted
  <2>6. QED
    BY <2>3, <2>4, <2>5
<1>2. ASSUME MiningIInv, mainPc \in {"write", "done"}
      PROVE  LET exact == F!Count(g, F!WalksThrough(1 .. F!topK)) IN
             /\ totalEnumerated = F!Cardinality(F!WalksThrough(1 .. F!topK))
             /\ ~trimmed => patterns = [f \in {h \in DOMAIN exact : exact[h] >= SUPPORT_THRESHOLD}
                                           |-> exact[f]]
  <2>1. PICK taker : MiningCounted(taker)
    BY <1>2 DEF MiningIInv
  <2> DEFINE S == F!WalksThrough(1 .. F!topK)
  <2>2. S = Walks(g, degreeList, 1 .. F!topK) /\ IsFiniteSet(S)
    BY <1>2, WalksThroughIs, WalksFinite DEF MiningIInv, MiningData
  <2>3. totalEnumerated = F!Cardinality(S)
    BY <1>2, <2>1, <2>2, AllTaken, MiningSizes DEF MiningCounted
  <2>4. Reported(trimmed, g, patterns, S)
    BY <1>2, <2>2 DEF MiningIInv, MiningReported
  <2> DEFINE exact == F!Count(g, S)
  <2> HIDE DEF S
  <2>5. DOMAIN exact = Forms(g, S) /\ \A f \in Forms(g, S) : exact[f] = Freq(g, S, f)
    BY <2>2, CountIsMap
  <2> HIDE DEF exact
  <2>6. ~trimmed => patterns = [f \in {h \in DOMAIN exact : exact[h] >= SUPPORT_THRESHOLD} |-> exact[f]]
    <3>1. {h \in DOMAIN exact : exact[h] >= SUPPORT_THRESHOLD}
             = {h \in Forms(g, S) : Freq(g, S, h) >= SUPPORT_THRESHOLD}
      BY <2>5
    <3>2. \A f \in {h \in Forms(g, S) : Freq(g, S, h) >= SUPPORT_THRESHOLD} : exact[f] = Freq(g, S, f)
      BY <2>5
    <3>3. QED
      BY <2>4, <3>1, <3>2 DEF Reported
  <2>7. QED
    BY <2>3, <2>6 DEF S, exact
<1>3. MiningIInv => F!CountsExact
  BY <1>1, <1>2 DEF F!CountsExact
<1>4. (program = "FSM" => MiningIInv) => CountsExact
  BY <1>3 DEF CountsExact
<1>5. QED
  BY <1>4, MiningInvariance, PTL

-----------------------------------------------------------------------------
(* Edges are known by their place, and the walks through a vertex that was *)
(* taken have only vertices of the files.                                  *)
WalksKnown ==
    /\ DOMAIN g.edges \subseteq Nat
    /\ \A c \in Walks(g, degreeList, 1 .. v_idx - 1) : F!Known(c)

LEMMA WalksKnownInit == F!Init => WalksKnown
<1> SUFFICES ASSUME F!Init PROVE WalksKnown
  OBVIOUS
<1>1. PICK files \in Data : g = F!loadGraph(files)
  BY DEF F!Init
<1> DEFINE lines == files.account_to_account \o files.account_to_card
<1>2. lines \in Seq(Nat \X Nat \X Nat)
  BY MiningAssumption
<1>3. DOMAIN g.edges = DOMAIN lines
  BY <1>1 DEF F!loadGraph, F!loadEdges
<1>4. DOMAIN g.edges \subseteq Nat
  <2> HIDE DEF lines
  <2>1. QED
    BY <1>2, <1>3
<1>5. 1 .. v_idx - 1 = {}
  BY DEF F!Init
<1>6. Walks(g, degreeList, 1 .. v_idx - 1) = {}
  BY <1>5, WalksOfNone
<1>7. QED
  BY <1>4, <1>6 DEF WalksKnown

LEMMA WalksKnownNext ==
    ASSUME MiningIInv, WalksKnown,
           F!MainStep \/ (\E t \in Threads : F!ThreadStep(t)) \/ UNCHANGED F!vars
    PROVE  WalksKnown'
<1>1. ASSUME UNCHANGED <<g, degreeList, v_idx>> PROVE WalksKnown'
  BY <1>1 DEF WalksKnown, F!Known
<1>2. CASE \E t \in Threads : F!Iterate(t)
  <2>1. /\ UNCHANGED <<g, degreeList>> /\ v_idx' = v_idx + 1
        /\ \A c \in F!ChainsOf(degreeList[v_idx]) : F!Known(c)
    BY <1>2 DEF F!Iterate
  <2>2. v_idx \in Nat /\ v_idx # 0
    BY PartIsInList DEF MiningIInv
  <2>3. 1 .. v_idx' - 1 = (1 .. v_idx - 1) \union {v_idx}
    BY <2>1, <2>2
  <2>4. Walks(g, degreeList, 1 .. v_idx' - 1)
           = Walks(g, degreeList, 1 .. v_idx - 1) \union Walks(g, degreeList, {v_idx})
    <3> DEFINE P == 1 .. v_idx - 1
               N == {v_idx}
    <3> HIDE DEF P, N
    <3>1. Walks(g, degreeList, P \union N) = Walks(g, degreeList, P) \union Walks(g, degreeList, N)
      BY WalksUnion
    <3>2. QED
      BY <2>3, <3>1 DEF P, N
  <2>5. \A c \in Walks(g, degreeList, 1 .. v_idx' - 1) : F!Known(c)
    BY <2>1, <2>4, ChainsOfIs DEF WalksKnown
  <2>6. QED
    BY <2>1, <2>5 DEF WalksKnown, F!Known
<1>3. QED
  BY <1>1, <1>2 DEF F!MainStep, F!ThreadStep, F!Join, F!Merge, F!Filter, F!writeJSON,
                    F!OutOfRange, F!Accumulate, F!vars

LEMMA KnownInvariance == Spec => [](program = "FSM" => MiningIInv /\ WalksKnown)
<1> DEFINE I == program = "FSM" => MiningIInv /\ WalksKnown
<1>1. Init => I
  BY MiningInit, WalksKnownInit DEF Init
<1>2. I /\ [Next]_vars => I'
  BY OneProgram, MiningNext, WalksKnownNext
<1>3. QED
  BY <1>1, <1>2, PTL DEF Spec

\* Edges in ascending order: the set of them tells what the walk is.
LEMMA AscendingOnce ==
    ASSUME NEW c \in Nat \X Nat \X Nat, NEW d \in Nat \X Nat \X Nat,
           c[1] < c[2], c[2] < c[3], d[1] < d[2], d[2] < d[3], F!EdgesOf(c) = F!EdgesOf(d)
    PROVE  c = d
<1>1. /\ c[1] \in F!EdgesOf(c) /\ c[2] \in F!EdgesOf(c) /\ c[3] \in F!EdgesOf(c)
      /\ d[1] \in F!EdgesOf(c) /\ d[2] \in F!EdgesOf(c) /\ d[3] \in F!EdgesOf(c)
      /\ \A i \in F!EdgesOf(c) : (i = c[1] \/ i = c[2] \/ i = c[3])
                                  /\ (i = d[1] \/ i = d[2] \/ i = d[3])
  BY DEF F!EdgesOf
<1>2. c[1] = d[1] /\ c[2] = d[2] /\ c[3] = d[3]
  BY <1>1
<1>3. QED
  BY <1>2

(* There are no more walks in ascending order than sets of their edges.    *)
LEMMA AscendingAreDistinct ==
    ASSUME NEW D \in SUBSET Nat, IsFiniteSet(D), NEW W \in SUBSET (D \X D \X D),
           \A c \in W : c[1] < c[2] /\ c[2] < c[3],
           NEW E \in SUBSET SUBSET D, \A c \in W : F!EdgesOf(c) \in E
    PROVE  IsFiniteSet(W) /\ Cardinality(W) <= Cardinality(E)
<1> DEFINE edgesOf == [c \in W |-> F!EdgesOf(c)]
<1>1. IsFiniteSet(E)
  BY FS_SUBSET, FS_Subset
<1>2. \A c, d \in W : edgesOf[c] = edgesOf[d] => c = d
  <2> TAKE c, d \in W
  <2> HAVE edgesOf[c] = edgesOf[d]
  <2>1. c \in Nat \X Nat \X Nat /\ d \in Nat \X Nat \X Nat
    OBVIOUS
  <2>2. QED
    BY <2>1, AscendingOnce
<1>3. edgesOf \in [W -> E]
  OBVIOUS
<1>4. edgesOf \in Injection(W, E)
  BY <1>2, <1>3 DEF Injection, IsInjective
<1> HIDE DEF edgesOf
<1>5. QED
  BY <1>1, <1>4, FS_Injection

(* FSM.cpp 187-284: whatever the threads and cutting down do, a pattern is *)
(* reported with a frequency of at least the support and at most the       *)
(* number of different subgraphs of three edges that have its form; and    *)
(* the number printed is at most that of all subgraphs of three edges that *)
(* are a walk.  None is counted twice, in no two rotations and at no two   *)
(* vertices.                                                               *)
THEOREM OnlyFrequentReported == Spec => []ReportedAreFrequent
<1>1. ASSUME MiningIInv, WalksKnown, mainPc \in {"write", "done"} PROVE F!ReportedAreFrequent
  <2>1. PICK taker : MiningCounted(taker)
    BY <1>1 DEF MiningIInv
  <2> DEFINE S == Walks(g, degreeList, 1 .. F!topK)
             D == DOMAIN g.edges
  <2>2. D \in SUBSET Nat /\ IsFiniteSet(D)
    BY <1>1 DEF WalksKnown, MiningIInv, MiningData
  <2>3. 1 .. F!topK = 1 .. v_idx - 1
    <3>1. v_idx \in Nat /\ F!topK \in Nat /\ v_idx <= F!topK + 1 /\ v_idx > F!topK
      BY <1>1, PartIsInList, TopIsInList DEF MiningIInv, MiningStage
    <3>2. QED
      BY <3>1
  <2>4. /\ S \in SUBSET (D \X D \X D)
        /\ \A c \in S : c \in F!Chains /\ c[1] < c[2] /\ c[2] < c[3] /\ F!Known(c)
    BY <1>1, <2>3 DEF Walks, F!Chains, WalksKnown
  <2>5. S \subseteq F!Paths
    <3>1. \A c \in S : c[1] # c[2] /\ c[2] # c[3] /\ c[1] # c[3]
      <4> TAKE c \in S
      <4> HIDE DEF S, D
      <4>1. c[1] \in Nat /\ c[2] \in Nat /\ c[3] \in Nat /\ c[1] < c[2] /\ c[2] < c[3]
        BY <2>2, <2>4
      <4>2. QED
        BY <4>1
    <3>2. QED
      BY <2>4, <3>1 DEF F!Paths
  <2>6. \A c \in F!Paths : F!EdgesOf(c) \in SUBSET D
    BY DEF F!Paths, F!Chains, F!EdgesOf
  <2>7. totalEnumerated = Cardinality(S)
    BY <1>1, <2>1, AllTaken DEF MiningCounted
  <2>8. \A f \in DOMAIN patterns : /\ patterns[f] \in Nat /\ Freq(g, S, f) >= patterns[f]
                                   /\ patterns[f] >= SUPPORT_THRESHOLD
    BY <1>1 DEF MiningIInv, MiningReported, Reported, IsMap
  <2> HIDE DEF S, D
  <2>9. totalEnumerated <= F!Cardinality(F!Subgraphs)
    <3>1. F!Subgraphs \in SUBSET SUBSET D /\ \A c \in S : F!EdgesOf(c) \in F!Subgraphs
      BY <2>5, <2>6 DEF F!Subgraphs
    <3>2. Cardinality(S) <= Cardinality(F!Subgraphs)
      BY <2>2, <2>4, <3>1, AscendingAreDistinct
    <3>3. QED
      BY <2>7, <3>2, MiningSizes
  <2>10. ASSUME NEW f \in DOMAIN patterns PROVE patterns[f] <= F!Cardinality(F!Embeddings(f))
    <3> DEFINE W == {c \in S : F!getCanonicalForm(g, c) = f}
               E == F!Embeddings(f)
    <3>1. E \in SUBSET SUBSET D /\ \A c \in W : F!EdgesOf(c) \in E
      BY <2>5, <2>6 DEF F!Embeddings
    <3>2. W \in SUBSET (D \X D \X D) /\ \A c \in W : c[1] < c[2] /\ c[2] < c[3]
      BY <2>4
    <3>3. Freq(g, S, f) = Cardinality(W)
      BY DEF Freq
    <3> HIDE DEF W, E
    <3>4. IsFiniteSet(W) /\ Cardinality(W) <= Cardinality(E)
      BY <2>2, <3>1, <3>2, AscendingAreDistinct
    <3>5. IsFiniteSet(E)
      BY <2>2, <3>1, FS_SUBSET, FS_Subset
    <3>6. Cardinality(W) \in Nat /\ Cardinality(E) \in Nat
      BY <3>4, <3>5, FS_CardinalityType
    <3>7. patterns[f] <= Cardinality(E)
      BY <2>8, <3>3, <3>4, <3>6
    <3>8. QED
      BY <3>7, MiningSizes DEF E
  <2>11. QED
    BY <2>8, <2>9, <2>10 DEF F!ReportedAreFrequent
<1>2. (program = "FSM" => MiningIInv /\ WalksKnown) => ReportedAreFrequent
  <2>1. ~(mainPc \in {"write", "done"}) => F!ReportedAreFrequent
    BY DEF F!ReportedAreFrequent
  <2>2. QED
    BY <1>1, <2>1 DEF ReportedAreFrequent
<1>3. QED
  BY <1>2, KnownInvariance, PTL
=============================================================================
