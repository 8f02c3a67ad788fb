---------------------------- MODULE ReduceProofs ----------------------------
(***************************************************************************)
(* Theorems about the tree reduction, for every number of processes and of *)
(* calls.                                                                  *)
(***************************************************************************)
EXTENDS Reduce, TLAPS

(* The values of step: the smallest set with 1 that doubling stays in.     *)
Doubling(S) == 1 \in S /\ \A x \in S : 2 * x \in S
Powers == {n \in Nat : \A S \in SUBSET Nat : Doubling(S) => n \in S}

Divides(d, x) == \E k \in Nat : x = k * d

LEMMA PowersInduction ==
    ASSUME NEW S \in SUBSET Nat, Doubling(S)
    PROVE  Powers \subseteq S
BY DEF Powers

LEMMA PowersDouble ==
    /\ 1 \in Powers
    /\ \A x \in Powers : 2 * x \in Powers /\ x \in Nat \ {0}
<1>1. 1 \in Powers
  BY DEF Powers, Doubling
<1>2. ASSUME NEW x \in Powers PROVE 2 * x \in Powers
  <2>1. 2 * x \in Nat
    BY DEF Powers
  <2>2. ASSUME NEW S \in SUBSET Nat, Doubling(S) PROVE 2 * x \in S
    <3>1. x \in S
      BY <2>2 DEF Powers
    <3>2. QED
      BY <2>2, <3>1 DEF Doubling
  <2>3. QED
    BY <2>1, <2>2 DEF Powers
<1>3. Powers \subseteq Nat \ {0}
  <2>1. Doubling(Nat \ {0})
    BY DEF Doubling
  <2>2. QED
    BY <2>1, PowersInduction
<1>4. QED
  BY <1>1, <1>2, <1>3

\* A power is 1 or twice a power.
LEMMA PowersHalve == \A x \in Powers : x = 1 \/ \E y \in Powers : x = 2 * y
<1> DEFINE S == {1} \union {2 * y : y \in Powers}
<1>1. S \in SUBSET Nat /\ S \subseteq Powers
  BY PowersDouble
<1>2. Doubling(S)
  BY <1>1 DEF Doubling
<1>3. Powers \subseteq S
  BY <1>1, <1>2, PowersInduction
<1>4. QED
  BY <1>3

\* Of two powers one divides the other, the smaller one evenly.
LEMMA PowersCompare ==
    ASSUME NEW a \in Powers, NEW b \in Powers
    PROVE  Divides(a, b) \/ Divides(2 * b, a)
<1> DEFINE S == {x \in Nat : \A y \in Powers : Divides(x, y) \/ Divides(2 * y, x)}
<1>1. 1 \in S
  <2>1. ASSUME NEW y \in Powers PROVE Divides(1, y)
    <3>1. y \in Nat
      BY PowersDouble
    <3>2. y = y * 1
      BY <3>1
    <3>3. QED
      BY <3>1, <3>2 DEF Divides
  <2>2. \A y \in Powers : Divides(1, y) \/ Divides(2 * y, 1)
    BY <2>1
  <2>3. QED
    BY <2>2
<1>2. ASSUME NEW x \in S PROVE 2 * x \in S
  <2>1. x \in Nat /\ \A y \in Powers : Divides(x, y) \/ Divides(2 * y, x)
    OBVIOUS
  <2>2. ASSUME NEW y \in Powers PROVE Divides(2 * x, y) \/ Divides(2 * y, 2 * x)
    <3>1. CASE y = 1
      <4>1. 2 * x = x * (2 * y)
        BY <2>1, <3>1
      <4>2. QED
        BY <2>1, <4>1 DEF Divides
    <3>2. ASSUME NEW h \in Powers, y = 2 * h PROVE Divides(2 * x, y) \/ Divides(2 * y, 2 * x)
      <4>1. h \in Nat
        BY PowersDouble
      <4>2. ASSUME NEW k \in Nat, h = k * x PROVE Divides(2 * x, y)
        <5>1. y = k * (2 * x)
          BY <2>1, <3>2, <4>2
        <5>2. QED
          BY <5>1 DEF Divides
      <4>3. ASSUME NEW k \in Nat, x = k * (2 * h) PROVE Divides(2 * y, 2 * x)
        <5>1. 2 * x = k * (2 * y)
          BY <4>1, <3>2, <4>3
        <5>2. QED
          BY <5>1 DEF Divides
      <4>4. QED
        BY <2>1, <4>2, <4>3 DEF Divides
    <3>3. QED
      BY <3>1, <3>2, PowersHalve
  <2>3. QED
    BY <2>1, <2>2
<1>3. S \in SUBSET Nat /\ Doubling(S)
  BY <1>1, <1>2 DEF Doubling
<1>4. Powers \subseteq S
  BY <1>3, PowersInduction
<1>5. QED
  BY <1>4

LEMMA PowersOrder ==
    ASSUME NEW a \in Powers, NEW b \in Powers
    PROVE  /\ a < b => 2 * a <= b
           /\ a <= b => Divides(a, b)
<1>1. a \in Nat \ {0} /\ b \in Nat \ {0}
  BY PowersDouble
<1>2. ASSUME NEW x \in Nat, NEW y \in Nat \ {0}, Divides(x, y) PROVE x <= y
  <2>1. PICK k \in Nat : y = k * x
    BY <1>2 DEF Divides
  <2>2. k # 0
    BY <2>1
  <2>3. y = x + (k - 1) * x
    BY <2>1
  <2>4. (k - 1) * x \in Nat
    BY <2>2
  <2>5. QED
    BY <2>3, <2>4
<1>3. ASSUME a < b PROVE 2 * a <= b
  <2>1. ~Divides(b, a)
    BY <1>1, <1>2, <1>3
  <2>2. Divides(2 * a, b)
    BY <2>1, PowersCompare
  <2>3. QED
    BY <1>1, <1>2, <2>2
<1>4. ASSUME a <= b PROVE Divides(a, b)
  <2>1. ~Divides(2 * b, a)
    BY <1>1, <1>2, <1>4
  <2>2. QED
    BY <2>1, PowersCompare
<1>5. QED
  BY <1>3, <1>4

(* Remainders and divisors.                                                *)
LEMMA Remainder ==
    ASSUME NEW a \in Nat, NEW d \in Nat \ {0}
    PROVE  a % d = 0 <=> Divides(d, a)
<1> DEFINE q == a \div d
           r == a % d
<1>1. q \in Nat /\ r \in 0 .. d - 1 /\ a = q * d + r
  OBVIOUS
<1> HIDE DEF q, r
<1>2. ASSUME r = 0 PROVE Divides(d, a)
  BY <1>1, <1>2 DEF Divides
<1>3. ASSUME NEW k \in Nat, a = k * d PROVE r = 0
  <2>1. CASE k <= q
    <3>1. (q - k) * d \in Nat /\ q * d = k * d + (q - k) * d
      BY <1>1, <2>1
    <3>2. k * d \in Nat
      OBVIOUS
    <3>3. QED
      BY <1>1, <1>3, <3>1, <3>2
  <2>2. CASE k > q
    <3>1. (k - q - 1) * d \in Nat /\ k * d = q * d + d + (k - q - 1) * d
      BY <1>1, <2>2
    <3>2. q * d \in Nat
      BY <1>1
    <3>3. QED
      BY <1>1, <1>3, <3>1, <3>2
  <2>3. QED
    BY <1>1, <2>1, <2>2
<1>4. QED
  BY <1>2, <1>3 DEF Divides, r

\* Of a smaller power twice the value divides what twice the larger does.
LEMMA SmallerDivides ==
    ASSUME NEW r \in Nat, NEW a \in Powers, NEW b \in Powers, a <= b, r % (2 * b) = 0
    PROVE  r % (2 * a) = 0
<1>1. a \in Nat \ {0} /\ b \in Nat \ {0} /\ 2 * a \in Nat \ {0} /\ 2 * b \in Nat \ {0}
  BY PowersDouble
<1>2. PICK k \in Nat : b = k * a
  BY PowersOrder DEF Divides
<1>3. PICK m \in Nat : r = m * (2 * b)
  BY <1>1, Remainder DEF Divides
<1>4. m * (2 * b) = (m * k) * (2 * a)
  BY <1>1, <1>2
<1>5. m * k \in Nat
  OBVIOUS
<1>6. Divides(2 * a, r)
  BY <1>3, <1>4, <1>5 DEF Divides
<1>7. QED
  BY <1>1, <1>6, Remainder

\* The process a sender sends to receives in the same step.
LEMMA Partner ==
    ASSUME NEW r \in Nat, NEW s \in Nat \ {0}, r % s = 0, r % (2 * s) # 0
    PROVE  r - s \in Nat /\ (r - s) % (2 * s) = 0
<1>1. PICK k \in Nat : r = k * s
  BY Remainder DEF Divides
<1>2. 2 * s \in Nat \ {0}
  OBVIOUS
<1>3. PICK m \in Nat : k = 2 * m \/ k = 2 * m + 1
  <2>1. k \div 2 \in Nat /\ (k = 2 * (k \div 2) \/ k = 2 * (k \div 2) + 1)
    OBVIOUS
  <2>2. QED
    BY <2>1
<1>4. k # 2 * m
  <2>1. SUFFICES ASSUME k = 2 * m PROVE FALSE
    OBVIOUS
  <2>2. r = m * (2 * s)
    BY <1>1, <2>1
  <2>3. QED
    BY <1>2, <2>2, Remainder DEF Divides
<1>5. r - s = m * (2 * s)
  BY <1>1, <1>3, <1>4
<1>6. m * (2 * s) \in Nat
  OBVIOUS
<1>7. QED
  BY <1>2, <1>5, <1>6, Remainder DEF Divides

-----------------------------------------------------------------------------
(* The inductive invariant: between the barriers a process that is past a  *)
(* step has received from its partner of that step, and a message that is  *)
(* on its way goes to a process that has not come further than the step.   *)
Tree(q, s) == [x \in Ranks |-> IF q <= x /\ x < q + s THEN 1 ELSE 0]
InCall(r) == pc[r] \in {"loop", "sending", "after"}
Sent(r) == pc[r] \in {"sending", "after"}

Types ==
    /\ np \in Nat \ {0}
    /\ channel \in [Ranks -> [Ranks -> Seq([round : Nat, data : [Ranks -> Nat]])]]

Phases ==
    /\ \A q, r \in Ranks : round[q] = round[r] /\ (pc[q] = "before" <=> pc[r] = "before")
    /\ \A r \in Ranks : pc[r] # "before" => round[r] <= Rounds

Steps ==
    \A r \in Ranks : InCall(r) =>
        /\ step[r] \in Powers /\ r % step[r] = 0
        /\ pc[r] = "sending" => ~Receives(r)
        /\ pc[r] = "after" => step[r] >= np \/ ~Receives(r)

Subtrees == \A r \in Ranks : pc[r] \in {"loop", "sending"} => localbuf[r] = Tree(r, step[r])

Passed ==
    \A r \in Ranks : \A s \in Powers :
        InCall(r) /\ s < step[r] /\ r + s < np => Sent(r + s)

OnItsWay(q, r) ==
    channel[q][r] # << >> =>
        /\ r < q /\ q - r \in Powers /\ r % (2 * (q - r)) = 0
        /\ channel[q][r] = <<[round |-> round[r], data |-> Tree(q, q - r)]>>
        /\ Sent(q)
        /\ pc[r] = "call" \/ (pc[r] = "loop" /\ step[r] <= q - r)

Messages == \A q, r \in Ranks : OnItsWay(q, r)

Result == pc[0] = "after" => recvbuf = [q \in Ranks |-> 1]

IInv == TypeOK /\ Types /\ Phases /\ Steps /\ Subtrees /\ Passed /\ Messages /\ Result

LEMMA RankFacts ==
    ASSUME Types
    PROVE  /\ np \in Nat \ {0} /\ 0 \in Ranks /\ Ranks \subseteq Nat
           /\ \A r \in Ranks : r < np
           /\ \A r \in Nat : r < np => r \in Ranks
BY DEF Types, Ranks

LEMMA InitInv == Init => IInv
<1> SUFFICES ASSUME Init PROVE IInv
  OBVIOUS
<1> USE DEF Init
<1>1. np \in Nat \ {0} /\ 0 \in Ranks
  BY ReduceAssumption DEF Ranks
<1>2. Nothing \in [Ranks -> Nat]
  BY DEF Nothing
<1>3. TypeOK
  BY <1>2, ReduceAssumption DEF TypeOK
<1>4. Types
  BY <1>1 DEF Types
<1>5. Phases /\ Steps /\ Subtrees /\ Passed
  BY DEF Phases, Steps, Subtrees, Passed, InCall
<1>6. Messages
  BY DEF Messages, OnItsWay
<1>7. Result
  BY <1>1 DEF Result
<1>8. QED
  BY <1>3, <1>4, <1>5, <1>6, <1>7 DEF IInv

-----------------------------------------------------------------------------
LEMMA BarriersKeep == IInv /\ (BarrierBefore \/ BarrierAfter) => IInv'
<1> SUFFICES ASSUME IInv, BarrierBefore \/ BarrierAfter PROVE IInv'
  OBVIOUS
<1> USE DEF IInv
<1>0. np' = np /\ Ranks' = Ranks /\ 0 \in Ranks
  BY RankFacts DEF BarrierBefore, BarrierAfter, Ranks
<1>1. \A r \in Ranks : pc[r] \in {"before", "after"}
  BY DEF BarrierBefore, BarrierAfter
<1>2. \A q, r \in Ranks : channel[q][r] = << >>
  BY <1>1 DEF Messages, OnItsWay
<1>3. channel' = channel
  BY DEF BarrierBefore, BarrierAfter
<1>4. \A r \in Ranks : pc'[r] \in {"before", "call"}
  BY DEF BarrierBefore, BarrierAfter
<1>5. Steps' /\ Subtrees' /\ Passed' /\ Result'
  BY <1>0, <1>4 DEF Steps, Subtrees, Passed, Result, InCall
<1>6. Messages'
  BY <1>0, <1>2, <1>3 DEF Messages, OnItsWay
<1>7. Types'
  BY <1>0, <1>3 DEF Types
<1>8. TypeOK' /\ Phases'
  <2>1. CASE BarrierBefore
    BY <1>0, <2>1 DEF BarrierBefore, TypeOK, Phases
  <2>2. CASE BarrierAfter
    <3>1. \A r \in Ranks : round[r] \in 1 .. Rounds
      BY <2>2, ReduceAssumption DEF BarrierAfter, TypeOK, Phases
    <3>2. \A r \in Ranks : round'[r] = round[r] + 1 /\ round'[r] \in 1 .. Rounds + 1
      BY <2>2, <3>1, ReduceAssumption DEF BarrierAfter
    <3>3. TypeOK'
      BY <1>0, <2>2, <3>1, <3>2, ReduceAssumption DEF BarrierAfter, TypeOK
    <3>4. Phases'
      BY <1>0, <2>2, <3>2 DEF BarrierAfter, Phases
    <3>5. QED
      BY <3>3, <3>4
  <2>3. QED
    BY <2>1, <2>2
<1>9. QED
  BY <1>5, <1>6, <1>7, <1>8

LEMMA CallKeeps == \A r \in Ranks : IInv /\ Call(r) => IInv'
<1> SUFFICES ASSUME NEW r \in Ranks, IInv, Call(r) PROVE IInv'
  OBVIOUS
<1> USE DEF IInv
<1>0. /\ np' = np /\ Ranks' = Ranks /\ round' = round /\ channel' = channel /\ recvbuf' = recvbuf
      /\ np \in Nat \ {0} /\ 0 \in Ranks /\ r \in Nat
      /\ \A q, s : Tree(q, s)' = Tree(q, s)
  BY RankFacts DEF Call, Ranks, Tree
<1>1. /\ pc[r] = "call" /\ pc' = [pc EXCEPT ![r] = "loop"] /\ step' = [step EXCEPT ![r] = 1]
      /\ localbuf' = [localbuf EXCEPT ![r] = Alone(r)]
  BY DEF Call, Goto
<1>2. Alone(r) \in [Ranks -> Nat] /\ Alone(r) = Tree(r, 1)
  BY <1>0, RankFacts DEF Alone, Tree
<1>3. TypeOK'
  BY <1>0, <1>1, <1>2 DEF TypeOK
<1>4. /\ \A q \in Ranks : pc'[q] = IF q = r THEN "loop" ELSE pc[q]
      /\ \A q \in Ranks : step'[q] = IF q = r THEN 1 ELSE step[q]
      /\ \A q \in Ranks : localbuf'[q] = IF q = r THEN Alone(r) ELSE localbuf[q]
  BY <1>1 DEF TypeOK
<1>5. Types'
  BY <1>0 DEF Types
<1>6. Phases'
  BY <1>0, <1>1, <1>4 DEF Phases
<1>7. Steps'
  <2>1. 1 \in Powers /\ r % 1 = 0
    BY <1>0, PowersDouble
  <2>2. QED
    BY <1>0, <1>4, <2>1 DEF Steps, InCall, Receives
<1>8. Subtrees'
  BY <1>0, <1>2, <1>4 DEF Subtrees
<1>9. Passed'
  <2>1. \A s \in Powers : ~(s < 1)
    BY PowersDouble
  <2>2. ASSUME NEW q \in Ranks, NEW s \in Powers, InCall(q)', s < step'[q], q + s < np
        PROVE  Sent(q + s)'
    <3>1. q # r /\ InCall(q) /\ s < step[q]
      BY <1>4, <2>1, <2>2 DEF InCall
    <3>2. Sent(q + s)
      BY <2>2, <3>1 DEF Passed
    <3>3. q + s \in Ranks
      BY <2>2, PowersDouble, RankFacts
    <3>4. QED
      BY <1>1, <1>4, <3>2, <3>3 DEF Sent
  <2>3. QED
    BY <1>0, <2>2 DEF Passed
<1>10. Messages'
  <2> SUFFICES ASSUME NEW q \in Ranks, NEW d \in Ranks, channel[q][d] # << >> PROVE OnItsWay(q, d)'
    BY <1>0 DEF Messages, OnItsWay
  <2>1. OnItsWay(q, d)
    BY DEF Messages
  <2>2. q # r
    BY <1>1, <2>1 DEF OnItsWay, Sent
  <2>3. CASE d # r
    BY <1>0, <1>4, <2>1, <2>2, <2>3 DEF OnItsWay, Sent
  <2>4. CASE d = r
    <3>1. 1 <= q - d
      BY <2>1, PowersDouble DEF OnItsWay
    <3>2. QED
      BY <1>0, <1>4, <2>1, <2>2, <2>4, <3>1 DEF OnItsWay, Sent
  <2>5. QED
    BY <2>3, <2>4
<1>11. Result'
  BY <1>0, <1>4 DEF Result
<1>12. QED
  BY <1>3, <1>5, <1>6, <1>7, <1>8, <1>9, <1>10, <1>11

(* In the loop: a step without a partner, and one with a message.  Both    *)
(* double step, the second adds the subtree of the partner.                *)
LEMMA StepDoubles ==
    ASSUME IInv, NEW r \in Ranks, pc[r] = "loop", Receives(r), step[r] < np,
           /\ np' = np /\ Ranks' = Ranks /\ round' = round /\ pc' = pc
           /\ step' = [step EXCEPT ![r] = 2 * @],
           r + step[r] < np => Sent(r + step[r])
    PROVE  Phases' /\ Steps' /\ Passed'
<1> USE DEF IInv
<1>1. step[r] \in Powers /\ step[r] \in Nat \ {0} /\ 2 * step[r] \in Powers /\ step \in [Ranks -> Nat \ {0}]
  BY PowersDouble DEF Steps, InCall, TypeOK
<1>2. \A q \in Ranks : step'[q] = IF q = r THEN 2 * step[r] ELSE step[q]
  BY <1>1
<1>3. Phases'
  BY DEF Phases
<1>4. Steps'
  <2>1. r % (2 * step[r]) = 0
    BY DEF Receives
  <2>2. QED
    BY <1>1, <1>2, <2>1 DEF Steps, InCall, Receives
<1>5. Passed'
  <2>1. ASSUME NEW q \in Ranks, NEW s \in Powers, InCall(q)', s < step'[q], q + s < np
        PROVE  Sent(q + s)
    <3>1. InCall(q)
      BY <2>1 DEF InCall
    <3>2. CASE q # r
      BY <1>2, <2>1, <3>1, <3>2 DEF Passed
    <3>3. CASE q = r /\ s < step[r]
      BY <2>1, <3>1, <3>3 DEF Passed
    <3>4. CASE q = r /\ ~(s < step[r])
      <4>1. ~(step[r] < s)
        <5>1. step[r] < s => 2 * step[r] <= s
          BY <1>1, PowersOrder
        <5>2. s \in Nat
          BY PowersDouble
        <5>3. QED
          BY <1>1, <1>2, <2>1, <3>4, <5>1, <5>2
      <4>2. s = step[r]
        <5>1. s \in Nat
          BY PowersDouble
        <5>2. QED
          BY <1>1, <3>4, <4>1, <5>1
      <4>3. QED
        BY <2>1, <3>4, <4>2
    <3>5. QED
      BY <3>2, <3>3, <3>4
  <2>2. \A q : Sent(q)' <=> Sent(q)
    BY DEF Sent
  <2>3. QED
    BY <2>1, <2>2 DEF Passed
<1>6. QED
  BY <1>3, <1>4, <1>5

LEMMA SkipKeeps == \A r \in Ranks : IInv /\ Skip(r) => IInv'
<1> SUFFICES ASSUME NEW r \in Ranks, IInv, Skip(r) PROVE IInv'
  OBVIOUS
<1> USE DEF IInv
<1>0. /\ np' = np /\ Ranks' = Ranks /\ round' = round /\ pc' = pc /\ channel' = channel
      /\ recvbuf' = recvbuf /\ localbuf' = localbuf
      /\ \A q, s : Tree(q, s)' = Tree(q, s)
  BY DEF Skip, Ranks, Tree
<1>1. /\ pc[r] = "loop" /\ Receives(r) /\ step[r] < np /\ r + step[r] >= np
      /\ step' = [step EXCEPT ![r] = 2 * @]
  BY DEF Skip
<1>2. /\ np \in Nat \ {0} /\ r \in Nat /\ step \in [Ranks -> Nat \ {0}] /\ step[r] \in Nat \ {0}
      /\ \A q \in Ranks : q \in Nat /\ q < np
  BY RankFacts DEF TypeOK
<1>3. \A q \in Ranks : step'[q] = IF q = r THEN 2 * step[r] ELSE step[q]
  BY <1>1, <1>2
<1>4. Phases' /\ Steps' /\ Passed'
  <2>1. r + step[r] < np => Sent(r + step[r])
    BY <1>1, <1>2
  <2>2. QED
    BY <1>0, <1>1, <2>1, StepDoubles
<1>5. TypeOK' /\ Types'
  <2>1. step' \in [Ranks -> Nat \ {0}]
    BY <1>1, <1>2
  <2>2. QED
    BY <1>0, <2>1 DEF TypeOK, Types
<1>6. Subtrees'
  <2>1. Tree(r, 2 * step[r]) = Tree(r, step[r])
    BY <1>1, <1>2 DEF Tree
  <2>2. QED
    BY <1>0, <1>3, <2>1 DEF Subtrees
<1>7. Messages'
  <2> SUFFICES ASSUME NEW q \in Ranks, NEW d \in Ranks, channel[q][d] # << >> PROVE OnItsWay(q, d)'
    BY <1>0 DEF Messages, OnItsWay
  <2>1. OnItsWay(q, d)
    BY DEF Messages
  <2>2. CASE d # r
    BY <1>0, <1>3, <2>1, <2>2 DEF OnItsWay, Sent
  <2>3. CASE d = r
    <3>1. q - r \in Powers /\ step[r] <= q - r
      BY <1>1, <2>1, <2>3 DEF OnItsWay
    <3>2. step[r] # q - r
      BY <1>1, <1>2
    <3>3. 2 * step[r] <= q - r
      <4>1. step[r] \in Powers
        BY <1>1 DEF Steps, InCall
      <4>2. q - r \in Nat /\ step[r] < q - r
        BY <1>2, <3>1, <3>2, PowersDouble
      <4>3. QED
        BY <3>1, <4>1, <4>2, PowersOrder
    <3>4. QED
      BY <1>0, <1>1, <1>3, <2>1, <2>3, <3>3 DEF OnItsWay, Sent
  <2>4. QED
    BY <2>2, <2>3
<1>8. Result'
  BY <1>0 DEF Result
<1>9. QED
  BY <1>4, <1>5, <1>6, <1>7, <1>8

LEMMA RecvKeeps == \A r \in Ranks : IInv /\ Recv(r) => IInv'
<1> SUFFICES ASSUME NEW r \in Ranks, IInv, Recv(r) PROVE IInv'
  OBVIOUS
<1> USE DEF IInv
<1> DEFINE src == r + step[r]
<1>0. /\ np' = np /\ Ranks' = Ranks /\ round' = round /\ pc' = pc /\ recvbuf' = recvbuf
      /\ \A q, s : Tree(q, s)' = Tree(q, s)
  BY DEF Recv, Ranks, Tree
<1>1. /\ pc[r] = "loop" /\ Receives(r) /\ step[r] < np /\ src < np /\ channel[src][r] # << >>
      /\ step' = [step EXCEPT ![r] = 2 * @]
      /\ localbuf' = [localbuf EXCEPT ![r] = Sum(@, Head(channel[src][r]).data)]
      /\ channel' = [channel EXCEPT ![src][r] = Tail(@)]
  BY DEF Recv
<1>2. /\ np \in Nat \ {0} /\ r \in Nat /\ step \in [Ranks -> Nat \ {0}] /\ step[r] \in Nat \ {0}
      /\ \A q \in Ranks : q \in Nat /\ q < np
      /\ step[r] \in Powers
  BY <1>1, RankFacts DEF TypeOK, Steps, InCall
<1>3. src \in Ranks /\ src # r /\ src - r = step[r]
  <2>1. src \in Nat /\ src < np /\ src # r /\ src - r = step[r]
    BY <1>1, <1>2
  <2>2. QED
    BY <2>1, RankFacts
<1>4. /\ channel[src][r] = <<[round |-> round[r], data |-> Tree(src, step[r])]>> /\ Sent(src)
  BY <1>1, <1>3 DEF Messages, OnItsWay
<1>5. Phases' /\ Steps' /\ Passed'
  BY <1>0, <1>1, <1>2, <1>4, StepDoubles
<1>6. \A q \in Ranks : step'[q] = IF q = r THEN 2 * step[r] ELSE step[q]
  BY <1>1, <1>2
<1>7. /\ \A q, d \in Ranks : channel'[q][d] = IF q = src /\ d = r THEN << >> ELSE channel[q][d]
      /\ Types'
  <2>1. /\ Tail(channel[src][r]) = << >>
        /\ << >> \in Seq([round : Nat, data : [Ranks -> Nat]])
    BY <1>4
  <2>2. channel' = [channel EXCEPT ![src][r] = << >>]
    BY <1>1, <2>1
  <2>3. QED
    BY <1>0, <1>3, <2>1, <2>2 DEF Types
<1>8. Head(channel[src][r]).data = Tree(src, step[r])
  BY <1>4
<1>9. Sum(Tree(r, step[r]), Tree(src, step[r])) = Tree(r, 2 * step[r])
  BY <1>2 DEF Sum, Tree
<1>10. localbuf[r] = Tree(r, step[r])
  BY <1>1 DEF Subtrees
<1>11. localbuf' = [localbuf EXCEPT ![r] = Tree(r, 2 * step[r])]
  BY <1>1, <1>8, <1>9, <1>10
<1>12. TypeOK'
  <2>1. Tree(r, 2 * step[r]) \in [Ranks -> Nat]
    BY DEF Tree
  <2>2. localbuf' \in [Ranks -> [Ranks -> Nat]] /\ step' \in [Ranks -> Nat \ {0}]
    BY <1>1, <1>2, <1>11, <2>1 DEF TypeOK
  <2>3. QED
    BY <1>0, <2>2 DEF TypeOK
<1>13. Subtrees'
  <2>1. \A q \in Ranks : localbuf'[q] = IF q = r THEN Tree(r, 2 * step[r]) ELSE localbuf[q]
    BY <1>11 DEF TypeOK
  <2>2. QED
    BY <1>0, <1>6, <2>1 DEF Subtrees
<1>14. Messages'
  <2> SUFFICES ASSUME NEW q \in Ranks, NEW d \in Ranks, channel'[q][d] # << >> PROVE OnItsWay(q, d)'
    BY <1>0 DEF Messages, OnItsWay
  <2>1. ~(q = src /\ d = r) /\ channel'[q][d] = channel[q][d]
    BY <1>7
  <2>2. OnItsWay(q, d)
    BY DEF Messages
  <2>3. CASE d # r
    BY <1>0, <1>6, <2>1, <2>2, <2>3 DEF OnItsWay, Sent
  <2>4. CASE d = r
    <3>1. q - r \in Powers /\ step[r] <= q - r
      BY <1>1, <2>1, <2>2, <2>4 DEF OnItsWay
    <3>2. step[r] # q - r
      BY <1>2, <2>1, <2>4
    <3>3. 2 * step[r] <= q - r
      <4>1. q - r \in Nat /\ step[r] < q - r
        BY <1>2, <3>1, <3>2, PowersDouble
      <4>2. QED
        BY <1>2, <3>1, <4>1, PowersOrder
    <3>4. QED
      BY <1>0, <1>1, <1>6, <2>1, <2>2, <2>4, <3>3 DEF OnItsWay, Sent
  <2>5. QED
    BY <2>3, <2>4
<1>15. Result'
  BY <1>0 DEF Result
<1>16. QED
  BY <1>5, <1>7, <1>12, <1>13, <1>14, <1>15

(* A message finds its receiver still before or at the step of the sender: *)
(* a process further on would have had to receive it already.              *)
LEMMA PartnerWaits ==
    ASSUME IInv, NEW r \in Ranks, pc[r] = "loop", ~Receives(r)
    PROVE  LET d == r - step[r] IN
           /\ d \in Ranks /\ d < r /\ d % (2 * step[r]) = 0
           /\ pc[d] = "call" \/ (pc[d] = "loop" /\ step[d] <= step[r])
<1> USE DEF IInv
<1> DEFINE s == step[r]
           d == r - s
<1>1. s \in Powers /\ s \in Nat \ {0} /\ r % s = 0 /\ r \in Nat /\ r < np /\ np \in Nat
  BY RankFacts, PowersDouble DEF Steps, InCall
<1>2. d \in Nat /\ d % (2 * s) = 0
  BY <1>1, Partner DEF Receives
<1>3. d \in Ranks /\ d < r
  BY <1>1, <1>2, RankFacts
<1>4. pc[d] \in {"before", "call", "loop", "sending", "after"} /\ pc[d] # "before"
  BY <1>3 DEF TypeOK, Phases
<1>5. ~(InCall(d) /\ s < step[d])
  <2>1. d + s = r /\ ~Sent(r)
    BY <1>1 DEF Sent
  <2>2. QED
    BY <1>1, <1>3, <2>1 DEF Passed
<1>6. ASSUME Sent(d) PROVE FALSE
  <2>1. InCall(d) /\ step[d] \in Powers /\ step[d] \in Nat \ {0}
    BY <1>3, <1>6, PowersDouble DEF Sent, InCall, Steps
  <2>2. step[d] <= s
    BY <1>1, <1>5, <2>1
  <2>3. Receives(d)
    BY <1>1, <1>2, <2>1, <2>2, SmallerDivides DEF Receives
  <2>4. step[d] >= np
    BY <1>3, <1>6, <2>3 DEF Sent, InCall, Steps
  <2>5. s <= r
    BY <1>1, <1>2
  <2>6. QED
    BY <1>1, <2>1, <2>2, <2>4, <2>5
<1>7. pc[d] = "call" \/ (pc[d] = "loop" /\ step[d] <= s)
  <2>1. pc[d] = "loop" => step[d] \in Nat
    BY <1>3 DEF TypeOK
  <2>2. QED
    BY <1>1, <1>4, <1>5, <1>6, <2>1 DEF Sent, InCall
<1>8. QED
  BY <1>2, <1>3, <1>7

LEMMA SendKeeps == \A r \in Ranks : IInv /\ Send(r) => IInv'
<1> SUFFICES ASSUME NEW r \in Ranks, IInv, Send(r) PROVE IInv'
  OBVIOUS
<1> USE DEF IInv
<1> DEFINE dest == r - step[r]
           message == [round |-> round[r], data |-> localbuf[r]]
<1>0. /\ np' = np /\ Ranks' = Ranks /\ round' = round /\ step' = step /\ recvbuf' = recvbuf
      /\ localbuf' = localbuf
      /\ \A q, s : Tree(q, s)' = Tree(q, s)
  BY DEF Send, Ranks, Tree
<1>1. /\ pc[r] = "loop" /\ ~Receives(r) /\ step[r] < np
      /\ channel' = [channel EXCEPT ![r][dest] = Append(@, message)]
      /\ pc' = [pc EXCEPT ![r] = "sending"]
  BY DEF Send, Goto
<1>2. /\ dest \in Ranks /\ dest < r /\ dest % (2 * step[r]) = 0
      /\ pc[dest] = "call" \/ (pc[dest] = "loop" /\ step[dest] <= step[r])
  BY <1>1, PartnerWaits
<1>3. \A q \in Ranks : pc'[q] = IF q = r THEN "sending" ELSE pc[q]
  BY <1>1 DEF TypeOK
<1>4. /\ np \in Nat \ {0} /\ r \in Nat /\ step[r] \in Nat \ {0} /\ step[r] \in Powers
      /\ r - dest = step[r]
  BY <1>1, RankFacts DEF TypeOK, Steps, InCall
<1>5. channel[r][dest] = << >>
  <2>1. OnItsWay(r, dest)
    BY <1>2 DEF Messages
  <2>2. QED
    BY <1>1, <2>1 DEF OnItsWay, Sent
<1>6. TypeOK'
  <2>1. pc' \in [Ranks -> {"before", "call", "loop", "sending", "after"}]
    BY <1>1 DEF TypeOK
  <2>2. QED
    BY <1>0, <2>1 DEF TypeOK
<1>7. /\ \A q, d \in Ranks : channel'[q][d] = IF q = r /\ d = dest THEN <<message>> ELSE channel[q][d]
      /\ Types'
  <2>1. message \in [round : Nat, data : [Ranks -> Nat]]
    <3>1. round[r] \in Nat /\ localbuf[r] \in [Ranks -> Nat]
      BY ReduceAssumption DEF TypeOK
    <3>2. QED
      BY <3>1
  <2> HIDE DEF message
  <2>2. Append(channel[r][dest], message) = <<message>>
        /\ <<message>> \in Seq([round : Nat, data : [Ranks -> Nat]])
    BY <1>5, <2>1
  <2>3. channel' = [channel EXCEPT ![r][dest] = <<message>>]
    BY <1>1, <2>2
  <2>4. QED
    BY <1>0, <1>2, <2>2, <2>3 DEF Types
<1>8. Phases'
  BY <1>0, <1>1, <1>3 DEF Phases
<1>9. Steps'
  BY <1>0, <1>1, <1>3 DEF Steps, InCall, Receives
<1>10. Subtrees'
  BY <1>0, <1>1, <1>3 DEF Subtrees
<1>11. Passed'
  <2> SUFFICES ASSUME NEW q \in Ranks, NEW s \in Powers, InCall(q)', s < step[q], q + s < np
               PROVE  Sent(q + s)'
    BY <1>0 DEF Passed
  <2>1. InCall(q)
    BY <1>1, <1>3 DEF InCall
  <2>2. Sent(q + s) /\ q + s \in Ranks
    BY <2>1, PowersDouble, RankFacts DEF Passed
  <2>3. QED
    BY <1>3, <2>2 DEF Sent
<1>12. Messages'
  <2> SUFFICES ASSUME NEW q \in Ranks, NEW d \in Ranks, channel'[q][d] # << >> PROVE OnItsWay(q, d)'
    BY <1>0 DEF Messages, OnItsWay
  <2>1. CASE q = r /\ d = dest
    <3>1. localbuf[r] = Tree(r, step[r])
      BY <1>1 DEF Subtrees
    <3>2. channel'[q][d] = <<[round |-> round[r], data |-> Tree(q, q - d)]>>
      BY <1>4, <1>7, <2>1, <3>1
    <3>3. round[r] = round[dest]
      BY <1>2 DEF Phases
    <3>4. d # r /\ pc'[d] = pc[d] /\ Sent(q)'
      BY <1>2, <1>3, <1>4, <2>1 DEF Sent
    <3>5. QED
      BY <1>0, <1>2, <1>4, <2>1, <3>2, <3>3, <3>4 DEF OnItsWay
  <2>2. CASE ~(q = r /\ d = dest)
    <3>1. channel'[q][d] = channel[q][d] /\ channel[q][d] # << >>
      BY <1>7, <2>2
    <3>2. OnItsWay(q, d)
      BY DEF Messages
    <3>3. d # r
      <4>1. SUFFICES ASSUME d = r PROVE FALSE
        OBVIOUS
      <4>2. q - r \in Powers /\ step[r] <= q - r /\ r % (2 * (q - r)) = 0
        BY <1>1, <3>1, <3>2, <4>1 DEF OnItsWay
      <4>3. r % (2 * step[r]) = 0
        BY <1>4, <4>2, SmallerDivides
      <4>4. QED
        BY <1>1, <4>3 DEF Receives
    <3>4. QED
      BY <1>0, <1>3, <3>1, <3>2, <3>3 DEF OnItsWay, Sent
  <2>3. QED
    BY <2>1, <2>2
<1>13. Result'
  <2>1. r # 0
    BY <1>2, RankFacts
  <2>2. QED
    BY <1>0, <1>3, <2>1, RankFacts DEF Result
<1>14. QED
  BY <1>6, <1>7, <1>8, <1>9, <1>10, <1>11, <1>12, <1>13

\* A process that leaves the loop, by a send that returns or as the root.
LEMMA LeavesCall ==
    ASSUME IInv, NEW r \in Ranks, pc[r] \in {"loop", "sending"},
           step[r] >= np \/ ~Receives(r),
           pc[r] = "loop" => step[r] >= np,
           /\ np' = np /\ Ranks' = Ranks /\ round' = round /\ step' = step /\ channel' = channel
           /\ localbuf' = [localbuf EXCEPT ![r] = Nothing] /\ pc' = [pc EXCEPT ![r] = "after"],
           recvbuf' \in [Ranks -> Nat],
           pc'[0] = "after" => recvbuf' = [q \in Ranks |-> 1]
    PROVE  IInv'
<1> USE DEF IInv
<1>0. /\ \A q, s : Tree(q, s)' = Tree(q, s)
      /\ np \in Nat \ {0} /\ r \in Nat /\ step[r] \in Nat \ {0}
      /\ \A q \in Ranks : q \in Nat /\ q < np
  BY RankFacts DEF Tree, TypeOK
<1>1. \A q \in Ranks : pc'[q] = IF q = r THEN "after" ELSE pc[q]
  BY DEF TypeOK
<1>2. \A q \in Ranks : q # r => localbuf'[q] = localbuf[q]
  BY DEF TypeOK
<1>3. TypeOK'
  <2>1. Nothing \in [Ranks -> Nat]
    BY DEF Nothing
  <2>2. localbuf' \in [Ranks -> [Ranks -> Nat]]
        /\ pc' \in [Ranks -> {"before", "call", "loop", "sending", "after"}]
    BY <2>1 DEF TypeOK
  <2>3. QED
    BY <2>2 DEF TypeOK
<1>4. Types'
  BY DEF Types
<1>5. Phases'
  BY <1>1 DEF Phases
<1>6. Steps'
  BY <1>1 DEF Steps, InCall, Receives
<1>7. Subtrees'
  BY <1>0, <1>1, <1>2 DEF Subtrees
<1>8. Passed'
  <2> SUFFICES ASSUME NEW q \in Ranks, NEW s \in Powers, InCall(q)', s < step[q], q + s < np
               PROVE  Sent(q + s)'
    BY DEF Passed
  <2>1. InCall(q)
    BY <1>1 DEF InCall
  <2>2. Sent(q + s) /\ q + s \in Ranks
    BY <2>1, PowersDouble, RankFacts DEF Passed
  <2>3. QED
    BY <1>1, <2>2 DEF Sent
<1>9. Messages'
  <2> SUFFICES ASSUME NEW q \in Ranks, NEW d \in Ranks, channel[q][d] # << >> PROVE OnItsWay(q, d)'
    BY DEF Messages, OnItsWay
  <2>1. OnItsWay(q, d)
    BY DEF Messages
  <2>2. d # r
    <3>1. SUFFICES ASSUME d = r PROVE FALSE
      OBVIOUS
    <3>2. pc[r] = "loop" /\ step[r] <= q - r /\ step[r] >= np
      BY <2>1, <3>1 DEF OnItsWay
    <3>3. q - r < np /\ q - r \in Int
      BY <1>0
    <3>4. QED
      BY <1>0, <3>2, <3>3
  <2>3. QED
    BY <1>0, <1>1, <2>1, <2>2 DEF OnItsWay, Sent
<1>10. Result'
  BY DEF Result
<1>11. QED
  BY <1>3, <1>4, <1>5, <1>6, <1>7, <1>8, <1>9, <1>10

LEMMA SendReturnsKeeps == \A r \in Ranks : IInv /\ SendReturns(r) => IInv'
<1> SUFFICES ASSUME NEW r \in Ranks, IInv, SendReturns(r) PROVE IInv'
  OBVIOUS
<1>1. /\ np' = np /\ Ranks' = Ranks /\ round' = round /\ step' = step /\ channel' = channel
      /\ recvbuf' = recvbuf /\ pc[r] = "sending"
      /\ localbuf' = [localbuf EXCEPT ![r] = Nothing] /\ pc' = [pc EXCEPT ![r] = "after"]
  BY DEF SendReturns, Goto, Ranks
<1>2. ~Receives(r) /\ recvbuf' \in [Ranks -> Nat]
  BY <1>1 DEF IInv, Steps, InCall, TypeOK
<1>3. r # 0
  <2>1. step[0] \in Nat \ {0} /\ 0 \in Ranks
    BY RankFacts DEF IInv, TypeOK
  <2>2. 0 % (2 * step[0]) = 0
    <3>1. 2 * step[0] \in Nat \ {0}
      BY <2>1
    <3>2. 0 = 0 * (2 * step[0])
      BY <3>1
    <3>3. QED
      BY <3>1, <3>2, Remainder DEF Divides
  <2>3. QED
    BY <1>2, <2>2 DEF Receives
<1>4. pc'[0] = "after" => recvbuf' = [q \in Ranks |-> 1]
  BY <1>1, <1>3, RankFacts DEF IInv, TypeOK, Result
<1>5. QED
  BY <1>1, <1>2, <1>4, LeavesCall

LEMMA FinishKeeps == \A r \in Ranks : IInv /\ Finish(r) => IInv'
<1> SUFFICES ASSUME NEW r \in Ranks, IInv, Finish(r) PROVE IInv'
  OBVIOUS
<1>1. /\ np' = np /\ Ranks' = Ranks /\ round' = round /\ step' = step /\ channel' = channel
      /\ recvbuf' = (IF r = 0 THEN localbuf[r] ELSE recvbuf)
      /\ pc[r] = "loop" /\ step[r] >= np
      /\ localbuf' = [localbuf EXCEPT ![r] = Nothing] /\ pc' = [pc EXCEPT ![r] = "after"]
  BY DEF Finish, Goto, Ranks
<1>2. recvbuf' \in [Ranks -> Nat]
  BY <1>1 DEF IInv, TypeOK
<1>3. pc'[0] = "after" => recvbuf' = [q \in Ranks |-> 1]
  <2>1. CASE r = 0
    <3>1. localbuf[0] = Tree(0, step[0])
      BY <1>1, <2>1 DEF IInv, Subtrees
    <3>2. \A x \in Ranks : 0 <= x /\ x < 0 + step[0]
      BY <1>1, <2>1, RankFacts DEF IInv, TypeOK
    <3>3. Tree(0, step[0]) = [q \in Ranks |-> 1]
      BY <3>2 DEF Tree
    <3>4. QED
      BY <1>1, <2>1, <3>1, <3>3
  <2>2. CASE r # 0
    BY <1>1, <2>2, RankFacts DEF IInv, TypeOK, Result
  <2>3. QED
    BY <2>1, <2>2
<1>4. QED
  BY <1>1, <1>2, <1>3, LeavesCall

LEMMA Inductive == IInv /\ [Next]_vars => IInv'
<1> SUFFICES ASSUME IInv, [Next]_vars PROVE IInv'
  OBVIOUS
<1>1. CASE BarrierBefore \/ BarrierAfter
  BY <1>1, BarriersKeep
<1>2. ASSUME NEW r \in Ranks, RankStep(r) \/ SendReturns(r) PROVE IInv'
  BY <1>2, CallKeeps, SkipKeeps, RecvKeeps, SendKeeps, SendReturnsKeeps, FinishKeeps
     DEF RankStep, SendCompletes
<1>3. CASE UNCHANGED vars
  <2> USE <1>3 DEF vars, IInv
  <2>1. Ranks' = Ranks /\ (\A q, s : Tree(q, s)' = Tree(q, s)) /\ \A r : Sent(r)' <=> Sent(r)
    BY DEF Ranks, Tree, Sent
  <2>2. TypeOK' /\ Types' /\ Phases' /\ Subtrees' /\ Result'
    BY <2>1 DEF TypeOK, Types, Phases, Subtrees, Result
  <2>3. Steps' /\ Passed'
    BY <2>1 DEF Steps, Passed, InCall, Receives
  <2>4. Messages'
    BY <2>1 DEF Messages, OnItsWay
  <2>5. QED
    BY <2>2, <2>3, <2>4
<1>4. QED
  BY <1>1, <1>2, <1>3 DEF Next

LEMMA InvHolds == IInv => Inv /\ RootHasSum
<1> SUFFICES ASSUME IInv PROVE Inv /\ RootHasSum
  OBVIOUS
<1> USE DEF IInv
<1>1. HoldsSubtree
  BY DEF Subtrees, HoldsSubtree, Tree
<1>2. SameCall
  <2> SUFFICES ASSUME NEW q \in Ranks, NEW r \in Ranks, channel[q][r] # << >>
               PROVE  Head(channel[q][r]).round = round[r]
    BY DEF SameCall
  <2>1. channel[q][r] = <<[round |-> round[r], data |-> Tree(q, q - r)]>>
    BY DEF Messages, OnItsWay
  <2>2. QED
    BY <2>1
<1>3. RootHasSum
  BY RankFacts DEF RootHasSum, Result
<1>4. QED
  BY <1>1, <1>2, <1>3 DEF Inv

-----------------------------------------------------------------------------
(* YOUR_Reduce: every process in the tree holds the arrays of its subtree, *)
(* and no call receives a message of another, whether sends are buffered   *)
(* or not.                                                                 *)
THEOREM SubtreesAreSummed == Spec => []Inv
<1>1. Init => IInv
  BY InitInv
<1>2. IInv /\ [Next]_vars => IInv'
  BY Inductive
<1>3. IInv => Inv
  BY InvHolds
<1>4. QED
  BY <1>1, <1>2, <1>3, PTL DEF Spec

(* When all processes are past YOUR_Reduce the root has the sum of all the *)
(* arrays, each counted once, also when the number of processes is not a   *)
(* power of two.                                                           *)
THEOREM RootGetsSum == Spec => []RootHasSum
<1>1. Init => IInv
  BY InitInv
<1>2. IInv /\ [Next]_vars => IInv'
  BY Inductive
<1>3. IInv => RootHasSum
  BY InvHolds
<1>4. QED
  BY <1>1, <1>2, <1>3, PTL DEF Spec
=============================================================================
