-------------------------- MODULE WorkQueueProofs --------------------------
(***************************************************************************)
(* What holds of core/queue.hpp for every number of threads and every      *)
(* capacity.                                                               *)
(***************************************************************************)
EXTENDS WorkQueue, FiniteSetTheorems, TLAPS

Labels == {"idle"} \union PushPcs \union PopPcs

-----------------------------------------------------------------------------
(* Type correctness.                                                       *)

(* The first state of a queue is well typed.                               *)
LEMMA InitTypeOK == Init => TypeOK
BY QueueAssumption DEF QueueAssumption, Init, TypeOK, Threads, PushPcs, PopPcs

(* push keeps the types: in particular the length stays within Capacity    *)
(* because the test of is_full and the push are one critical section.      *)
LEMMA PushTypeOK ==
    ASSUME TypeOK, NEW t \in Pushers,
           (\E x \in Items : PushCall(t, x)) \/ PushLock(t) \/ PushStep(t)
    PROVE  TypeOK'
<1> USE QueueAssumption DEF QueueAssumption, TypeOK, Threads, PushPcs, PopPcs
<1>1. CASE \E x \in Items : PushCall(t, x)
  BY <1>1 DEF PushCall, Goto
<1>2. CASE PushLock(t)
  BY <1>2 DEF PushLock, Lock, Goto
<1>3. CASE PushSleep(t)
  BY <1>3 DEF PushSleep, Sleep, Goto
<1>4. CASE Enqueue(t)
  BY <1>4 DEF Enqueue, Goto, is_full
<1>5. CASE PushUnlock(t)
  BY <1>5 DEF PushUnlock, Unlock, Goto
<1>6. CASE PushNotify(t)
  BY <1>6 DEF PushNotify, NotifyOne, Goto, At
<1>7. QED
  BY <1>1, <1>2, <1>3, <1>4, <1>5, <1>6 DEF PushStep

(* pop keeps the types.                                                    *)
LEMMA PopTypeOK ==
    ASSUME TypeOK, NEW t \in Poppers,
           PopCall(t) \/ PopLock(t) \/ PopStep(t)
    PROVE  TypeOK'
<1> USE QueueAssumption DEF QueueAssumption, TypeOK, Threads, PushPcs, PopPcs
<1>1. CASE PopCall(t)
  BY <1>1 DEF PopCall, Goto
<1>2. CASE PopLock(t)
  BY <1>2 DEF PopLock, Lock, Goto
<1>3. CASE PopSleep(t)
  BY <1>3 DEF PopSleep, Sleep, Goto
<1>4. CASE Dequeue(t)
  BY <1>4 DEF Dequeue, Goto, is_empty
<1>5. CASE PopUnlock(t)
  BY <1>5 DEF PopUnlock, Unlock, Goto
<1>6. CASE PopNotify(t)
  BY <1>6 DEF PopNotify, NotifyOne, Goto, At
<1>7. QED
  BY <1>1, <1>2, <1>3, <1>4, <1>5, <1>6 DEF PopStep

(* A wake-up nobody asked for keeps the types.                             *)
LEMMA SpuriousTypeOK ==
    ASSUME TypeOK, NEW t \in Threads, SpuriousWakeup(t)
    PROVE  TypeOK'
BY QueueAssumption
   DEF QueueAssumption, TypeOK, Threads, PushPcs, PopPcs, SpuriousWakeup, Goto

LEMMA StepTypeOK == TypeOK /\ [Next]_vars => TypeOK'
<1> SUFFICES ASSUME TypeOK, [Next]_vars PROVE TypeOK'
  OBVIOUS
<1>1. CASE UNCHANGED vars
  BY <1>1 DEF vars, TypeOK
<1>2. CASE Next
  BY <1>2, PushTypeOK, PopTypeOK, SpuriousTypeOK DEF Next
<1>3. QED
  BY <1>1, <1>2

(* The queue never holds more than Capacity items, and every item in it is *)
(* one that was pushed.                                                    *)
THEOREM TypeCorrect == Spec => []TypeOK
BY InitTypeOK, StepTypeOK, PTL DEF Spec

-----------------------------------------------------------------------------
(* Mutual exclusion.                                                       *)

(* One step keeps the mutex and the critical sections in agreement.        *)
LEMMA StepMutexHeld ==
    TypeOK /\ MutexHeld /\ [Next]_vars => MutexHeld'
<1> SUFFICES ASSUME TypeOK, MutexHeld, [Next]_vars PROVE MutexHeld'
  OBVIOUS
<1> USE QueueAssumption
    DEF QueueAssumption, TypeOK, MutexHeld, Threads, Holding, PushPcs, PopPcs
<1>1. CASE UNCHANGED vars
  BY <1>1 DEF vars
<1>2. ASSUME NEW t \in Pushers, \E x \in Items : PushCall(t, x) PROVE MutexHeld'
  BY <1>2 DEF PushCall, Goto
<1>3. ASSUME NEW t \in Pushers, PushLock(t) PROVE MutexHeld'
  BY <1>3 DEF PushLock, Lock, Goto
<1>4. ASSUME NEW t \in Pushers, PushSleep(t) PROVE MutexHeld'
  BY <1>4 DEF PushSleep, Sleep, Goto
<1>5. ASSUME NEW t \in Pushers, Enqueue(t) PROVE MutexHeld'
  BY <1>5 DEF Enqueue, Goto
<1>6. ASSUME NEW t \in Pushers, PushUnlock(t) PROVE MutexHeld'
  BY <1>6 DEF PushUnlock, Unlock, Goto
<1>7. ASSUME NEW t \in Pushers, PushNotify(t) PROVE MutexHeld'
  BY <1>7 DEF PushNotify, NotifyOne, Goto, At
<1>8. ASSUME NEW t \in Poppers, PopCall(t) PROVE MutexHeld'
  BY <1>8 DEF PopCall, Goto
<1>9. ASSUME NEW t \in Poppers, PopLock(t) PROVE MutexHeld'
  BY <1>9 DEF PopLock, Lock, Goto
<1>10. ASSUME NEW t \in Poppers, PopSleep(t) PROVE MutexHeld'
  BY <1>10 DEF PopSleep, Sleep, Goto
<1>11. ASSUME NEW t \in Poppers, Dequeue(t) PROVE MutexHeld'
  BY <1>11 DEF Dequeue, Goto
<1>12. ASSUME NEW t \in Poppers, PopUnlock(t) PROVE MutexHeld'
  BY <1>12 DEF PopUnlock, Unlock, Goto
<1>13. ASSUME NEW t \in Poppers, PopNotify(t) PROVE MutexHeld'
  BY <1>13 DEF PopNotify, NotifyOne, Goto, At
<1>14. ASSUME NEW t \in Threads, SpuriousWakeup(t) PROVE MutexHeld'
  BY <1>14 DEF SpuriousWakeup, Goto
<1>15. QED
  BY <1>1, <1>2, <1>3, <1>4, <1>5, <1>6, <1>7, <1>8, <1>9, <1>10, <1>11,
     <1>12, <1>13, <1>14 DEF Next, PushStep, PopStep

(* The thread between lock and unlock is the one owner of the mutex.       *)
THEOREM MutualExclusion == Spec => []MutexHeld
<1>1. Init => MutexHeld
  BY QueueAssumption DEF QueueAssumption, Init, MutexHeld, Threads, Holding
<1>2. QED
  BY <1>1, InitTypeOK, StepTypeOK, StepMutexHeld, PTL DEF Spec

-----------------------------------------------------------------------------
(* No wake-up is lost.  Each side is a comparison of a length with the     *)
(* size of a set of threads, and a step changes that set by at most one    *)
(* thread leaving and one joining.                                         *)

LEMMA ThreadsFinite == IsFiniteSet(Threads)
BY QueueAssumption, FS_Union DEF QueueAssumption, Threads

(* The size of a set of threads is a number.                               *)
LEMMA CountIsNat ==
    ASSUME NEW S \in SUBSET Threads
    PROVE  IsFiniteSet(S) /\ Cardinality(S) \in Nat
BY ThreadsFinite, FS_Subset, FS_CardinalityType

(* A larger set of threads does not count less.                            *)
LEMMA CountGrows ==
    ASSUME NEW S \in SUBSET Threads, NEW T \in SUBSET Threads, S \subseteq T
    PROVE  Cardinality(S) <= Cardinality(T)
BY CountIsNat, FS_Subset

(* One thread joins.                                                       *)
LEMMA CountJoins ==
    ASSUME NEW S \in SUBSET Threads, NEW t \in Threads, t \notin S
    PROVE  Cardinality(S \union {t}) = Cardinality(S) + 1
BY CountIsNat, FS_AddElement

(* One thread leaves.                                                      *)
LEMMA CountLeaves ==
    ASSUME NEW S \in SUBSET Threads, NEW t \in S
    PROVE  Cardinality(S \ {t}) = Cardinality(S) - 1
BY CountIsNat, FS_RemoveElement

(* One thread hands its place over to another.                             *)
LEMMA CountHandsOver ==
    ASSUME NEW S \in SUBSET Threads, NEW t \in S, NEW s \in Threads, s \notin S
    PROVE  Cardinality((S \ {t}) \union {s}) = Cardinality(S)
<1>1. Cardinality(S \ {t}) = Cardinality(S) - 1
  BY CountLeaves
<1>2. Cardinality((S \ {t}) \union {s}) = Cardinality(S \ {t}) + 1
  BY CountJoins
<1>3. QED
  BY <1>1, <1>2, CountIsNat

(* The sleeping pops: every action of a step either leaves cond_empty's    *)
(* sleepers and the threads that bring them an item as they were, or       *)
(* changes both in step with the length of the queue.                      *)
LEMMA StepNoLostPop ==
    TypeOK /\ NoLostPop /\ [Next]_vars => NoLostPop'
<1> SUFFICES ASSUME TypeOK, NoLostPop, [Next]_vars, At("popWait")' # {}
             PROVE  Len(queue)' <= Cardinality(PopComing')
  BY DEF NoLostPop
<1> DEFINE C == PopComing
<1>a. /\ C \in SUBSET Threads /\ C' \in SUBSET Threads
      /\ Cardinality(C) \in Nat /\ Cardinality(C') \in Nat
      /\ IsFiniteSet(C) /\ IsFiniteSet(C')
  BY CountIsNat DEF PopComing, In
<1>b. Len(queue) \in Nat
  BY DEF TypeOK
<1>c. ASSUME queue' = queue, C \subseteq C', At("popWait") # {}
      PROVE  Len(queue)' <= Cardinality(C')
  BY <1>c, <1>a, <1>b, CountGrows DEF NoLostPop
<1> HIDE DEF C
<1> USE QueueAssumption DEF QueueAssumption, TypeOK, Threads
<1>1. CASE UNCHANGED vars
  BY <1>1, <1>c DEF vars, At, In, PopComing, C
<1>2. ASSUME NEW t \in Pushers, \E x \in Items : PushCall(t, x)
      PROVE  Len(queue)' <= Cardinality(C')
  BY <1>2, <1>c DEF PushCall, Goto, At, In, PopComing, C
<1>3. ASSUME NEW t \in Pushers, PushLock(t)
      PROVE  Len(queue)' <= Cardinality(C')
  BY <1>3, <1>c DEF PushLock, Lock, Goto, At, In, PopComing, C
<1>4. ASSUME NEW t \in Pushers, PushSleep(t)
      PROVE  Len(queue)' <= Cardinality(C')
  BY <1>4, <1>c DEF PushSleep, Sleep, Goto, At, In, PopComing, C
<1>5. ASSUME NEW t \in Pushers, Enqueue(t)
      PROVE  Len(queue)' <= Cardinality(C')
  <2>1. t \notin C /\ C' = C \union {t} /\ At("popWait") # {}
    BY <1>5 DEF Enqueue, Goto, At, In, PopComing, C
  <2>2. Len(queue)' = Len(queue) + 1
    BY <1>5, <1>b DEF Enqueue, PushPcs, PopPcs
  <2>3. QED
    BY <2>1, <2>2, <1>a, <1>b, CountJoins DEF NoLostPop, C
<1>6. ASSUME NEW t \in Pushers, PushUnlock(t)
      PROVE  Len(queue)' <= Cardinality(C')
  BY <1>6, <1>c DEF PushUnlock, Unlock, Goto, At, In, PopComing, C
<1>7. ASSUME NEW t \in Pushers, PushNotify(t)
      PROVE  Len(queue)' <= Cardinality(C')
  <2>1. PICK s \in At("popWait") : pc' = [pc EXCEPT ![t] = "idle", ![s] = "popLock"]
    BY <1>7 DEF PushNotify, NotifyOne, Goto, At
  <2>2. t \in C /\ s \notin C /\ s \in Threads /\ C' = (C \ {t}) \union {s}
    BY <2>1, <1>7 DEF PushNotify, At, In, PopComing, C
  <2>3. Cardinality(C') = Cardinality(C)
    BY <2>2, <1>a, CountHandsOver
  <2>4. queue' = queue /\ At("popWait") # {}
    BY <2>1, <1>7 DEF PushNotify
  <2>5. QED
    BY <2>3, <2>4, <1>a, <1>b DEF NoLostPop, C
<1>8. ASSUME NEW t \in Poppers, PopCall(t)
      PROVE  Len(queue)' <= Cardinality(C')
  BY <1>8, <1>c DEF PopCall, Goto, At, In, PopComing, C
<1>9. ASSUME NEW t \in Poppers, PopLock(t)
      PROVE  Len(queue)' <= Cardinality(C')
  BY <1>9, <1>c DEF PopLock, Lock, Goto, At, In, PopComing, C
<1>10. ASSUME NEW t \in Poppers, PopSleep(t)
       PROVE  Len(queue)' <= Cardinality(C')
  BY <1>10, <1>a DEF PopSleep, Sleep, is_empty
<1>11. ASSUME NEW t \in Poppers, Dequeue(t)
       PROVE  Len(queue)' <= Cardinality(C')
  <2>1. t \in C /\ C' = C \ {t} /\ At("popWait") # {}
    BY <1>11 DEF Dequeue, Goto, At, In, PopComing, C
  <2>2. Len(queue)' = Len(queue) - 1
    BY <1>11, <1>b DEF Dequeue, is_empty
  <2>3. QED
    BY <2>1, <2>2, <1>a, <1>b, CountLeaves DEF NoLostPop, C
<1>12. ASSUME NEW t \in Poppers, PopUnlock(t)
       PROVE  Len(queue)' <= Cardinality(C')
  BY <1>12, <1>c DEF PopUnlock, Unlock, Goto, At, In, PopComing, C
<1>13. ASSUME NEW t \in Poppers, PopNotify(t)
       PROVE  Len(queue)' <= Cardinality(C')
  BY <1>13, <1>c DEF PopNotify, NotifyOne, Goto, At, In, PopComing, C
<1>14. ASSUME NEW t \in Threads, SpuriousWakeup(t)
       PROVE  Len(queue)' <= Cardinality(C')
  BY <1>14, <1>c DEF SpuriousWakeup, Goto, At, In, PopComing, C
<1>15. QED
  BY <1>1, <1>2, <1>3, <1>4, <1>5, <1>6, <1>7, <1>8, <1>9, <1>10, <1>11,
     <1>12, <1>13, <1>14 DEF Next, PushStep, PopStep, C

(* The sleeping pushes: the same argument with the free places.            *)
LEMMA StepNoLostPush ==
    TypeOK /\ NoLostPush /\ [Next]_vars => NoLostPush'
<1> SUFFICES ASSUME TypeOK, NoLostPush, [Next]_vars, At("pushWait")' # {}
             PROVE  Capacity - Len(queue)' <= Cardinality(PushComing')
  BY DEF NoLostPush
<1> DEFINE C == PushComing
<1>a. /\ C \in SUBSET Threads /\ C' \in SUBSET Threads
      /\ Cardinality(C) \in Nat /\ Cardinality(C') \in Nat
      /\ IsFiniteSet(C) /\ IsFiniteSet(C')
  BY CountIsNat DEF PushComing, In
<1>b. Len(queue) \in Nat /\ Capacity \in Nat
  BY QueueAssumption DEF TypeOK, QueueAssumption
<1>c. ASSUME queue' = queue, C \subseteq C', At("pushWait") # {}
      PROVE  Capacity - Len(queue)' <= Cardinality(C')
  BY <1>c, <1>a, <1>b, CountGrows DEF NoLostPush
<1> HIDE DEF C
<1> USE QueueAssumption DEF QueueAssumption, TypeOK, Threads
<1>1. CASE UNCHANGED vars
  BY <1>1, <1>c DEF vars, At, In, PushComing, C
<1>2. ASSUME NEW t \in Pushers, \E x \in Items : PushCall(t, x)
      PROVE  Capacity - Len(queue)' <= Cardinality(C')
  BY <1>2, <1>c DEF PushCall, Goto, At, In, PushComing, C
<1>3. ASSUME NEW t \in Pushers, PushLock(t)
      PROVE  Capacity - Len(queue)' <= Cardinality(C')
  BY <1>3, <1>c DEF PushLock, Lock, Goto, At, In, PushComing, C
<1>4. ASSUME NEW t \in Pushers, PushSleep(t)
      PROVE  Capacity - Len(queue)' <= Cardinality(C')
  BY <1>4, <1>a, <1>b DEF PushSleep, Sleep, is_full
<1>5. ASSUME NEW t \in Pushers, Enqueue(t)
      PROVE  Capacity - Len(queue)' <= Cardinality(C')
  <2>1. t \in C /\ C' = C \ {t} /\ At("pushWait") # {}
    BY <1>5 DEF Enqueue, Goto, At, In, PushComing, C
  <2>2. Len(queue)' = Len(queue) + 1
    BY <1>5, <1>b DEF Enqueue, PushPcs, PopPcs
  <2>3. QED
    BY <2>1, <2>2, <1>a, <1>b, CountLeaves DEF NoLostPush, C
<1>6. ASSUME NEW t \in Pushers, PushUnlock(t)
      PROVE  Capacity - Len(queue)' <= Cardinality(C')
  BY <1>6, <1>c DEF PushUnlock, Unlock, Goto, At, In, PushComing, C
<1>7. ASSUME NEW t \in Pushers, PushNotify(t)
      PROVE  Capacity - Len(queue)' <= Cardinality(C')
  BY <1>7, <1>c DEF PushNotify, NotifyOne, Goto, At, In, PushComing, C
<1>8. ASSUME NEW t \in Poppers, PopCall(t)
      PROVE  Capacity - Len(queue)' <= Cardinality(C')
  BY <1>8, <1>c DEF PopCall, Goto, At, In, PushComing, C
<1>9. ASSUME NEW t \in Poppers, PopLock(t)
      PROVE  Capacity - Len(queue)' <= Cardinality(C')
  BY <1>9, <1>c DEF PopLock, Lock, Goto, At, In, PushComing, C
<1>10. ASSUME NEW t \in Poppers, PopSleep(t)
       PROVE  Capacity - Len(queue)' <= Cardinality(C')
  BY <1>10, <1>c DEF PopSleep, Sleep, Goto, At, In, PushComing, C
<1>11. ASSUME NEW t \in Poppers, Dequeue(t)
       PROVE  Capacity - Len(queue)' <= Cardinality(C')
  <2>1. t \notin C /\ C' = C \union {t} /\ At("pushWait") # {}
    BY <1>11 DEF Dequeue, Goto, At, In, PushComing, C
  <2>2. Len(queue)' = Len(queue) - 1
    BY <1>11, <1>b DEF Dequeue, is_empty
  <2>3. QED
    BY <2>1, <2>2, <1>a, <1>b, CountJoins DEF NoLostPush, C
<1>12. ASSUME NEW t \in Poppers, PopUnlock(t)
       PROVE  Capacity - Len(queue)' <= Cardinality(C')
  BY <1>12, <1>c DEF PopUnlock, Unlock, Goto, At, In, PushComing, C
<1>13. ASSUME NEW t \in Poppers, PopNotify(t)
       PROVE  Capacity - Len(queue)' <= Cardinality(C')
  <2>1. PICK s \in At("pushWait") : pc' = [pc EXCEPT ![t] = "idle", ![s] = "pushLock"]
    BY <1>13 DEF PopNotify, NotifyOne, Goto, At
  <2>2. t \in C /\ s \notin C /\ s \in Threads /\ C' = (C \ {t}) \union {s}
    BY <2>1, <1>13 DEF PopNotify, At, In, PushComing, C
  <2>3. Cardinality(C') = Cardinality(C)
    BY <2>2, <1>a, CountHandsOver
  <2>4. queue' = queue /\ At("pushWait") # {}
    BY <2>1, <1>13 DEF PopNotify
  <2>5. QED
    BY <2>3, <2>4, <1>a, <1>b DEF NoLostPush, C
<1>14. ASSUME NEW t \in Threads, SpuriousWakeup(t)
       PROVE  Capacity - Len(queue)' <= Cardinality(C')
  BY <1>14, <1>c DEF SpuriousWakeup, Goto, At, In, PushComing, C
<1>15. QED
  BY <1>1, <1>2, <1>3, <1>4, <1>5, <1>6, <1>7, <1>8, <1>9, <1>10, <1>11,
     <1>12, <1>13, <1>14 DEF Next, PushStep, PopStep, C

(* One notify_one per push and per pop, sent after the unlock, is enough:  *)
(* no sleeper is forgotten while there is something for it.                *)
THEOREM NoWakeupIsLost == Spec => []NoLostWakeup
<1>1. Init => NoLostPop /\ NoLostPush
  BY DEF Init, NoLostPop, NoLostPush, At
<1>2. QED
  BY <1>1, InitTypeOK, StepTypeOK, StepNoLostPop, StepNoLostPush, PTL
     DEF Spec, NoLostWakeup

(* If everybody inside the queue sleeps, nobody sleeps in vain: the queue  *)
(* is empty, or full, and never both, so it cannot deadlock by itself.     *)
THEOREM NeverStallsInVain == Spec => []StallsForCause
<1>1. TypeOK /\ NoLostWakeup => StallsForCause
  <2> SUFFICES ASSUME TypeOK, NoLostWakeup, Stalled
               PROVE  /\ At("popWait") # {} => is_empty
                      /\ At("pushWait") # {} => is_full
    BY DEF StallsForCause
  <2>1. PopComing = {} /\ PushComing = {}
    BY DEF Stalled, PopComing, PushComing, In
  <2>2. Cardinality({}) = 0
    BY FS_EmptySet
  <2>3. At("popWait") # {} => is_empty
    BY <2>1, <2>2 DEF NoLostWakeup, NoLostPop, is_empty, TypeOK
  <2>4. At("pushWait") # {} => is_full
    BY <2>1, <2>2, QueueAssumption
       DEF NoLostWakeup, NoLostPush, is_full, TypeOK, QueueAssumption
  <2>5. QED
    BY <2>3, <2>4
<1>2. QED
  BY <1>1, TypeCorrect, NoWakeupIsLost, PTL

-----------------------------------------------------------------------------
(* The detailed queue implements the bounded channel.                      *)

(* The first state of the queue is a first state of the channel.           *)
LEMMA InitRefines == Init => Chan!Init
BY DEF Init, Chan!Init, Phase, Threads, Chan!Threads

(* The step on the std::queue is the channel's Put or Take; entering and   *)
(* leaving are its call and return; everything the mutex and the condition *)
(* variables do is invisible.                                              *)
LEMMA StepRefines == TypeOK /\ [Next]_vars => [Chan!Next]_(Chan!vars)
<1> SUFFICES ASSUME TypeOK, [Next]_vars PROVE [Chan!Next]_(Chan!vars)
  OBVIOUS
<1> USE QueueAssumption DEF QueueAssumption, TypeOK, Threads, Chan!Threads, Phase, Effective
<1>1. CASE UNCHANGED vars
  BY <1>1 DEF vars, Chan!vars
<1>2. ASSUME NEW t \in Pushers, NEW x \in Items, PushCall(t, x) PROVE Chan!CallPush(t, x)
  BY <1>2 DEF PushCall, Goto, Chan!CallPush
<1>3. ASSUME NEW t \in Pushers, PushLock(t) PROVE UNCHANGED Chan!vars
  BY <1>3 DEF PushLock, Lock, Goto, Chan!vars
<1>4. ASSUME NEW t \in Pushers, PushSleep(t) PROVE UNCHANGED Chan!vars
  BY <1>4 DEF PushSleep, Sleep, Goto, Chan!vars
<1>5. ASSUME NEW t \in Pushers, Enqueue(t) PROVE Chan!Put(t)
  <2>1. Len(queue) < Capacity
    BY <1>5 DEF Enqueue, is_full
  <2>2. t \in Threads /\ Phase(t) = "pending"
    BY <1>5 DEF Enqueue
  <2>3. [s \in Threads |-> Phase(s)]'
          = [[s \in Threads |-> Phase(s)] EXCEPT ![t] = "done"]
    BY <1>5 DEF Enqueue, Goto
  <2>4. QED
    BY <1>5, <2>1, <2>2, <2>3 DEF Enqueue, Chan!Put
<1>6. ASSUME NEW t \in Pushers, PushUnlock(t) PROVE UNCHANGED Chan!vars
  BY <1>6 DEF PushUnlock, Unlock, Goto, Chan!vars
<1>7. ASSUME NEW t \in Pushers, PushNotify(t) PROVE Chan!Return(t)
  BY <1>7 DEF PushNotify, NotifyOne, Goto, At, Chan!Return
<1>8. ASSUME NEW t \in Poppers, PopCall(t) PROVE Chan!CallPop(t)
  BY <1>8 DEF PopCall, Goto, Chan!CallPop
<1>9. ASSUME NEW t \in Poppers, PopLock(t) PROVE UNCHANGED Chan!vars
  BY <1>9 DEF PopLock, Lock, Goto, Chan!vars
<1>10. ASSUME NEW t \in Poppers, PopSleep(t) PROVE UNCHANGED Chan!vars
  BY <1>10 DEF PopSleep, Sleep, Goto, Chan!vars
<1>11. ASSUME NEW t \in Poppers, Dequeue(t) PROVE Chan!Take(t)
  BY <1>11 DEF Dequeue, Goto, is_empty, Chan!Take
<1>12. ASSUME NEW t \in Poppers, PopUnlock(t) PROVE UNCHANGED Chan!vars
  BY <1>12 DEF PopUnlock, Unlock, Goto, Chan!vars
<1>13. ASSUME NEW t \in Poppers, PopNotify(t) PROVE Chan!Return(t)
  BY <1>13 DEF PopNotify, NotifyOne, Goto, At, Chan!Return
<1>14. ASSUME NEW t \in Threads, SpuriousWakeup(t) PROVE UNCHANGED Chan!vars
  BY <1>14 DEF SpuriousWakeup, Goto, Chan!vars
<1>15. QED
  BY <1>1, <1>2, <1>3, <1>4, <1>5, <1>6, <1>7, <1>8, <1>9, <1>10, <1>11,
     <1>12, <1>13, <1>14 DEF Next, PushStep, PopStep, Chan!Next

(* push and pop are linearizable: the class behaves as a bounded FIFO on   *)
(* which each call is one atomic step.                                     *)
THEOREM QueueIsAChannel == Spec => Chan!Spec
BY InitRefines, StepRefines, TypeCorrect, PTL DEF Spec, Chan!Spec
=============================================================================
