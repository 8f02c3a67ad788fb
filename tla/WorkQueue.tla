----------------------------- MODULE WorkQueue -----------------------------
(***************************************************************************)
(* core/queue.hpp: the bounded queue through which the main thread of      *)
(* GridGraph hands work to its worker threads.  One mutex, one condition   *)
(* variable per direction, and a single notify_one AFTER the mutex has     *)
(* been released.  A step is what a thread does between two points where   *)
(* another thread can see or change the shared state.                      *)
(***************************************************************************)
EXTENDS Naturals, Sequences, FiniteSets

CONSTANTS Pushers,   \* threads that call push (the main thread)
          Poppers,   \* threads that call pop (the workers)
          Items,     \* the tuples that are queued
          NoItem,    \* no argument and no result
          Nobody,    \* the mutex is free
          Capacity   \* the constructor's argument

Threads == Pushers \union Poppers

ASSUME QueueAssumption ==
    /\ IsFiniteSet(Pushers) /\ IsFiniteSet(Poppers)
    /\ Pushers \intersect Poppers = {}
    /\ Nobody \notin Threads
    /\ NoItem \notin Items
    /\ Capacity \in Nat \ {0}

VARIABLES queue,     \* std::queue<T>
          owner,     \* the thread that holds mutex, or Nobody
          pc,        \* where each thread is inside push or pop
          item       \* item[t]: argument of push, or result of pop

vars == <<queue, owner, pc, item>>

PushPcs == {"pushLock", "pushTest", "pushWait", "pushUnlock", "pushNotify"}
PopPcs  == {"popLock", "popTest", "popWait", "popUnlock", "popNotify"}
Holding == {"pushTest", "pushUnlock", "popTest", "popUnlock"}

At(label) == {t \in Threads : pc[t] = label}
In(labels) == {t \in Threads : pc[t] \in labels}

is_full == Len(queue) = Capacity
is_empty == queue = << >>

Init ==
    /\ queue = << >>
    /\ owner = Nobody
    /\ pc = [t \in Threads |-> "idle"]
    /\ item = [t \in Threads |-> NoItem]

Goto(t, label) == pc' = [pc EXCEPT ![t] = label]

(* A thread asks for the mutex: on entry, or when cond.wait wakes up.      *)
Lock(t, from, to) ==
    /\ pc[t] = from
    /\ owner = Nobody
    /\ owner' = t
    /\ Goto(t, to)
    /\ UNCHANGED <<queue, item>>

(* cond.wait with a false predicate: releases the mutex and sleeps, in one *)
(* step.                                                                   *)
Sleep(t, label) ==
    /\ owner' = Nobody
    /\ Goto(t, label)
    /\ UNCHANGED <<queue, item>>

Unlock(t, from, to) ==
    /\ pc[t] = from
    /\ owner' = Nobody
    /\ Goto(t, to)
    /\ UNCHANGED <<queue, item>>

(* notify_one: wakes any one sleeper of that condition variable, which     *)
(* must take the mutex again; with no sleeper the call has no effect.      *)
NotifyOne(t, asleep, awake) ==
    \/ /\ At(asleep) = {}
       /\ Goto(t, "idle")
    \/ \E s \in At(asleep) : pc' = [pc EXCEPT ![t] = "idle", ![s] = awake]

-----------------------------------------------------------------------------
PushCall(t, x) ==
    /\ pc[t] = "idle"
    /\ Goto(t, "pushLock")
    /\ item' = [item EXCEPT ![t] = x]
    /\ UNCHANGED <<queue, owner>>

PushLock(t) == Lock(t, "pushLock", "pushTest")

PushSleep(t) ==
    /\ pc[t] = "pushTest"
    /\ is_full
    /\ Sleep(t, "pushWait")

\* Mutant: is_full is off by one.
EnqueueOneTooMany(t) ==
    /\ pc[t] = "pushTest" /\ Len(queue) <= Capacity
    /\ queue' = Append(queue, item[t])
    /\ Goto(t, "pushUnlock")
    /\ UNCHANGED <<owner, item>>
\* Mutant: the new item jumps the queue.
EnqueueInFront(t) ==
    /\ pc[t] = "pushTest" /\ ~is_full
    /\ queue' = <<item[t]>> \o queue
    /\ Goto(t, "pushUnlock")
    /\ UNCHANGED <<owner, item>>

Enqueue(t) ==
    /\ pc[t] = "pushTest"
    /\ ~is_full
    /\ queue' = Append(queue, item[t])
    /\ Goto(t, "pushUnlock")
    /\ UNCHANGED <<owner, item>>

PushUnlock(t) == Unlock(t, "pushUnlock", "pushNotify")

\* Mutant: notify only on the step from empty to non-empty.
PushNotifyIfWasEmpty(t) ==
    /\ pc[t] = "pushNotify"
    /\ IF Len(queue) <= 1 THEN NotifyOne(t, "popWait", "popLock") ELSE Goto(t, "idle")
    /\ item' = [item EXCEPT ![t] = NoItem]
    /\ UNCHANGED <<queue, owner>>

PushNotify(t) ==
    /\ pc[t] = "pushNotify"
    /\ NotifyOne(t, "popWait", "popLock")
    /\ item' = [item EXCEPT ![t] = NoItem]
    /\ UNCHANGED <<queue, owner>>

-----------------------------------------------------------------------------
PopCall(t) ==
    /\ pc[t] = "idle"
    /\ Goto(t, "popLock")
    /\ item' = [item EXCEPT ![t] = NoItem]
    /\ UNCHANGED <<queue, owner>>

PopLock(t) == Lock(t, "popLock", "popTest")

PopSleep(t) ==
    /\ pc[t] = "popTest"
    /\ is_empty
    /\ Sleep(t, "popWait")

Dequeue(t) ==
    /\ pc[t] = "popTest"
    /\ ~is_empty
    /\ item' = [item EXCEPT ![t] = Head(queue)]
    /\ queue' = Tail(queue)
    /\ Goto(t, "popUnlock")
    /\ UNCHANGED owner

PopUnlock(t) == Unlock(t, "popUnlock", "popNotify")

\* Mutant: the pop tells the other poppers instead of the pushers.
PopNotifyWrongSide(t) ==
    /\ pc[t] = "popNotify"
    /\ NotifyOne(t, "popWait", "popLock")
    /\ UNCHANGED <<queue, owner, item>>

PopNotify(t) ==
    /\ pc[t] = "popNotify"
    /\ NotifyOne(t, "pushWait", "pushLock")
    /\ UNCHANGED <<queue, owner, item>>

-----------------------------------------------------------------------------
(* A condition variable may wake a sleeper nobody notified.                *)
SpuriousWakeup(t) ==
    /\ \/ pc[t] = "pushWait" /\ Goto(t, "pushLock")
       \/ pc[t] = "popWait" /\ Goto(t, "popLock")
    /\ UNCHANGED <<queue, owner, item>>

PushStep(t) ==
    \/ PushSleep(t) \/ Enqueue(t) \/ PushUnlock(t) \/ PushNotify(t)
PopStep(t) ==
    \/ PopSleep(t) \/ Dequeue(t) \/ PopUnlock(t) \/ PopNotify(t)

Next ==
    \/ \E t \in Pushers : \/ \E x \in Items : PushCall(t, x)
                          \/ PushLock(t)
                          \/ PushStep(t)
    \/ \E t \in Poppers : \/ PopCall(t)
                          \/ PopLock(t)
                          \/ PopStep(t)
    \/ \E t \in Threads : SpuriousWakeup(t)

Spec == Init /\ [][Next]_vars

(* A thread that can run does; a thread asking for a mutex that is free    *)
(* again and again gets it.  Nothing is assumed about calls being made,    *)
(* about spurious wake-ups, or about which sleeper notify_one picks.       *)
Fairness ==
    /\ \A t \in Pushers : WF_vars(PushStep(t)) /\ SF_vars(PushLock(t))
    /\ \A t \in Poppers : WF_vars(PopStep(t)) /\ SF_vars(PopLock(t))

FairSpec == Spec /\ Fairness

-----------------------------------------------------------------------------
TypeOK ==
    /\ queue \in Seq(Items)
    /\ Len(queue) <= Capacity
    /\ owner \in Threads \union {Nobody}
    /\ pc \in [Threads -> {"idle"} \union PushPcs \union PopPcs]
    /\ \A t \in Pushers : pc[t] \notin PopPcs
    /\ \A t \in Poppers : pc[t] \notin PushPcs
    /\ item \in [Threads -> Items \union {NoItem}]
    /\ \A t \in Pushers : pc[t] # "idle" => item[t] \in Items

(* Exactly the owner of the mutex is in the critical section: the code     *)
(* tests and changes the std::queue only under the lock, and cond.wait     *)
(* gives the lock up while the thread sleeps.                              *)
MutexHeld == \A t \in Threads : pc[t] \in Holding <=> owner = t

(* No wake-up is lost although notify_one runs after the unlock and wakes  *)
(* one sleeper only: while a pop sleeps on cond_empty there are at least   *)
(* as many threads about to notify it or awake in pop as there are items   *)
(* to take; and the same for a sleeping push and the free places.          *)
PopComing == In({"pushUnlock", "pushNotify", "popLock", "popTest"})
PushComing == In({"popUnlock", "popNotify", "pushLock", "pushTest"})

NoLostPop == At("popWait") # {} => Len(queue) <= Cardinality(PopComing)
NoLostPush == At("pushWait") # {} => Capacity - Len(queue) <= Cardinality(PushComing)
NoLostWakeup == NoLostPop /\ NoLostPush

(* When every thread inside push or pop sleeps, it does so for cause: the  *)
(* queue is empty if a pop sleeps and full if a push does, so pushes and   *)
(* pops never sleep at the same time with nobody left to wake them.        *)
Stalled == \A t \in Threads : pc[t] \in {"idle", "pushWait", "popWait"}
StallsForCause ==
    Stalled => /\ At("popWait") # {} => is_empty
               /\ At("pushWait") # {} => is_full

-----------------------------------------------------------------------------
(* The refinement of Channel: a call is pending until its step on the      *)
(* std::queue, and done from there to its return.                          *)
Effective == {"pushUnlock", "pushNotify", "popUnlock", "popNotify"}
Phase(t) == IF pc[t] = "idle" THEN "idle"
            ELSE IF pc[t] \in Effective THEN "done" ELSE "pending"

Chan == INSTANCE Channel WITH call <- [t \in Threads |-> Phase(t)]

(* push and pop behave as one atomic step each on a bounded FIFO, and as   *)
(* long as there is room (an item), some pending push (pop) takes effect.  *)
ImplementsChannel == Chan!FairSpec
=============================================================================
