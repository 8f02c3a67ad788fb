------------------------------ MODULE Channel ------------------------------
(***************************************************************************)
(* What core/queue.hpp promises to the threads that call it: a bounded     *)
(* first-in first-out channel.  A call becomes pending, takes effect in    *)
(* one atomic step between its start and its return, and returns.          *)
(* Neither the mutex nor the condition variables of the class appear here. *)
(***************************************************************************)
EXTENDS Naturals, Sequences

CONSTANTS Pushers,   \* threads that call push
          Poppers,   \* threads that call pop
          Items,     \* what is queued
          NoItem,    \* no argument and no result
          Capacity   \* the constructor's argument

Threads == Pushers \union Poppers

VARIABLES queue,     \* items in the channel, oldest first
          call,      \* call[t]: "idle", "pending" or "done"
          item       \* item[t]: argument of t's push, or result of t's pop

vars == <<queue, call, item>>

TypeOK ==
    /\ queue \in Seq(Items)
    /\ Len(queue) <= Capacity
    /\ call \in [Threads -> {"idle", "pending", "done"}]
    /\ item \in [Threads -> Items \union {NoItem}]

Init ==
    /\ queue = << >>
    /\ call = [t \in Threads |-> "idle"]
    /\ item = [t \in Threads |-> NoItem]

CallPush(t, x) ==
    /\ call[t] = "idle"
    /\ call' = [call EXCEPT ![t] = "pending"]
    /\ item' = [item EXCEPT ![t] = x]
    /\ UNCHANGED queue

CallPop(t) ==
    /\ call[t] = "idle"
    /\ call' = [call EXCEPT ![t] = "pending"]
    /\ item' = [item EXCEPT ![t] = NoItem]
    /\ UNCHANGED queue

Put(t) ==
    /\ call[t] = "pending"
    /\ Len(queue) < Capacity
    /\ queue' = Append(queue, item[t])
    /\ call' = [call EXCEPT ![t] = "done"]
    /\ UNCHANGED item

Take(t) ==
    /\ call[t] = "pending"
    /\ queue # << >>
    /\ queue' = Tail(queue)
    /\ item' = [item EXCEPT ![t] = Head(queue)]
    /\ call' = [call EXCEPT ![t] = "done"]

\* The argument of a push is gone when it returns; a pop leaves its result.
Return(t) ==
    /\ call[t] = "done"
    /\ call' = [call EXCEPT ![t] = "idle"]
    /\ item' = IF t \in Pushers THEN [item EXCEPT ![t] = NoItem] ELSE item
    /\ UNCHANGED queue

Next ==
    \/ \E t \in Pushers, x \in Items : CallPush(t, x)
    \/ \E t \in Pushers : Put(t)
    \/ \E t \in Poppers : CallPop(t) \/ Take(t)
    \/ \E t \in Threads : Return(t)

Spec == Init /\ [][Next]_vars

(* A push that could take effect is not held up for ever by the channel:   *)
(* some push does.  No promise is made to one particular thread, because   *)
(* notify_one may always pick another.                                     *)
Progress ==
    /\ WF_vars(\E t \in Pushers : Put(t))
    /\ WF_vars(\E t \in Poppers : Take(t))
    /\ \A t \in Threads : WF_vars(Return(t))

FairSpec == Spec /\ Progress
=============================================================================
