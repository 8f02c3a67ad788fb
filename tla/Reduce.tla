------------------------------- MODULE Reduce -------------------------------
(***************************************************************************)
(* 3HW/hw3_2025403471_your_reduce.cpp in the loop of 3HW/main.cpp: a       *)
(* binomial-tree sum over MPI processes, called once per array length      *)
(* between two barriers.  An array is abstracted to how often each         *)
(* process's array is contained in it, so that sums are sums of counts.    *)
(* MPI is external: messages between two processes arrive in order, and a  *)
(* standard-mode MPI_Send may return at once or wait for its receiver.     *)
(***************************************************************************)
EXTENDS Integers, Sequences, FiniteSets

CONSTANTS Sizes,      \* numbers of processes to run with
          Rounds      \* bound: calls of YOUR_Reduce (8 array lengths)

ASSUME ReduceAssumption == Sizes \subseteq Nat \ {0} /\ Rounds \in Nat

VARIABLES np,
          round,      \* round[r]: which array length process r is at
          pc, step,
          localbuf,   \* localbuf[r][q]: how often q's array is in r's buffer
          channel,    \* channel[q][r]: messages from q to r
          recvbuf     \* at the root, the result of the last call

vars == <<np, round, pc, step, localbuf, channel, recvbuf>>

Ranks == 0 .. np - 1
Alone(r) == [q \in Ranks |-> IF q = r THEN 1 ELSE 0]
Nothing == [q \in Ranks |-> 0]

Sum(x, y) == [q \in Ranks |-> x[q] + y[q]]

Init ==
    /\ np \in Sizes
    /\ round = [r \in Ranks |-> 1]
    /\ pc = [r \in Ranks |-> "before"]
    /\ step = [r \in Ranks |-> 1]
    /\ localbuf = [r \in Ranks |-> Nothing]
    /\ channel = [q \in Ranks |-> [r \in Ranks |-> << >>]]
    /\ recvbuf = Nothing

Goto(r, label) == pc' = [pc EXCEPT ![r] = label]

\* The barriers of main.cpp: nobody passes before everybody has arrived.
BarrierBefore ==
    /\ \A r \in Ranks : pc[r] = "before" /\ round[r] <= Rounds
    /\ pc' = [r \in Ranks |-> "call"]
    /\ UNCHANGED <<np, round, step, localbuf, channel, recvbuf>>

BarrierAfter ==
    /\ \A r \in Ranks : pc[r] = "after"
    /\ pc' = [r \in Ranks |-> "before"]
    /\ round' = [r \in Ranks |-> round[r] + 1]
    /\ UNCHANGED <<np, step, localbuf, channel, recvbuf>>

\* Mutant: step is not reset for a new call.
CallKeepsStep(r) ==
    /\ pc[r] = "call"
    /\ localbuf' = [localbuf EXCEPT ![r] = Alone(r)]
    /\ Goto(r, "loop")
    /\ UNCHANGED <<np, round, step, channel, recvbuf>>

\* memcpy(localbuf, sendbuf, bufsize); step = 1.
Call(r) ==
    /\ pc[r] = "call"
    /\ localbuf' = [localbuf EXCEPT ![r] = Alone(r)]
    /\ step' = [step EXCEPT ![r] = 1]
    /\ Goto(r, "loop")
    /\ UNCHANGED <<np, round, channel, recvbuf>>

Receives(r) == r % (2 * step[r]) = 0

\* Mutant: without a partner the step does not advance.
SkipForever(r) ==
    /\ pc[r] = "loop" /\ step[r] < np /\ Receives(r)
    /\ r + step[r] >= np
    /\ UNCHANGED vars

\* No partner in this step: np is not a power of two.
Skip(r) ==
    /\ pc[r] = "loop" /\ step[r] < np /\ Receives(r)
    /\ r + step[r] >= np
    /\ step' = [step EXCEPT ![r] = 2 * @]
    /\ UNCHANGED <<np, round, pc, localbuf, channel, recvbuf>>

\* Mutant: the received array replaces the local one.
RecvOverwrites(r) ==
    LET src == r + step[r] IN
    /\ pc[r] = "loop" /\ step[r] < np /\ Receives(r)
    /\ src < np /\ channel[src][r] # << >>
    /\ localbuf' = [localbuf EXCEPT ![r] = Head(channel[src][r]).data]
    /\ channel' = [channel EXCEPT ![src][r] = Tail(@)]
    /\ step' = [step EXCEPT ![r] = 2 * @]
    /\ UNCHANGED <<np, round, pc, recvbuf>>

\* MPI_Recv from rank + step, and the addition.
Recv(r) ==
    LET src == r + step[r] IN
    /\ pc[r] = "loop" /\ step[r] < np /\ Receives(r)
    /\ src < np
    /\ channel[src][r] # << >>
    /\ localbuf' = [localbuf EXCEPT ![r] = Sum(@, Head(channel[src][r]).data)]
    /\ channel' = [channel EXCEPT ![src][r] = Tail(@)]
    /\ step' = [step EXCEPT ![r] = 2 * @]
    /\ UNCHANGED <<np, round, pc, recvbuf>>

\* MPI_Send to rank - step starts.
Send(r) ==
    LET dest == r - step[r] IN
    /\ pc[r] = "loop" /\ step[r] < np /\ ~Receives(r)
    /\ channel' = [channel EXCEPT ![r][dest] =
                      Append(@, [round |-> round[r], data |-> localbuf[r]])]
    /\ Goto(r, "sending")
    /\ UNCHANGED <<np, round, step, localbuf, recvbuf>>

(* MPI_Send returns: at any time when the library buffers the message,     *)
(* after the receive when it does not.  Only the second is certain.        *)
SendReturns(r) ==
    /\ pc[r] = "sending"
    /\ localbuf' = [localbuf EXCEPT ![r] = Nothing]
    /\ Goto(r, "after")
    /\ UNCHANGED <<np, round, step, channel, recvbuf>>

SendCompletes(r) ==
    /\ pc[r] = "sending" /\ channel[r][r - step[r]] = << >>
    /\ SendReturns(r)

\* step >= np: the root keeps the result.
Finish(r) ==
    /\ pc[r] = "loop" /\ step[r] >= np
    /\ recvbuf' = IF r = 0 THEN localbuf[r] ELSE recvbuf
    /\ localbuf' = [localbuf EXCEPT ![r] = Nothing]
    /\ Goto(r, "after")
    /\ UNCHANGED <<np, round, step, channel>>

AllDone == \A r \in Ranks : pc[r] = "before" /\ round[r] > Rounds

RankStep(r) == Call(r) \/ Skip(r) \/ Recv(r) \/ Send(r) \/ SendCompletes(r) \/ Finish(r)

Next ==
    \/ BarrierBefore \/ BarrierAfter
    \/ \E r \in Ranks : RankStep(r) \/ SendReturns(r)
    \/ AllDone /\ UNCHANGED vars

(* A process that can take a step does; a send is certain to return only   *)
(* once it has been received.                                              *)
Fairness ==
    /\ WF_vars(BarrierBefore) /\ WF_vars(BarrierAfter)
    /\ \A r \in UNION {0 .. n - 1 : n \in Sizes} : WF_vars(r \in Ranks /\ RankStep(r))

Spec == Init /\ [][Next]_vars
FairSpec == Spec /\ Fairness

-----------------------------------------------------------------------------
TypeOK ==
    /\ round \in [Ranks -> 1 .. Rounds + 1]
    /\ pc \in [Ranks -> {"before", "call", "loop", "sending", "after"}]
    /\ step \in [Ranks -> Nat \ {0}]
    /\ localbuf \in [Ranks -> [Ranks -> Nat]]
    /\ recvbuf \in [Ranks -> Nat]

(* What MPI_Reduce with MPI_SUM would give: every process's array once.    *)
RootHasSum == (\A r \in Ranks : pc[r] = "after") => recvbuf = [q \in Ranks |-> 1]

(* Before step s of the tree a process that is still in the loop holds the *)
(* arrays of itself and the s - 1 processes after it, no more and no less. *)
HoldsSubtree ==
    \A r \in Ranks : pc[r] \in {"loop", "sending"} =>
        localbuf[r] = [q \in Ranks |-> IF r <= q /\ q < r + step[r] THEN 1 ELSE 0]

(* The calls do not get into each other's messages: what is received was   *)
(* sent in the same call, hence has the length the receiver asks for.      *)
SameCall ==
    \A q, r \in Ranks :
        pc[r] = "loop" /\ Receives(r) /\ q = r + step[r] /\ channel[q][r] # << >>
            => Head(channel[q][r]).round = round[r]

(* At any time: every process holds its subtree, and no call sees another  *)
(* call's messages.                                                        *)
Inv == TypeOK /\ HoldsSubtree /\ SameCall

(* All the calls return, for every number of processes, even if no send is *)
(* ever buffered.                                                          *)
Terminates == <>AllDone
=============================================================================
