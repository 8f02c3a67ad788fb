------------------------------ MODULE EdgePass ------------------------------
(***************************************************************************)
(* What Graph::stream_edges promises to an algorithm: one pass calls       *)
(* process once for every edge whose source is active, in any order and    *)
(* for no other edge, and returns when all the calls have been made.       *)
(***************************************************************************)
EXTENDS Naturals, FiniteSets

CONSTANT Edges          \* the edges of the graph

VARIABLES active,       \* the edges with an active source
          calls,        \* calls[e]: how often process(e) has been called
          returned

vars == <<active, calls, returned>>

Init ==
    /\ active \in SUBSET Edges
    /\ calls = [e \in Edges |-> 0]
    /\ returned = FALSE

Process(e) ==
    /\ e \in active
    /\ calls[e] = 0
    /\ calls' = [calls EXCEPT ![e] = 1]
    /\ UNCHANGED <<active, returned>>

Return ==
    /\ ~returned
    /\ \A e \in active : calls[e] = 1
    /\ returned' = TRUE
    /\ UNCHANGED <<active, calls>>

Next == (\E e \in Edges : Process(e)) \/ Return

Spec == Init /\ [][Next]_vars
FairSpec == Spec /\ WF_vars(Next)
=============================================================================
