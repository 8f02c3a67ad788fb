---------------------------- MODULE MCWorkQueue ----------------------------
(* WorkQueue on a small instance: two threads on each side and two items.  *)
EXTENDS WorkQueue

CONSTANTS main, w1, w2, w3, a, b

MCPushers == {main, w3}
MCPoppers == {w1, w2}
MCItems == {a, b}
=============================================================================
