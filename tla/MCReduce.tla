------------------------------ MODULE MCReduce ------------------------------
(* Reduce with up to six processes and two calls.                          *)
EXTENDS Reduce
=============================================================================
