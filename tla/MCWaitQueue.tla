------------------------------ MODULE MCWaitQueue ------------------------------
(* A small instance of WaitQueue. *)
EXTENDS WaitQueue

CONSTANTS i1, i2, w1, w2, w3

===============================================================================
