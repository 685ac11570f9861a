------------------------------ MODULE MCLogStore ------------------------------
(* A small instance of LogStore. *)
EXTENDS LogStore

===============================================================================
