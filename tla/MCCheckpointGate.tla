--------------------------- MODULE MCCheckpointGate ---------------------------
(* A small instance of CheckpointGate. *)
EXTENDS CheckpointGate

CONSTANTS w1, w2, w3, p1, p2

===============================================================================
