------------------------------- MODULE MCRecovery ------------------------------
(* A small instance of Recovery. *)
EXTENDS Recovery, TLC

CONSTANTS w1, w2, A, B, h1, h2

(* Keys in the same bucket, or each in its own.                              *)
AllHashings == [{A, B} -> {h1, h2}]

Symmetry ==
    Permutations(Workers) \cup Permutations(Keys) \cup Permutations(Hashes)

===============================================================================
