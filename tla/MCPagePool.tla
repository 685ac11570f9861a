------------------------------ MODULE MCPagePool ------------------------------
(* Small instances of PagePool. *)
EXTENDS PagePool

CONSTANTS t1, t2, h, a, b, c, d

(* b and c share a file; h is a header.                                     *)
MCFileOf == [p \in Pages |-> IF p = c THEN b ELSE p]
MCFiles == {MCFileOf[p] : p \in Pages}

(* A header and a page that shares its file change once, the others never.  *)
MCChanges == [p \in Pages |-> IF p \in {h, b} THEN 1 ELSE 0]

===============================================================================
