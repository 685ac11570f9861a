------------------------------- MODULE MCBucket -------------------------------
(* Small instances of Bucket. *)
EXTENDS Bucket, TLC

CONSTANTS t1, t2, t3, A, B, C

Insert(k) == [op |-> "insert", key |-> k]
Set(k) == [op |-> "set", key |-> k]
Read(k) == [op |-> "read", key |-> k]

(* Writers of one key or of several, a reader that may come before the key:  *)
(* up to four records over data pages of two, up to three keys over index   *)
(* pages of two.                                                            *)
MixedPlans ==
    { (t1 :> <<Insert(A), Set(A), Set(B)>>) @@ (t2 :> <<Insert(B), Set(A)>>)
        @@ (t3 :> <<Read(A)>>),
      (t1 :> <<Insert(A), Set(A)>>) @@ (t2 :> <<Insert(B), Insert(A)>>)
        @@ (t3 :> <<Insert(C)>>) }

(* Enough records to fill a page that was used before it was counted.       *)
FillingPlans ==
    {(t1 :> <<Insert(A), Set(A), Set(A)>>) @@ (t2 :> <<Insert(B), Set(B), Set(B)>>)}

===============================================================================
