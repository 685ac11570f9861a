---------------------------- MODULE MCTransactions -----------------------------
(***************************************************************************)
(* Small instances of Transactions.  Each workload gives every transaction *)
(* the commands between its BEGIN and its COMMIT.                          *)
(***************************************************************************)
EXTENDS TransactionsProps, TLC

CONSTANTS t1, t2, t3, A, B, C

(* A and B exist, C is free to insert. *)
MCInitial == [k \in Keys |-> IF k = A THEN 1 ELSE IF k = B THEN 2 ELSE Absent]

(* At most 5 dynamic IDs of 3 transactions are referred to at a time.       *)
MCDynIds == 1..6

Transfer(from, to) == <<Set(from, from, -1), Set(to, to, 1)>>
ReadBoth == <<Read(A), Read(B), Read(A)>>

(* As in the inputs of the repository: transfers in opposite order, the     *)
(* deadlock-prone case, beside a reader or a third transfer.               *)
TransferWorkloads ==
    {(t1 :> Transfer(A, B)) @@ (t2 :> Transfer(B, A)) @@ (t3 :> p) :
        p \in {ReadBoth, Transfer(A, B)}}

(* A transfer that can fail on one key while another transaction takes over *)
(* the key it has.                                                         *)
TakeoverWorkloads ==
    {(t1 :> Transfer(A, B)) @@ (t2 :> <<Set(B, B, 1)>>) @@ (t3 :> p) :
        p \in {<<Set(A, A, 1)>>, <<Set(A, A, 1), Set(A, A, 2)>>}}

(* Two transactions and every command on keys that exist or not (t3 does    *)
(* nothing): inserts that race, a second insert of one key, own writes read *)
(* back and written again, writes and reads of a missing key, write skew.   *)
Pair(p, q) == (t1 :> p) @@ (t2 :> q) @@ (t3 :> <<>>)

MixedPairs ==
    LET Create == <<Insert(C, 7), Set(C, C, 1), Read(C)>>
        CreateTwice == <<Insert(C, 8), Insert(C, 9)>>
        SkewToA == <<Set(A, B, 1), Set(A, A, 1)>>
        SkewToB == <<Set(B, A, 1)>>
        InsertOld == <<Set(A, A, 1), Insert(A, 3)>>
        SetMissing == <<Set(A, A, 1), Set(C, A, 1)>>
        ReadMissing == <<Read(A), Read(C)>>
    IN { Pair(Create, Create), Pair(Create, CreateTwice), Pair(Create, SetMissing),
         Pair(Create, ReadMissing), Pair(SkewToA, SkewToB), Pair(SkewToA, InsertOld),
         Pair(SetMissing, InsertOld), Pair(SetMissing, ReadMissing) }

(* Spurious wakeups are part of the pairs and of the shorter takeover; in    *)
(* the others they make too many states.                                   *)
SpuriousWorkloads ==
    {w \in TakeoverWorkloads : Len(w[t3]) = 1} \cup MixedPairs

AllWorkloads == TransferWorkloads \cup TakeoverWorkloads \cup MixedPairs

MCNext ==
    \/ Next
    \/ /\ prog \in SpuriousWorkloads
       /\ \E t \in Tx : ProcessUp /\ WakeSpuriously(t)

MCSpec == Init /\ [][MCNext]_vars /\ Fairness

(* Two transactions insert the same key.                                    *)
InsertRace == {(t1 :> <<Insert(C, 7)>>) @@ (t2 :> <<Insert(C, 8)>>)}

(* A transaction reads a key another one inserts.                           *)
ReadOfInsert == {(t1 :> <<Insert(C, 7)>>) @@ (t2 :> <<Read(C)>>)}

===============================================================================
