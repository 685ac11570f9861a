------------------------------- MODULE WaitTable -------------------------------
(***************************************************************************)
(* What WaitQueueTable promises those who use it (LockManager for the end  *)
(* of a transaction, OccupyLockTable for the end of an abort): wait(ID)    *)
(* returns once ID is not registered, and not before.  Transactions relies *)
(* on this in AwaitEnd and AwaitVictim; WaitQueue implements it.           *)
(***************************************************************************)
CONSTANTS
    Ids,      \* the IDs that are inserted and released
    Waiters,  \* the threads that wait
    NoId      \* a thread that is not waiting

VARIABLES
    registered, \* the IDs inserted and not released yet
    waiting     \* waiting[w]: the ID w has called wait for

vars == <<registered, waiting>>

Init ==
    /\ registered = {}
    /\ waiting = [w \in Waiters |-> NoId]

Insert(i) ==
    /\ i \notin registered
    /\ registered' = registered \cup {i}
    /\ UNCHANGED waiting

Release(i) ==
    /\ i \in registered
    /\ registered' = registered \ {i}
    /\ UNCHANGED waiting

Call(w, i) ==
    /\ waiting[w] = NoId
    /\ waiting' = [waiting EXCEPT ![w] = i]
    /\ UNCHANGED registered

Return(w) ==
    /\ waiting[w] # NoId
    /\ waiting[w] \notin registered
    /\ waiting' = [waiting EXCEPT ![w] = NoId]
    /\ UNCHANGED registered

Next ==
    \/ \E i \in Ids : Insert(i) \/ Release(i)
    \/ \E w \in Waiters : Return(w) \/ \E i \in Ids : Call(w, i)

Spec == Init /\ [][Next]_vars /\ \A w \in Waiters : WF_vars(Return(w))

===============================================================================
