------------------------------- MODULE WaitQueue -------------------------------
(***************************************************************************)
(* WaitQueueTable and the WaitQueue objects in it.  An owner inserts the   *)
(* queue of an ID and releases it once; other threads wait on it.  The     *)
(* table forgets the queue at the start of release(), so from then on      *)
(* nobody owns the object: whoever leaves last deletes it.                 *)
(*                                                                         *)
(* One action is one critical section of the table's rwlock or of the      *)
(* queue's mutex.  wait() holds the rwlock for reading between Find and    *)
(* Book, which keeps Insert and Erase out.                                 *)
(***************************************************************************)
EXTENDS Naturals, FiniteSets

CONSTANTS
    Ids,       \* the IDs; each is inserted once (IDs are not used again)
    Waiters,   \* the threads that wait
    NoId,      \* a thread that is not in wait()
    MaxCalls   \* bound: how often a thread calls wait()

VARIABLES
    queues,   \* the IDs in the table
    heap,     \* heap[i]: the WaitQueue of i: "none", "live" or "freed"
    queue,    \* queue[i]: its n_booked, n_waiters and released
    owner,    \* owner[i]: where the thread that inserts and releases i stands
    pc,       \* where a waiter stands in wait()
    on,       \* the ID it waits for
    calls     \* how often it has called wait()

vars == <<queues, heap, queue, owner, pc, on, calls>>

ASSUME NoIdAssumption == NoId \notin Ids
ASSUME MaxCallsAssumption == MaxCalls \in Nat
ASSUME WaitersAssumption == IsFiniteSet(Waiters)

OwnerPlaces == {"insert", "registered", "release", "delete", "done"}
Places == {"idle", "find", "book", "enter", "asleep", "awake", "delete"}
Counters == [booked : Nat, waiters : Nat, released : BOOLEAN]

Init ==
    /\ queues = {}
    /\ heap = [i \in Ids |-> "none"]
    /\ queue = [i \in Ids |-> [booked |-> 0, waiters |-> 0, released |-> FALSE]]
    /\ owner = [i \in Ids |-> "insert"]
    /\ pc = [w \in Waiters |-> "idle"]
    /\ on = [w \in Waiters |-> NoId]
    /\ calls = [w \in Waiters |-> 0]

TypeOK ==
    /\ queues \subseteq Ids
    /\ heap \in [Ids -> {"none", "live", "freed"}]
    /\ queue \in [Ids -> Counters]
    /\ owner \in [Ids -> OwnerPlaces]
    /\ pc \in [Waiters -> Places]
    /\ on \in [Waiters -> Ids \cup {NoId}]
    /\ calls \in [Waiters -> 0..MaxCalls]

(* Slip: only those in cond_wait count.                                     *)
SafeToDeleteUnbooked(q) == q.released /\ q.waiters = 0

(* safe_to_delete.                                                          *)
SafeToDelete(q) == q.released /\ q.booked = 0 /\ q.waiters = 0

Readers == {w \in Waiters : pc[w] = "book"}

-------------------------------------------------------------------------------
(* The owner *)

(* WaitQueueTable::insert.                                                  *)
Insert(i) ==
    /\ owner[i] = "insert"
    /\ Readers = {}
    /\ queues' = queues \cup {i}
    /\ heap' = [heap EXCEPT ![i] = "live"]
    /\ owner' = [owner EXCEPT ![i] = "registered"]
    /\ UNCHANGED <<queue, pc, on, calls>>

(* WaitQueueTable::release, up to the unlock.                               *)
Erase(i) ==
    /\ owner[i] = "registered"
    /\ Readers = {}
    /\ queues' = queues \ {i}
    /\ owner' = [owner EXCEPT ![i] = "release"]
    /\ UNCHANGED <<heap, queue, pc, on, calls>>

(* Slip: a waiter that has booked and is not asleep yet is not counted.     *)
ReleaseUnbooked(i) ==
    /\ owner[i] = "release"
    /\ queue' = [queue EXCEPT ![i].released = TRUE]
    /\ pc' = [w \in Waiters |-> IF pc[w] = "asleep" /\ on[w] = i THEN "awake" ELSE pc[w]]
    /\ owner' = [owner EXCEPT ![i] = IF queue[i].waiters = 0 THEN "delete" ELSE "done"]
    /\ UNCHANGED <<queues, heap, on, calls>>

(* WaitQueue::release: wakes those asleep, and deletes if there is nobody.  *)
Release(i) ==
    /\ owner[i] = "release"
    /\ queue' = [queue EXCEPT ![i].released = TRUE]
    /\ pc' = [w \in Waiters |-> IF pc[w] = "asleep" /\ on[w] = i THEN "awake" ELSE pc[w]]
    /\ owner' = [owner EXCEPT ![i] = IF SafeToDelete(queue'[i]) THEN "delete" ELSE "done"]
    /\ UNCHANGED <<queues, heap, on, calls>>

DeleteAfterRelease(i) ==
    /\ owner[i] = "delete"
    /\ heap' = [heap EXCEPT ![i] = "freed"]
    /\ owner' = [owner EXCEPT ![i] = "done"]
    /\ UNCHANGED <<queues, queue, pc, on, calls>>

-------------------------------------------------------------------------------
(* A waiter *)

Goto(w, p) == pc' = [pc EXCEPT ![w] = p]

Return(w) ==
    /\ Goto(w, "idle")
    /\ on' = [on EXCEPT ![w] = NoId]

Call(w, i) ==
    /\ pc[w] = "idle"
    /\ calls[w] < MaxCalls
    /\ calls' = [calls EXCEPT ![w] = @ + 1]
    /\ Goto(w, "find")
    /\ on' = [on EXCEPT ![w] = i]
    /\ UNCHANGED <<queues, heap, queue, owner>>

(* WaitQueueTable::wait takes the rwlock and looks the ID up.               *)
Find(w) ==
    /\ pc[w] = "find"
    /\ \/ on[w] \notin queues /\ Return(w)
       \/ on[w] \in queues /\ Goto(w, "book") /\ UNCHANGED on
    /\ UNCHANGED <<queues, heap, queue, owner, calls>>

(* WaitQueue::book; the rwlock is given up.                                 *)
Book(w) ==
    /\ pc[w] = "book"
    /\ queue' = [queue EXCEPT ![on[w]].booked = @ + 1]
    /\ Goto(w, "enter")
    /\ UNCHANGED <<queues, heap, owner, on, calls>>

(* The end of WaitQueue::wait, with queue' as this thread leaves it.        *)
Leave(w) ==
    IF SafeToDelete(queue'[on[w]]) THEN Goto(w, "delete") /\ UNCHANGED on ELSE Return(w)

(* Slip: wait() sleeps without looking at released.                         *)
EnterAsleep(w) ==
    /\ pc[w] = "enter"
    /\ queue' = [queue EXCEPT ![on[w]].booked = @ - 1, ![on[w]].waiters = @ + 1]
    /\ Goto(w, "asleep")
    /\ UNCHANGED <<queues, heap, owner, on, calls>>

(* WaitQueue::wait, up to the cond_wait or to the end.                      *)
Enter(w) ==
    /\ pc[w] = "enter"
    /\ \/ /\ ~queue[on[w]].released
          /\ queue' = [queue EXCEPT ![on[w]].booked = @ - 1, ![on[w]].waiters = @ + 1]
          /\ Goto(w, "asleep")
          /\ UNCHANGED on
       \/ /\ queue[on[w]].released
          /\ queue' = [queue EXCEPT ![on[w]].booked = @ - 1]
          /\ Leave(w)
    /\ UNCHANGED <<queues, heap, owner, calls>>

(* Slip: the last to wake does not delete.                                  *)
WakeOnly(w) ==
    /\ pc[w] = "awake"
    /\ queue' = [queue EXCEPT ![on[w]].waiters = @ - 1]
    /\ Return(w)
    /\ UNCHANGED <<queues, heap, owner, calls>>

(* cond_wait returns with the mutex held.                                   *)
Wake(w) ==
    /\ pc[w] = "awake"
    /\ queue' = [queue EXCEPT ![on[w]].waiters = @ - 1]
    /\ Leave(w)
    /\ UNCHANGED <<queues, heap, owner, calls>>

Delete(w) ==
    /\ pc[w] = "delete"
    /\ heap' = [heap EXCEPT ![on[w]] = "freed"]
    /\ Return(w)
    /\ UNCHANGED <<queues, queue, owner, calls>>

(* pthread_cond_wait may return without a broadcast; wait() does not look   *)
(* at released again.                                                      *)
WakeSpuriously(w) ==
    /\ pc[w] = "asleep"
    /\ Goto(w, "awake")
    /\ UNCHANGED <<queues, heap, queue, owner, on, calls>>

-------------------------------------------------------------------------------
OwnerStep(i) == Insert(i) \/ Erase(i) \/ Release(i) \/ DeleteAfterRelease(i)

WaiterStep(w) == Find(w) \/ Book(w) \/ Enter(w) \/ Wake(w) \/ Delete(w)

Stopped ==
    /\ \A i \in Ids : owner[i] = "done"
    /\ \A w \in Waiters : pc[w] = "idle" /\ calls[w] = MaxCalls
    /\ UNCHANGED vars

Next ==
    \/ Stopped
    \/ \E i \in Ids : OwnerStep(i) \/ \E w \in Waiters : Call(w, i)
    \/ \E w \in Waiters : WaiterStep(w)

NextSpurious == Next \/ \E w \in Waiters : WakeSpuriously(w)

Spec == Init /\ [][Next]_vars

SpuriousSpec == Init /\ [][NextSpurious]_vars

(* Every owner ends its transaction or its abort (EveryTransactionEnds of   *)
(* TransactionsProps), and a thread inside wait() is scheduled.  Threads    *)
(* call wait() finitely often, so Erase is not kept out for ever.           *)
FairSpec ==
    /\ Spec
    /\ \A i \in Ids : WF_vars(OwnerStep(i))
    /\ \A w \in Waiters : WF_vars(WaiterStep(w))

-------------------------------------------------------------------------------
(* Properties *)

(* The queue of i is used by its owner, or by w.                            *)
OwnerUses(i) == owner[i] \in {"registered", "release", "delete"}
Uses(w, i) == on[w] = i /\ pc[w] \in {"book", "enter", "asleep", "awake", "delete"}

(* No use after free, no double free: whoever has still to lock, read or    *)
(* delete a WaitQueue finds it alive.                                      *)
NoUseAfterFree ==
    \A i \in Ids :
        OwnerUses(i) \/ (\E w \in Waiters : Uses(w, i)) => heap[i] = "live"

(* Why: the counters count those who are in wait(), and `delete this` is    *)
(* left to one thread, when there is no other.                             *)
Booked(i) == {w \in Waiters : on[w] = i /\ pc[w] = "enter"}
InCondWait(i) == {w \in Waiters : on[w] = i /\ pc[w] \in {"asleep", "awake"}}

CountersExact ==
    \A i \in Ids :
        /\ queue[i].booked = Cardinality(Booked(i))
        /\ queue[i].waiters = Cardinality(InCondWait(i))

SoleDeleter ==
    \A i \in Ids :
        /\ owner[i] = "delete" => \A w \in Waiters : ~Uses(w, i)
        /\ \A w \in Waiters : Uses(w, i) /\ pc[w] = "delete" =>
              ~OwnerUses(i) /\ \A v \in Waiters \ {w} : ~Uses(v, i)

(* The table has the queue as long as its owner keeps it there; `released`  *)
(* is set when the owner has let go of it, and nobody sleeps after that.    *)
LifeCycle ==
    /\ \A i \in Ids :
        /\ i \in queues <=> owner[i] = "registered"
        /\ queue[i].released <=> owner[i] \in {"delete", "done"}
    /\ \A w \in Waiters :
        /\ pc[w] = "idle" <=> on[w] = NoId
        /\ pc[w] = "book" => on[w] \in queues
        /\ pc[w] = "asleep" => ~queue[on[w]].released
        /\ pc[w] = "delete" => queue[on[w]].released

QueueInv == TypeOK /\ LifeCycle /\ CountersExact /\ SoleDeleter /\ NoUseAfterFree

(* No leak: a released queue is deleted in the end.                         *)
EveryQueueFreed == <>(\A i \in Ids : heap[i] = "freed")

(* wait() returns after the release of the ID, and does return: a wakeup    *)
(* is not lost between the lookup, the booking and the sleep.               *)
Promise == INSTANCE WaitTable WITH registered <- queues, waiting <- on

ImplementsWaitTable == Promise!Spec

===============================================================================
