---------------------------- MODULE OccupyLockTable ----------------------------
(***************************************************************************)
(* The key write locks (lockmanager/occupy_locktable.cpp).  Each action    *)
(* is one critical section of the table's mutex.  A lock remembers the     *)
(* transaction that holds it (the static ID, from the input file) and the  *)
(* attempt of that transaction (the dynamic ID, new at each redo).         *)
(*                                                                         *)
(* An applicant that finds the key occupied becomes "aborting" in the same *)
(* critical section, so that a third transaction meeting one of its locks  *)
(* takes the lock over at once instead of waiting for it.                  *)
(*                                                                         *)
(* Here as in the other modules a definition whose comment starts with     *)
(* "Slip" is no part of the specification: it is the definition after it   *)
(* with a mistake, there to show that a property notices the mistake.      *)
(***************************************************************************)
EXTENDS Naturals

CONSTANTS
    Tx,      \* static transaction IDs
    Keys,    \* keys
    DynIds,  \* dynamic transaction IDs (bound: see Transactions)
    NoTx     \* the occupier of a lock nobody has taken yet

VARIABLES
    lockOf,  \* occupy_locks: lockOf[k] is the OccupyLock of key k
    aborting \* aborting_dynamic_IDs

lockTableVars == <<lockOf, aborting>>

NoDyn == 0

ASSUME NoTxAssumption == NoTx \notin Tx
ASSUME DynIdsAssumption == DynIds \subseteq Nat \ {NoDyn}

OccupyLock ==
    [occupied : BOOLEAN, tx : Tx \cup {NoTx}, dyn : DynIds \cup {NoDyn}]

(* A key that is not in the map behaves as one whose lock is not occupied. *)
LockTableInit ==
    /\ lockOf = [k \in Keys |-> [occupied |-> FALSE, tx |-> NoTx, dyn |-> NoDyn]]
    /\ aborting = {}

LockTableTypeOK ==
    /\ lockOf \in [Keys -> OccupyLock]
    /\ aborting \subseteq DynIds

HeldBy(k, t, d) == lockOf[k] = [occupied |-> TRUE, tx |-> t, dyn |-> d]

Grant(k, t, d) ==
    lockOf' = [lockOf EXCEPT ![k] = [occupied |-> TRUE, tx |-> t, dyn |-> d]]

(* occupy_lock, lines 9-19: nobody holds the key. *)
OccupyFree(k, t, d) ==
    /\ ~lockOf[k].occupied
    /\ Grant(k, t, d)
    /\ UNCHANGED aborting

(* Slip: the applicant waits without having been marked as aborting.        *)
OccupyFailUnmarked(k, d) ==
    /\ lockOf[k].occupied
    /\ lockOf[k].dyn \notin aborting
    /\ UNCHANGED <<lockOf, aborting>>

(* occupy_lock, lines 20-27: the occupier is not aborting; the applicant's  *)
(* attempt d is aborting from here on.                                     *)
OccupyFail(k, d) ==
    /\ lockOf[k].occupied
    /\ lockOf[k].dyn \notin aborting
    /\ aborting' = aborting \cup {d}
    /\ UNCHANGED lockOf

(* occupy_lock, lines 28-29: the occupier is aborting; the applicant takes  *)
(* the lock now and waits (line 30) until the occupier's abort is over.    *)
OccupySteal(k, t, d) ==
    /\ lockOf[k].occupied
    /\ lockOf[k].dyn \in aborting
    /\ Grant(k, t, d)
    /\ UNCHANGED aborting

(* Slip: the lock is freed by whoever has the key in its list.              *)
OccupyUnlockAnyone(k, t) ==
    /\ lockOf' = [lockOf EXCEPT ![k].occupied = FALSE]
    /\ UNCHANGED aborting

(* occupy_unlock: only the holder frees the lock; one who has lost it to a *)
(* thief leaves it alone.                                                  *)
OccupyUnlock(k, t) ==
    /\ lockOf' = IF lockOf[k].tx = t
                 THEN [lockOf EXCEPT ![k].occupied = FALSE]
                 ELSE lockOf
    /\ UNCHANGED aborting

(* Slip: the wait queue of the attempt is never released.                   *)
OccupyAbortFinishSilent(d) == UNCHANGED lockTableVars

(* occupy_abort_finish: attempt d is over, the thieves waiting for it go on. *)
OccupyAbortFinish(d) ==
    /\ aborting' = aborting \ {d}
    /\ UNCHANGED lockOf

===============================================================================
