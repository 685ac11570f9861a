--------------------------- MODULE TransactionsProps ---------------------------
(***************************************************************************)
(* The properties of Transactions, and the mapping under which it          *)
(* implements SnapshotIsolation.                                           *)
(***************************************************************************)
EXTENDS Transactions, FiniteSetsExt

-------------------------------------------------------------------------------
(* Safety *)

(* No two writers of a key: as long as its attempt is not aborting, a       *)
(* transaction that has a key in locked_write_keys is the one the lock      *)
(* table names, with the attempt that locked it.  A thief that took the     *)
(* lock from an aborting attempt, and that attempt's own late unlock, must  *)
(* not break this (occupy_locktable.cpp:28-30, 38).                        *)
WriteExclusion ==
    \A t \in Tx : pc[t] # "abort" =>
        \A k \in locked[t] : HeldBy(k, t, dyn[t])

(* A transaction that waits for the end of another holds no lock: otherwise *)
(* the other could wait for it in turn (worker.cpp:243-246 aborts before it *)
(* waits).                                                                 *)
WaitersHoldNothing ==
    \A t \in Tx : pc[t] \in {"await", "begin"} =>
        \A k \in Keys : ~(lockOf[k].occupied /\ lockOf[k].tx = t)

(* t waits for u: for its end, or for the abort of its current attempt.     *)
WaitsFor(t, u) ==
    \/ At(t, "await") /\ waitTx[t] = u /\ u \in live
    \/ At(t, "steal") /\ victim[t] \in aborting /\ victim[t] = dyn[u]

(* No deadlock: in every group of transactions there is one that waits for  *)
(* nobody in the group.  Two transactions that want each other's keys must  *)
(* not both wait: the one that fails to get a lock is aborting before       *)
(* anybody can see it wait.                                                *)
NoWaitCycle ==
    \A S \in SUBSET Tx : S # {} => \E t \in S : \A u \in S : ~WaitsFor(t, u)

-------------------------------------------------------------------------------
(* Why the four above hold: the inductive invariant of the lock protocol.   *)

(* Between taking the lock and using it the command at hand stays a write   *)
(* with its operand in local_map.                                          *)
WriteInProgress ==
    \A t \in Tx : pc[t] \in {"steal", "apply"} =>
        /\ HasCommand(t)
        /\ Cmd(t).op \in {"SET", "INSERT"}
        /\ Cmd(t).op = "SET" => view[t][Cmd(t).from] # Absent

(* Dynamic IDs name attempts: no two transactions have the same one, and    *)
(* aborting_dynamic_IDs is exactly the attempts that failed to get a lock   *)
(* and have not finished their abort.                                      *)
DynIdsDistinct ==
    \A t, u \in Tx : t # u /\ dyn[t] = dyn[u] => dyn[t] = NoDyn

RunningHaveDynId == \A t \in Tx : dyn[t] = NoDyn => pc[t] = "begin"

GivingWay(t) == pc[t] = "abort" /\ cause[t] = "wait"

AbortingExact == aborting = {dyn[t] : t \in {u \in Tx : GivingWay(u)}}

(* A thief has the lock from the moment it takes it over.                   *)
ThiefHolds == \A t \in Tx : pc[t] = "steal" => HeldBy(Cmd(t).key, t, dyn[t])

(* An occupied lock belongs to a transaction that knows it: the key is in   *)
(* its locked_write_keys, or it is the one being taken over.               *)
OccupierKnows ==
    \A k \in Keys : lockOf[k].occupied =>
        /\ lockOf[k].tx \in Tx
        /\ lockOf[k].dyn = dyn[lockOf[k].tx]
        /\ \/ k \in locked[lockOf[k].tx]
           \/ pc[lockOf[k].tx] = "steal" /\ Cmd(lockOf[k].tx).key = k

OutsideHoldNothing ==
    \A t \in Tx : pc[t] \in {"begin", "await", "end", "done"} => locked[t] = {}

(* The waits-for relation with the edges that are only about to be waited   *)
(* on: from the moment t fails to get a lock until it starts again.         *)
WillWaitFor(t, u) == (GivingWay(t) \/ pc[t] = "await") /\ waitTx[t] = u

NoCycleComing ==
    \A S \in SUBSET Tx : S # {} => \E t \in S : \A u \in S : ~WillWaitFor(t, u)

Protocol ==
    /\ DynIdsDistinct
    /\ RunningHaveDynId
    /\ AbortingExact
    /\ WriteExclusion
    /\ ThiefHolds
    /\ OccupierKnows
    /\ OutsideHoldNothing
    /\ NoCycleComing

LockInv == TypeOK /\ WriteInProgress /\ Protocol

-------------------------------------------------------------------------------
(* Versions *)

(* The versions of a key get older on the way down, and only the committer  *)
(* has linked one that is newer than maxTs.  Together with the reads below  *)
(* maxTs this is what makes a read_timestamp a snapshot.                   *)
VersionsOrdered ==
    \A k \in Keys :
        /\ NewestFirst(chain[k])
        /\ \A i \in DOMAIN chain[k] :
              chain[k][i].ts > maxTs =>
                  /\ i = 1 /\ chain[k][i].ts = maxTs + 1
                  /\ committer # NoTx /\ k \in linked[committer]

-------------------------------------------------------------------------------
(* Refinement *)

(* The committed state at a timestamp, and the keys its commit wrote.       *)
StateAt(ts) ==
    [k \in Keys |-> IF VisibleAt(chain[k], ts) = {} THEN Absent
                                                    ELSE ReadAt(chain[k], ts)]

WroteAt(ts) == {k \in Keys : \E i \in DOMAIN chain[k] : chain[k][i].ts = ts}

Phase(t) ==
    CASE pc[t] \in {"begin", "await"} -> "idle"
      [] pc[t] = "abort" -> IF cause[t] = "finish" THEN "failed" ELSE "idle"
      [] pc[t] \in {"end", "done"} -> IF cause[t] = "none" THEN "committed" ELSE "failed"
      [] OTHER -> "running"

SI == INSTANCE SnapshotIsolation WITH
    hist <- [ts \in 1..maxTs |-> [state |-> StateAt(ts), wrote |-> WroteAt(ts)]],
    phase <- [t \in Tx |-> Phase(t)],
    snap <- readTs,
    view <- view,
    written <- [t \in Tx |-> {k \in Keys : items[t][k] # Absent}]

(* StayDB is a database with snapshot isolation: every read comes from one  *)
(* committed state, a commit becomes visible at once and as a whole, no     *)
(* update is lost, and an aborted attempt leaves nothing behind.           *)
ImplementsSnapshotIsolation == SI!Spec

-------------------------------------------------------------------------------
(* Liveness *)

(* A wait ends though what is waited for has not come.                      *)
Asleep(t) ==
    \/ At(t, "await") /\ waitTx[t] \in live
    \/ At(t, "steal") /\ victim[t] \in aborting
WokenEarly == \E t \in Tx : Asleep(t) /\ pc'[t] # pc[t]

(* Every transaction commits or gives up: no deadlock through locks and     *)
(* wait queues, no waiting for a wakeup that has been missed, no endless    *)
(* redo (the keys are freed before maxTs makes the new version readable).  *)
(* Nor do spurious wakeups leave a lock or an abort behind that somebody     *)
(* waits for, if they come to an end.  The process may end before           *)
(* (CrashesOnlyFor), or a reader may get lost (ReadsReturn).                *)
EveryTransactionEnds ==
    <>[][~WokenEarly]_vars =>
        <>(AllDone \/ ~ProcessUp \/ \E t \in Tx : At(t, "lost"))

(* A transaction that reads a key which is not in its snapshot is told so   *)
(* ("read a key that does not exist", worker.cpp:197-206).                 *)
ReadsReturn == \A t \in Tx : At(t, "lost") ~> ~At(t, "lost")

(* No assertion fails: execute_insert expects ERROR_NONE once it has ruled  *)
(* out ERROR_WAIT_WRITE and ERROR_INSERT_EXIST (worker.cpp:172).           *)
NoAssertionFails == ProcessUp

InsertedBefore(t, k) ==
    \E i \in 1 .. ip[t] - 1 : prog[t][i].op = "INSERT" /\ prog[t][i].key = k

(* They fail for two reasons only, whatever takes over locks or redoes: an  *)
(* INSERT of a key that an earlier command of the same transaction inserts  *)
(* (worker.cpp:173), or of one that has a version newer than the snapshot   *)
(* (worker.cpp:172); never for the waits and refusals that execute_insert    *)
(* is meant to handle.                                                     *)
CrashesOnlyFor ==
    \A t \in Tx : At(t, "crash") =>
        /\ Cmd(t).op = "INSERT"
        /\ \/ InsertedBefore(t, Cmd(t).key)
           \/ \E i \in DOMAIN chain[Cmd(t).key] : chain[Cmd(t).key][i].ts > readTs[t]

(* What local_map has of a key without versions comes from an INSERT of the *)
(* same transaction, and so does a write item.                             *)
OwnInserts ==
    \A t \in Tx, k \in Keys :
        (view[t][k] # Absent \/ items[t][k] # Absent) /\ chain[k] = <<>> =>
            InsertedBefore(t, k)

===============================================================================
