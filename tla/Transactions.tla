------------------------------ MODULE Transactions -----------------------------
(***************************************************************************)
(* The transaction path of StayDB: Worker::execute_commands drives an      *)
(* Executor, which uses the key locks (OccupyLockTable), the timestamps    *)
(* and commit_mutex of the LockManager and the version chains on disk.     *)
(* A transaction t runs on a thread of its own; one action is one critical *)
(* section, or one access to shared records.                               *)
(*                                                                         *)
(* Abstracted: the text of the input files (prog holds the commands        *)
(* between BEGIN and COMMIT), the pages the records sit in (VersionChain), *)
(* the log (undo_logs gets an empty list on every abort: log_items is      *)
(* never filled) and the checkpoint gate of begin_transaction.             *)
(***************************************************************************)
EXTENDS VersionChain, OccupyLockTable, FiniteSets

CONSTANTS
    Absent,     \* a local_map or write_items entry that does not exist
    Workloads,  \* the programs considered: a set of functions from Tx
    Initial     \* Initial[k]: value of k after the prepare thread, or Absent

VARIABLES
    prog,       \* the commands of each transaction
    \* Worker
    pc,         \* where its thread stands
    ip,         \* i of execute_commands
    view,       \* local_map
    waitTx,     \* wait_transaction_ID
    \* Executor
    dyn,        \* dynamic_transaction_ID
    readTs,     \* read_timestamp
    writeTs,    \* write_timestamp
    items,      \* write_items, by key: the record's value and the chain below it
    linked,     \* the write items commit() has made visible so far
    locked,     \* locked_write_keys
    cause,      \* why the attempt aborts ("wait" is abort_due_to_fail_write_lock)
    victim,     \* occupier_dynamic_ID of the lock just taken over
    \* LockManager
    live,       \* static IDs that have a wait queue
    maxTs,      \* max_allocated_timestamp
    committer,  \* the holder of commit_mutex, or NoTx
    \* files
    chain       \* chain[k]: the versions of key k

workerVars == <<pc, ip, view, waitTx>>
executorVars == <<dyn, readTs, writeTs, items, linked, locked, cause, victim>>
managerVars == <<live, maxTs, committer>>
vars == <<prog, workerVars, executorVars, lockTableVars, managerVars, chain>>

-------------------------------------------------------------------------------
(* Data *)

Command == [op : {"READ", "SET", "INSERT"}, key : Keys, from : Keys, arg : Int]

Read(k) == [op |-> "READ", key |-> k, from |-> k, arg |-> 0]
Set(k, f, d) == [op |-> "SET", key |-> k, from |-> f, arg |-> d]
Insert(k, v) == [op |-> "INSERT", key |-> k, from |-> k, arg |-> v]

WriteItem == [val : Int, base : Chain]

(* The prepare thread commits its INSERTs as one transaction, the first.    *)
InitialTs == 1

Places == {"begin", "run", "steal", "apply", "lost", "publish", "unlock",
           "abort", "await", "end", "done", "crash"}
Causes == {"none", "wait", "retry", "finish"}

ASSUME AbsentAssumption == Absent \notin Int \cup WriteItem
ASSUME WorkloadsAssumption == Workloads \subseteq [Tx -> Seq(Command)]
ASSUME InitialAssumption == Initial \in [Keys -> Int \cup {Absent}]

TypeOK ==
    /\ prog \in [Tx -> Seq(Command)]
    /\ pc \in [Tx -> Places]
    /\ ip \in [Tx -> Nat \ {0}]
    /\ view \in [Tx -> [Keys -> Int \cup {Absent}]]
    /\ waitTx \in [Tx -> Tx \cup {NoTx}]
    /\ dyn \in [Tx -> DynIds \cup {NoDyn}]
    /\ readTs \in [Tx -> Nat]
    /\ writeTs \in [Tx -> Nat]
    /\ items \in [Tx -> [Keys -> WriteItem \cup {Absent}]]
    /\ linked \in [Tx -> SUBSET Keys]
    /\ locked \in [Tx -> SUBSET Keys]
    /\ cause \in [Tx -> Causes]
    /\ victim \in [Tx -> DynIds \cup {NoDyn}]
    /\ LockTableTypeOK
    /\ live \subseteq Tx
    /\ maxTs \in Nat
    /\ committer \in Tx \cup {NoTx}
    /\ chain \in [Keys -> Chain]

Nothing == [k \in Keys |-> Absent]

Init ==
    /\ prog \in Workloads
    /\ pc = [t \in Tx |-> "begin"]
    /\ ip = [t \in Tx |-> 1]
    /\ view = [t \in Tx |-> Nothing]
    /\ waitTx = [t \in Tx |-> NoTx]
    /\ dyn = [t \in Tx |-> NoDyn]
    /\ readTs = [t \in Tx |-> 0]
    /\ writeTs = [t \in Tx |-> 0]
    /\ items = [t \in Tx |-> Nothing]
    /\ linked = [t \in Tx |-> {}]
    /\ locked = [t \in Tx |-> {}]
    /\ cause = [t \in Tx |-> "none"]
    /\ victim = [t \in Tx |-> NoDyn]
    /\ LockTableInit
    /\ live = {}
    /\ maxTs = InitialTs
    /\ committer = NoTx
    /\ chain = [k \in Keys |-> IF Initial[k] = Absent
                               THEN <<>>
                               ELSE Link(<<>>, InitialTs, Initial[k])]

-------------------------------------------------------------------------------
(* Control *)

At(t, p) == pc[t] = p
Goto(t, p) == pc' = [pc EXCEPT ![t] = p]
HasCommand(t) == ip[t] <= Len(prog[t])
Cmd(t) == prog[t][ip[t]]
NextCommand(t) == ip' = [ip EXCEPT ![t] = @ + 1]

(* executor.abort() is about to run, for the given reason.                  *)
AbortFor(t, why) ==
    /\ Goto(t, "abort")
    /\ cause' = [cause EXCEPT ![t] = why]

-------------------------------------------------------------------------------
(* BEGIN *)

(* max_allocated_transaction_ID grows for ever; only whether two dynamic    *)
(* IDs are the same matters, so an ID nobody else refers to stands for a    *)
(* new one.  DynIds bounds how many are referred to at a time.             *)
DynIdsInUse(t) ==
    {dyn[u] : u \in Tx \ {t}} \cup {victim[u] : u \in Tx} \cup aborting
    \cup {lockOf[k].dyn : k \in {l \in Keys : lockOf[l].occupied}}

FreeDynIds(t) == DynIds \ DynIdsInUse(t)

NewDynId(t) ==
    IF dyn[t] \in FreeDynIds(t) THEN dyn[t] ELSE CHOOSE d \in FreeDynIds(t) : TRUE

(* execute_begin: the first time also begin_transaction (the wait queue of  *)
(* the static ID); every time Executor::reset.                             *)
Begin(t) ==
    /\ At(t, "begin")
    /\ FreeDynIds(t) # {}
    /\ Goto(t, "run")
    /\ ip' = [ip EXCEPT ![t] = 1]
    /\ view' = [view EXCEPT ![t] = Nothing]
    /\ dyn' = [dyn EXCEPT ![t] = NewDynId(t)]
    /\ readTs' = [readTs EXCEPT ![t] = maxTs]
    /\ items' = [items EXCEPT ![t] = Nothing]
    /\ locked' = [locked EXCEPT ![t] = {}]
    /\ cause' = [cause EXCEPT ![t] = "none"]
    /\ live' = live \cup {t}
    /\ UNCHANGED <<prog, waitTx, writeTs, linked, victim, lockTableVars,
                   maxTs, committer, chain>>

-------------------------------------------------------------------------------
(* READ, and the operand of SET *)

(* get_value_for_key when local_map does not have the key: read_key.  The   *)
(* walk down the chain is one step: linked records do not change.          *)
ReadKey(t) ==
    /\ At(t, "run") /\ HasCommand(t)
    /\ Cmd(t).op \in {"READ", "SET"}
    /\ view[t][Cmd(t).from] = Absent
    /\ LET k == Cmd(t).from
       IN \/ /\ chain[k] = <<>>
             /\ AbortFor(t, "finish")
             /\ UNCHANGED view
          \/ /\ VisibleAt(chain[k], readTs[t]) # {}
             /\ view' = [view EXCEPT ![t][k] = ReadAt(chain[k], readTs[t])]
             /\ UNCHANGED <<pc, cause>>
          \/ /\ WalksOff(chain[k], readTs[t])
             /\ Goto(t, "lost")
             /\ UNCHANGED <<view, cause>>
    /\ UNCHANGED <<prog, ip, waitTx, dyn, readTs, writeTs, items, linked, locked,
                   victim, lockTableVars, managerVars, chain>>

(* read_key past the last version: record (0, 0) is followed for ever.  It  *)
(* is too new as well and its prev is (0, 0) (keys have buckets of their    *)
(* own here).                                                              *)
WalkOn(t) == At(t, "lost") /\ UNCHANGED vars

(* execute_read has the value: one more output row.                         *)
OutputRow(t) ==
    /\ At(t, "run") /\ HasCommand(t)
    /\ Cmd(t).op = "READ"
    /\ view[t][Cmd(t).key] # Absent
    /\ NextCommand(t)
    /\ UNCHANGED <<prog, pc, view, waitTx, executorVars, lockTableVars,
                   managerVars, chain>>

-------------------------------------------------------------------------------
(* SET and INSERT: the key lock *)

NewValue(t) ==
    IF Cmd(t).op = "SET" THEN view[t][Cmd(t).from] + Cmd(t).arg ELSE Cmd(t).arg

(* The command at hand writes, and has its operand.                         *)
ReadyToWrite(t) ==
    /\ At(t, "run") /\ HasCommand(t)
    /\ Cmd(t).op \in {"SET", "INSERT"}
    /\ Cmd(t).op = "SET" => view[t][Cmd(t).from] # Absent

NeedsLock(t) == ReadyToWrite(t) /\ Cmd(t).key \notin locked[t]

(* Slip: the key does not get into locked_write_keys.                       *)
LockFreeUnlisted(t) ==
    /\ NeedsLock(t)
    /\ OccupyFree(Cmd(t).key, t, dyn[t])
    /\ Goto(t, "apply")
    /\ UNCHANGED <<prog, ip, view, waitTx, dyn, readTs, writeTs, items, linked,
                   locked, cause, victim, managerVars, chain>>

(* occupy_lock gives a free key to the applicant.                           *)
LockFree(t) ==
    /\ NeedsLock(t)
    /\ OccupyFree(Cmd(t).key, t, dyn[t])
    /\ locked' = [locked EXCEPT ![t] = @ \cup {Cmd(t).key}]
    /\ Goto(t, "apply")
    /\ UNCHANGED <<prog, ip, view, waitTx, dyn, readTs, writeTs, items, linked,
                   cause, victim, managerVars, chain>>

(* Slip: the occupier's dynamic ID instead of its static one.               *)
LockFailsWrongId(t) ==
    /\ NeedsLock(t)
    /\ OccupyFail(Cmd(t).key, dyn[t])
    /\ waitTx' = [waitTx EXCEPT ![t] = lockOf[Cmd(t).key].dyn]
    /\ AbortFor(t, "wait")
    /\ UNCHANGED <<prog, ip, view, dyn, readTs, writeTs, items, linked, locked,
                   victim, managerVars, chain>>

(* ERROR_WAIT_WRITE: abort, then wait for the end of the occupier.          *)
LockFails(t) ==
    /\ NeedsLock(t)
    /\ OccupyFail(Cmd(t).key, dyn[t])
    /\ waitTx' = [waitTx EXCEPT ![t] = lockOf[Cmd(t).key].tx]
    /\ AbortFor(t, "wait")
    /\ UNCHANGED <<prog, ip, view, dyn, readTs, writeTs, items, linked, locked,
                   victim, managerVars, chain>>

(* The key of an attempt that is giving way: take it over, then wait.       *)
LockSteal(t) ==
    /\ NeedsLock(t)
    /\ OccupySteal(Cmd(t).key, t, dyn[t])
    /\ victim' = [victim EXCEPT ![t] = lockOf[Cmd(t).key].dyn]
    /\ Goto(t, "steal")
    /\ UNCHANGED <<prog, ip, view, waitTx, dyn, readTs, writeTs, items, linked,
                   locked, cause, managerVars, chain>>

(* wait_queue_table.wait(occupier_dynamic_ID) returns and write_key goes on. *)
StealDone(t) ==
    /\ locked' = [locked EXCEPT ![t] = @ \cup {Cmd(t).key}]
    /\ victim' = [victim EXCEPT ![t] = NoDyn]
    /\ Goto(t, "apply")
    /\ UNCHANGED <<prog, ip, view, waitTx, dyn, readTs, writeTs, items, linked,
                   cause, lockTableVars, managerVars, chain>>

AwaitVictim(t) ==
    /\ At(t, "steal")
    /\ victim[t] \notin aborting
    /\ StealDone(t)

-------------------------------------------------------------------------------
(* SET and INSERT: the record *)

(* Slip: local_map is not told.                                             *)
AddItemUnseen(t, k) ==
    /\ items' = [items EXCEPT ![t][k] = [val |-> NewValue(t), base |-> chain[k]]]
    /\ Goto(t, "run")
    /\ NextCommand(t)
    /\ UNCHANGED <<view, cause>>

(* A write item: a record whose prev is the version that is newest now.     *)
AddItem(t, k) ==
    /\ items' = [items EXCEPT ![t][k] = [val |-> NewValue(t), base |-> chain[k]]]
    /\ view' = [view EXCEPT ![t][k] = NewValue(t)]
    /\ Goto(t, "run")
    /\ NextCommand(t)
    /\ UNCHANGED cause

(* Slip: the newest version is not compared with read_timestamp.            *)
ApplySetUnchecked(t) ==
    /\ At(t, "apply") /\ Cmd(t).op = "SET"
    /\ LET k == Cmd(t).key
       IN \/ /\ chain[k] = <<>>
             /\ AbortFor(t, "finish")
             /\ UNCHANGED <<ip, view, items>>
          \/ /\ chain[k] # <<>>
             /\ AddItem(t, k)
    /\ UNCHANGED <<prog, waitTx, dyn, readTs, writeTs, linked, locked, victim,
                   lockTableVars, managerVars, chain>>

(* write_key with the lock held, and what execute_set makes of its result.  *)
ApplySet(t) ==
    /\ At(t, "apply") /\ Cmd(t).op = "SET"
    /\ LET k == Cmd(t).key
       IN \/ /\ chain[k] = <<>>
             /\ AbortFor(t, "finish")
             /\ UNCHANGED <<ip, view, items>>
          \/ /\ chain[k] # <<>> /\ Head(chain[k]).ts > readTs[t]
             /\ AbortFor(t, "retry")
             /\ UNCHANGED <<ip, view, items>>
          \/ /\ chain[k] # <<>> /\ Head(chain[k]).ts <= readTs[t]
             /\ AddItem(t, k)
    /\ UNCHANGED <<prog, waitTx, dyn, readTs, writeTs, linked, locked, victim,
                   lockTableVars, managerVars, chain>>

(* write_key for a key this attempt has written before: its own record is   *)
(* changed in place.                                                       *)
Rewrite(t) ==
    /\ ReadyToWrite(t) /\ Cmd(t).op = "SET"
    /\ Cmd(t).key \in locked[t]
    /\ items[t][Cmd(t).key] # Absent
    /\ items' = [items EXCEPT ![t][Cmd(t).key].val = NewValue(t)]
    /\ view' = [view EXCEPT ![t][Cmd(t).key] = NewValue(t)]
    /\ NextCommand(t)
    /\ UNCHANGED <<prog, pc, waitTx, dyn, readTs, writeTs, linked, locked, cause,
                   victim, lockTableVars, managerVars, chain>>

(* Slip: execute_insert does not handle ERROR_INSERT_EXIST.                 *)
ApplyInsertUnhandled(t) ==
    /\ \/ At(t, "apply") /\ Cmd(t).op = "INSERT"
       \/ ReadyToWrite(t) /\ Cmd(t).op = "INSERT" /\ Cmd(t).key \in locked[t]
    /\ LET k == Cmd(t).key
       IN \/ /\ chain[k] = <<>> /\ view[t][k] = Absent
             /\ AddItem(t, k)
          \/ /\ chain[k] # <<>> \/ view[t][k] # Absent
             /\ Goto(t, "crash")
             /\ UNCHANGED <<ip, view, items, cause>>
    /\ UNCHANGED <<prog, waitTx, dyn, readTs, writeTs, linked, locked, victim,
                   lockTableVars, managerVars, chain>>

(* insert_key with the lock held, and what execute_insert makes of its      *)
(* result: ERROR_RETRY_WRITE and a second insert of the key by the same     *)
(* transaction both fail an assertion (worker.cpp:172-173).                *)
ApplyInsert(t) ==
    /\ \/ At(t, "apply") /\ Cmd(t).op = "INSERT"
       \/ ReadyToWrite(t) /\ Cmd(t).op = "INSERT" /\ Cmd(t).key \in locked[t]
    /\ LET k == Cmd(t).key
       IN \/ /\ chain[k] = <<>> /\ view[t][k] = Absent
             /\ AddItem(t, k)
          \/ /\ chain[k] = <<>> /\ view[t][k] # Absent
             /\ Goto(t, "crash")
             /\ UNCHANGED <<ip, view, items, cause>>
          \/ /\ chain[k] # <<>> /\ Head(chain[k]).ts > readTs[t]
             /\ Goto(t, "crash")
             /\ UNCHANGED <<ip, view, items, cause>>
          \/ /\ chain[k] # <<>> /\ Head(chain[k]).ts <= readTs[t]
             /\ AbortFor(t, "finish")
             /\ UNCHANGED <<ip, view, items>>
    /\ UNCHANGED <<prog, waitTx, dyn, readTs, writeTs, linked, locked, victim,
                   lockTableVars, managerVars, chain>>

-------------------------------------------------------------------------------
(* COMMIT *)

(* Slip: commit_mutex is not waited for.                                    *)
CommitLockBarging(t) ==
    /\ At(t, "run") /\ ~HasCommand(t)
    /\ committer' = t
    /\ writeTs' = [writeTs EXCEPT ![t] = maxTs + 1]
    /\ linked' = [linked EXCEPT ![t] = {}]
    /\ Goto(t, "publish")
    /\ UNCHANGED <<prog, ip, view, waitTx, dyn, readTs, items, locked, cause, victim,
                   lockTableVars, live, maxTs, chain>>

(* commit_lock_and_get_timestamp.                                           *)
CommitLock(t) ==
    /\ At(t, "run") /\ ~HasCommand(t)
    /\ committer = NoTx
    /\ committer' = t
    /\ writeTs' = [writeTs EXCEPT ![t] = maxTs + 1]
    /\ linked' = [linked EXCEPT ![t] = {}]
    /\ Goto(t, "publish")
    /\ UNCHANGED <<prog, ip, view, waitTx, dyn, readTs, items, locked, cause, victim,
                   lockTableVars, live, maxTs, chain>>

ItemsToLink(t) == {k \in Keys \ linked[t] : items[t][k] # Absent}

(* The loop over write_items: the record gets its timestamp and the index   *)
(* item of its key now points at it (update_index, insert_index).          *)
LinkItem(t, k) ==
    /\ At(t, "publish")
    /\ k \in ItemsToLink(t)
    /\ chain' = [chain EXCEPT ![k] = Link(items[t][k].base, writeTs[t], items[t][k].val)]
    /\ linked' = [linked EXCEPT ![t] = @ \cup {k}]
    /\ UNCHANGED <<prog, workerVars, dyn, readTs, writeTs, items, locked, cause,
                   victim, lockTableVars, managerVars>>

(* COMMIT_LOG is written and, if there are write items, the log is flushed. *)
LogCommit(t) ==
    /\ At(t, "publish")
    /\ ItemsToLink(t) = {}
    /\ Goto(t, "unlock")
    /\ UNCHANGED <<prog, ip, view, waitTx, executorVars, lockTableVars, managerVars,
                   chain>>

(* One round of the loop over locked_write_keys, in commit() and abort().   *)
UnlockKey(t, k) ==
    /\ At(t, "unlock") \/ At(t, "abort")
    /\ k \in locked[t]
    /\ OccupyUnlock(k, t)
    /\ locked' = [locked EXCEPT ![t] = @ \ {k}]
    /\ UNCHANGED <<prog, workerVars, dyn, readTs, writeTs, items, linked, cause,
                   victim, managerVars, chain>>

(* Only here do the new versions come into the snapshots of others, and the *)
(* keys are free already.                                                  *)
CommitUnlock(t) ==
    /\ At(t, "unlock")
    /\ locked[t] = {}
    /\ maxTs' = maxTs + 1
    /\ committer' = NoTx
    /\ Goto(t, "end")
    /\ UNCHANGED <<prog, ip, view, waitTx, executorVars, lockTableVars, live, chain>>

-------------------------------------------------------------------------------
(* Abort, waiting, the end *)

(* Slip: the worker waits before it has unlocked its keys.                  *)
AbortDoneEarly(t) ==
    /\ At(t, "abort")
    /\ cause[t] = "wait"
    /\ OccupyAbortFinish(dyn[t])
    /\ Goto(t, "await")
    /\ UNCHANGED <<prog, ip, view, waitTx, executorVars, managerVars, chain>>

(* The keys are unlocked; thieves that wait for this attempt may go on, and *)
(* the worker waits for the transaction that had the lock, starts again, or *)
(* gives up.                                                               *)
AbortDone(t) ==
    /\ At(t, "abort")
    /\ locked[t] = {}
    /\ \/ /\ cause[t] = "wait"
          /\ OccupyAbortFinish(dyn[t])
          /\ Goto(t, "await")
       \/ /\ cause[t] = "retry"
          /\ Goto(t, "begin")
          /\ UNCHANGED lockTableVars
       \/ /\ cause[t] = "finish"
          /\ Goto(t, "end")
          /\ UNCHANGED lockTableVars
    /\ UNCHANGED <<prog, ip, view, waitTx, executorVars, managerVars, chain>>

AwaitEnd(t) ==
    /\ At(t, "await")
    /\ waitTx[t] \notin live
    /\ Goto(t, "begin")
    /\ UNCHANGED <<prog, ip, view, waitTx, executorVars, lockTableVars, managerVars,
                   chain>>

(* end_transaction: whoever waits for the end of t may go on.               *)
End(t) ==
    /\ At(t, "end")
    /\ live' = live \ {t}
    /\ Goto(t, "done")
    /\ UNCHANGED <<prog, ip, view, waitTx, executorVars, lockTableVars, maxTs,
                   committer, chain>>

(* WaitQueue::wait calls pthread_cond_wait once, without a loop: a spurious *)
(* wakeup ends either kind of waiting early.                               *)
WakeSpuriously(t) ==
    \/ At(t, "steal") /\ StealDone(t)
    \/ /\ At(t, "await")
       /\ Goto(t, "begin")
       /\ UNCHANGED <<prog, ip, view, waitTx, executorVars, lockTableVars,
                      managerVars, chain>>

-------------------------------------------------------------------------------
(* A failed assertion ends the process, and with it every thread.           *)
ProcessUp == \A t \in Tx : ~At(t, "crash")
AllDone == \A t \in Tx : At(t, "done")

Step(t) ==
    /\ ProcessUp
    /\ \/ Begin(t)
       \/ ReadKey(t) \/ WalkOn(t) \/ OutputRow(t)
       \/ LockFree(t) \/ LockFails(t) \/ LockSteal(t) \/ AwaitVictim(t)
       \/ ApplySet(t) \/ Rewrite(t) \/ ApplyInsert(t)
       \/ CommitLock(t) \/ LogCommit(t) \/ CommitUnlock(t)
       \/ \E k \in Keys : LinkItem(t, k) \/ UnlockKey(t, k)
       \/ AbortDone(t) \/ AwaitEnd(t) \/ End(t)

Stopped == (AllDone \/ ~ProcessUp) /\ UNCHANGED vars

Next == Stopped \/ \E t \in Tx : Step(t)

NextSpurious == Next \/ \E t \in Tx : ProcessUp /\ WakeSpuriously(t)

(* Every thread is scheduled again and again; nothing makes it prefer one   *)
(* branch over another.                                                    *)
Fairness == \A t \in Tx : WF_vars(Step(t))

Spec == Init /\ [][Next]_vars

SpuriousSpec == Init /\ [][NextSpurious]_vars

FairSpec == Spec /\ Fairness

===============================================================================
