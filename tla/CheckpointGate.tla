---------------------------- MODULE CheckpointGate ----------------------------
(***************************************************************************)
(* Checkpoints against transactions: begin_transaction, end_transaction,   *)
(* ban_transactions and allow_transactions of the LockManager, the thread  *)
(* of the CheckpointManager, and main(), which stops it.  One action is    *)
(* one critical section of checkpoint_mutex, of join_mutex or of the data  *)
(* pool's mutex, or a stretch without shared state.                        *)
(*                                                                         *)
(* A transaction is reduced to the pages it changes.  flush_all_pages is   *)
(* taken apart, page by page, to see who could come in between.  What is   *)
(* flushed is the data pool: changes only in the pool are `dirty`.         *)
(***************************************************************************)
EXTENDS Naturals, FiniteSets

CONSTANTS
    Workers,  \* the worker threads
    Pages,    \* the pages of the data pool
    MaxTx     \* bound: transactions per worker

VARIABLES
    nExecuting,      \* n_executing_threads
    checkpointReady, \* checkpoint_ready
    wpc,             \* where a worker stands
    left,            \* the transactions it still has to run
    cpc,             \* where the checkpoint manager's thread stands
    unvisited,       \* the pages flush_all_pages has not come to yet
    willFinish,      \* will_finish of CheckpointManager::run
    taskFinish,      \* task_finish
    mpc,             \* where main() stands
    dirty            \* the pages with changes that are not in their file

workerVars == <<wpc, left>>
managerVars == <<cpc, unvisited, willFinish>>
vars == <<nExecuting, checkpointReady, workerVars, managerVars, taskFinish, mpc, dirty>>

ASSUME WorkersAssumption == IsFiniteSet(Workers)
ASSUME MaxTxAssumption == MaxTx \in Nat

WorkerPlaces == {"idle", "asleep", "running", "joined"}
ManagerPlaces == {"sleep", "ban", "asleep", "flush", "log", "allow", "exit"}

TypeOK ==
    /\ nExecuting \in Nat
    /\ checkpointReady \in BOOLEAN
    /\ wpc \in [Workers -> WorkerPlaces]
    /\ left \in [Workers -> 0..MaxTx]
    /\ cpc \in ManagerPlaces
    /\ unvisited \subseteq Pages
    /\ willFinish \in BOOLEAN
    /\ taskFinish \in BOOLEAN
    /\ mpc \in {"join workers", "join manager", "exit"}
    /\ dirty \subseteq Pages

(* The prepare thread has run: its pages are in the pool.                   *)
Init ==
    /\ nExecuting = 0
    /\ checkpointReady = FALSE
    /\ wpc = [w \in Workers |-> "idle"]
    /\ left = [w \in Workers |-> MaxTx]
    /\ cpc = "sleep"
    /\ unvisited = {}
    /\ willFinish = FALSE
    /\ taskFinish = FALSE
    /\ mpc = "join workers"
    /\ dirty = Pages

-------------------------------------------------------------------------------
(* Workers *)

(* Slip: checkpoint_ready is not looked at.                                 *)
BeginAtOnce(w) ==
    /\ wpc[w] = "idle" /\ left[w] > 0
    /\ nExecuting' = nExecuting + 1
    /\ wpc' = [wpc EXCEPT ![w] = "running"]
    /\ UNCHANGED <<checkpointReady, left, managerVars, taskFinish, mpc, dirty>>

(* Slip: a transaction that had to sleep is counted before and after.       *)
BeginCountedTwice(w) ==
    /\ wpc[w] = "idle" /\ left[w] > 0
    /\ nExecuting' = nExecuting + 1
    /\ wpc' = [wpc EXCEPT ![w] = IF checkpointReady THEN "asleep" ELSE "running"]
    /\ UNCHANGED <<checkpointReady, left, managerVars, taskFinish, mpc, dirty>>

(* begin_transaction, also after the cond_wait of its loop has returned.    *)
Begin(w) ==
    /\ wpc[w] = "idle" /\ left[w] > 0
    /\ \/ /\ checkpointReady
          /\ wpc' = [wpc EXCEPT ![w] = "asleep"]
          /\ UNCHANGED nExecuting
       \/ /\ ~checkpointReady
          /\ nExecuting' = nExecuting + 1
          /\ wpc' = [wpc EXCEPT ![w] = "running"]
    /\ UNCHANGED <<checkpointReady, left, managerVars, taskFinish, mpc, dirty>>

(* The transaction changes a page.                                          *)
Write(w, p) ==
    /\ wpc[w] = "running"
    /\ p \notin dirty
    /\ dirty' = dirty \cup {p}
    /\ UNCHANGED <<nExecuting, checkpointReady, workerVars, managerVars, taskFinish, mpc>>

(* end_transaction: the last to leave signals the checkpoint manager.       *)
End(w) ==
    /\ wpc[w] = "running"
    /\ nExecuting' = nExecuting - 1
    /\ wpc' = [wpc EXCEPT ![w] = "idle"]
    /\ left' = [left EXCEPT ![w] = @ - 1]
    /\ cpc' = IF nExecuting' = 0 /\ cpc = "asleep" THEN "ban" ELSE cpc
    /\ UNCHANGED <<checkpointReady, unvisited, willFinish, taskFinish, mpc, dirty>>

Join(w) ==
    /\ wpc[w] = "idle" /\ left[w] = 0
    /\ wpc' = [wpc EXCEPT ![w] = "joined"]
    /\ UNCHANGED <<nExecuting, checkpointReady, left, managerVars, taskFinish, mpc, dirty>>

-------------------------------------------------------------------------------
(* CheckpointManager::run *)

(* Slip: with task_finish set there is no last checkpoint.                  *)
ReadTaskFinishStop ==
    /\ cpc = "sleep"
    /\ willFinish' = taskFinish
    /\ cpc' = IF taskFinish THEN "exit" ELSE "ban"
    /\ UNCHANGED <<nExecuting, checkpointReady, workerVars, unvisited, taskFinish, mpc, dirty>>

(* The sleep is over; task_finish is read before the checkpoint is made.    *)
ReadTaskFinish ==
    /\ cpc = "sleep"
    /\ willFinish' = taskFinish
    /\ cpc' = "ban"
    /\ UNCHANGED <<nExecuting, checkpointReady, workerVars, unvisited, taskFinish, mpc, dirty>>

(* Slip: n_executing_threads is not waited for.                             *)
BanAtOnce ==
    /\ cpc = "ban"
    /\ checkpointReady' = TRUE
    /\ cpc' = "flush" /\ unvisited' = Pages
    /\ UNCHANGED <<nExecuting, workerVars, willFinish, taskFinish, mpc, dirty>>

(* ban_transactions, also after the cond_wait of its loop has returned.     *)
Ban ==
    /\ cpc = "ban"
    /\ checkpointReady' = TRUE
    /\ \/ nExecuting > 0 /\ cpc' = "asleep" /\ UNCHANGED unvisited
       \/ nExecuting = 0 /\ cpc' = "flush" /\ unvisited' = Pages
    /\ UNCHANGED <<nExecuting, workerVars, willFinish, taskFinish, mpc, dirty>>

(* flush_all_pages comes to page p.                                         *)
FlushPage(p) ==
    /\ cpc = "flush"
    /\ p \in unvisited
    /\ unvisited' = unvisited \ {p}
    /\ dirty' = dirty \ {p}
    /\ UNCHANGED <<nExecuting, checkpointReady, workerVars, cpc, willFinish, taskFinish, mpc>>

(* All pages visited; add_checkpoint_log and flush_logs.                    *)
AddCheckpointLog ==
    /\ cpc = "flush" /\ unvisited = {}
    /\ cpc' = "log"
    /\ UNCHANGED <<nExecuting, checkpointReady, workerVars, unvisited, willFinish, taskFinish,
                   mpc, dirty>>

FlushLogs ==
    /\ cpc = "log"
    /\ cpc' = "allow"
    /\ UNCHANGED <<nExecuting, checkpointReady, workerVars, unvisited, willFinish, taskFinish,
                   mpc, dirty>>

(* Slip: the sleeping workers are not woken.                                *)
AllowSilently ==
    /\ cpc = "allow"
    /\ checkpointReady' = FALSE
    /\ cpc' = IF willFinish THEN "exit" ELSE "sleep"
    /\ UNCHANGED <<nExecuting, workerVars, unvisited, willFinish, taskFinish, mpc, dirty>>

(* allow_transactions; run() leaves its loop or sleeps.                     *)
Allow ==
    /\ cpc = "allow"
    /\ checkpointReady' = FALSE
    /\ wpc' = [w \in Workers |-> IF wpc[w] = "asleep" THEN "idle" ELSE wpc[w]]
    /\ cpc' = IF willFinish THEN "exit" ELSE "sleep"
    /\ UNCHANGED <<nExecuting, left, unvisited, willFinish, taskFinish, mpc, dirty>>

(* pthread_cond_wait may return at any time; both loops look again.         *)
WakeSpuriously ==
    /\ \/ \E w \in Workers :
            /\ wpc[w] = "asleep"
            /\ wpc' = [wpc EXCEPT ![w] = "idle"]
            /\ UNCHANGED cpc
       \/ /\ cpc = "asleep"
          /\ cpc' = "ban"
          /\ UNCHANGED wpc
    /\ UNCHANGED <<nExecuting, checkpointReady, left, unvisited, willFinish, taskFinish, mpc,
                   dirty>>

-------------------------------------------------------------------------------
(* main() *)

(* The workers are joined; CheckpointManager::end sets task_finish.         *)
EndManager ==
    /\ mpc = "join workers"
    /\ \A w \in Workers : wpc[w] = "joined"
    /\ taskFinish' = TRUE
    /\ mpc' = "join manager"
    /\ UNCHANGED <<nExecuting, checkpointReady, workerVars, managerVars, dirty>>

Exit ==
    /\ mpc = "join manager"
    /\ cpc = "exit"
    /\ mpc' = "exit"
    /\ UNCHANGED <<nExecuting, checkpointReady, workerVars, managerVars, taskFinish, dirty>>

-------------------------------------------------------------------------------
Manager ==
    \/ ReadTaskFinish \/ Ban \/ AddCheckpointLog \/ FlushLogs \/ Allow
    \/ \E p \in Pages : FlushPage(p)

Enter(w) == Begin(w) \/ Join(w)

Next ==
    \/ \E w \in Workers : Enter(w) \/ End(w) \/ \E p \in Pages : Write(w, p)
    \/ Manager
    \/ WakeSpuriously
    \/ EndManager \/ Exit
    \/ mpc = "exit" /\ UNCHANGED vars

Spec == Init /\ [][Next]_vars

(* Every thread is scheduled.  A transaction that has begun ends            *)
(* (EveryTransactionEnds of TransactionsProps; a running one never comes    *)
(* back to begin_transaction, whatever it waits for).  A woken worker may   *)
(* find the next checkpoint under way, but not for ever: run() sleeps a     *)
(* second between two, hence the strong fairness of Enter.                  *)
FairSpec ==
    /\ Spec
    /\ \A w \in Workers : SF_vars(Enter(w) /\ ~checkpointReady) /\ WF_vars(End(w))
    /\ WF_vars(Manager)
    /\ WF_vars(EndManager \/ Exit)

-------------------------------------------------------------------------------
(* Properties *)

(* No transaction runs during a checkpoint.                                 *)
Checkpointing == cpc \in {"flush", "log", "allow"}

NoneDuringCheckpoint == Checkpointing => \A w \in Workers : wpc[w] # "running"

(* A checkpoint record is written only when the files hold all changes made *)
(* before it: redo starts after it (logmanager.cpp:174-185).                *)
CheckpointComplete == cpc \in {"log", "allow"} => dirty = {}

(* When the program ends, its last checkpoint covers every transaction: the *)
(* one made after will_finish was read as true (checkpoint_manager.cpp:     *)
(* 31-36).                                                                 *)
AllSavedAtExit == mpc = "exit" => dirty = {}

(* Why these three hold: the inductive invariant.  The count the manager    *)
(* waits for is that of the running transactions; flush_all_pages leaves    *)
(* nothing dirty behind it; and will_finish is only read as true when there *)
(* are no workers any more.                                                *)
CountExact == nExecuting = Cardinality({w \in Workers : wpc[w] = "running"})

StillToRun == \A w \in Workers : wpc[w] \in {"asleep", "running"} => left[w] > 0

GateClosed ==
    /\ cpc \in {"asleep", "flush", "log", "allow"} => checkpointReady
    /\ Checkpointing => nExecuting = 0

FlushProgress ==
    /\ cpc = "flush" => dirty \subseteq unvisited
    /\ CheckpointComplete

Finishing ==
    /\ taskFinish <=> mpc # "join workers"
    /\ taskFinish => \A w \in Workers : wpc[w] = "joined"
    /\ willFinish => taskFinish
    /\ cpc = "exit" => willFinish /\ dirty = {}
    /\ mpc = "exit" => cpc = "exit"

GateInv == TypeOK /\ CountExact /\ StillToRun /\ GateClosed /\ FlushProgress /\ Finishing

(* The program ends: no wakeup is lost between the workers, the manager and *)
(* main().                                                                 *)
ProgramEnds == <>(mpc = "exit")

===============================================================================
