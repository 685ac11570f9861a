-------------------------- MODULE CheckpointGateProofs -------------------------
(***************************************************************************)
(* GateInv holds for any number of workers and pages and however many       *)
(* transactions they run, with spurious wakeups; the three promises of the  *)
(* checkpoint manager follow.                                              *)
(***************************************************************************)
EXTENDS CheckpointGate, TLAPS, FiniteSetTheorems

USE WorkersAssumption, MaxTxAssumption

Running == {w \in Workers : wpc[w] = "running"}

LEMMA Counting ==
    ASSUME NEW S \in SUBSET Workers
    PROVE  /\ Cardinality(S) \in Nat
           /\ Cardinality(S) = 0 <=> S = {}
           /\ \A w \in Workers \ S : Cardinality(S \cup {w}) = Cardinality(S) + 1
           /\ \A w \in S : Cardinality(S \ {w}) = Cardinality(S) - 1
<1>1. IsFiniteSet(S)
  BY FS_Subset
<1>. QED
  BY <1>1, FS_CardinalityType, FS_EmptySet, FS_AddElement, FS_RemoveElement

(* n_executing_threads is 0 exactly when no transaction runs.               *)
LEMMA NoneRunning ==
    ASSUME GateInv
    PROVE  nExecuting = 0 <=> \A w \in Workers : wpc[w] # "running"
<1>1. Running \in SUBSET Workers /\ nExecuting = Cardinality(Running)
  BY DEF Running, GateInv, CountExact
<1>2. nExecuting = 0 <=> Running = {}
  BY <1>1, Counting
<1>. QED  BY <1>2 DEF Running

(* The invariant in an initial state: nobody runs, everything is dirty.     *)
LEMMA GateInvInit == Init => GateInv
<1>. SUFFICES ASSUME Init PROVE GateInv
  OBVIOUS
<1>1. TypeOK
  <2>1. MaxTx \in 0..MaxTx /\ 0 \in Nat
    OBVIOUS
  <2>. QED  BY <2>1 DEF Init, TypeOK, WorkerPlaces, ManagerPlaces
<1>2. CountExact
  <2>1. {w \in Workers : wpc[w] = "running"} = {}
    BY DEF Init
  <2>. QED  BY <2>1, FS_EmptySet DEF Init, CountExact
<1>3. StillToRun /\ GateClosed /\ FlushProgress /\ Finishing
  BY DEF Init, StillToRun, GateClosed, FlushProgress, Finishing, Checkpointing, CheckpointComplete
<1>. QED  BY <1>1, <1>2, <1>3 DEF GateInv

-------------------------------------------------------------------------------
(* A step that lets no worker begin or end a transaction keeps the count.   *)
LEMMA CountKept ==
    ASSUME GateInv, UNCHANGED nExecuting,
           \A w \in Workers : wpc'[w] = "running" <=> wpc[w] = "running"
    PROVE  CountExact'
<1>1. Running' = Running
  BY DEF Running
<1>. QED  BY <1>1 DEF GateInv, CountExact, Running

LEMMA BeginKeeps ==
    ASSUME GateInv, NEW w \in Workers, Begin(w)
    PROVE  GateInv'
<1>. USE DEF Begin, managerVars
<1>1. TypeOK'
  <2>0. nExecuting \in Nat
    BY DEF GateInv, TypeOK
  <2>1. nExecuting' \in Nat
    BY <2>0
  <2>2. wpc' \in [Workers -> WorkerPlaces]
    BY DEF GateInv, TypeOK, WorkerPlaces
  <2>. QED  BY <2>1, <2>2 DEF GateInv, TypeOK
<1>2. CountExact'
  <2>1. CASE checkpointReady
    BY <2>1, CountKept DEF GateInv, TypeOK
  <2>2. CASE ~checkpointReady
    <3>1. Running' = Running \cup {w} /\ w \notin Running /\ Running \in SUBSET Workers
      BY <2>2 DEF GateInv, TypeOK, Running
    <3>2. Cardinality(Running') = Cardinality(Running) + 1
      BY <3>1, Counting
    <3>3. nExecuting = Cardinality(Running) /\ nExecuting' = nExecuting + 1
      BY <2>2 DEF GateInv, CountExact, Running
    <3>. QED  BY <3>2, <3>3 DEF CountExact, Running
  <2>. QED  BY <2>1, <2>2
<1>3. GateClosed' /\ StillToRun'
  BY DEF GateInv, TypeOK, GateClosed, Checkpointing, StillToRun
<1>4. FlushProgress'
  BY DEF GateInv, FlushProgress, CheckpointComplete
<1>5. Finishing'
  BY DEF GateInv, TypeOK, Finishing
<1>. QED  BY <1>1, <1>2, <1>3, <1>4, <1>5 DEF GateInv

(* A page changes only outside a checkpoint, and before the last one.       *)
LEMMA WriteKeeps ==
    ASSUME GateInv, NEW w \in Workers, NEW p \in Pages, Write(w, p)
    PROVE  GateInv'
<1>. USE DEF Write, workerVars, managerVars
<1>1. TypeOK'
  BY DEF GateInv, TypeOK
<1>2. CountExact'
  BY CountKept
<1>3. ~Checkpointing /\ cpc # "exit"
  BY NoneRunning DEF GateInv, GateClosed, Finishing
<1>4. StillToRun' /\ GateClosed' /\ FlushProgress' /\ Finishing'
  BY <1>3 DEF GateInv, StillToRun, GateClosed, FlushProgress, Finishing, Checkpointing, CheckpointComplete
<1>. QED  BY <1>1, <1>2, <1>4 DEF GateInv

LEMMA EndKeeps ==
    ASSUME GateInv, NEW w \in Workers, End(w)
    PROVE  GateInv'
<1>. USE DEF End
<1>1. w \in Running /\ Running \in SUBSET Workers /\ Running' = Running \ {w}
  BY DEF Running, GateInv, TypeOK
<1>2. nExecuting' = Cardinality(Running') /\ nExecuting' \in Nat
  <2>1. nExecuting = Cardinality(Running)
    BY DEF GateInv, CountExact, Running
  <2>2. Running \ {w} \in SUBSET Workers
    BY <1>1
  <2>3. Cardinality(Running') = Cardinality(Running) - 1 /\ Cardinality(Running') \in Nat
    BY <1>1, <2>2, Counting
  <2>. QED  BY <2>1, <2>3
<1>4. left[w] - 1 \in 0..MaxTx
  <2>1. left[w] \in 0..MaxTx
    BY DEF GateInv, TypeOK
  <2>2. left[w] > 0
    BY DEF GateInv, StillToRun
  <2>. QED  BY <2>1, <2>2
<1>5. ~Checkpointing /\ cpc # "exit" /\ ~taskFinish
  BY NoneRunning DEF GateInv, GateClosed, Finishing
<1>6. TypeOK'
  <2>1. wpc' \in [Workers -> WorkerPlaces] /\ left' \in [Workers -> 0..MaxTx]
    BY <1>4 DEF GateInv, TypeOK, WorkerPlaces
  <2>2. cpc' \in ManagerPlaces
    BY DEF GateInv, TypeOK, ManagerPlaces
  <2>. QED  BY <1>2, <2>1, <2>2 DEF GateInv, TypeOK
<1>7. CountExact'
  BY <1>2 DEF CountExact, Running
<1>8. StillToRun'
  BY DEF GateInv, TypeOK, StillToRun
<1>9. GateClosed' /\ FlushProgress' /\ Finishing'
  BY <1>5 DEF GateInv, GateClosed, FlushProgress, Finishing, Checkpointing, CheckpointComplete
<1>. QED  BY <1>6, <1>7, <1>8, <1>9 DEF GateInv

LEMMA JoinKeeps ==
    ASSUME GateInv, NEW w \in Workers, Join(w)
    PROVE  GateInv'
<1>. USE DEF Join, managerVars
<1>1. TypeOK'
  BY DEF GateInv, TypeOK, WorkerPlaces
<1>2. CountExact'
  BY CountKept DEF GateInv, TypeOK
<1>3. StillToRun' /\ GateClosed' /\ FlushProgress' /\ Finishing'
  BY DEF GateInv, TypeOK, StillToRun, GateClosed, FlushProgress, Finishing,
         Checkpointing, CheckpointComplete
<1>. QED  BY <1>1, <1>2, <1>3 DEF GateInv

(* Woken workers are not running yet, a woken manager looks again.          *)
LEMMA WakeKeeps ==
    ASSUME GateInv, WakeSpuriously
    PROVE  GateInv'
<1>. USE DEF WakeSpuriously
<1>1. TypeOK'
  BY DEF GateInv, TypeOK, WorkerPlaces, ManagerPlaces
<1>2. CountExact'
  BY CountKept DEF GateInv, TypeOK
<1>3. StillToRun' /\ GateClosed' /\ FlushProgress' /\ Finishing'
  BY DEF GateInv, TypeOK, StillToRun, GateClosed, FlushProgress, Finishing,
         Checkpointing, CheckpointComplete
<1>. QED  BY <1>1, <1>2, <1>3 DEF GateInv

LEMMA AllowKeeps ==
    ASSUME GateInv, Allow
    PROVE  GateInv'
<1>. USE DEF Allow
<1>1. TypeOK'
  BY DEF GateInv, TypeOK, WorkerPlaces, ManagerPlaces
<1>2. CountExact'
  BY CountKept DEF GateInv, TypeOK
<1>3. StillToRun' /\ GateClosed' /\ FlushProgress'
  BY DEF GateInv, TypeOK, StillToRun, GateClosed, FlushProgress, Checkpointing,
         CheckpointComplete
<1>4. Finishing'
  BY DEF GateInv, TypeOK, FlushProgress, Finishing, CheckpointComplete
<1>. QED  BY <1>1, <1>2, <1>3, <1>4 DEF GateInv

(* The other steps of the manager and of main() leave the workers alone.    *)
LEMMA ManagerKeeps ==
    ASSUME GateInv,
           \/ ReadTaskFinish \/ Ban \/ AddCheckpointLog \/ FlushLogs
           \/ \E p \in Pages : FlushPage(p)
    PROVE  GateInv'
<1>. USE DEF ReadTaskFinish, Ban, AddCheckpointLog, FlushLogs, FlushPage, workerVars
<1>1. TypeOK'
  BY DEF GateInv, TypeOK, ManagerPlaces
<1>2. CountExact' /\ StillToRun'
  BY CountKept DEF GateInv, StillToRun
<1>3. GateClosed'
  BY DEF GateInv, TypeOK, GateClosed, Checkpointing
<1>4. FlushProgress'
  BY DEF GateInv, TypeOK, FlushProgress, CheckpointComplete
<1>5. Finishing'
  <2>1. CASE ReadTaskFinish
    BY <2>1 DEF GateInv, Finishing
  <2>2. CASE Ban
    BY <2>2 DEF GateInv, Finishing
  <2>3. CASE AddCheckpointLog \/ FlushLogs
    <3>1. /\ UNCHANGED <<wpc, willFinish, taskFinish, mpc>>
          /\ cpc \in {"flush", "log"} /\ cpc' # "exit"
      BY <2>3
    <3>. QED  BY <3>1 DEF GateInv, Finishing
  <2>4. CASE \E p \in Pages : FlushPage(p)
    <3>1. /\ UNCHANGED <<wpc, willFinish, taskFinish, mpc, cpc>>
          /\ cpc = "flush"
      BY <2>4
    <3>. QED  BY <3>1 DEF GateInv, Finishing
  <2>. QED  BY <2>1, <2>2, <2>3, <2>4
<1>. QED  BY <1>1, <1>2, <1>3, <1>4, <1>5 DEF GateInv

LEMMA MainKeeps ==
    ASSUME GateInv, EndManager \/ Exit \/ UNCHANGED vars
    PROVE  GateInv'
<1>. USE DEF EndManager, Exit, vars, workerVars, managerVars
<1>1. TypeOK'
  BY DEF GateInv, TypeOK
<1>2. CountExact' /\ StillToRun'
  BY CountKept DEF GateInv, StillToRun
<1>3. GateClosed' /\ FlushProgress'
  BY DEF GateInv, GateClosed, FlushProgress, Checkpointing, CheckpointComplete
<1>4. Finishing'
  <2>1. CASE EndManager
    BY <2>1 DEF GateInv, Finishing
  <2>2. CASE Exit
    BY <2>2 DEF GateInv, Finishing
  <2>3. CASE UNCHANGED vars
    BY <2>3 DEF GateInv, Finishing
  <2>. QED  BY <2>1, <2>2, <2>3
<1>. QED  BY <1>1, <1>2, <1>3, <1>4 DEF GateInv

-------------------------------------------------------------------------------
LEMMA GateInvStep == GateInv /\ [Next]_vars => GateInv'
<1>. SUFFICES ASSUME GateInv, [Next]_vars PROVE GateInv'
  OBVIOUS
<1>1. ASSUME NEW w \in Workers, Enter(w) PROVE GateInv'
  BY <1>1, BeginKeeps, JoinKeeps DEF Enter
<1>2. ASSUME NEW w \in Workers, End(w) PROVE GateInv'
  BY <1>2, EndKeeps
<1>3. ASSUME NEW w \in Workers, NEW p \in Pages, Write(w, p) PROVE GateInv'
  BY <1>3, WriteKeeps
<1>4. ASSUME Manager PROVE GateInv'
  BY <1>4, ManagerKeeps, AllowKeeps DEF Manager
<1>5. ASSUME WakeSpuriously PROVE GateInv'
  BY <1>5, WakeKeeps
<1>6. ASSUME EndManager \/ Exit \/ UNCHANGED vars PROVE GateInv'
  BY <1>6, MainKeeps
<1>. QED  BY <1>1, <1>2, <1>3, <1>4, <1>5, <1>6 DEF Next

(* The invariant of the gate, for any workers, pages and transactions.      *)
THEOREM GateInvHolds == Spec => []GateInv
<1>. QED  BY GateInvInit, GateInvStep, PTL DEF Spec

(* ban_transactions returns when no transaction runs, and begin_transaction *)
(* lets none in until allow_transactions (lockmanager.cpp:130-168).         *)
THEOREM NoneDuringCheckpointHolds == Spec => []NoneDuringCheckpoint
<1>1. GateInv => NoneDuringCheckpoint
  <2>. SUFFICES ASSUME GateInv PROVE NoneDuringCheckpoint
    OBVIOUS
  <2>. QED  BY NoneRunning DEF GateInv, GateClosed, NoneDuringCheckpoint
<1>. QED  BY <1>1, GateInvHolds, PTL

(* When make_checkpoint adds its record, the files hold every change.       *)
THEOREM CheckpointCompleteHolds == Spec => []CheckpointComplete
<1>1. GateInv => CheckpointComplete
  BY DEF GateInv, FlushProgress
<1>. QED  BY <1>1, GateInvHolds, PTL

(* The program exits with nothing left in the pool alone.                   *)
THEOREM AllSavedAtExitHolds == Spec => []AllSavedAtExit
<1>1. GateInv => AllSavedAtExit
  BY DEF GateInv, Finishing, AllSavedAtExit
<1>. QED  BY <1>1, GateInvHolds, PTL

===============================================================================
