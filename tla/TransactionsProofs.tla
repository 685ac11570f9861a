--------------------------- MODULE TransactionsProofs --------------------------
(***************************************************************************)
(* Proofs about Transactions, for any transactions, keys, programs and      *)
(* dynamic IDs: types, the lock protocol, and that Transactions implements   *)
(* SnapshotIsolation.  Everything is proved for SpuriousSpec, of which Spec  *)
(* allows a part.                                                          *)
(***************************************************************************)
EXTENDS TransactionsProps, TLAPS, FiniteSetTheorems, SequenceTheorems,
        WellFoundedInduction

-------------------------------------------------------------------------------
(* Chains of versions, of any length *)

(* A nonempty set of naturals has a least element.                          *)
LEMMA LeastNat ==
    ASSUME NEW S \in SUBSET Nat, S # {}
    PROVE  \E m \in S : \A n \in S : m <= n
<1>1. \E m \in S : \A n \in S : ~(<<n, m>> \in OpToRel(<, Nat))
  BY NatLessThanWellFounded, WFMin
<1>2. PICK m \in S : \A n \in S : ~(<<n, m>> \in OpToRel(<, Nat))
  BY <1>1
<1>3. \A n \in S : ~(n < m)
  BY <1>2 DEF OpToRel
<1>4. \A n \in S : m <= n
  BY <1>3
<1>. QED  BY <1>4

(* Reading finds a value whenever a version is old enough: the newest such. *)
LEMMA ReadAtNewestVisible ==
    ASSUME NEW c \in Chain, NEW ts \in Nat, VisibleAt(c, ts) # {}
    PROVE  \E i \in VisibleAt(c, ts) :
              /\ \A j \in VisibleAt(c, ts) : i <= j
              /\ ReadAt(c, ts) = c[i].val
              /\ ReadAt(c, ts) \in Int
<1>1. VisibleAt(c, ts) \in SUBSET Nat
  BY DEF VisibleAt, Chain
<1>2. \E i \in VisibleAt(c, ts) : \A j \in VisibleAt(c, ts) : i <= j
  BY <1>1, LeastNat
<1>. DEFINE i == CHOOSE i \in VisibleAt(c, ts) : \A j \in VisibleAt(c, ts) : i <= j
<1>3. i \in VisibleAt(c, ts) /\ \A j \in VisibleAt(c, ts) : i <= j
  BY <1>2
<1>4. ReadAt(c, ts) = c[i].val
  BY DEF ReadAt
<1>5. c[i].val \in Int
  <2>1. i \in DOMAIN c
    BY <1>3 DEF VisibleAt
  <2>. HIDE DEF i
  <2>2. c[i] \in Version
    BY <2>1 DEF Chain
  <2>. QED  BY <2>2 DEF Version
<1>. HIDE DEF i
<1>. QED  BY <1>3, <1>4, <1>5

(* A chain that is not empty has a version at its head.                     *)
LEMMA HeadIsVersion ==
    ASSUME NEW c \in Chain, c # <<>>
    PROVE  Head(c) \in Version
BY HeadTailProperties DEF Chain

(* Linking puts one version in front of the base and keeps the rest.        *)
LEMMA LinkProperties ==
    ASSUME NEW base \in Chain, NEW ts \in Nat, NEW val \in Int
    PROVE  /\ Link(base, ts, val) \in Chain
           /\ Len(Link(base, ts, val)) = Len(base) + 1
           /\ Link(base, ts, val)[1] = [ts |-> ts, val |-> val]
           /\ \A i \in 1..Len(base) : Link(base, ts, val)[i + 1] = base[i]
<1>. DEFINE v == [ts |-> ts, val |-> val]
<1>1. <<v>> \in Chain /\ Len(<<v>>) = 1 /\ <<v>>[1] = v
  BY DEF Chain, Version
<1>. HIDE DEF v
<1>2. \A i \in 1..Len(base) : (<<v>> \o base)[i + 1] = base[i]
  BY <1>1 DEF Chain
<1>. QED  BY <1>1, <1>2, ConcatProperties DEF Link, Chain, v

(* A version newer than all of the base keeps the order.                    *)
LEMMA LinkNewestFirst ==
    ASSUME NEW base \in Chain, NEW ts \in Nat, NEW val \in Int,
           NewestFirst(base), \A i \in DOMAIN base : base[i].ts < ts
    PROVE  NewestFirst(Link(base, ts, val))
<1>. DEFINE c == Link(base, ts, val)
<1>0. /\ c \in Chain /\ Len(c) = Len(base) + 1 /\ c[1] = [ts |-> ts, val |-> val]
      /\ \A i \in 1..Len(base) : c[i + 1] = base[i]
  BY LinkProperties
<1>. HIDE DEF c
<1>1. SUFFICES ASSUME NEW i \in DOMAIN c, NEW j \in DOMAIN c, i < j
               PROVE  c[i].ts > c[j].ts
  BY DEF NewestFirst, c
<1>2. i \in 1..(Len(base) + 1) /\ j \in 1..(Len(base) + 1) /\ Len(base) \in Nat
  BY <1>0 DEF Chain
<1>3. j - 1 \in 1..Len(base) /\ c[j] = base[j - 1]
  <2>1. j - 1 \in 1..Len(base)
    BY <1>1, <1>2
  <2>. QED  BY <1>0, <2>1, <1>2
<1>4. base[j - 1] \in Version /\ base[j - 1].ts < ts
  BY <1>3 DEF Chain
<1>5. CASE i = 1
  BY <1>0, <1>3, <1>4, <1>5 DEF Version
<1>6. CASE i # 1
  <2>1. i - 1 \in 1..Len(base) /\ i - 1 < j - 1
    BY <1>1, <1>2, <1>6
  <2>2. c[i] = base[i - 1]
    BY <1>0, <2>1, <1>2
  <2>. QED  BY <2>1, <2>2, <1>3 DEF NewestFirst, Chain
<1>. QED  BY <1>5, <1>6

-------------------------------------------------------------------------------
(* Types *)

(* A command that is there is a command.                                    *)
LEMMA CmdType ==
    ASSUME TypeOK, NEW t \in Tx, HasCommand(t)
    PROVE  Cmd(t) \in Command
BY DEF TypeOK, HasCommand, Cmd

(* The ID an attempt gets is nobody else's.                                 *)
LEMMA NewDynIdFresh ==
    ASSUME NEW t \in Tx, FreeDynIds(t) # {}
    PROVE  NewDynId(t) \in DynIds /\ NewDynId(t) \notin DynIdsInUse(t)
BY DEF NewDynId, FreeDynIds

(* The value a SET or INSERT writes is an integer.                          *)
LEMMA NewValueType ==
    ASSUME TypeOK, NEW t \in Tx, HasCommand(t),
           Cmd(t).op = "SET" => view[t][Cmd(t).from] # Absent
    PROVE  NewValue(t) \in Int
<1>1. Cmd(t) \in Command
  BY CmdType
<1>2. Cmd(t).arg \in Int /\ Cmd(t).from \in Keys
  BY <1>1 DEF Command
<1>3. view[t][Cmd(t).from] \in Int \cup {Absent}
  BY <1>2 DEF TypeOK
<1>. QED  BY <1>2, <1>3 DEF NewValue

LEMMA InitTypeOK == Init => TypeOK
<1>. SUFFICES ASSUME Init PROVE TypeOK
  OBVIOUS
<1>1. chain \in [Keys -> Chain]
  <2>1. <<>> \in Chain
    BY DEF Chain
  <2>2. ASSUME NEW k \in Keys, Initial[k] # Absent
        PROVE  Link(<<>>, InitialTs, Initial[k]) \in Chain
    <3>1. InitialTs \in Nat /\ Initial[k] \in Int
      BY <2>2, InitialAssumption DEF InitialTs
    <3>. QED  BY <2>1, <3>1, LinkProperties
  <2>. QED  BY <2>1, <2>2 DEF Init
<1>2. prog \in [Tx -> Seq(Command)]
  BY WorkloadsAssumption DEF Init
<1>3. LockTableTypeOK
  BY DEF Init, LockTableInit, LockTableTypeOK, OccupyLock
<1>. QED
  BY <1>1, <1>2, <1>3 DEF Init, TypeOK, Places, Causes, Nothing, InitialTs

(* Every step keeps the types, given that the command at hand is a write    *)
(* with its operand wherever a lock is being used.                          *)
LEMMA NextTypeOK ==
    ASSUME TypeOK, WriteInProgress, RunningHaveDynId, [NextSpurious]_vars
    PROVE  TypeOK'
<1>. USE DEF At, Goto, AbortFor, Places, Causes
<1>1. CASE UNCHANGED vars
  BY <1>1 DEF vars, workerVars, executorVars, managerVars, lockTableVars, TypeOK,
              LockTableTypeOK
<1>2. ASSUME NEW t \in Tx, Begin(t)  PROVE TypeOK'
  BY <1>2, NewDynIdFresh
     DEF Begin, TypeOK, LockTableTypeOK, Nothing, lockTableVars
<1>3. ASSUME NEW t \in Tx, ReadKey(t)  PROVE TypeOK'
  <2>1. Cmd(t).from \in Keys
    BY <1>3, CmdType DEF ReadKey, Command
  <2>2. chain[Cmd(t).from] \in Chain /\ readTs[t] \in Nat
    BY <2>1 DEF TypeOK
  <2>3. view' \in [Tx -> [Keys -> Int \cup {Absent}]]
    <3>1. VisibleAt(chain[Cmd(t).from], readTs[t]) # {} =>
             ReadAt(chain[Cmd(t).from], readTs[t]) \in Int
      BY <2>2, ReadAtNewestVisible
    <3>2. CASE view' = view
      BY <3>2 DEF TypeOK
    <3>3. CASE /\ VisibleAt(chain[Cmd(t).from], readTs[t]) # {}
               /\ view' = [view EXCEPT ![t][Cmd(t).from] =
                                          ReadAt(chain[Cmd(t).from], readTs[t])]
      BY <2>1, <3>1, <3>3 DEF TypeOK
    <3>. QED  BY <1>3, <3>2, <3>3 DEF ReadKey
  <2>. QED  BY <1>3, <2>3 DEF ReadKey, TypeOK, LockTableTypeOK, managerVars, lockTableVars
<1>4. ASSUME NEW t \in Tx, OutputRow(t)  PROVE TypeOK'
  BY <1>4 DEF OutputRow, NextCommand, TypeOK, LockTableTypeOK, executorVars, managerVars, lockTableVars
<1>5. ASSUME NEW t \in Tx, LockFree(t) \/ LockFails(t) \/ LockSteal(t)  PROVE TypeOK'
  <2>. USE DEF managerVars
  <2>1. Cmd(t).key \in Keys /\ dyn[t] \in DynIds \cup {NoDyn}
    BY <1>5, CmdType DEF LockFree, LockFails, LockSteal, NeedsLock, ReadyToWrite, Command, TypeOK
  <2>2. lockOf[Cmd(t).key] \in OccupyLock
    BY <2>1 DEF TypeOK, LockTableTypeOK
  <2>3. Grant(Cmd(t).key, t, dyn[t]) => lockOf' \in [Keys -> OccupyLock]
    BY <2>1 DEF Grant, TypeOK, LockTableTypeOK, OccupyLock
  <2>4. CASE LockFree(t)
    BY <2>1, <2>3, <2>4 DEF LockFree, OccupyFree, TypeOK, LockTableTypeOK
  <2>5. CASE LockFails(t)
    BY <2>1, <2>2, <2>5
       DEF RunningHaveDynId, NeedsLock, ReadyToWrite, LockFails, OccupyFail, TypeOK, LockTableTypeOK, OccupyLock
  <2>6. CASE LockSteal(t)
    BY <2>1, <2>2, <2>3, <2>6 DEF LockSteal, OccupySteal, TypeOK, LockTableTypeOK, OccupyLock
  <2>. QED  BY <1>5, <2>4, <2>5, <2>6
<1>6. ASSUME NEW t \in Tx, pc[t] = "steal", StealDone(t)  PROVE TypeOK'
  <2>1. Cmd(t).key \in Keys
    BY <1>6, CmdType DEF WriteInProgress, Command
  <2>. QED  BY <1>6, <2>1 DEF StealDone, TypeOK, LockTableTypeOK, managerVars, lockTableVars
<1>7. ASSUME NEW t \in Tx, ApplySet(t) \/ ApplyInsert(t)  PROVE TypeOK'
  <2>. USE DEF managerVars, lockTableVars
  <2>1. /\ HasCommand(t)
        /\ Cmd(t).op = "SET" => view[t][Cmd(t).from] # Absent
    BY <1>7 DEF ApplySet, ApplyInsert, ReadyToWrite, WriteInProgress
  <2>2. Cmd(t).key \in Keys /\ NewValue(t) \in Int
    BY <2>1, CmdType, NewValueType DEF Command
  <2>3. chain[Cmd(t).key] \in Chain
    BY <2>2 DEF TypeOK
  <2>4. CASE AddItem(t, Cmd(t).key)
    <3>1. items' \in [Tx -> [Keys -> WriteItem \cup {Absent}]]
      <4>1. [val |-> NewValue(t), base |-> chain[Cmd(t).key]] \in WriteItem
        BY <2>2, <2>3 DEF WriteItem
      <4>. QED  BY <2>2, <2>4, <4>1 DEF AddItem, TypeOK
    <3>2. view' \in [Tx -> [Keys -> Int \cup {Absent}]]
      BY <2>2, <2>4 DEF AddItem, TypeOK
    <3>3. pc' \in [Tx -> Places] /\ ip' \in [Tx -> Nat \ {0}] /\ cause' = cause
      BY <2>4 DEF AddItem, NextCommand, TypeOK
    <3>. QED
      BY <1>7, <3>1, <3>2, <3>3, SMTT(60) DEF ApplySet, ApplyInsert, TypeOK, LockTableTypeOK
  <2>5. CASE UNCHANGED <<ip, view, items>>
    BY <1>7, <2>5 DEF ApplySet, ApplyInsert, AddItem, TypeOK, LockTableTypeOK
  <2>. QED  BY <1>7, <2>4, <2>5 DEF ApplySet, ApplyInsert
<1>8. ASSUME NEW t \in Tx, Rewrite(t)  PROVE TypeOK'
  <2>1. Cmd(t).key \in Keys /\ NewValue(t) \in Int
    BY <1>8, CmdType, NewValueType DEF Rewrite, ReadyToWrite, Command
  <2>2. items' \in [Tx -> [Keys -> WriteItem \cup {Absent}]]
    <3>1. items[t][Cmd(t).key] \in WriteItem
      BY <1>8, <2>1 DEF Rewrite, TypeOK
    <3>2. [items[t][Cmd(t).key] EXCEPT !.val = NewValue(t)] \in WriteItem
      BY <2>1, <3>1 DEF WriteItem
    <3>3. items' = [items EXCEPT ![t][Cmd(t).key] =
                       [items[t][Cmd(t).key] EXCEPT !.val = NewValue(t)]]
      BY <1>8 DEF Rewrite
    <3>. QED  BY <2>1, <3>2, <3>3 DEF TypeOK
  <2>. QED
    BY <1>8, <2>1, <2>2, SMTT(60)
       DEF Rewrite, NextCommand, TypeOK, LockTableTypeOK, managerVars, lockTableVars
<1>9. ASSUME NEW t \in Tx, CommitLock(t) \/ LogCommit(t) \/ CommitUnlock(t)  PROVE TypeOK'
  <2>. USE DEF TypeOK, LockTableTypeOK, executorVars, managerVars, lockTableVars
  <2>1. CASE CommitLock(t)
    BY <2>1 DEF CommitLock
  <2>2. CASE LogCommit(t)
    BY <2>2 DEF LogCommit
  <2>3. CASE CommitUnlock(t)
    BY <2>3 DEF CommitUnlock
  <2>. QED  BY <1>9, <2>1, <2>2, <2>3
<1>10. ASSUME NEW t \in Tx, NEW k \in Keys, LinkItem(t, k)  PROVE TypeOK'
  <2>1. items[t][k] \in WriteItem
    BY <1>10 DEF LinkItem, ItemsToLink, TypeOK
  <2>2. Link(items[t][k].base, writeTs[t], items[t][k].val) \in Chain
    <3>1. items[t][k].base \in Chain /\ items[t][k].val \in Int /\ writeTs[t] \in Nat
      BY <2>1 DEF TypeOK, WriteItem
    <3>. QED  BY <3>1, LinkProperties
  <2>. QED
    BY <1>10, <2>2 DEF LinkItem, TypeOK, LockTableTypeOK, workerVars, managerVars, lockTableVars
<1>11. ASSUME NEW t \in Tx, NEW k \in Keys, UnlockKey(t, k)  PROVE TypeOK'
  <2>1. lockOf' \in [Keys -> OccupyLock]
    <3>0. lockOf[k] \in OccupyLock
      BY DEF TypeOK, LockTableTypeOK
    <3>1. [lockOf[k] EXCEPT !.occupied = FALSE] \in OccupyLock
      BY <3>0 DEF OccupyLock
    <3>. QED  BY <1>11, <3>1 DEF UnlockKey, OccupyUnlock, TypeOK, LockTableTypeOK
  <2>. QED
    BY <1>11, <2>1 DEF UnlockKey, OccupyUnlock, TypeOK, LockTableTypeOK, workerVars, managerVars
<1>12. ASSUME NEW t \in Tx, AbortDone(t)  PROVE TypeOK'
  BY <1>12 DEF AbortDone, OccupyAbortFinish, TypeOK, LockTableTypeOK, executorVars,
               managerVars, lockTableVars
<1>13. ASSUME NEW t \in Tx, AwaitEnd(t) \/ End(t) \/ WakeSpuriously(t)  PROVE TypeOK'
  <2>1. CASE StealDone(t) /\ pc[t] = "steal"
    BY <1>6, <2>1
  <2>2. CASE AwaitEnd(t) \/ End(t)
    BY <2>2 DEF AwaitEnd, End, TypeOK, LockTableTypeOK, executorVars, managerVars, lockTableVars
  <2>3. CASE pc[t] = "await" /\ WakeSpuriously(t)
    BY <2>3 DEF WakeSpuriously, TypeOK, LockTableTypeOK, executorVars, managerVars, lockTableVars
  <2>. QED  BY <1>13, <2>1, <2>2, <2>3 DEF WakeSpuriously
<1>14. ASSUME NEW t \in Tx, AwaitVictim(t)  PROVE TypeOK'
  BY <1>6, <1>14 DEF AwaitVictim
<1>. QED
  BY <1>1, <1>2, <1>3, <1>4, <1>5, <1>7, <1>8, <1>9, <1>10, <1>11, <1>12, <1>13, <1>14
     DEF NextSpurious, Next, Stopped, Step, WalkOn

-------------------------------------------------------------------------------
(* The lock protocol, one kind of step after the other *)

(* What the lock protocol sees of a transaction that neither waits nor      *)
(* aborts nor has ended.                                                   *)
Inside == {"run", "apply", "lost", "publish", "unlock", "crash"}

(* A step within a running attempt that takes and frees no lock.            *)
LEMMA InsideStep ==
    ASSUME TypeOK, Protocol, NEW t \in Tx, NEW p \in Inside, pc[t] \in Inside,
           pc' = [pc EXCEPT ![t] = p],
           UNCHANGED <<prog, waitTx, dyn, locked, cause, lockTableVars>>,
           \A u \in Tx : u # t => ip'[u] = ip[u]
    PROVE  Protocol'
<1>. USE DEF Inside, lockTableVars, TypeOK
<1>1. DynIdsDistinct' /\ RunningHaveDynId' /\ OutsideHoldNothing'
  BY DEF Protocol, DynIdsDistinct, RunningHaveDynId, OutsideHoldNothing
<1>2. AbortingExact'
  <2>1. \A u \in Tx : GivingWay(u)' <=> GivingWay(u)
    BY DEF GivingWay
  <2>. QED  BY <2>1 DEF Protocol, AbortingExact
<1>3. WriteExclusion' /\ ThiefHolds'
  BY DEF Protocol, WriteExclusion, ThiefHolds, HeldBy, Cmd
<1>4. OccupierKnows'
  BY ZenonT(60) DEF Protocol, OccupierKnows, Cmd
<1>5. NoCycleComing'
  <2>1. \A u, w \in Tx : WillWaitFor(u, w)' <=> WillWaitFor(u, w)
    BY DEF WillWaitFor, GivingWay
  <2>. QED  BY <2>1 DEF Protocol, NoCycleComing
<1>. QED  BY <1>1, <1>2, <1>3, <1>4, <1>5 DEF Protocol

(* An attempt that aborts for a reason of its own keeps its locks for now    *)
(* and will wait for nobody.                                               *)
LEMMA OwnAbortStep ==
    ASSUME TypeOK, Protocol, NEW t \in Tx, pc[t] \in Inside,
           pc' = [pc EXCEPT ![t] = "abort"],
           cause' = [cause EXCEPT ![t] = "retry"] \/ cause' = [cause EXCEPT ![t] = "finish"],
           UNCHANGED <<prog, ip, waitTx, dyn, locked, lockTableVars>>
    PROVE  Protocol'
<1>. USE DEF Inside, lockTableVars, TypeOK
<1>1. DynIdsDistinct' /\ RunningHaveDynId' /\ OutsideHoldNothing'
  BY DEF Protocol, DynIdsDistinct, RunningHaveDynId, OutsideHoldNothing
<1>2. \A u \in Tx : GivingWay(u)' <=> GivingWay(u)
  BY DEF GivingWay
<1>3. AbortingExact'
  BY <1>2 DEF Protocol, AbortingExact
<1>4. WriteExclusion' /\ ThiefHolds'
  BY DEF Protocol, WriteExclusion, ThiefHolds, HeldBy, Cmd
<1>5. OccupierKnows'
  BY DEF Protocol, OccupierKnows, Cmd
<1>6. NoCycleComing'
  <2>1. \A u, w \in Tx : WillWaitFor(u, w)' <=> WillWaitFor(u, w)
    BY <1>2 DEF WillWaitFor
  <2>. QED  BY <2>1 DEF Protocol, NoCycleComing
<1>. QED  BY <1>1, <1>3, <1>4, <1>5, <1>6 DEF Protocol

(* An attempt begins: its ID is new, and it has no lock (OutsideHoldNothing *)
(* and OccupierKnows), so nothing refers to its old ID.                     *)
LEMMA BeginStep ==
    ASSUME TypeOK, Protocol, NEW t \in Tx, Begin(t)
    PROVE  Protocol'
<1>. USE DEF lockTableVars, TypeOK, At, Goto
<1>0. /\ dyn'[t] \in DynIds /\ dyn'[t] # NoDyn
      /\ \A u \in Tx : u # t => dyn'[u] = dyn[u] /\ dyn[u] # dyn'[t]
      /\ dyn'[t] \notin aborting
      /\ locked[t] = {} /\ locked' = locked
      /\ pc[t] = "begin" /\ pc'[t] = "run"
  <2>1. NewDynId(t) \in DynIds /\ NewDynId(t) \notin DynIdsInUse(t)
    BY NewDynIdFresh DEF Begin
  <2>2. dyn' = [dyn EXCEPT ![t] = NewDynId(t)]
    BY DEF Begin
  <2>3. locked[t] = {} /\ locked' = [locked EXCEPT ![t] = {}] /\ pc[t] = "begin"
    BY DEF Begin, Protocol, OutsideHoldNothing
  <2>4. locked' = locked /\ pc'[t] = "run"
    BY <2>3 DEF Begin
  <2>. QED  BY <2>1, <2>2, <2>3, <2>4, DynIdsAssumption, ZenonT(60) DEF DynIdsInUse
<1>1. DynIdsDistinct' /\ RunningHaveDynId' /\ OutsideHoldNothing'
  <2>1. DynIdsDistinct'
    BY <1>0 DEF Begin, Protocol, DynIdsDistinct
  <2>2. RunningHaveDynId' /\ OutsideHoldNothing'
    BY <1>0 DEF Begin, Protocol, RunningHaveDynId, OutsideHoldNothing
  <2>. QED  BY <2>1, <2>2
<1>2. \A u \in Tx : GivingWay(u)' <=> GivingWay(u)
  BY DEF Begin, GivingWay
<1>3. AbortingExact'
  <2>1. ~ GivingWay(t)
    BY <1>0 DEF GivingWay
  <2>2. \A u \in Tx : GivingWay(u) => dyn'[u] = dyn[u]
    BY <1>0, <2>1
  <2>3. aborting' = aborting
    BY DEF Begin
  <2>. QED  BY <1>2, <2>2, <2>3, ZenonT(60) DEF Protocol, AbortingExact
<1>4. WriteExclusion' /\ ThiefHolds'
  BY <1>0, SMTT(60) DEF Begin, Protocol, WriteExclusion, ThiefHolds, HeldBy, Cmd
<1>5. OccupierKnows'
  BY <1>0 DEF Begin, Protocol, OccupierKnows, Cmd
<1>6. NoCycleComing'
  <2>1. \A u, w \in Tx : WillWaitFor(u, w)' <=> WillWaitFor(u, w)
    BY <1>2 DEF Begin, WillWaitFor
  <2>. QED  BY <2>1 DEF Protocol, NoCycleComing
<1>. QED  BY <1>1, <1>3, <1>4, <1>5, <1>6 DEF Protocol

(* The lock goes to t, which had no lock on the key: from nobody, or from    *)
(* an attempt that is giving way, which WriteExclusion does not count.      *)
LEMMA GrantStep ==
    ASSUME TypeOK, Protocol, NEW t \in Tx, LockFree(t) \/ LockSteal(t),
           NEW k \in Keys, k = Cmd(t).key
    PROVE  Protocol'
<1>. USE DEF TypeOK, At, Goto
<1>0. /\ k \notin locked[t] /\ pc[t] = "run"
      /\ lockOf' = [lockOf EXCEPT ![k] = [occupied |-> TRUE, tx |-> t, dyn |-> dyn[t]]]
      /\ UNCHANGED <<prog, ip, dyn, aborting, cause, waitTx>>
      /\ \A u \in Tx : Cmd(u)' = Cmd(u)
      /\ dyn[t] # NoDyn
  <2>1. NeedsLock(t)
    BY DEF LockFree, LockSteal
  <2>3. UNCHANGED <<prog, ip, dyn, aborting, cause, waitTx>> /\ Grant(k, t, dyn[t])
    BY DEF LockFree, LockSteal, OccupyFree, OccupySteal
  <2>4. pc[t] = "run" /\ k \notin locked[t]
    BY <2>1 DEF NeedsLock, ReadyToWrite
  <2>. QED  BY <2>3, <2>4 DEF Grant, Cmd, Protocol, RunningHaveDynId
<1>00. \/ pc' = [pc EXCEPT ![t] = "apply"] /\ locked' = [locked EXCEPT ![t] = @ \cup {k}]
       \/ pc' = [pc EXCEPT ![t] = "steal"] /\ locked' = locked
  BY DEF LockFree, LockSteal
<1>1. DynIdsDistinct' /\ RunningHaveDynId' /\ OutsideHoldNothing'
  BY <1>0, <1>00, ZenonT(60) DEF Protocol, DynIdsDistinct, RunningHaveDynId, OutsideHoldNothing
<1>2. \A u \in Tx : GivingWay(u)' <=> GivingWay(u)
  BY <1>0, <1>00 DEF GivingWay
<1>3. AbortingExact'
  BY <1>0, <1>2 DEF Protocol, AbortingExact
<1>4. ASSUME NEW u \in Tx, u # t, pc[u] # "abort", lockOf[k].dyn = dyn[u]
      PROVE  ~ lockOf[k].occupied \/ lockOf[k].dyn \notin aborting
  <2>1. SUFFICES ASSUME lockOf[k].dyn \in aborting  PROVE FALSE
    OBVIOUS
  <2>2. PICK w \in Tx : GivingWay(w) /\ dyn[w] = dyn[u]
    BY <1>4, <2>1 DEF Protocol, AbortingExact
  <2>3. w = u
    <3>1. dyn[u] # NoDyn
      BY <1>4, <2>1, DynIdsAssumption DEF LockTableTypeOK
    <3>. QED  BY <2>2, <3>1 DEF Protocol, DynIdsDistinct
  <2>. QED  BY <1>4, <2>2, <2>3 DEF GivingWay
<1>5. ~ lockOf[k].occupied \/ lockOf[k].dyn \in aborting
  BY DEF LockFree, LockSteal, OccupyFree, OccupySteal
<1>6. \A u \in Tx : u # t /\ pc[u] # "abort" => ~ HeldBy(k, u, dyn[u])
  BY <1>4, <1>5 DEF HeldBy
<1>7. HeldBy(k, t, dyn[t])' /\ \A l \in Keys : l # k => lockOf'[l] = lockOf[l]
  BY <1>0 DEF HeldBy, LockTableTypeOK
<1>8. WriteExclusion'
  <2>1. SUFFICES ASSUME NEW u \in Tx, pc'[u] # "abort", NEW l \in locked'[u]
                 PROVE  HeldBy(l, u, dyn[u])'
    BY DEF WriteExclusion
  <2>2. CASE l = k
    <3>1. u = t
      BY <1>00, <1>6, <2>1, <2>2 DEF Protocol, WriteExclusion
    <3>. QED  BY <1>7, <2>2, <3>1
  <2>3. CASE l # k
    <3>1. l \in Keys /\ l \in locked[u] /\ pc[u] # "abort"
      <4>1. pc[u] # "abort"
        BY <1>0, <1>00, <2>1
      <4>2. \A x \in locked'[u] : x \in locked[u] \/ x = k
        <5>1. CASE locked' = [locked EXCEPT ![t] = @ \cup {k}]
          BY <5>1
        <5>. QED  BY <1>00, <5>1
      <4>3. l \in locked[u]
        BY <2>1, <2>3, <4>2
      <4>. QED  BY <4>1, <4>3
    <3>. QED  BY <1>0, <1>7, <2>3, <3>1 DEF Protocol, WriteExclusion, HeldBy
  <2>. QED  BY <2>2, <2>3
<1>9. ThiefHolds'
  <2>1. SUFFICES ASSUME NEW u \in Tx, pc'[u] = "steal"
                 PROVE  HeldBy(Cmd(u).key, u, dyn[u])'
    BY DEF ThiefHolds
  <2>2. CASE u = t
    BY <1>0, <1>7, <2>2
  <2>3. CASE u # t
    <3>1. HeldBy(Cmd(u).key, u, dyn[u]) /\ pc[u] = "steal"
      BY <1>00, <2>1, <2>3 DEF Protocol, ThiefHolds
    <3>2. Cmd(u).key # k
      BY <1>6, <2>3, <3>1
    <3>3. lockOf'[Cmd(u).key] = lockOf[Cmd(u).key]
      BY <1>0, <3>2 DEF LockTableTypeOK
    <3>. QED  BY <1>0, <3>1, <3>3 DEF HeldBy
  <2>. QED  BY <2>2, <2>3
<1>10. OccupierKnows'
  <2>1. SUFFICES ASSUME NEW l \in Keys, lockOf'[l].occupied
                 PROVE  /\ lockOf'[l].tx \in Tx
                        /\ lockOf'[l].dyn = dyn'[lockOf'[l].tx]
                        /\ \/ l \in locked'[lockOf'[l].tx]
                           \/ pc'[lockOf'[l].tx] = "steal" /\ (Cmd(lockOf[l].tx).key)' = l
    BY DEF OccupierKnows
  <2>2. CASE l = k
    BY <1>0, <1>00, <1>7, <2>2 DEF HeldBy
  <2>3. CASE l # k
    <3>1. lockOf'[l] = lockOf[l]
      BY <1>7, <2>3
    <3>2. /\ lockOf[l].tx \in Tx
          /\ lockOf[l].dyn = dyn[lockOf[l].tx]
          /\ \/ l \in locked[lockOf[l].tx]
             \/ pc[lockOf[l].tx] = "steal" /\ Cmd(lockOf[l].tx).key = l
      BY <2>1, <3>1 DEF Protocol, OccupierKnows
    <3>3. ASSUME NEW u \in Tx
          PROVE  /\ l \in locked[u] => l \in locked'[u]
                 /\ pc[u] = "steal" => pc'[u] = "steal"
      BY <1>0, <1>00
    <3>4. \A u \in Tx : Cmd(u)' = Cmd(u) /\ dyn'[u] = dyn[u]
      BY <1>0
    <3>. QED  BY <3>1, <3>2, <3>3, <3>4
  <2>. QED  BY <2>2, <2>3
<1>11. NoCycleComing'
  <2>1. \A u, w \in Tx : WillWaitFor(u, w)' <=> WillWaitFor(u, w)
    BY <1>0, <1>00, <1>2 DEF WillWaitFor
  <2>. QED  BY <2>1 DEF Protocol, NoCycleComing
<1>. QED  BY <1>1, <1>3, <1>8, <1>9, <1>10, <1>11 DEF Protocol

(* An attempt that fails to get a lock is aborting from the same step on.    *)
(* The transaction it is going to wait for is not: so the new waits-for     *)
(* edge ends where no edge begins, and closes no cycle.                     *)
LEMMA FailStep ==
    ASSUME TypeOK, Protocol, NEW t \in Tx, LockFails(t),
           NEW k \in Keys, k = Cmd(t).key
    PROVE  Protocol'
<1>. USE DEF TypeOK, At, Goto
<1>0. /\ pc[t] = "run" /\ k \notin locked[t]
      /\ lockOf[k].occupied /\ lockOf[k].dyn \notin aborting
      /\ aborting' = aborting \cup {dyn[t]}
      /\ pc' = [pc EXCEPT ![t] = "abort"]
      /\ cause' = [cause EXCEPT ![t] = "wait"]
      /\ waitTx' = [waitTx EXCEPT ![t] = lockOf[k].tx]
      /\ UNCHANGED <<prog, ip, dyn, locked, lockOf>>
  BY DEF LockFails, NeedsLock, ReadyToWrite, OccupyFail, AbortFor
<1>1. DynIdsDistinct' /\ RunningHaveDynId' /\ OutsideHoldNothing'
  BY <1>0 DEF Protocol, DynIdsDistinct, RunningHaveDynId, OutsideHoldNothing
<1>2. \A u \in Tx : GivingWay(u)' <=> (GivingWay(u) \/ u = t)
  BY <1>0 DEF GivingWay
<1>3. AbortingExact'
  BY <1>0, <1>2 DEF Protocol, AbortingExact
<1>4. WriteExclusion' /\ ThiefHolds'
  BY <1>0 DEF Protocol, WriteExclusion, ThiefHolds, HeldBy, Cmd
<1>5. OccupierKnows'
  BY <1>0 DEF Protocol, OccupierKnows, Cmd
<1>6. PICK o \in Tx : o = lockOf[k].tx /\ o # t
  BY <1>0 DEF Protocol, OccupierKnows
<1>7. \A w \in Tx : ~ WillWaitFor(o, w)'
  <2>1. pc[o] # "await"
    BY <1>0, <1>6 DEF Protocol, OccupierKnows, OutsideHoldNothing
  <2>2. ~ GivingWay(o)
    <3>1. dyn[o] \notin aborting
      BY <1>0, <1>6 DEF Protocol, OccupierKnows
    <3>. QED  BY <1>6, <3>1 DEF Protocol, AbortingExact
  <2>. QED  BY <1>0, <1>6, <2>1, <2>2 DEF WillWaitFor, GivingWay
<1>8. NoCycleComing'
  <2>1. SUFFICES ASSUME NEW S \in SUBSET Tx, S # {}
                 PROVE  \E u \in S : \A w \in S : ~ WillWaitFor(u, w)'
    BY DEF NoCycleComing
  <2>2. CASE o \in S
    BY <1>7, <2>2
  <2>3. CASE o \notin S
    <3>1. PICK u \in S : \A w \in S : ~ WillWaitFor(u, w)
      BY <2>1 DEF Protocol, NoCycleComing
    <3>2. \A w \in S : ~ WillWaitFor(u, w)'
      BY <1>0, <1>6, <2>3, <3>1 DEF WillWaitFor, GivingWay
    <3>. QED  BY <3>2
  <2>. QED  BY <2>2, <2>3
<1>. QED  BY <1>1, <1>3, <1>4, <1>5, <1>8 DEF Protocol

(* A thief goes on with the lock it has had since it took it over.           *)
LEMMA StealDoneStep ==
    ASSUME TypeOK, Protocol, NEW t \in Tx, pc[t] = "steal", StealDone(t),
           NEW k \in Keys, k = Cmd(t).key
    PROVE  Protocol'
<1>. USE DEF TypeOK, At, Goto
<1>0. /\ pc' = [pc EXCEPT ![t] = "apply"]
      /\ locked' = [locked EXCEPT ![t] = @ \cup {k}]
      /\ HeldBy(k, t, dyn[t])
      /\ UNCHANGED <<prog, ip, dyn, lockOf, aborting, cause, waitTx>>
  BY DEF StealDone, lockTableVars, Protocol, ThiefHolds
<1>1. DynIdsDistinct' /\ RunningHaveDynId' /\ OutsideHoldNothing'
  BY <1>0 DEF Protocol, DynIdsDistinct, RunningHaveDynId, OutsideHoldNothing
<1>2. \A u \in Tx : GivingWay(u)' <=> GivingWay(u)
  BY <1>0 DEF GivingWay
<1>3. AbortingExact'
  BY <1>0, <1>2 DEF Protocol, AbortingExact
<1>4. WriteExclusion'
  BY <1>0 DEF Protocol, WriteExclusion, HeldBy
<1>5. ThiefHolds'
  BY <1>0 DEF Protocol, ThiefHolds, HeldBy, Cmd
<1>6. OccupierKnows'
  BY <1>0 DEF Protocol, OccupierKnows, HeldBy, Cmd
<1>7. NoCycleComing'
  <2>1. \A u, w \in Tx : WillWaitFor(u, w)' <=> WillWaitFor(u, w)
    BY <1>0, <1>2 DEF WillWaitFor
  <2>. QED  BY <2>1 DEF Protocol, NoCycleComing
<1>. QED  BY <1>1, <1>3, <1>4, <1>5, <1>6, <1>7 DEF Protocol

(* The holder of a key frees it.  One that has lost the key to a thief      *)
(* changes nothing: the lock names the thief.                               *)
LEMMA UnlockStep ==
    ASSUME TypeOK, Protocol, NEW t \in Tx, NEW k \in Keys, UnlockKey(t, k)
    PROVE  Protocol'
<1>. USE DEF TypeOK, At, Goto
<1>0. /\ pc[t] \in {"unlock", "abort"}
      /\ k \in locked[t]
      /\ lockOf' = IF lockOf[k].tx = t THEN [lockOf EXCEPT ![k].occupied = FALSE] ELSE lockOf
      /\ locked' = [locked EXCEPT ![t] = @ \ {k}]
      /\ UNCHANGED <<prog, pc, ip, dyn, aborting, cause, waitTx>>
  BY DEF UnlockKey, OccupyUnlock, workerVars
<1>1. DynIdsDistinct' /\ RunningHaveDynId' /\ OutsideHoldNothing'
  BY <1>0 DEF Protocol, DynIdsDistinct, RunningHaveDynId, OutsideHoldNothing
<1>2. \A u \in Tx : GivingWay(u)' <=> GivingWay(u)
  BY <1>0 DEF GivingWay
<1>3. AbortingExact'
  BY <1>0, <1>2 DEF Protocol, AbortingExact
<1>4. \A l \in Keys : lockOf'[l] = lockOf[l] \/ (l = k /\ lockOf[k].tx = t)
  BY <1>0 DEF LockTableTypeOK
<1>5. WriteExclusion'
  <2>1. SUFFICES ASSUME NEW u \in Tx, pc'[u] # "abort", NEW l \in locked'[u]
                 PROVE  HeldBy(l, u, dyn[u])'
    BY DEF WriteExclusion
  <2>2. l \in Keys /\ l \in locked[u] /\ pc[u] # "abort"
    BY <1>0, <2>1
  <2>3. HeldBy(l, u, dyn[u])
    BY <2>2 DEF Protocol, WriteExclusion
  <2>4. ~ (l = k /\ lockOf[k].tx = t)
    BY <1>0, <2>1, <2>3 DEF HeldBy
  <2>. QED  BY <1>0, <1>4, <2>2, <2>3, <2>4 DEF HeldBy
<1>6. ThiefHolds'
  <2>1. SUFFICES ASSUME NEW u \in Tx, pc'[u] = "steal"
                 PROVE  HeldBy(Cmd(u).key, u, dyn[u])'
    BY DEF ThiefHolds
  <2>2. HeldBy(Cmd(u).key, u, dyn[u]) /\ u # t
    BY <1>0, <2>1 DEF Protocol, ThiefHolds
  <2>3. lockOf'[Cmd(u).key] = lockOf[Cmd(u).key]
    BY <1>0, <2>2 DEF HeldBy, LockTableTypeOK
  <2>. QED  BY <1>0, <2>2, <2>3 DEF HeldBy, Cmd
<1>7. OccupierKnows'
  <2>1. SUFFICES ASSUME NEW l \in Keys, lockOf'[l].occupied
                 PROVE  /\ lockOf'[l].tx \in Tx
                        /\ lockOf'[l].dyn = dyn'[lockOf'[l].tx]
                        /\ \/ l \in locked'[lockOf'[l].tx]
                           \/ pc'[lockOf'[l].tx] = "steal" /\ (Cmd(lockOf[l].tx).key)' = l
    BY DEF OccupierKnows
  <2>2. lockOf'[l] = lockOf[l] /\ ~ (l = k /\ lockOf[l].tx = t)
    BY <1>0, <1>4, <2>1 DEF LockTableTypeOK, OccupyLock
  <2>3. /\ lockOf[l].tx \in Tx
        /\ lockOf[l].dyn = dyn[lockOf[l].tx]
        /\ \/ l \in locked[lockOf[l].tx]
           \/ pc[lockOf[l].tx] = "steal" /\ Cmd(lockOf[l].tx).key = l
    BY <2>1, <2>2 DEF Protocol, OccupierKnows
  <2>. QED  BY <1>0, <2>2, <2>3 DEF Cmd
<1>8. NoCycleComing'
  <2>1. \A u, w \in Tx : WillWaitFor(u, w)' <=> WillWaitFor(u, w)
    BY <1>0, <1>2 DEF WillWaitFor
  <2>. QED  BY <2>1 DEF Protocol, NoCycleComing
<1>. QED  BY <1>1, <1>3, <1>5, <1>6, <1>7, <1>8 DEF Protocol

(* With all keys unlocked an attempt ends, aborted or committed: it waits,   *)
(* begins again, or is over.                                                *)
LEMMA LeaveStep ==
    ASSUME TypeOK, Protocol, NEW t \in Tx,
           \/ AbortDone(t) \/ CommitUnlock(t) \/ End(t) \/ AwaitEnd(t)
           \/ pc[t] = "await" /\ WakeSpuriously(t)
    PROVE  Protocol'
<1>. USE DEF TypeOK, At, Goto, executorVars, managerVars, lockTableVars
<1>0. /\ pc[t] \in {"abort", "unlock", "end", "await"}
      /\ pc'[t] \in {"await", "begin", "end", "done"}
      /\ \A u \in Tx : u # t => pc'[u] = pc[u]
      /\ locked[t] = {}
      /\ UNCHANGED <<prog, ip, dyn, locked, lockOf, cause, waitTx>>
  BY DEF AbortDone, OccupyAbortFinish, CommitUnlock, End, AwaitEnd, WakeSpuriously,
         Protocol, OutsideHoldNothing
<1>1. DynIdsDistinct' /\ RunningHaveDynId' /\ OutsideHoldNothing'
  BY <1>0 DEF Protocol, DynIdsDistinct, RunningHaveDynId, OutsideHoldNothing
<1>2. \A u \in Tx : GivingWay(u)' <=> (GivingWay(u) /\ u # t)
  BY <1>0 DEF GivingWay
<1>3. \/ GivingWay(t) /\ pc'[t] = "await" /\ aborting' = aborting \ {dyn[t]}
      \/ ~ GivingWay(t) /\ pc'[t] # "await" /\ aborting' = aborting
  BY DEF AbortDone, OccupyAbortFinish, CommitUnlock, End, AwaitEnd, WakeSpuriously, GivingWay
<1>4. AbortingExact'
  <2>1. CASE ~ GivingWay(t)
    BY <1>0, <1>2, <1>3, <2>1 DEF Protocol, AbortingExact
  <2>2. CASE GivingWay(t)
    <3>1. \A u \in Tx : u # t => dyn[u] # dyn[t]
      BY <2>2 DEF GivingWay, Protocol, DynIdsDistinct, RunningHaveDynId
    <3>. QED  BY <1>0, <1>2, <1>3, <2>2, <3>1 DEF Protocol, AbortingExact
  <2>. QED  BY <2>1, <2>2
<1>5. WriteExclusion' /\ ThiefHolds'
  BY <1>0 DEF Protocol, WriteExclusion, ThiefHolds, HeldBy, Cmd
<1>6. OccupierKnows'
  BY <1>0, SMTT(60) DEF Protocol, OccupierKnows, Cmd
<1>7. NoCycleComing'
  <2>1. \A u, w \in Tx : WillWaitFor(u, w)' => WillWaitFor(u, w)
    BY <1>0, <1>2, <1>3 DEF WillWaitFor
  <2>. QED  BY <2>1 DEF Protocol, NoCycleComing
<1>. QED  BY <1>1, <1>4, <1>5, <1>6, <1>7 DEF Protocol

-------------------------------------------------------------------------------
(* The invariant and what follows from it *)

LEMMA InitLockInv == Init => LockInv
<1>. SUFFICES ASSUME Init PROVE LockInv
  OBVIOUS
<1>1. TypeOK
  BY InitTypeOK
<1>2. WriteInProgress
  BY DEF Init, WriteInProgress
<1>3. /\ DynIdsDistinct /\ RunningHaveDynId /\ WriteExclusion /\ ThiefHolds
      /\ OutsideHoldNothing
  BY DEF Init, DynIdsDistinct, RunningHaveDynId, WriteExclusion, ThiefHolds, OutsideHoldNothing
<1>4. AbortingExact /\ OccupierKnows
  BY DEF Init, LockTableInit, AbortingExact, GivingWay, OccupierKnows
<1>5. NoCycleComing
  BY DEF Init, NoCycleComing, WillWaitFor, GivingWay
<1>. QED  BY <1>1, <1>2, <1>3, <1>4, <1>5 DEF LockInv, Protocol

(* A write stays in progress: only its own transaction moves ip and view.    *)
LEMMA NextWriteInProgress ==
    ASSUME TypeOK, WriteInProgress, [NextSpurious]_vars
    PROVE  WriteInProgress'
<1>. USE DEF TypeOK, At, Goto, AbortFor
<1>0. SUFFICES ASSUME NEW u \in Tx, pc'[u] \in {"steal", "apply"}
               PROVE  /\ HasCommand(u)'
                      /\ Cmd(u).op' \in {"SET", "INSERT"}
                      /\ Cmd(u).op' = "SET" => view'[u][Cmd(u).from'] # Absent
  BY DEF WriteInProgress
<1>1. ASSUME prog' = prog, ip'[u] = ip[u], view'[u] = view[u],
             pc[u] \in {"steal", "apply"} \/ NeedsLock(u)
      PROVE  /\ HasCommand(u)'
             /\ Cmd(u).op' \in {"SET", "INSERT"}
             /\ Cmd(u).op' = "SET" => view'[u][Cmd(u).from'] # Absent
  BY <1>1 DEF WriteInProgress, NeedsLock, ReadyToWrite, HasCommand, Cmd
<1>2. CASE UNCHANGED vars
  BY <1>0, <1>1, <1>2 DEF vars, workerVars
<1>3. ASSUME NEW t \in Tx, t # u, Step(t) \/ WakeSpuriously(t)
      PROVE  prog' = prog /\ ip'[u] = ip[u] /\ view'[u] = view[u] /\ pc'[u] = pc[u]
  <2>. USE DEF vars, workerVars, executorVars, NextCommand
  <2>1. CASE Begin(t) \/ ReadKey(t) \/ WalkOn(t) \/ OutputRow(t)
    BY <1>3, <2>1 DEF Begin, ReadKey, WalkOn, OutputRow
  <2>2. CASE LockFree(t) \/ LockFails(t) \/ LockSteal(t) \/ AwaitVictim(t) \/ WakeSpuriously(t)
    BY <1>3, <2>2 DEF LockFree, LockFails, LockSteal, AwaitVictim, StealDone, WakeSpuriously
  <2>3. CASE ApplySet(t) \/ Rewrite(t) \/ ApplyInsert(t)
    BY <1>3, <2>3 DEF ApplySet, Rewrite, ApplyInsert, AddItem
  <2>4. CASE CommitLock(t) \/ LogCommit(t) \/ CommitUnlock(t)
    BY <1>3, <2>4 DEF CommitLock, LogCommit, CommitUnlock
  <2>5. CASE (\E k \in Keys : LinkItem(t, k) \/ UnlockKey(t, k))
    BY <1>3, <2>5 DEF LinkItem, UnlockKey
  <2>6. CASE AbortDone(t) \/ AwaitEnd(t) \/ End(t)
    BY <1>3, <2>6 DEF AbortDone, AwaitEnd, End
  <2>. QED  BY <1>3, <2>1, <2>2, <2>3, <2>4, <2>5, <2>6 DEF Step
<1>4. ASSUME Step(u) \/ WakeSpuriously(u)
      PROVE  LockFree(u) \/ LockSteal(u) \/ (pc[u] = "steal" /\ StealDone(u)) \/ UNCHANGED vars
  <2>. USE DEF vars, workerVars, executorVars, NextCommand
  <2>1. CASE Begin(u) \/ ReadKey(u) \/ WalkOn(u) \/ OutputRow(u)
    BY <1>0, <2>1 DEF Begin, ReadKey, WalkOn, OutputRow
  <2>2. CASE LockFails(u) \/ AwaitVictim(u) \/ WakeSpuriously(u)
    BY <1>0, <2>2 DEF LockFails, AwaitVictim, StealDone, WakeSpuriously
  <2>3. CASE ApplySet(u) \/ Rewrite(u) \/ ApplyInsert(u)
    BY <1>0, <2>3 DEF ApplySet, Rewrite, ApplyInsert, ReadyToWrite, AddItem
  <2>4. CASE CommitLock(u) \/ LogCommit(u) \/ CommitUnlock(u)
    BY <1>0, <2>4 DEF CommitLock, LogCommit, CommitUnlock
  <2>5. CASE (\E k \in Keys : LinkItem(u, k) \/ UnlockKey(u, k))
    BY <1>0, <2>5 DEF LinkItem, UnlockKey
  <2>6. CASE AbortDone(u) \/ AwaitEnd(u) \/ End(u)
    BY <1>0, <2>6 DEF AbortDone, AwaitEnd, End
  <2>. QED  BY <1>4, <2>1, <2>2, <2>3, <2>4, <2>5, <2>6 DEF Step
<1>5. ASSUME Step(u) \/ WakeSpuriously(u)
      PROVE  /\ HasCommand(u)'
             /\ Cmd(u).op' \in {"SET", "INSERT"}
             /\ Cmd(u).op' = "SET" => view'[u][Cmd(u).from'] # Absent
  <2>1. CASE LockFree(u) \/ LockSteal(u) \/ (pc[u] = "steal" /\ StealDone(u))
    BY <1>1, <2>1 DEF LockFree, LockSteal, StealDone
  <2>. QED  BY <1>2, <1>4, <1>5, <2>1
<1>. QED
  BY <1>0, <1>1, <1>2, <1>3, <1>5 DEF NextSpurious, Next, Stopped

(* Every step is of one of the kinds above.                                  *)
LEMMA NextProtocol ==
    ASSUME LockInv, [NextSpurious]_vars
    PROVE  Protocol'
<1>. USE DEF LockInv, At, Goto, AbortFor, managerVars, executorVars, lockTableVars
<1>0. TypeOK /\ WriteInProgress /\ Protocol
  OBVIOUS
<1>1. CASE UNCHANGED vars
  BY <1>1 DEF vars, workerVars, Protocol, DynIdsDistinct, RunningHaveDynId, AbortingExact,
     WriteExclusion, ThiefHolds, OccupierKnows, OutsideHoldNothing, NoCycleComing,
     WillWaitFor, GivingWay, HeldBy, Cmd
<1>2. ASSUME NEW t \in Tx, Begin(t)  PROVE Protocol'
  BY <1>0, <1>2, BeginStep
<1>3. ASSUME NEW t \in Tx, ReadKey(t)  PROVE Protocol'
  <2>1. CASE AbortFor(t, "finish")
    BY <1>0, <1>3, <2>1, OwnAbortStep DEF ReadKey, Inside
  <2>2. CASE UNCHANGED <<pc, cause>>
    <3>1. pc' = [pc EXCEPT ![t] = "run"]
      BY <1>3, <2>2 DEF ReadKey, TypeOK
    <3>. QED  BY <1>0, <1>3, <2>2, <3>1, InsideStep DEF ReadKey, Inside
  <2>3. CASE Goto(t, "lost") /\ cause' = cause
    BY <1>0, <1>3, <2>3, InsideStep DEF ReadKey, Inside
  <2>. QED  BY <1>3, <2>1, <2>2, <2>3 DEF ReadKey
<1>4. ASSUME NEW t \in Tx, OutputRow(t) \/ Rewrite(t)  PROVE Protocol'
  <2>1. /\ pc[t] = "run" /\ pc' = [pc EXCEPT ![t] = "run"]
        /\ UNCHANGED <<prog, waitTx, dyn, locked, cause, lockTableVars>>
        /\ \A u \in Tx : u # t => ip'[u] = ip[u]
    BY <1>4 DEF OutputRow, Rewrite, ReadyToWrite, NextCommand, TypeOK
  <2>. QED  BY <1>0, <2>1, InsideStep DEF Inside
<1>5. ASSUME NEW t \in Tx, LockFree(t) \/ LockFails(t) \/ LockSteal(t)  PROVE Protocol'
  <2>1. Cmd(t).key \in Keys
    BY <1>0, <1>5, CmdType DEF LockFree, LockFails, LockSteal, NeedsLock, ReadyToWrite, Command
  <2>. QED  BY <1>0, <1>5, <2>1, GrantStep, FailStep
<1>6. ASSUME NEW t \in Tx, pc[t] = "steal", StealDone(t)  PROVE Protocol'
  <2>1. Cmd(t).key \in Keys
    BY <1>0, <1>6, CmdType DEF WriteInProgress, Command
  <2>. QED  BY <1>0, <1>6, <2>1, StealDoneStep
<1>7. ASSUME NEW t \in Tx, ApplySet(t) \/ ApplyInsert(t)  PROVE Protocol'
  <2>1. /\ pc[t] \in Inside
        /\ UNCHANGED <<prog, waitTx, dyn, locked, lockTableVars>>
    BY <1>7 DEF ApplySet, ApplyInsert, ReadyToWrite, Inside
  <2>2. CASE \E k : AddItem(t, k)
    <3>1. pc' = [pc EXCEPT ![t] = "run"] /\ cause' = cause /\ \A u \in Tx : u # t => ip'[u] = ip[u]
      BY <2>2 DEF AddItem, NextCommand, TypeOK
    <3>. QED  BY <1>0, <2>1, <3>1, InsideStep DEF Inside
  <2>3. CASE UNCHANGED ip /\ (AbortFor(t, "retry") \/ AbortFor(t, "finish"))
    BY <1>0, <2>1, <2>3, OwnAbortStep
  <2>4. CASE Goto(t, "crash") /\ UNCHANGED <<ip, cause>>
    BY <1>0, <2>1, <2>4, InsideStep DEF Inside
  <2>. QED  BY <1>7, <2>2, <2>3, <2>4 DEF ApplySet, ApplyInsert
<1>8. ASSUME NEW t \in Tx, CommitLock(t) \/ LogCommit(t)  PROVE Protocol'
  <2>1. /\ pc[t] \in Inside
        /\ pc' = [pc EXCEPT ![t] = "publish"] \/ pc' = [pc EXCEPT ![t] = "unlock"]
        /\ UNCHANGED <<prog, ip, waitTx, dyn, locked, cause, lockTableVars>>
    BY <1>8 DEF CommitLock, LogCommit, Inside
  <2>. QED  BY <1>0, <2>1, InsideStep DEF Inside
<1>9. ASSUME NEW t \in Tx, NEW k \in Keys, LinkItem(t, k)  PROVE Protocol'
  <2>1. /\ pc[t] = "publish" /\ pc' = [pc EXCEPT ![t] = "publish"]
        /\ UNCHANGED <<prog, ip, waitTx, dyn, locked, cause, lockTableVars>>
    BY <1>9 DEF LinkItem, workerVars, TypeOK
  <2>. QED  BY <1>0, <2>1, InsideStep DEF Inside
<1>10. ASSUME NEW t \in Tx, NEW k \in Keys, UnlockKey(t, k)  PROVE Protocol'
  BY <1>0, <1>10, UnlockStep
<1>11. ASSUME NEW t \in Tx, AbortDone(t) \/ CommitUnlock(t) \/ AwaitEnd(t) \/ End(t)
       PROVE  Protocol'
  BY <1>0, <1>11, LeaveStep
<1>12. ASSUME NEW t \in Tx, WakeSpuriously(t) \/ AwaitVictim(t)  PROVE Protocol'
  <2>1. (pc[t] = "steal" /\ StealDone(t)) \/ (pc[t] = "await" /\ WakeSpuriously(t))
    BY <1>12 DEF WakeSpuriously, AwaitVictim
  <2>. QED  BY <1>0, <1>6, <2>1, LeaveStep
<1>. QED
  BY <1>1, <1>2, <1>3, <1>4, <1>5, <1>7, <1>8, <1>9, <1>10, <1>11, <1>12
     DEF NextSpurious, Next, Stopped, Step, WalkOn

(* The invariant holds in every state, with or without spurious wakeups.     *)
THEOREM LockInvHolds == SpuriousSpec => []LockInv
<1>1. LockInv /\ [NextSpurious]_vars => LockInv'
  <2>. SUFFICES ASSUME LockInv, [NextSpurious]_vars PROVE LockInv'
    OBVIOUS
  <2>1. TypeOK /\ WriteInProgress /\ RunningHaveDynId
    BY DEF LockInv, Protocol
  <2>. QED  BY <2>1, NextTypeOK, NextWriteInProgress, NextProtocol DEF LockInv
<1>. QED  BY <1>1, InitLockInv, PTL DEF SpuriousSpec

(* Without spurious wakeups there is only less to do.                        *)
LEMMA SpecIsPart == Spec => SpuriousSpec
<1>1. [Next]_vars => [NextSpurious]_vars
  BY DEF NextSpurious
<1>. QED  BY <1>1, PTL DEF Spec, SpuriousSpec

(* Types (TypeOK).                                                           *)
THEOREM TypesHold == Spec => []TypeOK
<1>1. LockInv => TypeOK
  BY DEF LockInv
<1>. QED  BY <1>1, LockInvHolds, SpecIsPart, PTL

(* No two writers of a key, even if every wait may end too early.            *)
THEOREM WriteExclusionHolds == SpuriousSpec => []WriteExclusion
<1>1. LockInv => WriteExclusion
  BY DEF LockInv, Protocol
<1>. QED  BY <1>1, LockInvHolds, PTL

(* A transaction that waits for the end of another holds no lock.            *)
THEOREM WaitersHoldNothingHolds == Spec => []WaitersHoldNothing
<1>1. LockInv => WaitersHoldNothing
  BY DEF LockInv, Protocol, OccupierKnows, OutsideHoldNothing, WaitersHoldNothing
<1>. QED  BY <1>1, LockInvHolds, SpecIsPart, PTL

(* No deadlock: a thief waits only for one that is giving way, and that one  *)
(* waits for nobody; what is left are the edges of WillWaitFor.              *)
THEOREM NoWaitCycleHolds == Spec => []NoWaitCycle
<1>1. ASSUME LockInv  PROVE NoWaitCycle
  <2>1. SUFFICES ASSUME NEW S \in SUBSET Tx, S # {}
                 PROVE  \E t \in S : \A u \in S : ~ WaitsFor(t, u)
    BY DEF NoWaitCycle
  <2>2. CASE \E t \in S : GivingWay(t)
    BY <2>2 DEF WaitsFor, GivingWay, At
  <2>3. CASE \A t \in S : ~ GivingWay(t)
    <3>1. PICK t \in S : \A u \in S : ~ WillWaitFor(t, u)
      BY <2>1, <1>1 DEF LockInv, Protocol, NoCycleComing
    <3>2. ASSUME NEW u \in S, WaitsFor(t, u)  PROVE FALSE
      <4>1. victim[t] \in aborting /\ victim[t] = dyn[u]
        BY <3>1, <3>2 DEF WaitsFor, WillWaitFor, At
      <4>2. PICK w \in Tx : GivingWay(w) /\ dyn[w] = dyn[u]
        BY <1>1, <4>1 DEF LockInv, Protocol, AbortingExact
      <4>3. dyn[u] # NoDyn
        BY <1>1, <4>1, DynIdsAssumption DEF LockInv, TypeOK, LockTableTypeOK
      <4>4. w = u
        BY <1>1, <4>2, <4>3 DEF LockInv, Protocol, DynIdsDistinct
      <4>. QED  BY <2>3, <4>2, <4>4
    <3>. QED  BY <3>2
  <2>. QED  BY <2>2, <2>3
<1>2. LockInv => NoWaitCycle
  BY <1>1
<1>. QED  BY <1>2, LockInvHolds, SpecIsPart, PTL

-------------------------------------------------------------------------------
(***************************************************************************)
(* Transactions implements SnapshotIsolation, for any transactions, keys,   *)
(* programs and initial values, and however often a wait ends too early.    *)
(***************************************************************************)

Running(t) == pc[t] \in {"run", "steal", "apply", "lost", "publish", "unlock", "crash"}
Committing(t) == pc[t] \in {"publish", "unlock"}
Written(t) == {k \in Keys : items[t][k] # Absent}

(* Whoever holds commit_mutex commits with the next timestamp, and has       *)
(* linked everything once it unlocks.                                       *)
CommitterOK ==
    /\ \A t \in Tx : Committing(t) <=> committer = t
    /\ \A t \in Tx : Committing(t) => /\ writeTs[t] = maxTs + 1
                                      /\ linked[t] \subseteq Written(t)
    /\ \A t \in Tx : pc[t] = "unlock" => Written(t) \subseteq linked[t]

SnapshotsOK ==
    /\ maxTs >= 1
    /\ \A t \in Tx : readTs[t] <= maxTs /\ (Running(t) => readTs[t] >= 1)

(* An attempt that goes on or has committed has no reason to abort.          *)
ReasonsOK ==
    \A t \in Tx : (Running(t) => cause[t] = "none") /\ (pc[t] = "abort" => cause[t] # "none")

(* A write item is for a locked key, has what local_map has, and its record  *)
(* stands on the newest version there is, which is in the snapshot.          *)
ItemOK(t, k) ==
    /\ view[t][k] = items[t][k].val
    /\ pc[t] # "unlock" => k \in locked[t]
    /\ \A i \in DOMAIN items[t][k].base : items[t][k].base[i].ts <= readTs[t]
    /\ chain[k] = IF Committing(t) /\ k \in linked[t]
                  THEN Link(items[t][k].base, writeTs[t], items[t][k].val)
                  ELSE items[t][k].base

ItemsOK == \A t \in Tx : Running(t) => \A k \in Written(t) : ItemOK(t, k)

ApplyHasLock == \A t \in Tx : pc[t] = "apply" => Cmd(t).key \in locked[t]

SnapInv ==
    /\ CommitterOK /\ SnapshotsOK /\ ReasonsOK
    /\ ItemsOK /\ ApplyHasLock /\ VersionsOrdered
-------------------------------------------------------------------------------
(* What a reader finds in a chain.                                          *)
LEMMA ReadAtIs ==
    ASSUME NEW c \in Chain, NEW ts \in Nat, NEW i \in VisibleAt(c, ts),
           \A j \in VisibleAt(c, ts) : i <= j
    PROVE  ReadAt(c, ts) = c[i].val
<1>1. VisibleAt(c, ts) \in SUBSET Nat
  BY DEF VisibleAt, Chain
<1>2. \A m \in VisibleAt(c, ts) : (\A j \in VisibleAt(c, ts) : m <= j) => m = i
  BY <1>1
<1>3. (CHOOSE m \in VisibleAt(c, ts) : \A j \in VisibleAt(c, ts) : m <= j) = i
  BY <1>2
<1>. QED  BY <1>3 DEF ReadAt

(* A version that is too new makes no difference.                            *)
LEMMA LinkTooNew ==
    ASSUME NEW c \in Chain, NEW w \in Nat, NEW v \in Int, NEW ts \in Nat, ts < w
    PROVE  /\ VisibleAt(Link(c, w, v), ts) = {} <=> VisibleAt(c, ts) = {}
           /\ VisibleAt(c, ts) # {} => ReadAt(Link(c, w, v), ts) = ReadAt(c, ts)
           /\ (\E i \in DOMAIN Link(c, w, v) : Link(c, w, v)[i].ts = ts)
                <=> (\E i \in DOMAIN c : c[i].ts = ts)
<1>. DEFINE d == Link(c, w, v)
<1>0. /\ d \in Chain /\ Len(d) = Len(c) + 1 /\ d[1] = [ts |-> w, val |-> v]
      /\ \A i \in 1 .. Len(c) : d[i + 1] = c[i]
  BY LinkProperties
<1>. HIDE DEF d
<1>1. /\ d \in Chain /\ Len(d) = Len(c) + 1 /\ d[1].ts = w
      /\ \A i \in 1 .. Len(c) : d[i + 1] = c[i]
      /\ DOMAIN d = 1 .. Len(c) + 1 /\ DOMAIN c = 1 .. Len(c) /\ Len(c) \in Nat
  BY <1>0 DEF Chain
<1>2. \A i \in 1 .. Len(c) + 1 : i = 1 \/ (i - 1 \in 1 .. Len(c) /\ d[i] = c[i - 1])
  <2>. SUFFICES ASSUME NEW i \in 1 .. Len(c) + 1, i # 1
                PROVE  i - 1 \in 1 .. Len(c) /\ d[i] = c[i - 1]
    OBVIOUS
  <2>1. i - 1 \in 1 .. Len(c) /\ (i - 1) + 1 = i
    BY <1>1
  <2>2. d[(i - 1) + 1] = c[i - 1]
    BY <1>1, <2>1
  <2>. QED  BY <2>1, <2>2
<1>3. \A i \in VisibleAt(d, ts) : i \in Nat /\ i - 1 \in VisibleAt(c, ts)
  <2>. SUFFICES ASSUME NEW i \in VisibleAt(d, ts) PROVE i \in Nat /\ i - 1 \in VisibleAt(c, ts)
    OBVIOUS
  <2>1. i \in 1 .. Len(c) + 1 /\ d[i].ts <= ts /\ i # 1
    BY <1>1 DEF VisibleAt
  <2>2. i - 1 \in 1 .. Len(c) /\ d[i] = c[i - 1]
    BY <1>2, <2>1
  <2>. QED  BY <1>1, <2>1, <2>2 DEF VisibleAt
<1>4. \A i \in VisibleAt(c, ts) : i \in 1 .. Len(c) /\ i + 1 \in VisibleAt(d, ts)
  <2>. SUFFICES ASSUME NEW i \in VisibleAt(c, ts)
                PROVE  i \in 1 .. Len(c) /\ i + 1 \in VisibleAt(d, ts)
    OBVIOUS
  <2>1. i \in 1 .. Len(c) /\ c[i].ts <= ts
    BY <1>1 DEF VisibleAt
  <2>2. i + 1 \in 1 .. Len(c) + 1 /\ d[i + 1] = c[i]
    BY <1>1, <2>1
  <2>. QED  BY <1>1, <2>1, <2>2 DEF VisibleAt
<1>5. VisibleAt(d, ts) = {} <=> VisibleAt(c, ts) = {}
  BY <1>3, <1>4
<1>6. ASSUME VisibleAt(c, ts) # {} PROVE ReadAt(d, ts) = ReadAt(c, ts)
  <2>1. PICK i \in VisibleAt(c, ts) : \A j \in VisibleAt(c, ts) : i <= j
    BY <1>6, ReadAtNewestVisible
  <2>2. ReadAt(c, ts) = c[i].val
    BY <2>1, ReadAtIs
  <2>3. PICK k \in VisibleAt(d, ts) : k = i + 1
    BY <1>4
  <2>4. \A j \in VisibleAt(d, ts) : k <= j
    <3>. SUFFICES ASSUME NEW j \in VisibleAt(d, ts) PROVE k <= j
      OBVIOUS
    <3>1. j \in Nat /\ j - 1 \in VisibleAt(c, ts)
      BY <1>3
    <3>2. i <= j - 1 /\ i \in Nat
      BY <1>4, <2>1, <3>1
    <3>. QED  BY <2>3, <3>1, <3>2
  <2>5. ReadAt(d, ts) = d[k].val
    BY <1>1, <2>4, ReadAtIs
  <2>6. d[k] = c[i]
    BY <1>1, <1>4, <2>3
  <2>. QED  BY <2>2, <2>5, <2>6
<1>7. (\E i \in DOMAIN d : d[i].ts = ts) <=> (\E i \in DOMAIN c : c[i].ts = ts)
  <2>1. ASSUME NEW i \in DOMAIN d, d[i].ts = ts PROVE \E j \in DOMAIN c : c[j].ts = ts
    <3>1. i # 1
      BY <1>1, <2>1
    <3>. QED  BY <1>1, <1>2, <2>1, <3>1
  <2>2. ASSUME NEW i \in DOMAIN c, c[i].ts = ts PROVE \E j \in DOMAIN d : d[j].ts = ts
    <3>1. i + 1 \in DOMAIN d /\ d[i + 1] = c[i]
      BY <1>1
    <3>. QED  BY <2>2, <3>1
  <2>. QED  BY <2>1, <2>2
<1>. QED  BY <1>5, <1>6, <1>7 DEF d

(* A version that has come into the snapshot is the one that is read.        *)
LEMMA LinkVisible ==
    ASSUME NEW c \in Chain, NEW w \in Nat, NEW v \in Int
    PROVE  /\ VisibleAt(Link(c, w, v), w) # {} /\ ReadAt(Link(c, w, v), w) = v
           /\ \E i \in DOMAIN Link(c, w, v) : Link(c, w, v)[i].ts = w
<1>. DEFINE d == Link(c, w, v)
<1>0. d \in Chain /\ Len(d) = Len(c) + 1 /\ d[1] = [ts |-> w, val |-> v]
  BY LinkProperties
<1>. HIDE DEF d
<1>1. /\ d \in Chain /\ Len(d) = Len(c) + 1 /\ d[1].ts = w /\ d[1].val = v
      /\ DOMAIN d = 1 .. Len(c) + 1 /\ Len(c) \in Nat
  BY <1>0 DEF Chain
<1>2. 1 \in VisibleAt(d, w) /\ 1 \in DOMAIN d
  BY <1>1 DEF VisibleAt
<1>3. \A j \in VisibleAt(d, w) : 1 <= j
  BY <1>1 DEF VisibleAt
<1>4. ReadAt(d, w) = v
  BY <1>1, <1>2, <1>3, ReadAtIs
<1>. QED  BY <1>1, <1>2, <1>4 DEF d

(* A snapshot more shows nothing new of a key that nobody has written.       *)
LEMMA NothingNew ==
    ASSUME NEW c \in Chain, NEW m \in Nat, NEW n \in Nat, n = m + 1,
           \A i \in DOMAIN c : c[i].ts <= m
    PROVE  /\ VisibleAt(c, n) = VisibleAt(c, m) /\ ReadAt(c, n) = ReadAt(c, m)
           /\ ~ \E i \in DOMAIN c : c[i].ts = n
<1>1. \A i \in DOMAIN c : c[i].ts \in Nat
  <2>1. \A i \in DOMAIN c : c[i] \in Version
    BY DEF Chain
  <2>. QED  BY <2>1 DEF Version
<1>2. \A i \in DOMAIN c : c[i].ts <= n <=> c[i].ts <= m
  BY <1>1
<1>3. VisibleAt(c, n) = VisibleAt(c, m)
  BY <1>2 DEF VisibleAt
<1>4. ~ \E i \in DOMAIN c : c[i].ts = n
  BY <1>1
<1>. QED  BY <1>3, <1>4 DEF ReadAt

-------------------------------------------------------------------------------
(* The variables of SnapshotIsolation, as TransactionsProps maps them.      *)
HistOf == [ts \in 1..maxTs |-> [state |-> StateAt(ts), wrote |-> WroteAt(ts)]]
PhaseOf == [t \in Tx |-> Phase(t)]
WrittenOf == [t \in Tx |-> Written(t)]

(* A step that SnapshotIsolation has too, or does not see.                   *)
Allowed == [SI!Next]_(SI!vars)

(* The abstract actions, in terms of the mapped variables.                   *)
LEMMA Unseen ==
    ASSUME HistOf' = HistOf, PhaseOf' = PhaseOf, readTs' = readTs, view' = view,
           WrittenOf' = WrittenOf
    PROVE  Allowed
BY DEF Allowed, SI!vars, HistOf, PhaseOf, WrittenOf, Written

LEMMA SeenBegin ==
    ASSUME NEW t \in Tx, PhaseOf[t] = "idle", HistOf' = HistOf,
           PhaseOf' = [PhaseOf EXCEPT ![t] = "running"],
           readTs' = [readTs EXCEPT ![t] = Len(HistOf)],
           view' = [view EXCEPT ![t] = [k \in Keys |-> Absent]],
           WrittenOf' = [WrittenOf EXCEPT ![t] = {}]
    PROVE  Allowed
BY DEF Allowed, SI!Next, SI!Begin, HistOf, PhaseOf, WrittenOf, Written

LEMMA SeenRead ==
    ASSUME NEW t \in Tx, NEW k \in Keys, PhaseOf[t] = "running",
           view[t][k] = Absent, HistOf[readTs[t]].state[k] # Absent,
           view' = [view EXCEPT ![t][k] = HistOf[readTs[t]].state[k]],
           HistOf' = HistOf, PhaseOf' = PhaseOf, readTs' = readTs, WrittenOf' = WrittenOf
    PROVE  Allowed
BY DEF Allowed, SI!Next, SI!Read, HistOf, PhaseOf, WrittenOf, Written

LEMMA SeenWrite ==
    ASSUME NEW t \in Tx, NEW k \in Keys, PhaseOf[t] = "running",
           NEW v \in Int, view' = [view EXCEPT ![t][k] = v], view'[t][k] = v,
           WrittenOf' = [WrittenOf EXCEPT ![t] = @ \cup {k}],
           HistOf' = HistOf, PhaseOf' = PhaseOf, readTs' = readTs
    PROVE  Allowed
<1>1. view' = [view EXCEPT ![t][k] = view'[t][k]] /\ view'[t][k] \in Int
  OBVIOUS
<1>. QED
  BY <1>1 DEF Allowed, SI!Next, SI!Write, HistOf, PhaseOf, WrittenOf, Written

LEMMA SeenCommit ==
    ASSUME NEW t \in Tx, PhaseOf[t] = "running",
           \A i \in (readTs[t] + 1)..Len(HistOf) :
               HistOf[i].wrote \cap WrittenOf[t] = {},
           HistOf' = Append(HistOf,
                       [state |-> [k \in Keys |-> IF k \in WrittenOf[t]
                                                  THEN view[t][k]
                                                  ELSE HistOf[Len(HistOf)].state[k]],
                        wrote |-> WrittenOf[t]]),
           PhaseOf' = [PhaseOf EXCEPT ![t] = "committed"],
           readTs' = readTs, view' = view, WrittenOf' = WrittenOf
    PROVE  Allowed
BY DEF Allowed, SI!Next, SI!Commit, HistOf, PhaseOf, WrittenOf, Written

LEMMA SeenAbort ==
    ASSUME NEW t \in Tx, PhaseOf[t] = "running", NEW p \in {"idle", "failed"},
           PhaseOf' = [PhaseOf EXCEPT ![t] = p],
           HistOf' = HistOf, readTs' = readTs, view' = view, WrittenOf' = WrittenOf
    PROVE  Allowed
BY DEF Allowed, SI!Next, SI!Abort, HistOf, PhaseOf, WrittenOf, Written

-------------------------------------------------------------------------------
(* The steps that leave versions, timestamps and write items as they are     *)

LEMMA PhaseStep ==
    ASSUME TypeOK, NEW t \in Tx, NEW p,
           \A u \in Tx : u # t => pc'[u] = pc[u] /\ cause'[u] = cause[u],
           Phase(t)' = p
    PROVE  PhaseOf' = [PhaseOf EXCEPT ![t] = p]
<1>1. \A u \in Tx : u # t => Phase(u)' = Phase(u)
  BY DEF Phase
<1>. QED  BY <1>1 DEF PhaseOf

LEMMA RunningPhase ==
    ASSUME TypeOK, NEW t \in Tx
    PROVE  Running(t) <=> Phase(t) = "running"
BY DEF Running, Phase, TypeOK, Places

LEMMA SameHist ==
    ASSUME UNCHANGED <<chain, maxTs>>
    PROVE  HistOf' = HistOf
BY DEF HistOf, StateAt, WroteAt

LEMMA SameWritten ==
    ASSUME UNCHANGED items
    PROVE  WrittenOf' = WrittenOf /\ \A t \in Tx : Written(t)' = Written(t)
BY DEF WrittenOf, Written

LEMMA QuietStep ==
    ASSUME SnapInv, NEW t \in Tx,
           UNCHANGED <<chain, maxTs, committer, writeTs, linked, readTs, items, prog>>,
           \A u \in Tx : u # t => /\ pc'[u] = pc[u] /\ view'[u] = view[u]
                                  /\ cause'[u] = cause[u] /\ locked'[u] = locked[u]
                                  /\ ip'[u] = ip[u],
           Committing(t)' <=> Committing(t),
           pc'[t] = "unlock" => Written(t) \subseteq linked[t],
           Running(t)' => Running(t) /\ cause'[t] = "none",
           Running(t)' => \A k \in Written(t) :
                             /\ view'[t][k] = view[t][k]
                             /\ pc'[t] # "unlock" => pc[t] # "unlock" /\ k \in locked'[t],
           pc'[t] = "abort" => cause'[t] # "none",
           pc'[t] = "apply" => Cmd(t).key' \in locked'[t]
    PROVE  SnapInv'
<1>1. \A u \in Tx : Written(u)' = Written(u)
  BY DEF Written
<1>2. \A u \in Tx : Committing(u)' <=> Committing(u)
  BY DEF Committing
<1>3. \A u \in Tx : Running(u)' => Running(u)
  BY DEF Running
<1>4. CommitterOK'
  <2>1. \A u \in Tx : (Committing(u) <=> committer = u)'
    BY <1>2 DEF SnapInv, CommitterOK
  <2>2. \A u \in Tx : (Committing(u) => /\ writeTs[u] = maxTs + 1
                                        /\ linked[u] \subseteq Written(u))'
    BY <1>1, <1>2 DEF SnapInv, CommitterOK
  <2>3. \A u \in Tx : (pc[u] = "unlock" => Written(u) \subseteq linked[u])'
    BY <1>1 DEF SnapInv, CommitterOK
  <2>. QED  BY <2>1, <2>2, <2>3 DEF CommitterOK
<1>5. SnapshotsOK'
  BY <1>3 DEF SnapInv, SnapshotsOK
<1>6. ReasonsOK'
  <2>1. \A u \in Tx : u # t => (Running(u)' <=> Running(u))
    BY DEF Running
  <2>. QED  BY <2>1 DEF SnapInv, ReasonsOK
<1>7. ItemsOK'
  <2>. SUFFICES ASSUME NEW u \in Tx, Running(u)', NEW k \in Written(u)
                PROVE  ItemOK(u, k)'
    BY <1>1 DEF ItemsOK
  <2>1. Running(u)
    BY <1>3
  <2>2. ItemOK(u, k)
    BY <2>1 DEF SnapInv, ItemsOK
  <2>3. /\ view'[u][k] = view[u][k]
        /\ pc'[u] # "unlock" => k \in locked'[u]
    <3>1. CASE u = t
      BY <3>1
    <3>2. CASE u # t
      BY <2>2, <3>2 DEF ItemOK
    <3>. QED  BY <3>1, <3>2
  <2>. QED  BY <1>2, <2>2, <2>3 DEF ItemOK
<1>8. ApplyHasLock'
  BY DEF SnapInv, ApplyHasLock, Cmd
<1>9. VersionsOrdered'
  BY DEF SnapInv, VersionsOrdered
<1>. QED  BY <1>4, <1>5, <1>6, <1>7, <1>8, <1>9 DEF SnapInv

(* A step of another kind than begin, write and commit leaves the running    *)
(* attempt running, or aborts it.                                           *)
LEMMA SeenPhase ==
    ASSUME TypeOK, NEW t \in Tx,
           UNCHANGED <<chain, maxTs, readTs, view, items>>,
           \A u \in Tx : u # t => pc'[u] = pc[u] /\ cause'[u] = cause[u],
           \/ Phase(t)' = Phase(t)
           \/ Running(t) /\ Phase(t)' \in {"idle", "failed"}
    PROVE  Allowed
<1>1. HistOf' = HistOf /\ WrittenOf' = WrittenOf
  BY SameHist, SameWritten
<1>2. PhaseOf' = [PhaseOf EXCEPT ![t] = Phase(t)']
  BY PhaseStep
<1>3. PhaseOf[t] = Phase(t)
  BY DEF PhaseOf
<1>4. CASE Phase(t)' = Phase(t)
  <2>1. PhaseOf' = PhaseOf
    BY <1>2, <1>3, <1>4 DEF PhaseOf
  <2>. QED  BY <1>1, <2>1, Unseen
<1>5. CASE Running(t) /\ Phase(t)' \in {"idle", "failed"}
  <2>1. PhaseOf[t] = "running"
    BY <1>3, <1>5, RunningPhase
  <2>. QED  BY <1>1, <1>2, <1>5, <2>1, SeenAbort
<1>. QED  BY <1>4, <1>5

(* The attempt gives up, for whatever reason, before it commits.             *)
LEMMA GiveUpStep ==
    ASSUME LockInv, SnapInv, NEW t \in Tx, pc[t] \in {"run", "apply"},
           NEW why \in {"wait", "retry", "finish"}, AbortFor(t, why),
           UNCHANGED <<prog, ip, view, readTs, writeTs, items, linked, locked,
                       maxTs, committer, chain>>
    PROVE  SnapInv' /\ Allowed
<1>. USE DEF Running, Committing
<1>1. /\ pc'[t] = "abort" /\ cause'[t] = why
      /\ \A u \in Tx : u # t => pc'[u] = pc[u] /\ cause'[u] = cause[u]
  BY DEF LockInv, TypeOK, AbortFor, Goto
<1>2. SnapInv'
  BY <1>1, QuietStep
<1>3. Phase(t)' \in {"idle", "failed"}
  BY <1>1 DEF Phase
<1>. QED  BY <1>1, <1>2, <1>3, SeenPhase DEF LockInv

(* The value read is the one the snapshot has.                               *)
LEMMA ReadKeyStep ==
    ASSUME LockInv, SnapInv, NEW t \in Tx, ReadKey(t)
    PROVE  SnapInv' /\ Allowed
<1>. DEFINE k == Cmd(t).from
<1>0. TypeOK /\ pc[t] = "run" /\ HasCommand(t) /\ view[t][k] = Absent
      /\ UNCHANGED <<prog, ip, readTs, writeTs, items, linked, locked, maxTs, committer, chain>>
  BY DEF ReadKey, LockInv, At, managerVars
<1>1. k \in Keys
  BY <1>0, CmdType DEF Command
<1>2. k \notin Written(t)
  <2>. SUFFICES ASSUME k \in Written(t) PROVE FALSE
    OBVIOUS
  <2>1. Running(t) /\ view[t][k] = items[t][k].val
    BY <1>0 DEF SnapInv, ItemsOK, ItemOK, Running
  <2>2. items[t][k] \in WriteItem
    BY <1>0, <1>1 DEF TypeOK, Written
  <2>3. items[t][k].val \in Int
    BY <2>2 DEF WriteItem
  <2>. QED  BY <1>0, <2>1, <2>3, AbsentAssumption
<1>3. CASE AbortFor(t, "finish") /\ UNCHANGED view
  BY <1>0, <1>3, GiveUpStep
<1>4. CASE /\ VisibleAt(chain[k], readTs[t]) # {}
           /\ view' = [view EXCEPT ![t][k] = ReadAt(chain[k], readTs[t])]
           /\ UNCHANGED <<pc, cause>>
  <2>1. \A u \in Tx : u # t => view'[u] = view[u]
    BY <1>0, <1>4 DEF TypeOK
  <2>2. \A l \in Written(t) : view'[t][l] = view[t][l]
    BY <1>0, <1>2, <1>4 DEF TypeOK, Written
  <2>3. SnapInv'
    <3>1. Running(t) /\ cause[t] = "none"
      BY <1>0 DEF SnapInv, ReasonsOK, Running
    <3>2. \A l \in Written(t) : l \in locked[t]
      BY <1>0, <3>1 DEF SnapInv, ItemsOK, ItemOK
    <3>3. (Running(t) <=> Running(t)') /\ (Committing(t)' <=> Committing(t))
      BY <1>4 DEF Running, Committing
    <3>. QED  BY <1>0, <1>4, <2>1, <2>2, <3>1, <3>2, <3>3, QuietStep
  <2>4. HistOf' = HistOf /\ WrittenOf' = WrittenOf /\ PhaseOf' = PhaseOf
    BY <1>0, <1>4, SameHist, SameWritten DEF PhaseOf, Phase
  <2>5. PhaseOf[t] = "running"
    BY <1>0 DEF PhaseOf, Phase
  <2>6. readTs[t] \in 1 .. maxTs
    BY <1>0 DEF SnapInv, SnapshotsOK, Running, TypeOK
  <2>7. HistOf[readTs[t]].state[k] = ReadAt(chain[k], readTs[t])
    BY <1>1, <1>4, <2>6 DEF HistOf, StateAt
  <2>8. ReadAt(chain[k], readTs[t]) # Absent
    <3>1. chain[k] \in Chain /\ readTs[t] \in Nat
      BY <1>0, <1>1 DEF TypeOK
    <3>2. ReadAt(chain[k], readTs[t]) \in Int
      BY <1>4, <3>1, ReadAtNewestVisible
    <3>. QED  BY <3>2, AbsentAssumption
  <2>9. Allowed
    BY <1>0, <1>1, <1>4, <2>4, <2>5, <2>7, <2>8, SeenRead
  <2>. QED  BY <2>3, <2>9
<1>5. CASE Goto(t, "lost") /\ UNCHANGED <<view, cause>>
  <2>1. pc'[t] = "lost" /\ \A u \in Tx : u # t => pc'[u] = pc[u]
    BY <1>0, <1>5 DEF Goto, TypeOK
  <2>2. Running(t) /\ cause[t] = "none"
    BY <1>0 DEF SnapInv, ReasonsOK, Running
  <2>3. \A l \in Written(t) : l \in locked[t]
    BY <1>0, <2>2 DEF SnapInv, ItemsOK, ItemOK
  <2>4. SnapInv'
    BY <1>0, <1>5, <2>1, <2>2, <2>3, QuietStep DEF Committing
  <2>5. Phase(t)' = Phase(t)
    BY <1>0, <2>1 DEF Phase
  <2>. QED  BY <1>0, <1>5, <2>1, <2>4, <2>5, SeenPhase
<1>. QED  BY <1>3, <1>4, <1>5 DEF ReadKey

(* The attempt goes on, with the locks it has or one more.                   *)
LEMMA GoOnStep ==
    ASSUME LockInv, SnapInv, NEW t \in Tx, pc[t] \in {"run", "steal", "apply"},
           NEW p \in {"run", "steal", "apply", "crash"},
           pc' = [pc EXCEPT ![t] = p],
           UNCHANGED <<prog, view, readTs, writeTs, items, linked, cause,
                       maxTs, committer, chain>>,
           \A u \in Tx : u # t => ip'[u] = ip[u] /\ locked'[u] = locked[u],
           locked[t] \subseteq locked'[t],
           p = "apply" => Cmd(t).key' \in locked'[t]
    PROVE  SnapInv' /\ Allowed
<1>1. pc'[t] = p /\ \A u \in Tx : u # t => pc'[u] = pc[u]
  BY DEF LockInv, TypeOK
<1>2. Running(t) /\ cause[t] = "none"
  BY DEF SnapInv, ReasonsOK, Running
<1>3. \A l \in Written(t) : l \in locked[t]
  BY <1>2 DEF SnapInv, ItemsOK, ItemOK
<1>4. SnapInv'
  BY <1>1, <1>2, <1>3, QuietStep DEF Committing
<1>5. Phase(t)' = Phase(t)
  BY <1>1 DEF Phase
<1>. QED  BY <1>1, <1>4, <1>5, SeenPhase DEF LockInv

LEMMA OutputRowStep ==
    ASSUME LockInv, SnapInv, NEW t \in Tx, OutputRow(t)
    PROVE  SnapInv' /\ Allowed
<1>1. /\ pc[t] = "run" /\ pc' = [pc EXCEPT ![t] = "run"]
      /\ \A u \in Tx : u # t => ip'[u] = ip[u]
      /\ UNCHANGED <<prog, view, readTs, writeTs, items, linked, cause, locked,
                     maxTs, committer, chain>>
  BY DEF OutputRow, At, NextCommand, LockInv, TypeOK, executorVars, managerVars
<1>. QED  BY <1>1, GoOnStep

LEMMA LockStep ==
    ASSUME LockInv, SnapInv, NEW t \in Tx, LockFree(t) \/ LockFails(t) \/ LockSteal(t)
    PROVE  SnapInv' /\ Allowed
<1>0. /\ pc[t] = "run"
      /\ UNCHANGED <<prog, ip, view, readTs, writeTs, items, linked, maxTs, committer, chain>>
  BY DEF LockFree, LockFails, LockSteal, NeedsLock, ReadyToWrite, At, managerVars
<1>1. CASE LockFree(t)
  <2>1. /\ pc' = [pc EXCEPT ![t] = "apply"] /\ cause' = cause
        /\ \A u \in Tx : u # t => locked'[u] = locked[u]
        /\ locked'[t] = locked[t] \cup {Cmd(t).key} /\ Cmd(t)' = Cmd(t)
    BY <1>0, <1>1 DEF LockFree, Goto, LockInv, TypeOK, Cmd
  <2>. QED  BY <1>0, <2>1, GoOnStep
<1>2. CASE LockFails(t)
  BY <1>0, <1>2, GiveUpStep DEF LockFails
<1>3. CASE LockSteal(t)
  <2>1. pc' = [pc EXCEPT ![t] = "steal"] /\ UNCHANGED <<cause, locked>>
    BY <1>3 DEF LockSteal, Goto
  <2>. QED  BY <1>0, <2>1, GoOnStep
<1>. QED  BY <1>1, <1>2, <1>3

LEMMA StealDoneSnapStep ==
    ASSUME LockInv, SnapInv, NEW t \in Tx, pc[t] = "steal", StealDone(t)
    PROVE  SnapInv' /\ Allowed
<1>1. /\ pc' = [pc EXCEPT ![t] = "apply"]
      /\ \A u \in Tx : u # t => locked'[u] = locked[u]
      /\ locked'[t] = locked[t] \cup {Cmd(t).key} /\ Cmd(t)' = Cmd(t)
      /\ UNCHANGED <<prog, ip, view, readTs, writeTs, items, linked, cause, maxTs,
                     committer, chain>>
  BY DEF StealDone, Goto, LockInv, TypeOK, Cmd, managerVars
<1>. QED  BY <1>1, GoOnStep

(* The locks are given back, by a commit that is over or an abort.           *)
LEMMA UnlockSnapStep ==
    ASSUME LockInv, SnapInv, NEW t \in Tx, NEW k \in Keys, UnlockKey(t, k)
    PROVE  SnapInv' /\ Allowed
<1>1. /\ pc[t] \in {"unlock", "abort"}
      /\ \A u \in Tx : u # t => locked'[u] = locked[u]
      /\ UNCHANGED <<prog, pc, ip, view, readTs, writeTs, items, linked, cause, maxTs,
                     committer, chain>>
  BY DEF UnlockKey, At, LockInv, TypeOK, workerVars, managerVars
<1>2. pc[t] = "unlock" => Written(t) \subseteq linked[t]
  BY DEF SnapInv, CommitterOK
<1>3. /\ Running(t) => cause[t] = "none"
      /\ pc[t] = "abort" => cause[t] # "none"
  BY DEF SnapInv, ReasonsOK
<1>4. Running(t)' <=> Running(t)
  BY <1>1 DEF Running
<1>5. Running(t) => pc[t] = "unlock"
  BY <1>1 DEF Running
<1>6. SnapInv'
  BY <1>1, <1>2, <1>3, <1>4, <1>5, QuietStep DEF Committing
<1>7. Phase(t)' = Phase(t)
  BY <1>1 DEF Phase
<1>. QED  BY <1>1, <1>6, <1>7, SeenPhase DEF LockInv

(* Leaving: the attempt is over, or the transaction is.                      *)
LEMMA LeaveSnapStep ==
    ASSUME LockInv, SnapInv, NEW t \in Tx,
           \/ AbortDone(t) \/ End(t) \/ AwaitEnd(t)
           \/ pc[t] = "await" /\ WakeSpuriously(t)
    PROVE  SnapInv' /\ Allowed
<1>. USE DEF At, Goto, executorVars, managerVars
<1>1. /\ UNCHANGED <<prog, ip, view, readTs, writeTs, items, linked, locked, cause, maxTs,
                     committer, chain>>
      /\ \/ pc[t] = "abort" /\ cause[t] = "wait" /\ pc' = [pc EXCEPT ![t] = "await"]
         \/ pc[t] = "abort" /\ cause[t] = "retry" /\ pc' = [pc EXCEPT ![t] = "begin"]
         \/ pc[t] = "abort" /\ cause[t] = "finish" /\ pc' = [pc EXCEPT ![t] = "end"]
         \/ pc[t] = "end" /\ pc' = [pc EXCEPT ![t] = "done"]
         \/ pc[t] = "await" /\ pc' = [pc EXCEPT ![t] = "begin"]
  BY DEF AbortDone, End, AwaitEnd, WakeSpuriously
<1>2. /\ \A u \in Tx : u # t => pc'[u] = pc[u]
      /\ pc[t] \in {"abort", "end", "await"}
      /\ pc'[t] \in {"await", "begin", "end", "done"}
  BY <1>1 DEF LockInv, TypeOK
<1>3. SnapInv'
  BY <1>1, <1>2, QuietStep DEF Committing, Running
<1>4. Phase(t)' = Phase(t)
  BY <1>1 DEF Phase, LockInv, TypeOK
<1>. QED  BY <1>1, <1>2, <1>3, <1>4, SeenPhase DEF LockInv

LEMMA LogCommitStep ==
    ASSUME LockInv, SnapInv, NEW t \in Tx, LogCommit(t)
    PROVE  SnapInv' /\ Allowed
<1>1. /\ pc[t] = "publish" /\ pc'[t] = "unlock" /\ \A u \in Tx : u # t => pc'[u] = pc[u]
      /\ UNCHANGED <<prog, ip, view, readTs, writeTs, items, linked, locked, cause, maxTs,
                     committer, chain>>
  BY DEF LogCommit, At, Goto, LockInv, TypeOK, executorVars, managerVars
<1>2. Written(t) \subseteq linked[t]
  BY DEF LogCommit, ItemsToLink, Written
<1>3. Running(t) /\ cause[t] = "none"
  BY <1>1 DEF SnapInv, ReasonsOK, Running
<1>4. SnapInv'
  BY <1>1, <1>2, <1>3, QuietStep DEF Committing
<1>5. Phase(t)' = Phase(t)
  BY <1>1 DEF Phase
<1>. QED  BY <1>1, <1>4, <1>5, SeenPhase DEF LockInv

-------------------------------------------------------------------------------
(* The steps that matter                                                     *)

(* A sequence with one element more.                                        *)
LEMMA AppendIs ==
    ASSUME NEW S, NEW h \in Seq(S), NEW e, NEW f, NEW m \in Nat, NEW n \in Nat,
           n = m + 1, Len(h) = m, f = [i \in 1..n |-> f[i]],
           \A i \in 1..m : f[i] = h[i], f[n] = e
    PROVE  f = Append(h, e)
<1>. DEFINE T == S \cup {e}
<1>1. h \in Seq(T)
  BY SeqMonotonic
<1>2. e \in T
  OBVIOUS
<1>. HIDE DEF T
<1>3. /\ Append(h, e) \in Seq(T) /\ Len(Append(h, e)) = n
      /\ \A i \in 1..m : Append(h, e)[i] = h[i]
      /\ Append(h, e)[n] = e
  BY <1>1, <1>2, AppendProperties
<1>. DEFINE g == Append(h, e)
<1>4. g \in Seq(T) /\ Len(g) = n
  BY <1>3
<1>5. \A i \in 1..n : g[i] = f[i]
  <2>1. \A i \in 1..n : i \in 1..m \/ i = n
    OBVIOUS
  <2>. QED  BY <1>3, <2>1
<1>. HIDE DEF g
<1>6. g = [i \in 1..n |-> g[i]]
  BY <1>4, LenProperties
<1>. QED  BY <1>5, <1>6 DEF g

LEMMA HistLen ==
    ASSUME TypeOK
    PROVE  /\ HistOf \in Seq(SI!CommitEntry)
           /\ Len(HistOf) = maxTs /\ DOMAIN HistOf = 1..maxTs
<1>1. \A ts \in 1..maxTs : StateAt(ts) \in SI!DbState
  <2>. SUFFICES ASSUME NEW ts \in 1..maxTs, NEW k \in Keys,
                       VisibleAt(chain[k], ts) # {}
                PROVE  ReadAt(chain[k], ts) \in Int
    BY DEF StateAt, SI!DbState, SI!Value
  <2>1. chain[k] \in Chain /\ ts \in Nat
    BY DEF TypeOK
  <2>. QED  BY <2>1, ReadAtNewestVisible
<1>2. \A ts \in 1..maxTs : WroteAt(ts) \in SUBSET Keys
  BY DEF WroteAt
<1>3. HistOf \in [1..maxTs -> SI!CommitEntry]
  BY <1>1, <1>2 DEF HistOf, SI!CommitEntry
<1>. HIDE DEF HistOf
<1>4. maxTs \in Nat
  BY DEF TypeOK
<1>5. HistOf \in Seq(SI!CommitEntry)
  BY <1>3, <1>4, SeqDef
<1>. QED  BY <1>3, <1>4, <1>5, LenProperties

(* A new attempt reads the last state of the history.                        *)
LEMMA BeginSnapStep ==
    ASSUME LockInv, SnapInv, NEW t \in Tx, Begin(t)
    PROVE  SnapInv' /\ Allowed
<1>1. /\ pc[t] = "begin" /\ pc'[t] = "run" /\ cause'[t] = "none" /\ readTs'[t] = maxTs
      /\ \A u \in Tx : u # t => /\ pc'[u] = pc[u] /\ view'[u] = view[u]
                                /\ cause'[u] = cause[u] /\ locked'[u] = locked[u]
                                /\ ip'[u] = ip[u] /\ readTs'[u] = readTs[u]
                                /\ items'[u] = items[u]
      /\ items' = [items EXCEPT ![t] = Nothing]
      /\ view' = [view EXCEPT ![t] = Nothing]
      /\ readTs' = [readTs EXCEPT ![t] = maxTs]
      /\ UNCHANGED <<prog, writeTs, linked, maxTs, committer, chain>>
  BY DEF Begin, At, Goto, LockInv, TypeOK
<1>2. Written(t)' = {} /\ \A u \in Tx : u # t => Written(u)' = Written(u)
  BY <1>1 DEF LockInv, TypeOK, Written, Nothing
<1>3. \A u \in Tx : Committing(u)' <=> Committing(u)
  BY <1>1 DEF Committing
<1>4. ~ Committing(t) /\ maxTs \in Nat
  BY <1>1 DEF Committing, LockInv, TypeOK
<1>5. CommitterOK'
  BY <1>1, <1>2, <1>3, <1>4 DEF SnapInv, CommitterOK, Committing
<1>6. SnapshotsOK'
  <2>1. \A u \in Tx : u # t => (Running(u)' <=> Running(u))
    BY <1>1 DEF Running
  <2>. QED  BY <1>1, <1>4, <2>1 DEF SnapInv, SnapshotsOK
<1>7. ReasonsOK'
  <2>1. \A u \in Tx : u # t => (Running(u)' <=> Running(u))
    BY <1>1 DEF Running
  <2>. QED  BY <1>1, <2>1 DEF SnapInv, ReasonsOK
<1>8. ItemsOK'
  <2>. SUFFICES ASSUME NEW u \in Tx, Running(u)', NEW k \in Written(u)'
                PROVE  ItemOK(u, k)'
    BY DEF ItemsOK
  <2>1. u # t /\ Running(u) /\ k \in Written(u)
    BY <1>1, <1>2 DEF Running
  <2>2. ItemOK(u, k)
    BY <2>1 DEF SnapInv, ItemsOK
  <2>. QED  BY <1>1, <1>3, <2>1, <2>2 DEF ItemOK
<1>9. ApplyHasLock' /\ VersionsOrdered'
  BY <1>1 DEF SnapInv, ApplyHasLock, VersionsOrdered, Cmd
<1>10. SnapInv'
  BY <1>5, <1>6, <1>7, <1>8, <1>9 DEF SnapInv
<1>11. HistOf' = HistOf /\ Len(HistOf) = maxTs
  BY <1>1, SameHist, HistLen DEF LockInv
<1>12. WrittenOf' = [WrittenOf EXCEPT ![t] = {}]
  BY <1>2 DEF WrittenOf
<1>13. PhaseOf[t] = "idle" /\ PhaseOf' = [PhaseOf EXCEPT ![t] = "running"]
  <2>1. Phase(t) = "idle" /\ Phase(t)' = "running"
    BY <1>1 DEF Phase
  <2>. QED  BY <1>1, <2>1, PhaseStep DEF LockInv, PhaseOf
<1>14. Allowed
  BY <1>1, <1>11, <1>12, <1>13, SeenBegin DEF Nothing
<1>. QED  BY <1>10, <1>14

(* A write: the value is in local_map and in the write item, which stands on *)
(* the newest version there is.                                             *)
LEMMA WriteSnapStep ==
    ASSUME LockInv, SnapInv, NEW t \in Tx, NEW k \in Keys, NEW v \in Int,
           NEW i \in WriteItem, i.val = v,
           items' = [items EXCEPT ![t] = [items[t] EXCEPT ![k] = i]],
           view' = [view EXCEPT ![t][k] = v],
           pc[t] \in {"run", "apply"}, pc' = [pc EXCEPT ![t] = "run"],
           k \in locked[t], i.base = chain[k],
           \A j \in DOMAIN i.base : i.base[j].ts <= readTs[t],
           UNCHANGED <<prog, readTs, writeTs, linked, locked, cause, maxTs,
                       committer, chain>>,
           \A u \in Tx : u # t => ip'[u] = ip[u]
    PROVE  SnapInv' /\ Allowed
<1>0. i # Absent
  BY AbsentAssumption
<1>1. /\ pc'[t] = "run"
      /\ \A u \in Tx : u # t => pc'[u] = pc[u] /\ view'[u] = view[u] /\ items'[u] = items[u]
      /\ view'[t][k] = v /\ items'[t][k] = i
      /\ \A l \in Keys : l # k => view'[t][l] = view[t][l] /\ items'[t][l] = items[t][l]
  BY DEF LockInv, TypeOK
<1>2. Written(t)' = Written(t) \cup {k} /\ \A u \in Tx : u # t => Written(u)' = Written(u)
  BY <1>0, <1>1 DEF Written
<1>3. (\A u \in Tx : Committing(u)' <=> Committing(u)) /\ ~ Committing(t)
  BY <1>1 DEF Committing
<1>4. \A u \in Tx : Running(u)' <=> Running(u)
  BY <1>1 DEF Running
<1>5. CommitterOK'
  BY <1>1, <1>2, <1>3 DEF SnapInv, CommitterOK, Committing
<1>6. SnapshotsOK' /\ ReasonsOK'
  BY <1>1, <1>4 DEF SnapInv, SnapshotsOK, ReasonsOK
<1>7. ItemsOK'
  <2>. SUFFICES ASSUME NEW u \in Tx, Running(u)', NEW l \in Written(u)'
                PROVE  ItemOK(u, l)'
    BY DEF ItemsOK
  <2>1. CASE u = t /\ l = k
    BY <1>1, <1>3, <2>1 DEF ItemOK
  <2>2. CASE u # t \/ l # k
    <3>1. l \in Keys /\ l \in Written(u) /\ view'[u][l] = view[u][l] /\ items'[u][l] = items[u][l]
      BY <1>1, <1>2, <2>2 DEF Written
    <3>2. ItemOK(u, l)
      BY <1>4, <3>1 DEF SnapInv, ItemsOK
    <3>3. pc[u] # "unlock" => l \in locked[u]
      BY <3>2 DEF ItemOK
    <3>4. pc'[u] # "unlock" => l \in locked[u]
      BY <1>1, <3>3
    <3>. QED  BY <1>3, <3>1, <3>2, <3>4 DEF ItemOK
  <2>. QED  BY <2>1, <2>2
<1>8. ApplyHasLock' /\ VersionsOrdered'
  BY <1>1 DEF SnapInv, ApplyHasLock, VersionsOrdered, Cmd
<1>9. SnapInv'
  BY <1>5, <1>6, <1>7, <1>8 DEF SnapInv
<1>10. HistOf' = HistOf
  BY SameHist
<1>11. WrittenOf' = [WrittenOf EXCEPT ![t] = @ \cup {k}]
  BY <1>2 DEF WrittenOf
<1>12. PhaseOf[t] = "running" /\ PhaseOf' = PhaseOf
  <2>1. Phase(t) = "running" /\ \A u \in Tx : Phase(u)' = Phase(u)
    BY <1>1 DEF Phase
  <2>. QED  BY <2>1 DEF PhaseOf
<1>13. Allowed
  BY <1>1, <1>10, <1>11, <1>12, SeenWrite
<1>. QED  BY <1>9, <1>13

(* write_key and insert_key with the lock held.                              *)
LEMMA ApplySnapStep ==
    ASSUME LockInv, SnapInv, NEW t \in Tx, ApplySet(t) \/ ApplyInsert(t)
    PROVE  SnapInv' /\ Allowed
<1>. DEFINE k == Cmd(t).key
<1>0. TypeOK /\ WriteInProgress
  BY DEF LockInv
<1>1. /\ pc[t] \in {"run", "apply"} /\ k \in locked[t] /\ HasCommand(t)
      /\ Cmd(t).op = "SET" => view[t][Cmd(t).from] # Absent
      /\ UNCHANGED <<prog, readTs, writeTs, linked, locked, maxTs, committer, chain>>
  BY <1>0 DEF ApplySet, ApplyInsert, ReadyToWrite, At, WriteInProgress, SnapInv, ApplyHasLock,
              managerVars
<1>2. k \in Keys /\ NewValue(t) \in Int
  BY <1>0, <1>1, CmdType, NewValueType DEF Command
<1>3. chain[k] \in Chain
  BY <1>0, <1>2 DEF TypeOK
<1>4. CASE AbortFor(t, "finish") /\ UNCHANGED <<ip, view, items>>
  BY <1>1, <1>4, GiveUpStep
<1>5. CASE AbortFor(t, "retry") /\ UNCHANGED <<ip, view, items>>
  BY <1>1, <1>5, GiveUpStep
<1>6. CASE Goto(t, "crash") /\ UNCHANGED <<ip, view, items, cause>>
  BY <1>1, <1>6, GoOnStep DEF Goto
<1>7. ASSUME AddItem(t, k), chain[k] = <<>> \/ Head(chain[k]).ts <= readTs[t]
      PROVE  SnapInv' /\ Allowed
  <2>. DEFINE i == [val |-> NewValue(t), base |-> chain[k]]
  <2>1. i \in WriteItem /\ i.val = NewValue(t) /\ i.base = chain[k]
    BY <1>2, <1>3 DEF WriteItem
  <2>2. \A j \in DOMAIN chain[k] : chain[k][j].ts <= readTs[t]
    <3>. SUFFICES ASSUME NEW j \in DOMAIN chain[k] PROVE chain[k][j].ts <= readTs[t]
      OBVIOUS
    <3>1. /\ j \in Nat /\ j >= 1 /\ 1 \in DOMAIN chain[k]
          /\ chain[k] # <<>> /\ Head(chain[k]) = chain[k][1]
          /\ chain[k][j] \in Version /\ chain[k][1] \in Version
      BY <1>3 DEF Chain
    <3>2. chain[k][1].ts <= readTs[t] /\ readTs[t] \in Nat
      BY <1>0, <1>7, <3>1 DEF TypeOK
    <3>3. j = 1 \/ chain[k][1].ts > chain[k][j].ts
      BY <1>2, <3>1 DEF SnapInv, VersionsOrdered, NewestFirst
    <3>. QED  BY <3>1, <3>2, <3>3 DEF Version
  <2>3. /\ items' = [items EXCEPT ![t] = [items[t] EXCEPT ![k] = i]]
        /\ view' = [view EXCEPT ![t][k] = NewValue(t)]
        /\ pc' = [pc EXCEPT ![t] = "run"] /\ cause' = cause
        /\ \A u \in Tx : u # t => ip'[u] = ip[u]
    BY <1>0, <1>7 DEF AddItem, Goto, NextCommand, TypeOK
  <2>. HIDE DEF i, k
  <2>. QED  BY <1>1, <1>2, <2>1, <2>2, <2>3, WriteSnapStep
<1>. QED  BY <1>4, <1>5, <1>6, <1>7 DEF ApplySet, ApplyInsert

LEMMA RewriteSnapStep ==
    ASSUME LockInv, SnapInv, NEW t \in Tx, Rewrite(t)
    PROVE  SnapInv' /\ Allowed
<1>. DEFINE k == Cmd(t).key
<1>0. TypeOK
  BY DEF LockInv
<1>1. /\ pc[t] = "run" /\ k \in locked[t] /\ HasCommand(t) /\ items[t][k] # Absent
      /\ Cmd(t).op = "SET" => view[t][Cmd(t).from] # Absent
      /\ UNCHANGED <<prog, pc, readTs, writeTs, linked, locked, cause, maxTs, committer, chain>>
  BY <1>0 DEF Rewrite, ReadyToWrite, At, managerVars
<1>2. k \in Keys /\ NewValue(t) \in Int
  BY <1>0, <1>1, CmdType, NewValueType DEF Command
<1>. DEFINE i == [items[t][k] EXCEPT !.val = NewValue(t)]
<1>3. items[t][k] \in WriteItem
  BY <1>0, <1>1, <1>2 DEF TypeOK
<1>4. i \in WriteItem /\ i.val = NewValue(t) /\ i.base = items[t][k].base
  BY <1>2, <1>3 DEF WriteItem
<1>5. ItemOK(t, k) /\ ~ Committing(t)
  BY <1>1, <1>2 DEF SnapInv, ItemsOK, Running, Written, Committing
<1>6. i.base = chain[k] /\ \A j \in DOMAIN i.base : i.base[j].ts <= readTs[t]
  BY <1>4, <1>5 DEF ItemOK
<1>7. /\ items' = [items EXCEPT ![t] = [items[t] EXCEPT ![k] = i]]
      /\ view' = [view EXCEPT ![t][k] = NewValue(t)]
      /\ pc' = [pc EXCEPT ![t] = "run"]
      /\ \A u \in Tx : u # t => ip'[u] = ip[u]
  BY <1>0, <1>1 DEF Rewrite, NextCommand, TypeOK
<1>. HIDE DEF i, k
<1>. QED  BY <1>1, <1>2, <1>4, <1>6, <1>7, WriteSnapStep

(* commit_mutex is free: nobody commits, and no version is newer than maxTs. *)
LEMMA CommitLockStep ==
    ASSUME LockInv, SnapInv, NEW t \in Tx, CommitLock(t)
    PROVE  SnapInv' /\ Allowed
<1>1. /\ pc[t] = "run" /\ pc'[t] = "publish" /\ committer = NoTx /\ committer' = t
      /\ writeTs'[t] = maxTs + 1 /\ linked'[t] = {}
      /\ \A u \in Tx : u # t => pc'[u] = pc[u]
      /\ UNCHANGED <<prog, ip, view, readTs, items, locked, cause, maxTs, chain>>
      /\ t # NoTx
  BY NoTxAssumption DEF CommitLock, At, Goto, LockInv, TypeOK
<1>2. \A u \in Tx : Written(u)' = Written(u)
  BY <1>1 DEF Written
<1>3. \A u \in Tx : ~ Committing(u) /\ (Committing(u)' <=> u = t)
  <2>1. \A u \in Tx : ~ Committing(u)
    BY <1>1, NoTxAssumption DEF SnapInv, CommitterOK
  <2>. QED  BY <1>1, <2>1 DEF Committing
<1>4. \A u \in Tx : Running(u)' <=> Running(u)
  BY <1>1 DEF Running
<1>5. CommitterOK'
  <2>1. \A u \in Tx : pc'[u] # "unlock"
    BY <1>1, <1>3 DEF Committing
  <2>2. \A u \in Tx : (Committing(u) <=> committer = u)'
    BY <1>1, <1>3
  <2>3. \A u \in Tx : Committing(u)' =>
           (writeTs[u] = maxTs + 1)' /\ (linked[u] \subseteq Written(u))'
    BY <1>1, <1>3
  <2>. QED  BY <2>1, <2>2, <2>3 DEF CommitterOK
<1>6. SnapshotsOK' /\ ReasonsOK'
  BY <1>1, <1>4 DEF SnapInv, SnapshotsOK, ReasonsOK
<1>7. ItemsOK'
  <2>. SUFFICES ASSUME NEW u \in Tx, Running(u)', NEW l \in Written(u)'
                PROVE  ItemOK(u, l)'
    BY DEF ItemsOK
  <2>1. ItemOK(u, l)
    BY <1>2, <1>4 DEF SnapInv, ItemsOK
  <2>2. chain[l] = items[u][l].base
    BY <1>3, <2>1 DEF ItemOK
  <2>3. pc'[u] # "unlock" => l \in locked[u]
    BY <1>1, <1>3, <2>1 DEF ItemOK, Committing
  <2>4. ~ (Committing(u)' /\ l \in linked'[u])
    BY <1>1, <1>3
  <2>. QED  BY <1>1, <2>1, <2>2, <2>3, <2>4 DEF ItemOK
<1>8. ApplyHasLock'
  BY <1>1 DEF SnapInv, ApplyHasLock, Cmd
<1>9. VersionsOrdered'
  BY <1>1 DEF SnapInv, VersionsOrdered
<1>10. SnapInv'
  BY <1>5, <1>6, <1>7, <1>8, <1>9 DEF SnapInv
<1>11. Phase(t)' = Phase(t)
  BY <1>1 DEF Phase
<1>. QED  BY <1>1, <1>10, <1>11, SeenPhase DEF LockInv

(* A record is linked: nobody else has a write item for its key              *)
(* (WriteExclusion), and no snapshot that exists shows it.                   *)
LEMMA LinkSnapStep ==
    ASSUME LockInv, SnapInv, NEW t \in Tx, NEW k \in Keys, LinkItem(t, k)
    PROVE  SnapInv' /\ Allowed
<1>. DEFINE b == items[t][k].base
            v == items[t][k].val
            w == writeTs[t]
<1>0. TypeOK
  BY DEF LockInv
<1>1. /\ pc[t] = "publish" /\ k \in Written(t) /\ k \notin linked[t]
      /\ chain' = [chain EXCEPT ![k] = Link(b, w, v)]
      /\ linked' = [linked EXCEPT ![t] = linked[t] \cup {k}]
      /\ UNCHANGED <<prog, pc, ip, view, readTs, writeTs, items, locked, cause, maxTs, committer>>
  BY DEF LinkItem, ItemsToLink, Written, At, workerVars, managerVars
<1>2. Running(t) /\ Committing(t)
  BY <1>1 DEF Running, Committing
<1>3. committer = t /\ w = maxTs + 1 /\ maxTs \in Nat /\ readTs[t] <= maxTs /\ readTs[t] \in Nat
  BY <1>0, <1>2 DEF SnapInv, CommitterOK, SnapshotsOK, TypeOK
<1>4. ItemOK(t, k)
  BY <1>1, <1>2 DEF SnapInv, ItemsOK
<1>5. chain[k] = b /\ \A i \in DOMAIN b : b[i].ts <= readTs[t]
  BY <1>1, <1>4 DEF ItemOK
<1>6. b \in Chain /\ v \in Int /\ w \in Nat
  <2>1. items[t][k] \in WriteItem
    BY <1>0, <1>1 DEF TypeOK, Written
  <2>. QED  BY <1>0, <2>1 DEF WriteItem, TypeOK
<1>7. NewestFirst(b)
  BY <1>5 DEF SnapInv, VersionsOrdered
<1>. HIDE DEF b, v, w
<1>8. \A i \in DOMAIN b : b[i].ts < w
  <2>. SUFFICES ASSUME NEW i \in DOMAIN b PROVE b[i].ts < w
    OBVIOUS
  <2>1. b[i] \in Version
    BY <1>6 DEF Chain
  <2>. QED  BY <1>3, <1>5, <2>1 DEF Version
<1>9. /\ chain'[k] = Link(b, w, v) /\ linked'[t] = linked[t] \cup {k}
      /\ \A l \in Keys : l # k => chain'[l] = chain[l]
      /\ \A u \in Tx : u # t => linked'[u] = linked[u]
  BY <1>0, <1>1 DEF TypeOK
<1>10. /\ \A u \in Tx : Written(u)' = Written(u)
       /\ \A u \in Tx : Committing(u)' <=> Committing(u)
       /\ \A u \in Tx : Running(u)' <=> Running(u)
  BY <1>1 DEF Written, Committing, Running
<1>11. CommitterOK'
  <2>1. \A u \in Tx : (Committing(u) <=> committer = u)'
    BY <1>1, <1>10 DEF SnapInv, CommitterOK
  <2>2. \A u \in Tx : Committing(u)' =>
           (writeTs[u] = maxTs + 1)' /\ (linked[u] \subseteq Written(u))'
    BY <1>1, <1>9, <1>10 DEF SnapInv, CommitterOK
  <2>3. \A u \in Tx : pc'[u] = "unlock" => Written(u)' \subseteq linked'[u]
    BY <1>1, <1>9, <1>10 DEF SnapInv, CommitterOK
  <2>. QED  BY <2>1, <2>2, <2>3 DEF CommitterOK
<1>12. SnapshotsOK' /\ ReasonsOK' /\ ApplyHasLock'
  BY <1>1, <1>10 DEF SnapInv, SnapshotsOK, ReasonsOK, ApplyHasLock, Cmd
<1>13. ASSUME NEW u \in Tx, u # t, Running(u), k \in Written(u)  PROVE FALSE
  <2>1. pc[u] # "unlock" /\ pc[u] # "abort" /\ pc[t] # "abort"
    BY <1>1, <1>3, <1>13 DEF SnapInv, CommitterOK, Committing, Running
  <2>2. k \in locked[u] /\ k \in locked[t]
    BY <1>1, <1>4, <1>13, <2>1 DEF SnapInv, ItemsOK, ItemOK
  <2>3. HeldBy(k, u, dyn[u]) /\ HeldBy(k, t, dyn[t])
    BY <2>1, <2>2 DEF LockInv, Protocol, WriteExclusion
  <2>4. lockOf[k].tx = u /\ lockOf[k].tx = t
    BY <2>3 DEF HeldBy
  <2>. QED  BY <1>13, <2>4
<1>14. ItemsOK'
  <2>. SUFFICES ASSUME NEW u \in Tx, Running(u)', NEW l \in Written(u)'
                PROVE  ItemOK(u, l)'
    BY DEF ItemsOK
  <2>1. Running(u) /\ l \in Written(u) /\ l \in Keys
    BY <1>10 DEF Written
  <2>2. ItemOK(u, l)
    BY <2>1 DEF SnapInv, ItemsOK
  <2>3. CASE u = t /\ l = k
    BY <1>1, <1>2, <1>9, <1>10, <2>2, <2>3 DEF ItemOK, b, w, v
  <2>4. CASE l # k
    <3>1. chain'[l] = chain[l] /\ (l \in linked'[u] <=> l \in linked[u])
      BY <1>9, <2>1, <2>4
    <3>. QED  BY <1>1, <1>10, <2>2, <3>1 DEF ItemOK
  <2>5. CASE u # t /\ l = k
    BY <1>13, <2>1, <2>5
  <2>. QED  BY <2>3, <2>4, <2>5
<1>15. VersionsOrdered'
  <2>. SUFFICES ASSUME NEW l \in Keys
                PROVE  /\ NewestFirst(chain'[l])
                       /\ \A i \in DOMAIN chain'[l] :
                             chain'[l][i].ts > maxTs =>
                                /\ i = 1 /\ chain'[l][i].ts = maxTs + 1
                                /\ committer # NoTx /\ l \in linked'[committer]
    BY <1>1 DEF VersionsOrdered
  <2>1. committer # NoTx
    BY <1>3, NoTxAssumption
  <2>2. CASE l = k
    <3>1. NewestFirst(chain'[l])
      BY <1>6, <1>7, <1>8, <1>9, <2>2, LinkNewestFirst
    <3>2. ASSUME NEW i \in DOMAIN chain'[l], chain'[l][i].ts > maxTs
          PROVE  i = 1 /\ chain'[l][i].ts = maxTs + 1
      <4>. DEFINE d == Link(b, w, v)
      <4>1. /\ d \in Chain /\ Len(d) = Len(b) + 1 /\ d[1] = [ts |-> w, val |-> v]
            /\ \A j \in 1 .. Len(b) : d[j + 1] = b[j]
        BY <1>6, LinkProperties
      <4>2. chain'[l] = d
        BY <1>9, <2>2
      <4>. HIDE DEF d
      <4>3. DOMAIN d = 1 .. Len(b) + 1 /\ DOMAIN b = 1 .. Len(b) /\ Len(b) \in Nat
        BY <1>6, <4>1 DEF Chain
      <4>4. i = 1
        <5>1. SUFFICES ASSUME i # 1 PROVE FALSE
          OBVIOUS
        <5>2. PICK j \in 1 .. Len(b) : i = j + 1
          <6>1. i - 1 \in 1 .. Len(b) /\ i = (i - 1) + 1
            BY <3>2, <4>2, <4>3, <5>1
          <6>. QED  BY <6>1
        <5>3. d[i] = b[j]
          BY <4>1, <5>2
        <5>4. b[j].ts <= readTs[t] /\ b[j] \in Version
          BY <1>5, <1>6, <4>3 DEF Chain
        <5>. QED  BY <1>3, <3>2, <4>2, <5>3, <5>4 DEF Version
      <4>. QED  BY <1>3, <4>1, <4>2, <4>4
    <3>. QED  BY <1>3, <1>9, <2>1, <2>2, <3>1, <3>2
  <2>3. CASE l # k
    <3>1. chain'[l] = chain[l] /\ (l \in linked[committer] => l \in linked'[committer])
      BY <1>3, <1>9, <2>3
    <3>. QED  BY <3>1 DEF SnapInv, VersionsOrdered
  <2>. QED  BY <2>2, <2>3
<1>16. SnapInv'
  BY <1>11, <1>12, <1>14, <1>15 DEF SnapInv
<1>17. HistOf' = HistOf
  <2>1. ASSUME NEW ts \in 1..maxTs, NEW l \in Keys
        PROVE  /\ VisibleAt(chain'[l], ts) = {} <=> VisibleAt(chain[l], ts) = {}
               /\ VisibleAt(chain[l], ts) # {} => ReadAt(chain'[l], ts) = ReadAt(chain[l], ts)
               /\ (\E i \in DOMAIN chain'[l] : chain'[l][i].ts = ts)
                    <=> (\E i \in DOMAIN chain[l] : chain[l][i].ts = ts)
    <3>1. CASE l # k
      BY <1>9, <3>1
    <3>2. CASE l = k
      <4>1. ts \in Nat /\ ts < w
        BY <1>3
      <4>. QED  BY <1>5, <1>6, <1>9, <3>2, <4>1, LinkTooNew
    <3>. QED  BY <3>1, <3>2
  <2>2. \A ts \in 1..maxTs : StateAt(ts)' = StateAt(ts)
    BY <2>1 DEF StateAt
  <2>3. \A ts \in 1..maxTs : WroteAt(ts)' = WroteAt(ts)
    BY <2>1 DEF WroteAt
  <2>. QED  BY <1>1, <2>2, <2>3 DEF HistOf
<1>18. PhaseOf' = PhaseOf /\ WrittenOf' = WrittenOf
  BY <1>1, SameWritten DEF PhaseOf, Phase
<1>. QED  BY <1>1, <1>16, <1>17, <1>18, Unseen

(* The commit comes into the snapshots, all of it at once: what t wrote is   *)
(* what was linked, and no version of these keys is newer than t's snapshot  *)
(* but t's own (first committer wins).                                       *)
LEMMA CommitUnlockStep ==
    ASSUME LockInv, SnapInv, NEW t \in Tx, CommitUnlock(t)
    PROVE  SnapInv' /\ Allowed
<1>0. TypeOK
  BY DEF LockInv
<1>n. PICK n \in Nat : n = maxTs + 1
  BY <1>0 DEF TypeOK
<1>1. /\ pc[t] = "unlock" /\ pc'[t] = "end" /\ maxTs' = n /\ committer' = NoTx
      /\ \A u \in Tx : u # t => pc'[u] = pc[u]
      /\ UNCHANGED <<prog, ip, view, readTs, writeTs, items, linked, locked, cause, chain>>
  BY <1>0, <1>n DEF CommitUnlock, At, Goto, TypeOK, executorVars
<1>2. /\ Running(t) /\ Committing(t) /\ cause[t] = "none"
      /\ committer = t /\ writeTs[t] = n /\ linked[t] = Written(t)
  BY <1>1, <1>n DEF Running, Committing, SnapInv, CommitterOK, ReasonsOK
<1>3. maxTs \in Nat /\ maxTs >= 1 /\ n = maxTs + 1
      /\ \A u \in Tx : readTs[u] \in Nat /\ readTs[u] <= maxTs
  BY <1>0, <1>n DEF SnapInv, SnapshotsOK, TypeOK
<1>4. \A u \in Tx : u # t => (Running(u)' <=> Running(u)) /\ ~ Committing(u) /\ ~ Committing(u)'
  BY <1>1, <1>2 DEF Running, Committing, SnapInv, CommitterOK
<1>5. ~ Running(t)' /\ ~ Committing(t)' /\ \A u \in Tx : Written(u)' = Written(u)
  BY <1>1 DEF Running, Committing, Written
<1>6. CommitterOK'
  <2>1. \A u \in Tx : ~ Committing(u)' /\ pc'[u] # "unlock" /\ u # NoTx
    BY <1>4, <1>5, NoTxAssumption DEF Committing
  <2>. QED  BY <1>1, <2>1 DEF CommitterOK
<1>7. SnapshotsOK'
  <2>1. \A u \in Tx : Running(u)' => Running(u)
    BY <1>4, <1>5
  <2>2. maxTs' >= 1 /\ \A u \in Tx : readTs'[u] <= maxTs'
    BY <1>1, <1>3
  <2>. QED  BY <1>1, <2>1, <2>2 DEF SnapInv, SnapshotsOK
<1>8. ReasonsOK' /\ ApplyHasLock'
  BY <1>1, <1>4, <1>5 DEF SnapInv, ReasonsOK, ApplyHasLock, Cmd
<1>9. ItemsOK'
  <2>. SUFFICES ASSUME NEW u \in Tx, Running(u)', NEW l \in Written(u)'
                PROVE  ItemOK(u, l)'
    BY DEF ItemsOK
  <2>1. u # t /\ Running(u) /\ l \in Written(u)
    BY <1>4, <1>5
  <2>2. ItemOK(u, l)
    BY <2>1 DEF SnapInv, ItemsOK
  <2>. QED  BY <1>1, <1>4, <2>1, <2>2 DEF ItemOK
<1>10. \A l \in Keys : \A i \in DOMAIN chain[l] :
          chain[l][i].ts \in Nat /\ (chain[l][i].ts > maxTs =>
             chain[l][i].ts = n /\ l \in Written(t))
  <2>. SUFFICES ASSUME NEW l \in Keys, NEW i \in DOMAIN chain[l]
                PROVE  chain[l][i].ts \in Nat /\ (chain[l][i].ts > maxTs =>
                          chain[l][i].ts = n /\ l \in Written(t))
    OBVIOUS
  <2>1. chain[l][i] \in Version
    BY <1>0 DEF TypeOK, Chain
  <2>2. chain[l][i].ts \in Nat
    BY <2>1 DEF Version
  <2>. QED  BY <1>2, <1>n, <2>2 DEF SnapInv, VersionsOrdered
<1>11. VersionsOrdered'
  <2>1. \A l \in Keys : \A i \in DOMAIN chain[l] : ~ (chain[l][i].ts > n)
    BY <1>3, <1>10
  <2>. QED  BY <1>1, <2>1 DEF SnapInv, VersionsOrdered
<1>12. SnapInv'
  BY <1>6, <1>7, <1>8, <1>9, <1>11 DEF SnapInv
<1>13. ASSUME NEW k \in Written(t)
       PROVE  /\ k \in Keys
              /\ chain[k] = Link(items[t][k].base, n, view[t][k])
              /\ items[t][k].base \in Chain /\ view[t][k] \in Int
              /\ \A i \in DOMAIN items[t][k].base : items[t][k].base[i].ts <= readTs[t]
  <2>1. ItemOK(t, k) /\ k \in linked[t] /\ k \in Keys
    BY <1>2 DEF SnapInv, ItemsOK, Written
  <2>2. items[t][k] \in WriteItem
    BY <1>0 DEF TypeOK, Written
  <2>. QED  BY <1>2, <2>1, <2>2 DEF ItemOK, WriteItem
<1>14. \A i \in (readTs[t] + 1)..maxTs : WroteAt(i) \cap Written(t) = {}
  <2>. SUFFICES ASSUME NEW i \in (readTs[t] + 1)..maxTs, NEW k \in Written(t), k \in WroteAt(i)
                PROVE  FALSE
    OBVIOUS
  <2>. DEFINE b == items[t][k].base
              v == view[t][k]
              d == Link(b, n, v)
  <2>1. /\ b \in Chain /\ v \in Int /\ chain[k] = d
        /\ \A j \in DOMAIN b : b[j].ts <= readTs[t]
    BY <1>13
  <2>. HIDE DEF b, v
  <2>2. i \in Nat /\ i > readTs[t] /\ i < n /\ readTs[t] \in Nat
    BY <1>3
  <2>3. \E j \in DOMAIN d : d[j].ts = i
    BY <2>1 DEF WroteAt
  <2>4. \E j \in DOMAIN b : b[j].ts = i
    BY <1>3, <2>1, <2>2, <2>3, LinkTooNew
  <2>. QED  BY <2>1, <2>2, <2>4
<1>15. \A ts \in 1..maxTs : StateAt(ts)' = StateAt(ts) /\ WroteAt(ts)' = WroteAt(ts)
  BY <1>1 DEF StateAt, WroteAt
<1>16. ASSUME NEW k \in Keys
       PROVE  /\ StateAt(n)[k] = IF k \in Written(t) THEN view[t][k] ELSE StateAt(maxTs)[k]
              /\ k \in WroteAt(n) <=> k \in Written(t)
  <2>1. CASE k \in Written(t)
    <3>1. /\ VisibleAt(chain[k], n) # {} /\ ReadAt(chain[k], n) = view[t][k]
          /\ \E i \in DOMAIN chain[k] : chain[k][i].ts = n
      BY <1>3, <1>13, <2>1, LinkVisible
    <3>. QED  BY <2>1, <3>1 DEF StateAt, WroteAt
  <2>2. CASE k \notin Written(t)
    <3>1. \A i \in DOMAIN chain[k] : chain[k][i].ts <= maxTs
      BY <1>3, <1>10, <2>2
    <3>2. chain[k] \in Chain
      BY <1>0 DEF TypeOK
    <3>3. /\ VisibleAt(chain[k], n) = VisibleAt(chain[k], maxTs)
          /\ ReadAt(chain[k], n) = ReadAt(chain[k], maxTs)
          /\ ~ \E i \in DOMAIN chain[k] : chain[k][i].ts = n
      BY <1>3, <3>1, <3>2, NothingNew
    <3>. QED  BY <2>2, <3>3 DEF StateAt, WroteAt
  <2>. QED  BY <2>1, <2>2
<1>. DEFINE e == [state |-> [k \in Keys |-> IF k \in WrittenOf[t]
                                            THEN view[t][k]
                                            ELSE HistOf[Len(HistOf)].state[k]],
                  wrote |-> WrittenOf[t]]
            e2 == [state |-> StateAt(n), wrote |-> WroteAt(n)]
<1>17. Len(HistOf) = maxTs /\ HistOf \in Seq(SI!CommitEntry)
  BY <1>0, HistLen
<1>18. WrittenOf[t] = Written(t) /\ HistOf[Len(HistOf)].state = StateAt(maxTs)
  BY <1>3, <1>17 DEF WrittenOf, HistOf
<1>19. e2 = e
  <2>1. StateAt(n) = [k \in Keys |-> StateAt(n)[k]]
    BY DEF StateAt
  <2>2. StateAt(n) = [k \in Keys |-> IF k \in Written(t) THEN view[t][k] ELSE StateAt(maxTs)[k]]
    BY <1>16, <2>1
  <2>3. WroteAt(n) = Written(t)
    BY <1>16 DEF WroteAt, Written
  <2>. QED  BY <1>18, <2>2, <2>3
<1>20. StateAt(n)' = StateAt(n) /\ WroteAt(n)' = WroteAt(n)
  BY <1>1 DEF StateAt, WroteAt
<1>21. HistOf' = Append(HistOf, e)
  <2>1. HistOf' = [ts \in 1..n |-> [state |-> StateAt(ts)', wrote |-> WroteAt(ts)']]
    BY <1>1 DEF HistOf
  <2>2. HistOf'[n] = e
    BY <1>3, <1>19, <1>20, <2>1
  <2>3. \A i \in 1..maxTs : HistOf'[i] = HistOf[i]
    <3>1. \A i \in 1..maxTs : i \in 1..n
      BY <1>3
    <3>. QED  BY <1>15, <2>1, <3>1 DEF HistOf
  <2>4. HistOf' = [i \in 1..n |-> HistOf'[i]]
    BY <2>1
  <2>. HIDE DEF e, HistOf
  <2>. QED  BY <1>3, <1>17, <2>2, <2>3, <2>4, AppendIs
<1>22. PhaseOf[t] = "running" /\ PhaseOf' = [PhaseOf EXCEPT ![t] = "committed"]
  <2>1. Phase(t) = "running" /\ Phase(t)' = "committed"
    BY <1>1, <1>2 DEF Phase
  <2>. QED  BY <1>0, <1>1, <2>1, PhaseStep DEF PhaseOf
<1>23. \A i \in (readTs[t] + 1)..Len(HistOf) : HistOf[i].wrote \cap WrittenOf[t] = {}
  <2>. SUFFICES ASSUME NEW i \in (readTs[t] + 1)..maxTs
                PROVE  HistOf[i].wrote \cap WrittenOf[t] = {}
    BY <1>17
  <2>1. i \in 1..maxTs
    BY <1>3
  <2>. QED  BY <1>14, <1>18, <2>1 DEF HistOf
<1>24. WrittenOf' = WrittenOf
  BY <1>1, SameWritten
<1>25. Allowed
  <2>. HIDE DEF e
  <2>. QED  BY <1>1, <1>21, <1>22, <1>23, <1>24, SeenCommit DEF e
<1>. QED  BY <1>12, <1>25

-------------------------------------------------------------------------------
(* Init and Next *)

(* The prepare thread has committed one state, at InitialTs.                 *)
LEMMA InitSnapInv ==
    Init => SnapInv /\ SI!Init
<1>. SUFFICES ASSUME Init PROVE SnapInv /\ SI!Init
  OBVIOUS
<1>0. TypeOK
  BY InitTypeOK
<1>1. /\ \A t \in Tx : ~ Running(t) /\ ~ Committing(t) /\ Phase(t) = "idle" /\ Written(t) = {}
      /\ \A t \in Tx : pc[t] = "begin" /\ readTs[t] = 0
      /\ maxTs = 1 /\ committer = NoTx
  BY DEF Init, Running, Committing, Phase, Written, Nothing, InitialTs
<1>2. CommitterOK
  BY <1>1, NoTxAssumption DEF CommitterOK
<1>3. SnapshotsOK /\ ReasonsOK /\ ItemsOK /\ ApplyHasLock
  BY <1>1 DEF SnapshotsOK, ReasonsOK, ItemsOK, ApplyHasLock
<1>4. VersionsOrdered
  <2>. SUFFICES ASSUME NEW k \in Keys
                PROVE  /\ NewestFirst(chain[k])
                       /\ \A i \in DOMAIN chain[k] : ~ (chain[k][i].ts > maxTs)
    BY DEF VersionsOrdered
  <2>1. CASE Initial[k] = Absent
    <3>1. chain[k] = <<>>
      BY <2>1 DEF Init
    <3>. QED  BY <3>1 DEF NewestFirst
  <2>2. CASE Initial[k] # Absent
    <3>1. PICK c \in Chain, w \in Nat : c = <<>> /\ w = 1
      <4>1. <<>> \in Chain /\ 1 \in Nat
        BY DEF Chain
      <4>. QED  BY <4>1, Zenon
    <3>2. Initial[k] \in Int /\ Len(c) = 0 /\ DOMAIN c = {}
      BY <2>2, <3>1, InitialAssumption
    <3>. DEFINE v == Initial[k]
                d == Link(c, w, v)
    <3>3. chain[k] = d
      BY <2>2, <3>1 DEF Init, InitialTs
    <3>. HIDE DEF v
    <3>4. v \in Int
      BY <3>2 DEF v
    <3>5. NewestFirst(c) /\ \A i \in DOMAIN c : c[i].ts < w
      BY <3>2 DEF NewestFirst
    <3>6. NewestFirst(d)
      BY <3>4, <3>5, LinkNewestFirst
    <3>7. d \in Chain /\ Len(d) = Len(c) + 1 /\ d[1] = [ts |-> w, val |-> v]
      BY <3>4, LinkProperties
    <3>. HIDE DEF d
    <3>8. \A i \in DOMAIN d : i = 1
      BY <3>2, <3>7 DEF Chain
    <3>. QED  BY <1>1, <3>1, <3>3, <3>6, <3>7, <3>8
  <2>. QED  BY <2>1, <2>2
<1>5. SnapInv
  BY <1>2, <1>3, <1>4 DEF SnapInv
<1>6. HistOf \in Seq(SI!CommitEntry) /\ Len(HistOf) = 1
  BY <1>0, <1>1, HistLen
<1>7. /\ PhaseOf = [t \in Tx |-> "idle"]
      /\ readTs \in [Tx -> Nat]
      /\ view = [t \in Tx |-> [k \in Keys |-> Absent]]
      /\ WrittenOf = [t \in Tx |-> {}]
  BY <1>1 DEF PhaseOf, WrittenOf, Init, Nothing
<1>8. SI!Init
  BY <1>6, <1>7 DEF SI!Init, HistOf, PhaseOf, WrittenOf, Written
<1>. QED  BY <1>5, <1>8

LEMMA NextSnapInv ==
    ASSUME LockInv, SnapInv, [NextSpurious]_vars
    PROVE  SnapInv' /\ Allowed
<1>1. CASE UNCHANGED vars
  <2>0. UNCHANGED <<prog, pc, ip, view, readTs, writeTs, items, linked, locked, cause,
                    maxTs, committer, chain>>
    BY <1>1 DEF vars, workerVars, executorVars, managerVars
  <2>1. SnapInv'
    <3>1. CommitterOK' /\ SnapshotsOK' /\ ReasonsOK'
      BY <2>0 DEF SnapInv, CommitterOK, SnapshotsOK, ReasonsOK, Running, Committing, Written
    <3>2. ItemsOK'
      BY <2>0 DEF SnapInv, ItemsOK, ItemOK, Running, Committing, Written
    <3>3. ApplyHasLock' /\ VersionsOrdered'
      BY <2>0 DEF SnapInv, ApplyHasLock, VersionsOrdered, Cmd
    <3>. QED  BY <3>1, <3>2, <3>3 DEF SnapInv
  <2>2. PhaseOf' = PhaseOf
    BY <2>0 DEF PhaseOf, Phase
  <2>. QED  BY <2>0, <2>1, <2>2, SameHist, SameWritten, Unseen
<1>2. ASSUME NEW t \in Tx, Step(t)  PROVE SnapInv' /\ Allowed
  <2>1. CASE Begin(t) \/ ReadKey(t) \/ OutputRow(t)
    BY <2>1, BeginSnapStep, ReadKeyStep, OutputRowStep
  <2>2. CASE LockFree(t) \/ LockFails(t) \/ LockSteal(t)
    BY <2>2, LockStep
  <2>3. CASE AwaitVictim(t)
    BY <2>3, StealDoneSnapStep DEF AwaitVictim, At
  <2>4. CASE ApplySet(t) \/ Rewrite(t) \/ ApplyInsert(t)
    BY <2>4, ApplySnapStep, RewriteSnapStep
  <2>5. CASE CommitLock(t) \/ LogCommit(t) \/ CommitUnlock(t)
    BY <2>5, CommitLockStep, LogCommitStep, CommitUnlockStep
  <2>6. CASE \E k \in Keys : LinkItem(t, k) \/ UnlockKey(t, k)
    BY <2>6, LinkSnapStep, UnlockSnapStep
  <2>7. CASE AbortDone(t) \/ AwaitEnd(t) \/ End(t)
    BY <2>7, LeaveSnapStep
  <2>8. CASE WalkOn(t)
    BY <1>1, <2>8 DEF WalkOn
  <2>. QED  BY <1>2, <2>1, <2>2, <2>3, <2>4, <2>5, <2>6, <2>7, <2>8 DEF Step
<1>3. ASSUME NEW t \in Tx, WakeSpuriously(t)  PROVE SnapInv' /\ Allowed
  <2>1. CASE pc[t] = "steal" /\ StealDone(t)
    BY <2>1, StealDoneSnapStep
  <2>2. CASE pc[t] = "await"
    BY <1>3, <2>2, LeaveSnapStep
  <2>. QED  BY <1>3, <2>1, <2>2 DEF WakeSpuriously, At
<1>. QED  BY <1>1, <1>2, <1>3 DEF NextSpurious, Next, Stopped

(* The inductive invariant: write items stand on the newest versions, and    *)
(* only the holder of commit_mutex has linked versions that are not readable *)
(* yet.                                                                     *)
THEOREM SnapInvHolds == SpuriousSpec => []SnapInv
<1>1. LockInv /\ SnapInv /\ [NextSpurious]_vars => SnapInv'
  BY NextSnapInv
<1>2. Init => SnapInv
  BY InitSnapInv
<1>. QED  BY <1>1, <1>2, LockInvHolds, PTL DEF SpuriousSpec

(* The versions of a key get older on the way down, and the one version that *)
(* no snapshot has yet is the committer's.                                   *)
THEOREM VersionsOrderedHolds == SpuriousSpec => []VersionsOrdered
<1>1. SnapInv => VersionsOrdered
  BY DEF SnapInv
<1>. QED  BY <1>1, SnapInvHolds, PTL

(* StayDB is a database with snapshot isolation, whatever the transactions   *)
(* do and however often a wait ends too early.                              *)
THEOREM SpuriousIsSnapshotIsolation == SpuriousSpec => ImplementsSnapshotIsolation
<1>1. LockInv /\ SnapInv /\ [NextSpurious]_vars => [SI!Next]_(SI!vars)
  BY NextSnapInv DEF Allowed
<1>2. Init => SI!Init
  BY InitSnapInv
<1>. QED
  BY <1>1, <1>2, LockInvHolds, SnapInvHolds, PTL
     DEF SpuriousSpec, ImplementsSnapshotIsolation, SI!Spec

(* The same without spurious wakeups.                                        *)
THEOREM IsSnapshotIsolation == Spec => ImplementsSnapshotIsolation
<1>. QED  BY SpuriousIsSnapshotIsolation, SpecIsPart, PTL

-------------------------------------------------------------------------------
(***************************************************************************)
(* Why assertions fail.                                                     *)
(***************************************************************************)

(* What an earlier command has inserted stays so while commands are passed.  *)
LEMMA InsertedStays ==
    ASSUME TypeOK, NEW t \in Tx, NEW k \in Keys, InsertedBefore(t, k),
           prog' = prog, ip'[t] \in {ip[t], ip[t] + 1}
    PROVE  InsertedBefore(t, k)'
<1>1. PICK i \in 1 .. ip[t] - 1 : prog[t][i].op = "INSERT" /\ prog[t][i].key = k
  BY DEF InsertedBefore
<1>2. i \in 1 .. ip'[t] - 1
  BY <1>1 DEF TypeOK
<1>. QED  BY <1>1, <1>2 DEF InsertedBefore

(* A step of one transaction, with what has to be shown of it alone.         *)
LEMMA OwnKeys ==
    ASSUME TypeOK, OwnInserts, NEW t \in Tx, prog' = prog,
           \A u \in Tx : u # t => view'[u] = view[u] /\ items'[u] = items[u] /\ ip'[u] = ip[u],
           \A k \in Keys : chain'[k] = <<>> => chain[k] = <<>>,
           \A k \in Keys : (view'[t][k] # Absent \/ items'[t][k] # Absent) /\ chain[k] = <<>>
                               => InsertedBefore(t, k)'
    PROVE  OwnInserts'
<1>. SUFFICES ASSUME NEW u \in Tx, NEW k \in Keys,
                     (view'[u][k] # Absent \/ items'[u][k] # Absent) /\ chain'[k] = <<>>
              PROVE  InsertedBefore(u, k)'
  BY DEF OwnInserts
<1>1. chain[k] = <<>>
  OBVIOUS
<1>2. CASE u = t
  BY <1>1, <1>2
<1>3. CASE u # t
  <2>1. InsertedBefore(u, k)
    BY <1>1, <1>3 DEF OwnInserts
  <2>. QED  BY <1>3, <2>1, InsertedStays
<1>. QED  BY <1>2, <1>3

(* A command is passed, or not, and at most one key gets a value.            *)
LEMMA OwnKey ==
    ASSUME TypeOK, OwnInserts, NEW t \in Tx, NEW k \in Keys, prog' = prog, chain' = chain,
           \A u \in Tx : u # t => view'[u] = view[u] /\ items'[u] = items[u] /\ ip'[u] = ip[u],
           \A l \in Keys \ {k} : view'[t][l] = view[t][l] /\ items'[t][l] = items[t][l],
           ip'[t] \in {ip[t], ip[t] + 1},
           chain[k] # <<>> \/ view[t][k] # Absent \/ items[t][k] # Absent
               \/ (HasCommand(t) /\ Cmd(t).op = "INSERT" /\ Cmd(t).key = k /\ ip'[t] = ip[t] + 1)
    PROVE  OwnInserts'
<1>. SUFFICES ASSUME NEW l \in Keys, view'[t][l] # Absent \/ items'[t][l] # Absent,
                     chain[l] = <<>>
              PROVE  InsertedBefore(t, l)'
  BY OwnKeys
<1>1. CASE view[t][l] # Absent \/ items[t][l] # Absent
  BY <1>1, InsertedStays DEF OwnInserts
<1>2. CASE view[t][l] = Absent /\ items[t][l] = Absent
  <2>1. l = k
    BY <1>2
  <2>2. Cmd(t).op = "INSERT" /\ Cmd(t).key = l /\ ip'[t] = ip[t] + 1
    BY <1>2, <2>1
  <2>3. ip[t] \in 1 .. ip'[t] - 1
    BY <2>2 DEF TypeOK
  <2>. QED  BY <2>2, <2>3 DEF InsertedBefore, Cmd
<1>. QED  BY <1>1, <1>2

LEMMA InitOwnInserts == Init => OwnInserts
  BY DEF Init, OwnInserts, Nothing

LEMMA NextOwnInserts ==
    ASSUME LockInv, OwnInserts, [NextSpurious]_vars
    PROVE  OwnInserts'
<1>0. TypeOK /\ WriteInProgress
  BY DEF LockInv
<1>1. ASSUME UNCHANGED <<prog, ip, view, items, chain>>  PROVE OwnInserts'
  BY <1>1 DEF OwnInserts, InsertedBefore
<1>2. ASSUME NEW t \in Tx, Begin(t)  PROVE OwnInserts'
  <2>1. \A k \in Keys : view'[t][k] = Absent /\ items'[t][k] = Absent
    BY <1>0, <1>2 DEF Begin, TypeOK, Nothing
  <2>2. /\ prog' = prog /\ chain' = chain
        /\ \A u \in Tx : u # t => view'[u] = view[u] /\ items'[u] = items[u] /\ ip'[u] = ip[u]
    BY <1>0, <1>2 DEF Begin, TypeOK
  <2>. QED  BY <1>0, <2>1, <2>2, OwnKeys
<1>3. ASSUME NEW t \in Tx, ReadKey(t)  PROVE OwnInserts'
  <2>. DEFINE k == Cmd(t).from
  <2>1. k \in Keys /\ UNCHANGED <<prog, ip, items, chain>>
    BY <1>0, <1>3, CmdType DEF ReadKey, Command
  <2>2. CASE chain[k] = <<>> \/ view' = view
    BY <1>1, <1>3, <2>1, <2>2 DEF ReadKey, VisibleAt, WalksOff
  <2>3. CASE chain[k] # <<>> /\ view' # view
    <3>1. view' = [view EXCEPT ![t][k] = ReadAt(chain[k], readTs[t])]
      BY <1>3, <2>3 DEF ReadKey
    <3>2. /\ \A u \in Tx : u # t => view'[u] = view[u]
          /\ \A l \in Keys \ {k} : view'[t][l] = view[t][l]
      BY <1>0, <2>1, <3>1 DEF TypeOK
    <3>. HIDE DEF k
    <3>. QED  BY <1>0, <2>1, <2>3, <3>2, OwnKey
  <2>. QED  BY <2>2, <2>3
<1>4. ASSUME NEW t \in Tx, OutputRow(t)  PROVE OwnInserts'
  <2>1. /\ Cmd(t).key \in Keys /\ view[t][Cmd(t).key] # Absent
        /\ UNCHANGED <<prog, view, items, chain>>
        /\ ip'[t] = ip[t] + 1 /\ \A u \in Tx : u # t => ip'[u] = ip[u]
    BY <1>0, <1>4, CmdType DEF OutputRow, NextCommand, executorVars, TypeOK, Command
  <2>. QED  BY <1>0, <2>1, OwnKey
<1>5. ASSUME NEW t \in Tx, ApplySet(t) \/ ApplyInsert(t)  PROVE OwnInserts'
  <2>. DEFINE k == Cmd(t).key
  <2>1. HasCommand(t) /\ UNCHANGED <<prog, chain>>
    BY <1>0, <1>5 DEF ApplySet, ApplyInsert, ReadyToWrite, WriteInProgress, At
  <2>2. k \in Keys
    BY <1>0, <2>1, CmdType DEF Command
  <2>3. CASE UNCHANGED <<ip, view, items>>
    BY <1>1, <2>1, <2>3
  <2>4. CASE AddItem(t, k) /\ (chain[k] # <<>> \/ Cmd(t).op = "INSERT")
    <3>1. /\ \A u \in Tx : u # t => view'[u] = view[u] /\ items'[u] = items[u] /\ ip'[u] = ip[u]
          /\ \A l \in Keys \ {k} : view'[t][l] = view[t][l] /\ items'[t][l] = items[t][l]
          /\ ip'[t] = ip[t] + 1
      BY <1>0, <2>2, <2>4 DEF AddItem, NextCommand, TypeOK
    <3>. HIDE DEF k
    <3>2. Cmd(t).key = k
      BY DEF k
    <3>. QED  BY <1>0, <2>1, <2>2, <2>4, <3>1, <3>2, OwnKey
  <2>. QED  BY <1>5, <2>3, <2>4 DEF ApplySet, ApplyInsert
<1>6. ASSUME NEW t \in Tx, Rewrite(t)  PROVE OwnInserts'
  <2>. DEFINE k == Cmd(t).key
  <2>1. k \in Keys /\ items[t][k] # Absent /\ UNCHANGED <<prog, chain>>
    BY <1>0, <1>6, CmdType DEF Rewrite, ReadyToWrite, Command
  <2>2. /\ \A u \in Tx : u # t => view'[u] = view[u] /\ items'[u] = items[u] /\ ip'[u] = ip[u]
        /\ \A l \in Keys \ {k} : view'[t][l] = view[t][l] /\ items'[t][l] = items[t][l]
        /\ ip'[t] = ip[t] + 1
    BY <1>0, <1>6, <2>1 DEF Rewrite, NextCommand, TypeOK
  <2>. HIDE DEF k
  <2>. QED  BY <1>0, <2>1, <2>2, OwnKey
<1>7. ASSUME NEW t \in Tx, NEW k \in Keys, LinkItem(t, k)  PROVE OwnInserts'
  <2>1. /\ chain' = [chain EXCEPT ![k] = Link(items[t][k].base, writeTs[t], items[t][k].val)]
        /\ items[t][k] # Absent /\ UNCHANGED <<prog, ip, view, items>>
    BY <1>7 DEF LinkItem, ItemsToLink, workerVars
  <2>2. items[t][k] \in WriteItem /\ writeTs[t] \in Nat
    BY <1>0, <2>1 DEF TypeOK
  <2>3. Len(chain'[k]) = Len(items[t][k].base) + 1 /\ Len(items[t][k].base) \in Nat
    <3>. DEFINE b == items[t][k].base
                v == items[t][k].val
                w == writeTs[t]
    <3>1. b \in Chain /\ v \in Int /\ w \in Nat
      BY <2>2 DEF WriteItem
    <3>2. chain'[k] = Link(b, w, v)
      BY <1>0, <2>1 DEF TypeOK
    <3>3. Len(b) \in Nat
      BY <3>1 DEF Chain
    <3>. HIDE DEF b, v, w
    <3>4. Len(Link(b, w, v)) = Len(b) + 1
      BY <3>1, LinkProperties
    <3>5. Len(chain'[k]) = Len(b) + 1
      BY <3>2, <3>4
    <3>. QED  BY <3>3, <3>5 DEF b
  <2>4. \A l \in Keys : chain'[l] = <<>> => chain[l] = <<>>
    BY <1>0, <2>1, <2>3 DEF TypeOK
  <2>. QED  BY <2>1, <2>4 DEF OwnInserts, InsertedBefore
<1>8. ASSUME NEW t \in Tx,
             \/ LockFree(t) \/ LockFails(t) \/ LockSteal(t) \/ StealDone(t) \/ WalkOn(t)
             \/ CommitLock(t) \/ LogCommit(t) \/ CommitUnlock(t)
             \/ \E k \in Keys : UnlockKey(t, k)
             \/ AbortDone(t) \/ AwaitEnd(t) \/ End(t) \/ WakeSpuriously(t)
      PROVE  OwnInserts'
  <2>1. UNCHANGED <<prog, ip, view, items, chain>>
    <3>1. CASE LockFree(t) \/ LockFails(t) \/ LockSteal(t) \/ StealDone(t) \/ WalkOn(t)
      BY <3>1 DEF LockFree, LockFails, LockSteal, StealDone, WalkOn, vars, workerVars, executorVars
    <3>2. CASE CommitLock(t) \/ LogCommit(t) \/ CommitUnlock(t)
      BY <3>2 DEF CommitLock, LogCommit, CommitUnlock, workerVars, executorVars
    <3>3. CASE \E k \in Keys : UnlockKey(t, k)
      BY <3>3 DEF UnlockKey, workerVars, executorVars
    <3>4. CASE AbortDone(t)
      BY <3>4 DEF AbortDone, workerVars, executorVars
    <3>5. CASE AwaitEnd(t) \/ End(t) \/ WakeSpuriously(t)
      BY <3>5 DEF AwaitEnd, End, WakeSpuriously, StealDone, workerVars, executorVars
    <3>. QED  BY <1>8, <3>1, <3>2, <3>3, <3>4, <3>5
  <2>. QED  BY <1>1, <2>1
<1>9. CASE UNCHANGED vars
  BY <1>1, <1>9 DEF vars, workerVars, executorVars
<1>. QED
  BY <1>2, <1>3, <1>4, <1>5, <1>6, <1>7, <1>8, <1>9
     DEF NextSpurious, Next, Stopped, Step, AwaitVictim

(* Only execute_insert gets there, and no step follows.                      *)
LEMMA NextCrashesOnlyFor ==
    ASSUME LockInv, OwnInserts, CrashesOnlyFor, [NextSpurious]_vars
    PROVE  CrashesOnlyFor'
<1>0. TypeOK /\ WriteInProgress
  BY DEF LockInv
<1>1. CASE UNCHANGED vars
  BY <1>1 DEF vars, workerVars, executorVars, CrashesOnlyFor, At, Cmd, InsertedBefore
<1>2. ASSUME ProcessUp, NEW t \in Tx, Step(t) \/ WakeSpuriously(t)  PROVE CrashesOnlyFor'
  <2>1. ASSUME \A u \in Tx : pc'[u] # "crash"  PROVE CrashesOnlyFor'
    BY <2>1 DEF CrashesOnlyFor, At
  <2>2. CASE ApplyInsert(t) /\ pc'[t] = "crash"
    <3>. DEFINE k == Cmd(t).key
    <3>1. /\ Cmd(t).op = "INSERT" /\ HasCommand(t) /\ prog' = prog /\ chain' = chain
          /\ readTs' = readTs
      BY <1>0, <2>2 DEF ApplyInsert, ReadyToWrite, WriteInProgress, At
    <3>2. k \in Keys
      BY <1>0, <3>1, CmdType DEF Command
    <3>3. Goto(t, "crash") /\ ip' = ip
      BY <1>0, <2>2 DEF ApplyInsert, AddItem, AbortFor, Goto, TypeOK
    <3>4. \/ chain[k] = <<>> /\ view[t][k] # Absent
          \/ chain[k] # <<>> /\ Head(chain[k]).ts > readTs[t]
      BY <1>0, <2>2 DEF ApplyInsert, AddItem, AbortFor, Goto, TypeOK
    <3>5. InsertedBefore(t, k) \/ \E i \in DOMAIN chain[k] : chain[k][i].ts > readTs[t]
      <4>1. CASE chain[k] = <<>> /\ view[t][k] # Absent
        BY <3>2, <4>1 DEF OwnInserts
      <4>2. CASE chain[k] # <<>> /\ Head(chain[k]).ts > readTs[t]
        <5>1. chain[k] \in Chain
          BY <1>0, <3>2 DEF TypeOK
        <5>2. 1 \in DOMAIN chain[k] /\ chain[k][1] = Head(chain[k])
          BY <4>2, <5>1 DEF Chain
        <5>. QED  BY <4>2, <5>2
      <4>. QED  BY <3>4, <4>1, <4>2
    <3>6. \A u \in Tx : pc'[u] = "crash" => u = t
      BY <1>0, <1>2, <3>3 DEF Goto, ProcessUp, At, TypeOK
    <3>7. Cmd(t)' = Cmd(t) /\ (InsertedBefore(t, k) => InsertedBefore(t, Cmd(t).key)')
      BY <3>1, <3>3 DEF Cmd, InsertedBefore
    <3>. QED  BY <3>1, <3>5, <3>6, <3>7 DEF CrashesOnlyFor, At
  <2>3. CASE ~ (ApplyInsert(t) /\ pc'[t] = "crash")
    <3>1. \A u \in Tx : pc'[u] # "crash"
      <4>1. \A u \in Tx : u # t => pc'[u] = pc[u]
        BY <1>0, <1>2 DEF Step, WakeSpuriously, Begin, ReadKey, WalkOn, OutputRow, LockFree,
           LockFails, LockSteal, AwaitVictim, StealDone, ApplySet, Rewrite, ApplyInsert, AddItem,
           CommitLock, LinkItem, LogCommit, CommitUnlock, UnlockKey, AbortDone, AwaitEnd, End,
           AbortFor, Goto, vars, workerVars, TypeOK
      <4>2. pc'[t] # "crash"
        BY <1>0, <1>2, <2>3 DEF ProcessUp, Step, WakeSpuriously, Begin, ReadKey, WalkOn, OutputRow,
           LockFree, LockFails, LockSteal, AwaitVictim, StealDone, ApplySet, Rewrite, AddItem,
           CommitLock, LinkItem, LogCommit, CommitUnlock, UnlockKey, AbortDone, AwaitEnd, End,
           AbortFor, Goto, At, vars, workerVars, TypeOK
      <4>. QED  BY <1>2, <4>1, <4>2 DEF ProcessUp, At
    <3>. QED  BY <2>1, <3>1
  <2>. QED  BY <2>2, <2>3
<1>. QED  BY <1>1, <1>2 DEF NextSpurious, Next, Stopped, Step

(* The process ends on an assertion for the two reasons only.                *)
THEOREM CrashesAlwaysOnlyFor == SpuriousSpec => []CrashesOnlyFor
<1>1. Init => OwnInserts /\ CrashesOnlyFor
  BY InitOwnInserts DEF Init, CrashesOnlyFor, At
<1>2. LockInv /\ OwnInserts /\ CrashesOnlyFor /\ [NextSpurious]_vars
        => (OwnInserts /\ CrashesOnlyFor)'
  BY NextOwnInserts, NextCrashesOnlyFor
<1>. QED  BY <1>1, <1>2, LockInvHolds, PTL DEF SpuriousSpec

===============================================================================
