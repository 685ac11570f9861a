---------------------------- MODULE WaitQueueProofs ----------------------------
(***************************************************************************)
(* QueueInv holds whatever the number of IDs and of waiting threads, also   *)
(* with spurious wakeups; so no WaitQueue is used after it was deleted.    *)
(***************************************************************************)
EXTENDS WaitQueue, TLAPS, FiniteSetTheorems

USE NoIdAssumption, MaxCallsAssumption, WaitersAssumption

(* Counting the waiters in a set of them.                                   *)
LEMMA Counting ==
    ASSUME NEW S \in SUBSET Waiters
    PROVE  /\ Cardinality(S) \in Nat
           /\ Cardinality(S) = 0 <=> S = {}
           /\ \A w \in Waiters \ S : Cardinality(S \cup {w}) = Cardinality(S) + 1
           /\ \A w \in S : Cardinality(S \ {w}) = Cardinality(S) - 1
<1>1. IsFiniteSet(S)
  BY FS_Subset
<1>. QED
  BY <1>1, FS_CardinalityType, FS_EmptySet, FS_AddElement, FS_RemoveElement

(* What QueueInv says of one ID and of one waiter.                          *)
LEMMA NobodyThere ==
    ASSUME QueueInv, NEW i \in Ids
    PROVE  /\ Booked(i) \in SUBSET Waiters /\ InCondWait(i) \in SUBSET Waiters
           /\ queue[i].booked = 0 <=> Booked(i) = {}
           /\ queue[i].waiters = 0 <=> InCondWait(i) = {}
<1>1. Booked(i) \in SUBSET Waiters /\ InCondWait(i) \in SUBSET Waiters
  BY DEF Booked, InCondWait
<1>2. /\ queue[i].booked = Cardinality(Booked(i))
      /\ queue[i].waiters = Cardinality(InCondWait(i))
  BY DEF QueueInv, CountersExact
<1>. QED  BY <1>1, <1>2, Counting

LEMMA InWait ==
    ASSUME QueueInv, NEW w \in Waiters, pc[w] # "idle"
    PROVE  on[w] \in Ids
BY DEF QueueInv, TypeOK, LifeCycle

LEMMA QueueInvInit == Init => QueueInv
<1>. SUFFICES ASSUME Init PROVE QueueInv
  OBVIOUS
<1>1. TypeOK
  BY DEF Init, TypeOK, OwnerPlaces, Places, Counters
<1>2. LifeCycle
  BY DEF Init, LifeCycle
<1>3. CountersExact
  <2>1. \A i \in Ids : Booked(i) = {} /\ InCondWait(i) = {}
    BY DEF Init, Booked, InCondWait
  <2>. QED  BY <2>1, FS_EmptySet DEF Init, CountersExact
<1>4. SoleDeleter /\ NoUseAfterFree
  BY DEF Init, SoleDeleter, NoUseAfterFree, OwnerUses, Uses
<1>. QED  BY <1>1, <1>2, <1>3, <1>4 DEF QueueInv

-------------------------------------------------------------------------------
(* A step that leaves queue, pc and on alone keeps the counters exact.      *)
LEMMA CountersKept ==
    ASSUME CountersExact, UNCHANGED <<queue, pc, on>>
    PROVE  CountersExact'
BY DEF CountersExact, Booked, InCondWait

LEMMA InsertKeeps ==
    ASSUME QueueInv, NEW i \in Ids, Insert(i)
    PROVE  QueueInv'
<1>. USE DEF Insert
<1>1. TypeOK'
  BY DEF QueueInv, TypeOK, OwnerPlaces
<1>2. LifeCycle'
  BY DEF QueueInv, TypeOK, LifeCycle
<1>3. CountersExact'
  BY CountersKept DEF QueueInv
<1>4. \A j \in Ids : OwnerUses(j)' <=> OwnerUses(j) \/ j = i
  BY DEF QueueInv, TypeOK, OwnerUses
<1>5. \A w \in Waiters : Uses(w, i) => pc[w] # "delete"
  BY DEF QueueInv, LifeCycle, Uses
<1>6. \A j \in Ids, w \in Waiters : Uses(w, j)' <=> Uses(w, j)
  BY DEF Uses
<1>7. SoleDeleter'
  BY <1>4, <1>5, <1>6 DEF QueueInv, TypeOK, SoleDeleter
<1>8. NoUseAfterFree'
  BY <1>4, <1>6 DEF QueueInv, TypeOK, NoUseAfterFree
<1>. QED  BY <1>1, <1>2, <1>3, <1>7, <1>8 DEF QueueInv

LEMMA EraseKeeps ==
    ASSUME QueueInv, NEW i \in Ids, Erase(i)
    PROVE  QueueInv'
<1>. USE DEF Erase
<1>1. TypeOK'
  BY DEF QueueInv, TypeOK, OwnerPlaces
<1>2. LifeCycle'
  BY DEF QueueInv, TypeOK, LifeCycle, Readers
<1>3. CountersExact'
  BY CountersKept DEF QueueInv
<1>4. \A j \in Ids : OwnerUses(j)' <=> OwnerUses(j)
  BY DEF QueueInv, TypeOK, OwnerUses
<1>5. \A j \in Ids, w \in Waiters : Uses(w, j)' <=> Uses(w, j)
  BY DEF Uses
<1>6. SoleDeleter'
  BY <1>4, <1>5 DEF QueueInv, TypeOK, SoleDeleter
<1>7. NoUseAfterFree'
  BY <1>4, <1>5 DEF QueueInv, TypeOK, NoUseAfterFree
<1>. QED  BY <1>1, <1>2, <1>3, <1>6, <1>7 DEF QueueInv

(* When the owner finds nobody booked or asleep, nobody else is there.      *)
LEMMA ReleaseKeeps ==
    ASSUME QueueInv, NEW i \in Ids, Release(i)
    PROVE  QueueInv'
<1>. USE DEF Release
<1>1. TypeOK'
  BY ZenonT(60) DEF QueueInv, TypeOK, OwnerPlaces, Places, Counters
<1>2. LifeCycle'
  BY DEF QueueInv, TypeOK, LifeCycle, Counters
<1>3. \A j \in Ids : Booked(j)' = Booked(j) /\ InCondWait(j)' = InCondWait(j)
  BY DEF QueueInv, TypeOK, Booked, InCondWait
<1>4. CountersExact'
  BY <1>3 DEF QueueInv, TypeOK, CountersExact, Counters
<1>5. \A j \in Ids, w \in Waiters : Uses(w, j)' <=> Uses(w, j)
  BY DEF QueueInv, TypeOK, Uses
<1>6. \A j \in Ids : OwnerUses(j)' => OwnerUses(j)
  BY DEF QueueInv, TypeOK, OwnerUses
<1>7. ASSUME owner'[i] = "delete", NEW w \in Waiters, Uses(w, i)
      PROVE  FALSE
  <2>1. queue[i].booked = 0 /\ queue[i].waiters = 0
    BY <1>7 DEF QueueInv, TypeOK, SafeToDelete, Counters
  <2>2. w \notin Booked(i) /\ w \notin InCondWait(i)
    BY <2>1, NobodyThere
  <2>3. pc[w] # "book" /\ pc[w] # "delete"
    BY <1>7 DEF QueueInv, LifeCycle, Uses
  <2>. QED  BY <1>7, <2>2, <2>3 DEF Uses, Booked, InCondWait
<1>8. \A w \in Waiters : pc'[w] = "delete" <=> pc[w] = "delete"
  BY DEF QueueInv, TypeOK
<1>9. SoleDeleter'
  <2>1. \A j \in Ids : owner'[j] = "delete" => \A w \in Waiters : ~Uses(w, j)
    BY <1>7 DEF QueueInv, TypeOK, SoleDeleter
  <2>. QED  BY <1>5, <1>6, <1>8, <2>1 DEF QueueInv, SoleDeleter
<1>10. NoUseAfterFree'
  BY <1>5, <1>6 DEF QueueInv, NoUseAfterFree
<1>. QED  BY <1>1, <1>2, <1>4, <1>9, <1>10 DEF QueueInv

LEMMA DeleteAfterReleaseKeeps ==
    ASSUME QueueInv, NEW i \in Ids, DeleteAfterRelease(i)
    PROVE  QueueInv'
<1>. USE DEF DeleteAfterRelease
<1>1. TypeOK'
  BY DEF QueueInv, TypeOK, OwnerPlaces
<1>2. LifeCycle'
  BY DEF QueueInv, TypeOK, LifeCycle
<1>3. CountersExact'
  BY CountersKept DEF QueueInv
<1>4. \A j \in Ids : OwnerUses(j)' <=> OwnerUses(j) /\ j # i
  BY DEF QueueInv, TypeOK, OwnerUses
<1>5. \A j \in Ids, w \in Waiters : Uses(w, j)' <=> Uses(w, j)
  BY DEF Uses
<1>6. \A w \in Waiters : ~Uses(w, i)
  BY DEF QueueInv, SoleDeleter
<1>7. SoleDeleter'
  BY <1>4, <1>5 DEF QueueInv, TypeOK, SoleDeleter
<1>8. NoUseAfterFree'
  BY <1>4, <1>5, <1>6 DEF QueueInv, TypeOK, NoUseAfterFree
<1>. QED  BY <1>1, <1>2, <1>3, <1>7, <1>8 DEF QueueInv

-------------------------------------------------------------------------------
LEMMA CallKeeps ==
    ASSUME QueueInv, NEW w \in Waiters, NEW i \in Ids, Call(w, i)
    PROVE  QueueInv'
<1>. USE DEF Call, Goto
<1>1. TypeOK'
  BY DEF QueueInv, TypeOK, Places
<1>2. LifeCycle'
  BY DEF QueueInv, TypeOK, LifeCycle
<1>3. \A j \in Ids : Booked(j)' = Booked(j) /\ InCondWait(j)' = InCondWait(j)
  BY DEF QueueInv, TypeOK, Booked, InCondWait
<1>4. \A j \in Ids, v \in Waiters : Uses(v, j)' <=> Uses(v, j)
  BY DEF QueueInv, TypeOK, Uses
<1>5. CountersExact'
  BY <1>3 DEF QueueInv, CountersExact
<1>6. \A v \in Waiters : pc'[v] = "delete" => pc[v] = "delete"
  BY DEF QueueInv, TypeOK
<1>7. SoleDeleter' /\ NoUseAfterFree'
  BY <1>4, <1>6 DEF QueueInv, SoleDeleter, NoUseAfterFree, OwnerUses
<1>. QED  BY <1>1, <1>2, <1>5, <1>7 DEF QueueInv

LEMMA FindKeeps ==
    ASSUME QueueInv, NEW w \in Waiters, Find(w)
    PROVE  QueueInv'
<1>. USE DEF Find, Goto, Return
<1>1. TypeOK'
  BY DEF QueueInv, TypeOK, Places
<1>2. LifeCycle'
  BY InWait DEF QueueInv, TypeOK, LifeCycle
<1>3. \A j \in Ids : Booked(j)' = Booked(j) /\ InCondWait(j)' = InCondWait(j)
  BY DEF QueueInv, TypeOK, Booked, InCondWait
<1>4. CountersExact'
  BY <1>3 DEF QueueInv, CountersExact
<1>5. \A j \in Ids, v \in Waiters :
         Uses(v, j)' => Uses(v, j) \/ (v = w /\ on[w] = j /\ j \in queues)
  BY DEF QueueInv, TypeOK, Uses
<1>6. \A v \in Waiters : pc'[v] = "delete" => pc[v] = "delete" /\ v # w
  BY DEF QueueInv, TypeOK
<1>7. \A j \in Ids : j \in queues =>
         /\ owner[j] = "registered"
         /\ \A v \in Waiters : ~(Uses(v, j) /\ pc[v] = "delete")
  BY DEF QueueInv, LifeCycle, Uses
<1>8. SoleDeleter'
  <2>1. ASSUME NEW j \in Ids, owner'[j] = "delete", NEW v \in Waiters
        PROVE  ~Uses(v, j)'
    BY <1>5, <1>7, <2>1 DEF QueueInv, SoleDeleter
  <2>2. ASSUME NEW j \in Ids, NEW v \in Waiters, Uses(v, j)', pc'[v] = "delete"
        PROVE  ~OwnerUses(j)' /\ \A u \in Waiters \ {v} : ~Uses(u, j)'
    <3>1. Uses(v, j) /\ pc[v] = "delete"
      BY <1>5, <1>6, <2>2
    <3>. QED  BY <1>5, <1>7, <3>1 DEF QueueInv, SoleDeleter, OwnerUses
  <2>. QED  BY <2>1, <2>2 DEF SoleDeleter
<1>9. NoUseAfterFree'
  BY <1>5, <1>7 DEF QueueInv, NoUseAfterFree, OwnerUses
<1>. QED  BY <1>1, <1>2, <1>4, <1>8, <1>9 DEF QueueInv

LEMMA BookKeeps ==
    ASSUME QueueInv, NEW w \in Waiters, Book(w)
    PROVE  QueueInv'
<1>. USE DEF Book, Goto
<1>0. on[w] \in Ids
  BY InWait
<1>1. TypeOK'
  BY <1>0 DEF QueueInv, TypeOK, Places, Counters
<1>2. LifeCycle'
  BY <1>0 DEF QueueInv, TypeOK, LifeCycle, Counters
<1>3. CountersExact'
  <2>1. ASSUME NEW j \in Ids
        PROVE  /\ w \notin Booked(j)
               /\ Booked(j)' = IF j = on[w] THEN Booked(j) \cup {w} ELSE Booked(j)
               /\ InCondWait(j)' = InCondWait(j)
    BY DEF QueueInv, TypeOK, Booked, InCondWait
  <2>2. ASSUME NEW j \in Ids
        PROVE  /\ queue'[j].waiters = queue[j].waiters
               /\ queue'[j].booked =
                     IF j = on[w] THEN queue[j].booked + 1 ELSE queue[j].booked
    BY DEF QueueInv, TypeOK, Counters
  <2>. QED  BY <2>1, <2>2, NobodyThere, Counting DEF QueueInv, CountersExact
<1>4. \A j \in Ids, v \in Waiters : Uses(v, j)' <=> Uses(v, j)
  BY DEF QueueInv, TypeOK, Uses
<1>5. \A v \in Waiters : pc'[v] = "delete" => pc[v] = "delete"
  BY DEF QueueInv, TypeOK
<1>6. SoleDeleter' /\ NoUseAfterFree'
  BY <1>4, <1>5 DEF QueueInv, SoleDeleter, NoUseAfterFree, OwnerUses
<1>. QED  BY <1>1, <1>2, <1>3, <1>6 DEF QueueInv

(* A thread that leaves wait() with the right and the duty to delete is the *)
(* only one that uses the queue.                                           *)
LEMMA LastOneLeaves ==
    ASSUME QueueInv, NEW w \in Waiters, pc[w] # "idle",
           Uses(w, on[w]), pc[w] # "delete",
           queue[on[w]].released,
           Booked(on[w]) \ {w} = {}, InCondWait(on[w]) \ {w} = {}
    PROVE  ~OwnerUses(on[w]) /\ \A v \in Waiters \ {w} : ~Uses(v, on[w])
<1>0. on[w] \in Ids
  BY InWait
<1>1. ~OwnerUses(on[w])
  BY <1>0 DEF QueueInv, LifeCycle, SoleDeleter, OwnerUses
<1>2. ASSUME NEW v \in Waiters \ {w}, Uses(v, on[w])
      PROVE  FALSE
  <2>1. pc[v] # "book"
    BY <1>0, <1>1, <1>2 DEF QueueInv, LifeCycle, Uses, OwnerUses
  <2>2. pc[v] # "delete"
    BY <1>0, <1>2 DEF QueueInv, SoleDeleter
  <2>3. v \notin Booked(on[w]) /\ v \notin InCondWait(on[w])
    BY <1>2
  <2>. QED  BY <1>2, <2>1, <2>2, <2>3 DEF Uses, Booked, InCondWait
<1>. QED  BY <1>1, <1>2

(* Entering the critical section of WaitQueue::wait takes w off n_booked.   *)
LEMMA EnterCounts ==
    ASSUME QueueInv, NEW w \in Waiters, Enter(w)
    PROVE  /\ on[w] \in Ids
           /\ queue[on[w]].booked \in Nat \ {0}
           /\ TypeOK' /\ CountersExact'
<1>. USE DEF Enter, Goto, Leave, Return
<1>0. on[w] \in Ids
  BY InWait
<1>1. w \in Booked(on[w])
  BY DEF Booked
<1>2. queue[on[w]].booked \in Nat \ {0} /\ queue[on[w]].waiters \in Nat
  BY <1>0, <1>1, NobodyThere DEF QueueInv, TypeOK, Counters
<1>3. TypeOK'
  <2>1. queue[on[w]] \in Counters
    BY <1>0 DEF QueueInv, TypeOK
  <2>2. /\ queue[on[w]].booked - 1 \in Nat /\ queue[on[w]].waiters + 1 \in Nat
        /\ queue \in [Ids -> Counters]
    BY <1>2 DEF QueueInv, TypeOK
  <2>3. queue' \in [Ids -> Counters]
    <3>1. CASE ~queue[on[w]].released
      BY <1>0, <2>1, <2>2, <3>1 DEF Counters
    <3>2. CASE queue[on[w]].released
      BY <1>0, <2>1, <2>2, <3>2 DEF Counters
    <3>. QED  BY <3>1, <3>2
  <2>4. pc' \in [Waiters -> Places] /\ on' \in [Waiters -> Ids \cup {NoId}]
    BY DEF QueueInv, TypeOK, Places
  <2>. QED  BY <2>3, <2>4 DEF QueueInv, TypeOK
<1>4. ASSUME NEW j \in Ids
      PROVE  /\ Booked(j)' = IF j = on[w] THEN Booked(j) \ {w} ELSE Booked(j)
             /\ InCondWait(j)' = IF j = on[w] /\ ~queue[on[w]].released
                                 THEN InCondWait(j) \cup {w} ELSE InCondWait(j)
             /\ w \notin InCondWait(j)
  <2>1. \A v \in Waiters : v # w => pc'[v] = pc[v] /\ on'[v] = on[v]
    BY DEF QueueInv, TypeOK
  <2>2. w \notin InCondWait(j) /\ (w \in Booked(j) <=> j = on[w]) /\ w \notin Booked(j)'
    BY DEF QueueInv, TypeOK, InCondWait, Booked
  <2>3. w \in InCondWait(j)' <=> j = on[w] /\ ~queue[on[w]].released
    BY <1>0 DEF QueueInv, TypeOK, InCondWait
  <2>4. \A v \in Waiters : v # w =>
           /\ v \in Booked(j)' <=> v \in Booked(j)
           /\ v \in InCondWait(j)' <=> v \in InCondWait(j)
    BY <2>1 DEF Booked, InCondWait
  <2>5. /\ Booked(j) \subseteq Waiters /\ Booked(j)' \subseteq Waiters
        /\ InCondWait(j) \subseteq Waiters /\ InCondWait(j)' \subseteq Waiters
    BY DEF Booked, InCondWait
  <2>. DEFINE B == Booked(j)  Bn == Booked(j)'  W == InCondWait(j)  Wn == InCondWait(j)'
  <2>6. \A v : v \in Bn <=> v \in B /\ v # w
    BY <2>2, <2>4, <2>5
  <2>7. \A v : v \in Wn <=> v \in W \/ (v = w /\ j = on[w] /\ ~queue[on[w]].released)
    BY <2>2, <2>3, <2>4, <2>5
  <2>8. w \in B <=> j = on[w]
    BY <2>2
  <2>. HIDE DEF B, Bn, W, Wn
  <2>9. /\ Bn = IF j = on[w] THEN B \ {w} ELSE B
        /\ Wn = IF j = on[w] /\ ~queue[on[w]].released THEN W \cup {w} ELSE W
    BY <2>6, <2>7, <2>8
  <2>. QED  BY <2>2, <2>9 DEF B, Bn, W, Wn
<1>5. ASSUME NEW j \in Ids
      PROVE  /\ queue'[j].booked =
                   IF j = on[w] THEN queue[j].booked - 1 ELSE queue[j].booked
             /\ queue'[j].waiters = IF j = on[w] /\ ~queue[on[w]].released
                                    THEN queue[j].waiters + 1 ELSE queue[j].waiters
  BY DEF QueueInv, TypeOK, Counters
<1>6. CountersExact'
  BY <1>1, <1>4, <1>5, NobodyThere, Counting DEF QueueInv, CountersExact
<1>. QED  BY <1>0, <1>2, <1>3, <1>6

LEMMA EnterKeeps ==
    ASSUME QueueInv, NEW w \in Waiters, Enter(w)
    PROVE  QueueInv'
<1>. USE DEF Enter, Goto, Leave, Return
<1>0. on[w] \in Ids /\ Uses(w, on[w])
  BY InWait DEF Uses
<1>1. TypeOK' /\ CountersExact'
  BY EnterCounts
<1>2. \A v \in Waiters : v # w => pc'[v] = pc[v] /\ on'[v] = on[v]
  BY DEF QueueInv, TypeOK
<1>3. \A j \in Ids : queue'[j].released = queue[j].released
  BY DEF QueueInv, TypeOK, Counters
<1>4. LifeCycle'
  BY <1>0, <1>3 DEF QueueInv, TypeOK, LifeCycle
<1>5. \A j \in Ids, v \in Waiters : Uses(v, j)' => Uses(v, j)
  BY <1>0, <1>2 DEF QueueInv, TypeOK, Uses
<1>6. ASSUME pc'[w] = "delete"
      PROVE  ~OwnerUses(on[w]) /\ \A v \in Waiters \ {w} : ~Uses(v, on[w])
  <2>. PICK i \in Ids : i = on[w]
    BY <1>0
  <2>1. queue[i].released /\ queue'[i].booked = 0 /\ queue'[i].waiters = 0
    BY <1>6 DEF QueueInv, TypeOK, SafeToDelete, Counters
  <2>2. Booked(i)' = {} /\ InCondWait(i)' = {}
    <3>1. Booked(i)' \in SUBSET Waiters /\ InCondWait(i)' \in SUBSET Waiters
      BY DEF Booked, InCondWait
    <3>2. /\ queue'[i].booked = Cardinality(Booked(i)')
          /\ queue'[i].waiters = Cardinality(InCondWait(i)')
      BY <1>1 DEF CountersExact
    <3>. QED  BY <2>1, <3>1, <3>2, Counting
  <2>3. Booked(i) \ {w} = {} /\ InCondWait(i) \ {w} = {}
    BY <1>2, <2>2 DEF Booked, InCondWait
  <2>. QED  BY <1>0, <2>1, <2>3, LastOneLeaves
<1>7. SoleDeleter'
  <2>1. ASSUME NEW j \in Ids, owner'[j] = "delete", NEW v \in Waiters
        PROVE  ~Uses(v, j)'
    BY <1>5, <2>1 DEF QueueInv, SoleDeleter
  <2>2. ASSUME NEW j \in Ids, NEW v \in Waiters, Uses(v, j)', pc'[v] = "delete"
        PROVE  ~OwnerUses(j)' /\ \A u \in Waiters \ {v} : ~Uses(u, j)'
    <3>1. CASE v = w
      BY <1>5, <1>6, <2>2, <3>1 DEF Uses, OwnerUses
    <3>2. CASE v # w
      <4>1. Uses(v, j) /\ pc[v] = "delete"
        BY <1>2, <1>5, <2>2, <3>2
      <4>. QED  BY <1>5, <4>1 DEF QueueInv, SoleDeleter, OwnerUses
    <3>. QED  BY <3>1, <3>2
  <2>. QED  BY <2>1, <2>2 DEF SoleDeleter
<1>8. NoUseAfterFree'
  BY <1>5 DEF QueueInv, NoUseAfterFree, OwnerUses
<1>. QED  BY <1>1, <1>4, <1>7, <1>8 DEF QueueInv

(* Waking up takes w off n_waiters.                                         *)
LEMMA WakeCounts ==
    ASSUME QueueInv, NEW w \in Waiters, Wake(w)
    PROVE  on[w] \in Ids /\ TypeOK' /\ CountersExact'
<1>. USE DEF Wake, Goto, Leave, Return
<1>0. on[w] \in Ids
  BY InWait
<1>1. w \in InCondWait(on[w])
  BY DEF InCondWait
<1>2. queue[on[w]].waiters \in Nat \ {0}
  BY <1>0, <1>1, NobodyThere DEF QueueInv, TypeOK, Counters
<1>3. TypeOK'
  <2>0. queue[on[w]] \in Counters /\ queue[on[w]].waiters - 1 \in Nat
    BY <1>0, <1>2 DEF QueueInv, TypeOK
  <2>1. queue' \in [Ids -> Counters]
    BY <1>0, <2>0 DEF QueueInv, TypeOK, Counters
  <2>2. pc' \in [Waiters -> Places] /\ on' \in [Waiters -> Ids \cup {NoId}]
    BY DEF QueueInv, TypeOK, Places
  <2>. QED  BY <2>1, <2>2 DEF QueueInv, TypeOK
<1>4. ASSUME NEW j \in Ids
      PROVE  /\ Booked(j)' = Booked(j)
             /\ InCondWait(j)' = IF j = on[w] THEN InCondWait(j) \ {w} ELSE InCondWait(j)
  BY DEF QueueInv, TypeOK, Booked, InCondWait
<1>5. ASSUME NEW j \in Ids
      PROVE  /\ queue'[j].booked = queue[j].booked
             /\ queue'[j].waiters =
                   IF j = on[w] THEN queue[j].waiters - 1 ELSE queue[j].waiters
  BY DEF QueueInv, TypeOK, Counters
<1>6. CountersExact'
  BY <1>1, <1>4, <1>5, NobodyThere, Counting DEF QueueInv, CountersExact
<1>. QED  BY <1>0, <1>3, <1>6

LEMMA WakeKeeps ==
    ASSUME QueueInv, NEW w \in Waiters, Wake(w)
    PROVE  QueueInv'
<1>. USE DEF Wake, Goto, Leave, Return
<1>0. on[w] \in Ids /\ Uses(w, on[w])
  BY InWait DEF Uses
<1>1. TypeOK' /\ CountersExact'
  BY WakeCounts
<1>2. \A v \in Waiters : v # w => pc'[v] = pc[v] /\ on'[v] = on[v]
  BY DEF QueueInv, TypeOK
<1>3. \A j \in Ids : queue'[j].released = queue[j].released
  BY DEF QueueInv, TypeOK, Counters
<1>4. LifeCycle'
  BY <1>0, <1>3 DEF QueueInv, TypeOK, LifeCycle, SafeToDelete
<1>5. \A j \in Ids, v \in Waiters : Uses(v, j)' => Uses(v, j)
  BY <1>0, <1>2 DEF QueueInv, TypeOK, Uses
<1>6. ASSUME pc'[w] = "delete"
      PROVE  ~OwnerUses(on[w]) /\ \A v \in Waiters \ {w} : ~Uses(v, on[w])
  <2>. PICK i \in Ids : i = on[w]
    BY <1>0
  <2>1. queue[i].released /\ queue'[i].booked = 0 /\ queue'[i].waiters = 0
    BY <1>6 DEF QueueInv, TypeOK, SafeToDelete, Counters
  <2>2. Booked(i)' = {} /\ InCondWait(i)' = {}
    <3>1. Booked(i)' \in SUBSET Waiters /\ InCondWait(i)' \in SUBSET Waiters
      BY DEF Booked, InCondWait
    <3>2. /\ queue'[i].booked = Cardinality(Booked(i)')
          /\ queue'[i].waiters = Cardinality(InCondWait(i)')
      BY <1>1 DEF CountersExact
    <3>. QED  BY <2>1, <3>1, <3>2, Counting
  <2>3. Booked(i) \ {w} = {} /\ InCondWait(i) \ {w} = {}
    BY <1>2, <2>2 DEF Booked, InCondWait
  <2>. QED  BY <1>0, <2>1, <2>3, LastOneLeaves
<1>7. SoleDeleter'
  <2>1. ASSUME NEW j \in Ids, owner'[j] = "delete", NEW v \in Waiters
        PROVE  ~Uses(v, j)'
    BY <1>5, <2>1 DEF QueueInv, SoleDeleter
  <2>2. ASSUME NEW j \in Ids, NEW v \in Waiters, Uses(v, j)', pc'[v] = "delete"
        PROVE  ~OwnerUses(j)' /\ \A u \in Waiters \ {v} : ~Uses(u, j)'
    <3>1. CASE v = w
      BY <1>5, <1>6, <2>2, <3>1 DEF Uses, OwnerUses
    <3>2. CASE v # w
      <4>1. Uses(v, j) /\ pc[v] = "delete"
        BY <1>2, <1>5, <2>2, <3>2
      <4>. QED  BY <1>5, <4>1 DEF QueueInv, SoleDeleter, OwnerUses
    <3>. QED  BY <3>1, <3>2
  <2>. QED  BY <2>1, <2>2 DEF SoleDeleter
<1>8. NoUseAfterFree'
  BY <1>5 DEF QueueInv, NoUseAfterFree, OwnerUses
<1>. QED  BY <1>1, <1>4, <1>7, <1>8 DEF QueueInv

LEMMA DeleteKeeps ==
    ASSUME QueueInv, NEW w \in Waiters, Delete(w)
    PROVE  QueueInv'
<1>. USE DEF Delete, Goto, Return
<1>0. on[w] \in Ids /\ Uses(w, on[w])
  BY InWait DEF Uses
<1>1. TypeOK'
  BY DEF QueueInv, TypeOK, Places
<1>2. LifeCycle'
  BY DEF QueueInv, TypeOK, LifeCycle
<1>3. \A j \in Ids : Booked(j)' = Booked(j) /\ InCondWait(j)' = InCondWait(j)
  BY DEF QueueInv, TypeOK, Booked, InCondWait
<1>4. CountersExact'
  BY <1>3 DEF QueueInv, CountersExact
<1>5. \A j \in Ids, v \in Waiters : Uses(v, j)' => Uses(v, j) /\ v # w /\ pc'[v] = pc[v]
  BY DEF QueueInv, TypeOK, Uses
<1>6. SoleDeleter'
  BY <1>5 DEF QueueInv, SoleDeleter, OwnerUses
<1>7. ~OwnerUses(on[w]) /\ \A v \in Waiters \ {w} : ~Uses(v, on[w])
  BY <1>0 DEF QueueInv, SoleDeleter
<1>8. NoUseAfterFree'
  BY <1>5, <1>7 DEF QueueInv, TypeOK, NoUseAfterFree, OwnerUses
<1>. QED  BY <1>1, <1>2, <1>4, <1>6, <1>8 DEF QueueInv

LEMMA WakeSpuriouslyKeeps ==
    ASSUME QueueInv, NEW w \in Waiters, WakeSpuriously(w)
    PROVE  QueueInv'
<1>. USE DEF WakeSpuriously, Goto
<1>1. TypeOK'
  BY DEF QueueInv, TypeOK, Places
<1>2. LifeCycle'
  BY DEF QueueInv, TypeOK, LifeCycle
<1>3. \A j \in Ids : Booked(j)' = Booked(j) /\ InCondWait(j)' = InCondWait(j)
  BY DEF QueueInv, TypeOK, Booked, InCondWait
<1>4. CountersExact'
  BY <1>3 DEF QueueInv, CountersExact
<1>5. \A j \in Ids, v \in Waiters : Uses(v, j)' <=> Uses(v, j)
  BY DEF QueueInv, TypeOK, Uses
<1>6. \A v \in Waiters : pc'[v] = "delete" => pc[v] = "delete"
  BY DEF QueueInv, TypeOK
<1>7. SoleDeleter' /\ NoUseAfterFree'
  BY <1>5, <1>6 DEF QueueInv, SoleDeleter, NoUseAfterFree, OwnerUses
<1>. QED  BY <1>1, <1>2, <1>4, <1>7 DEF QueueInv

-------------------------------------------------------------------------------
LEMMA StutterKeeps ==
    ASSUME QueueInv, UNCHANGED vars
    PROVE  QueueInv'
<1>. USE DEF vars
<1>1. TypeOK' /\ LifeCycle'
  BY DEF QueueInv, TypeOK, LifeCycle
<1>2. CountersExact'
  BY CountersKept DEF QueueInv
<1>3. SoleDeleter' /\ NoUseAfterFree'
  BY DEF QueueInv, SoleDeleter, NoUseAfterFree, OwnerUses, Uses
<1>. QED  BY <1>1, <1>2, <1>3 DEF QueueInv

(* No step of an owner, of a waiter or of the condition variable breaks     *)
(* the invariant.                                                          *)
LEMMA QueueInvStep == QueueInv /\ [NextSpurious]_vars => QueueInv'
<1>. SUFFICES ASSUME QueueInv, [NextSpurious]_vars PROVE QueueInv'
  OBVIOUS
<1>1. ASSUME NEW i \in Ids, OwnerStep(i) PROVE QueueInv'
  BY <1>1, InsertKeeps, EraseKeeps, ReleaseKeeps, DeleteAfterReleaseKeeps DEF OwnerStep
<1>2. ASSUME NEW w \in Waiters, WaiterStep(w) PROVE QueueInv'
  BY <1>2, FindKeeps, BookKeeps, EnterKeeps, WakeKeeps, DeleteKeeps DEF WaiterStep
<1>3. ASSUME NEW w \in Waiters, NEW i \in Ids, Call(w, i) PROVE QueueInv'
  BY <1>3, CallKeeps
<1>4. ASSUME NEW w \in Waiters, WakeSpuriously(w) PROVE QueueInv'
  BY <1>4, WakeSpuriouslyKeeps
<1>5. ASSUME Stopped \/ UNCHANGED vars PROVE QueueInv'
  BY <1>5, StutterKeeps DEF Stopped
<1>. QED  BY <1>1, <1>2, <1>3, <1>4, <1>5 DEF NextSpurious, Next

(* The invariant of the wait queues, for every number of IDs and waiters    *)
(* and with spurious wakeups.                                              *)
THEOREM QueueInvHolds == SpuriousSpec => []QueueInv
<1>. QED  BY QueueInvInit, QueueInvStep, PTL DEF SpuriousSpec

(* Nobody locks, reads or deletes a WaitQueue that has been deleted: the    *)
(* self-deletion in wait() and release() (waitqueue.cpp:14-38) is safe.    *)
THEOREM NoUseAfterFreeHolds == SpuriousSpec => []NoUseAfterFree
<1>1. QueueInv => NoUseAfterFree
  BY DEF QueueInv
<1>. QED  BY <1>1, QueueInvHolds, PTL

-------------------------------------------------------------------------------
(* Without spurious wakeups: what the waiters are promised                   *)

(* Who has woken up has been woken by the release.                           *)
AwakeReleased == \A w \in Waiters : pc[w] = "awake" => queue[on[w]].released

(* A step that WaitTable has too, or does not see.                           *)
Promised == [Promise!Next]_(Promise!vars)

LEMMA ReturnIsPromised ==
    ASSUME QueueInv, NEW w \in Waiters, pc[w] # "idle", on[w] \notin queues,
           Return(w), UNCHANGED queues
    PROVE  Promised
<1>1. on[w] # NoId
  BY DEF QueueInv, LifeCycle
<1>2. Promise!Return(w)
  BY <1>1 DEF Return, Promise!Return
<1>. QED  BY <1>2 DEF Promised, Promise!Next

LEMMA ReleasedIsGone ==
    ASSUME QueueInv, NEW i \in Ids, queue[i].released
    PROVE  i \notin queues
BY DEF QueueInv, LifeCycle

LEMMA OwnerStepPromised ==
    ASSUME QueueInv, AwakeReleased, NEW i \in Ids, OwnerStep(i)
    PROVE  AwakeReleased' /\ Promised
<1>. USE DEF QueueInv, TypeOK, AwakeReleased
<1>0. \A w \in Waiters : pc[w] \in {"asleep", "awake"} => on[w] \in Ids
  BY InWait
<1>1. CASE Insert(i)
  <2>1. i \notin queues
    BY <1>1 DEF Insert, LifeCycle
  <2>2. Promise!Insert(i)
    BY <1>1, <2>1 DEF Insert, Promise!Insert
  <2>3. AwakeReleased'
    BY <1>1 DEF Insert
  <2>. QED  BY <2>2, <2>3 DEF Promised, Promise!Next
<1>2. CASE Erase(i)
  <2>1. i \in queues
    BY <1>2 DEF Erase, LifeCycle
  <2>2. Promise!Release(i)
    BY <1>2, <2>1 DEF Erase, Promise!Release
  <2>3. AwakeReleased'
    BY <1>2 DEF Erase
  <2>. QED  BY <2>2, <2>3 DEF Promised, Promise!Next
<1>3. CASE Release(i)
  <2>1. queue'[i].released /\ \A j \in Ids : queue[j].released => queue'[j].released
    BY <1>3 DEF Release, Counters
  <2>2. AwakeReleased'
    BY <1>0, <1>3, <2>1 DEF Release
  <2>. QED  BY <1>3, <2>2 DEF Release, Promised, Promise!vars
<1>4. CASE DeleteAfterRelease(i)
  BY <1>4 DEF DeleteAfterRelease, Promised, Promise!vars
<1>. QED  BY <1>1, <1>2, <1>3, <1>4 DEF OwnerStep

LEMMA WaiterStepPromised ==
    ASSUME QueueInv, AwakeReleased, NEW w \in Waiters, WaiterStep(w)
    PROVE  AwakeReleased' /\ Promised
<1>. USE DEF Goto
<1>0. pc \in [Waiters -> Places] /\ on \in [Waiters -> Ids \cup {NoId}]
      /\ queue \in [Ids -> Counters]
  BY DEF QueueInv, TypeOK
<1>1. ASSUME NEW u \in Waiters, pc[u] = "awake"  PROVE on[u] \in Ids
  BY <1>1, InWait
<1>2. ASSUME pc[w] \in {"book", "enter", "awake", "delete"}  PROVE on[w] \in Ids
  BY <1>2, InWait
<1>3. ASSUME \A u \in Waiters : u # w => pc'[u] = pc[u] /\ on'[u] = on[u],
             pc'[w] # "awake",
             \A j \in Ids : queue[j].released => queue'[j].released
      PROVE  AwakeReleased'
  BY <1>1, <1>3 DEF AwakeReleased
<1>4. CASE Find(w)
  <2>1. AwakeReleased'
    <3>1. \A u \in Waiters : u # w => pc'[u] = pc[u] /\ on'[u] = on[u]
      BY <1>0, <1>4 DEF Find, Return
    <3>2. pc'[w] # "awake" /\ queue' = queue
      BY <1>0, <1>4 DEF Find, Return
    <3>. QED  BY <1>3, <3>1, <3>2
  <2>2. CASE on[w] \notin queues /\ Return(w)
    <3>1. pc[w] # "idle" /\ UNCHANGED queues
      BY <1>4 DEF Find
    <3>. QED  BY <2>1, <2>2, <3>1, ReturnIsPromised
  <2>3. CASE UNCHANGED on
    BY <1>4, <2>1, <2>3 DEF Find, Promised, Promise!vars
  <2>. QED  BY <1>4, <2>1, <2>2, <2>3 DEF Find
<1>5. CASE Book(w)
  <2>1. AwakeReleased'
    BY <1>0, <1>3, <1>5 DEF Book, Counters
  <2>. QED  BY <1>5, <2>1 DEF Book, Promised, Promise!vars
<1>6. CASE Enter(w)
  <2>0. on[w] \in Ids
    BY <1>2, <1>6 DEF Enter
  <2>1. AwakeReleased'
    <3>1. \A j \in Ids : queue'[j].released = queue[j].released
      BY <1>0, <1>6 DEF Enter, Counters
    <3>2. \A u \in Waiters : u # w => pc'[u] = pc[u] /\ on'[u] = on[u]
      BY <1>0, <1>6 DEF Enter, Leave, Return
    <3>3. pc'[w] # "awake"
      BY <1>0, <1>6 DEF Enter, Leave, Return
    <3>. QED  BY <1>3, <3>1, <3>2, <3>3
  <2>2. CASE UNCHANGED on
    BY <1>6, <2>1, <2>2 DEF Enter, Promised, Promise!vars
  <2>3. CASE queue[on[w]].released /\ Return(w)
    <3>1. on[w] \notin queues
      BY <2>0, <2>3, ReleasedIsGone
    <3>2. pc[w] # "idle" /\ UNCHANGED queues
      BY <1>6 DEF Enter
    <3>. QED  BY <2>1, <2>3, <3>1, <3>2, ReturnIsPromised
  <2>. QED  BY <1>6, <2>1, <2>2, <2>3 DEF Enter, Leave
<1>7. CASE Wake(w)
  <2>0. on[w] \in Ids /\ queue[on[w]].released
    BY <1>2, <1>7 DEF Wake, AwakeReleased
  <2>1. AwakeReleased'
    <3>1. \A j \in Ids : queue'[j].released = queue[j].released
      BY <1>0, <1>7 DEF Wake, Counters
    <3>2. \A u \in Waiters : u # w => pc'[u] = pc[u] /\ on'[u] = on[u]
      BY <1>0, <1>7 DEF Wake, Leave, Return
    <3>3. pc'[w] # "awake"
      BY <1>0, <1>7 DEF Wake, Leave, Return
    <3>. QED  BY <1>3, <3>1, <3>2, <3>3
  <2>2. CASE UNCHANGED on
    BY <1>7, <2>1, <2>2 DEF Wake, Promised, Promise!vars
  <2>3. CASE Return(w)
    <3>1. on[w] \notin queues
      BY <2>0, ReleasedIsGone
    <3>2. pc[w] # "idle" /\ UNCHANGED queues
      BY <1>7 DEF Wake
    <3>. QED  BY <2>1, <2>3, <3>1, <3>2, ReturnIsPromised
  <2>. QED  BY <1>7, <2>2, <2>3 DEF Wake, Leave
<1>8. CASE Delete(w)
  <2>1. AwakeReleased'
    BY <1>0, <1>3, <1>8 DEF Delete, Return
  <2>2. on[w] \notin queues
    <3>1. on[w] \in Ids /\ queue[on[w]].released
      BY <1>2, <1>8 DEF Delete, QueueInv, LifeCycle
    <3>. QED  BY <3>1, ReleasedIsGone
  <2>. QED  BY <1>8, <2>1, <2>2, ReturnIsPromised DEF Delete
<1>. QED  BY <1>4, <1>5, <1>6, <1>7, <1>8 DEF WaiterStep

LEMMA PromiseStep == QueueInv /\ AwakeReleased /\ [Next]_vars => AwakeReleased' /\ Promised
<1>. SUFFICES ASSUME QueueInv, AwakeReleased, [Next]_vars PROVE AwakeReleased' /\ Promised
  OBVIOUS
<1>1. CASE UNCHANGED vars
  BY <1>1 DEF vars, AwakeReleased, Promised, Promise!vars
<1>2. ASSUME NEW i \in Ids, OwnerStep(i) PROVE AwakeReleased' /\ Promised
  BY <1>2, OwnerStepPromised
<1>3. ASSUME NEW w \in Waiters, WaiterStep(w) PROVE AwakeReleased' /\ Promised
  BY <1>3, WaiterStepPromised
<1>4. ASSUME NEW w \in Waiters, NEW i \in Ids, Call(w, i) PROVE AwakeReleased' /\ Promised
  <2>1. AwakeReleased'
    BY <1>4 DEF Call, Goto, AwakeReleased, QueueInv, TypeOK
  <2>2. on[w] = NoId
    BY <1>4 DEF Call, QueueInv, LifeCycle
  <2>3. Promise!Call(w, i)
    BY <1>4, <2>2 DEF Call, Promise!Call
  <2>. QED  BY <2>1, <2>3 DEF Promised, Promise!Next
<1>. QED  BY <1>1, <1>2, <1>3, <1>4 DEF Next, Stopped

(* wait() returns when the ID has been released, and never before: the       *)
(* steps of WaitQueue are those of WaitTable.  (That it does return is       *)
(* left to the run.)                                                        *)
THEOREM WaitTablePromiseKept == Spec => Promise!Init /\ [][Promise!Next]_(Promise!vars)
<1>1. Init => Promise!Init /\ AwakeReleased
  BY DEF Init, Promise!Init, AwakeReleased
<1>2. QueueInv /\ AwakeReleased /\ [Next]_vars =>
         AwakeReleased' /\ [Promise!Next]_(Promise!vars)
  BY PromiseStep DEF Promised
<1>3. QueueInv /\ [Next]_vars => QueueInv'
  BY QueueInvStep DEF NextSpurious
<1>. QED  BY <1>1, <1>2, <1>3, QueueInvInit, PTL DEF Spec

===============================================================================
