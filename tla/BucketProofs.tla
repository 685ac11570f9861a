------------------------------ MODULE BucketProofs -----------------------------
(***************************************************************************)
(* Proofs about Bucket with threads that insert records alone (NextAlone),  *)
(* for any threads, keys, page sizes and operations.                        *)
(***************************************************************************)
EXTENDS Bucket, SequenceTheorems, WellFoundedInduction, TLAPS

(* After commit_lock_and_get_timestamp, and of these, after update_record.   *)
LinkingPcs == {"link", "linkPage", "linkSlot", "index", "indexHeader", "checksum"}
CommitPcs == {"stamp", "unlock", "commitUnlock"} \cup LinkingPcs

Writes(w) == local[w].op # "read"
HasKey(w) == Writes(w) /\ pc[w] \in Inserting \cup {"inserted", "leave", "stamp", "unlock"} \cup LinkingPcs

(* The committer is the thread between the two calls; a writer has its key   *)
(* until it unlocks it.                                                     *)
RoleOK(w) ==
    /\ pc[w] \in CommitPcs <=> committer = w
    /\ HasKey(w) => keyLock[local[w].key] = w
    /\ pc[w] \in {"record", "grow", "inserted", "leave"} \cup CommitPcs => Writes(w)
    /\ pc[w] \in {"link", "linkPage", "linkSlot"} => local[w].op = "set"
    /\ pc[w] \in {"index", "indexHeader", "checksum"} => local[w].op = "insert"

(* The counts it has read are not above the header's, and those of an        *)
(* inserter are the header's.                                               *)
CountsOK(w) ==
    /\ local[w].nIndex <= header.nIndex
    /\ Writes(w)
       /\ pc[w] \in {"find", "read", "readPage", "readSlot", "found", "record", "grow"} =>
          local[w].nData = header.nData
    /\ pc[w] = "checksum" =>
          /\ w \in headerReaders
          /\ header.nIndex > 0
          /\ \A p \in DOMAIN index : p[1] # header.nIndex - 1

(* What it has found, or not found, in the index is still so.                *)
FindsOK(w) ==
    /\ Writes(w) /\ pc[w] = "find" =>
          \A p \in DOMAIN index : index[p].key = local[w].key => p[1] < local[w].nIndex
    /\ local[w].op = "insert"
       /\ pc[w] \in {"record", "grow", "inserted", "stamp", "index", "indexHeader", "checksum"} =>
          \A p \in DOMAIN index : index[p].key # local[w].key
    /\ local[w].op = "set"
       /\ pc[w] \in {"found", "record", "grow", "inserted", "stamp", "link", "linkPage", "linkSlot"} =>
          local[w].item \in DOMAIN index /\ index[local[w].item].key = local[w].key
    /\ pc[w] \in {"read", "readPage", "readSlot"} =>
          local[w].item \in DOMAIN index /\ index[local[w].item].key = local[w].key

(* The newest committed version of a key.                                    *)
Newest(v, k) ==
    IF Committed(k) = {} THEN v = NoPlace
    ELSE v \in Committed(k) /\ \A q \in Committed(k) : data[q].ts <= data[v].ts

(* What it has copied of a pointer: the halves of committed versions, and to  *)
(* a writer those that the item still has.                                   *)
CopyOK(w) ==
    /\ pc[w] = "readSlot" => \E u \in Committed(local[w].key) : local[w].prev[1] = u[1]
    /\ pc[w] = "readPage" => \E u \in Committed(local[w].key) : local[w].prev[2] = u[2]
    /\ pc[w] = "found" => local[w].prev \in Halves(local[w].key)
    /\ Writes(w) /\ pc[w] = "readSlot" => local[w].prev[1] = index[local[w].item].at[1]
    /\ Writes(w) /\ pc[w] = "readPage" => local[w].prev[2] = index[local[w].item].at[2]

(* Its record, and the version below it.                                     *)
RecordOK(w) ==
    /\ Writes(w) /\ pc[w] \in {"found", "record", "grow", "inserted", "stamp"} =>
          Newest(local[w].prev, local[w].key)
    /\ Pending(w) => local[w].at \in DOMAIN data /\ data[local[w].at] = NewRecord(w)
    /\ pc[w] = "stamp" => clock > 0 /\ \A p \in DOMAIN data : data[p].ts < clock
    /\ pc[w] \in LinkingPcs =>
          /\ clock > 0 /\ local[w].at \in DOMAIN data
          /\ data[local[w].at].key = local[w].key /\ data[local[w].at].ts = clock
    /\ pc[w] = "link" => index[local[w].item].at \in Committed(local[w].key)
    /\ pc[w] = "linkSlot" => index[local[w].item].at[1] = local[w].at[1]
    /\ pc[w] = "linkPage" => index[local[w].item].at[2] = local[w].at[2]
    /\ pc[w] \in {"readPage", "readSlot", "found"} => CopyOK(w)

ThreadOK(w) == RoleOK(w) /\ CountsOK(w) /\ FindsOK(w) /\ RecordOK(w)

(* The chain of a key and its index item.                                    *)
KeyOK(k) ==
    /\ \A p, q \in DOMAIN index : index[p].key = k /\ index[q].key = k => p = q
    /\ \A p \in DOMAIN index : index[p].key = k =>
          Committed(k) # {} /\ (Linking(k) \/ Newest(index[p].at, k))
    /\ \A p \in DOMAIN index : index[p].key = k => index[p].at \in Halves(k)
    /\ \A p \in Committed(k) : IsPrevious(data[p].prev, k, data[p].ts)
    /\ Committed(k) # {} /\ ~Linking(k) => \E p \in DOMAIN index : index[p].key = k

Fresh ==
    /\ header = NoCounts /\ backup = NoCounts /\ DOMAIN index = {} /\ DOMAIN data = {}
    /\ \A w \in Threads : pc[w] \in {"idle", "parse", "repair"}

FilesOK ==
    /\ headerWriter = Nobody
    /\ header.good \/ Fresh \/ \E w \in Threads : pc[w] = "checksum"
    /\ \A p \in DOMAIN data : p[1] < header.nData /\ data[p].ts <= clock
    /\ \A p \in DOMAIN index : p[1] < header.nIndex

InsertsAlone ==
    \A v, w \in Threads : Writes(v) /\ pc[v] \in Inserting /\ Writes(w) /\ pc[w] \in Inserting => v = w

BucketInv ==
    /\ TypeOK /\ FilesOK /\ InsertsAlone
    /\ \A w \in Threads : ThreadOK(w)
    /\ \A k \in Keys : KeyOK(k)

--------------------------------------------------------------------------------
(* What a step leaves alone. *)

(* A step that moves no item and no record of the key.                       *)
KeySame(k) ==
    /\ \A p \in DOMAIN index : index[p].key = k =>
          p \in DOMAIN index' /\ index'[p] = index[p]
    /\ \A p \in DOMAIN index' : index'[p].key = k =>
          p \in DOMAIN index /\ index'[p] = index[p]
    /\ \A p \in DOMAIN data : data[p].key = k =>
          p \in DOMAIN data' /\ data'[p] = data[p]
    /\ \A p \in DOMAIN data' : data'[p].key = k /\ data'[p].ts # Uncommitted =>
          p \in DOMAIN data /\ data'[p] = data[p]

(* The committed versions of the key are the same then, and their order.     *)
LEMMA SameVersions ==
  ASSUME NEW k, KeySame(k)
  PROVE  /\ Committed(k)' = Committed(k)
         /\ \A p \in Committed(k) : data'[p] = data[p]
<1>1. \A p : p \in Committed(k)' => p \in Committed(k)  BY DEF KeySame, Committed
<1>2. \A p : p \in Committed(k) => p \in Committed(k)'  BY DEF KeySame, Committed
<1>3. \A p \in Committed(k) : data'[p] = data[p]  BY DEF KeySame, Committed
<1> QED  BY <1>1, <1>2, <1>3

LEMMA SameNewest ==
  ASSUME NEW k, NEW v, KeySame(k), Newest(v, k)
  PROVE  Newest(v, k)'
<1>1. Committed(k)' = Committed(k) /\ \A p \in Committed(k) : data'[p] = data[p]
  BY SameVersions
<1> QED  BY <1>1 DEF Newest

LEMMA SamePrevious ==
  ASSUME NEW k, NEW v, NEW ts, KeySame(k), IsPrevious(v, k, ts)
  PROVE  IsPrevious(v, k, ts)'
<1>1. Committed(k)' = Committed(k) /\ \A p \in Committed(k) : data'[p] = data[p]
  BY SameVersions
<1> QED  BY <1>1 DEF IsPrevious

(* No item is lost or moved to another key, and no committed version.        *)
Stays ==
    /\ \A p \in DOMAIN index : p \in DOMAIN index' /\ index'[p].key = index[p].key
    /\ \A k : Committed(k) \subseteq Committed(k)'

LEMMA SameStays ==
  ASSUME \A k : KeySame(k)
  PROVE  Stays
<1>1. ASSUME NEW k  PROVE Committed(k) \subseteq Committed(k)'
  <2>1. KeySame(k)  OBVIOUS
  <2> QED  BY <2>1, SameVersions
<1>2. ASSUME NEW p \in DOMAIN index
      PROVE  p \in DOMAIN index' /\ index'[p].key = index[p].key
  <2>1. PICK k : k = index[p].key  OBVIOUS
  <2>2. KeySame(k)  OBVIOUS
  <2> QED  BY <2>1, <2>2 DEF KeySame
<1> QED  BY <1>1, <1>2 DEF Stays

LEMMA HalvesStay ==
  ASSUME Stays, NEW k
  PROVE  Halves(k) \subseteq Halves(k)'
BY DEF Stays, Halves

(* A thread that takes no step keeps its part of the invariant.              *)
LEMMA OtherThread ==
  ASSUME NEW v \in Threads, ThreadOK(v), header.nIndex \in Nat, header'.nIndex \in Nat,
         local[v].nIndex \in Nat, clock \in Nat,
         pc'[v] = pc[v], local'[v] = local[v],
         committer' = v <=> committer = v,
         HasKey(v) => keyLock'[local[v].key] = v,
         header'.nIndex >= header.nIndex,
         pc[v] = "checksum" =>
            v \in headerReaders' /\ header'.nIndex = header.nIndex /\ DOMAIN index' = DOMAIN index,
         Writes(v)
         /\ pc[v] \in {"find", "read", "readPage", "readSlot", "found", "record", "grow"} =>
            header'.nData = header.nData,
         HasKey(v) => KeySame(local[v].key), Stays,
         committer = v => clock' = clock /\ \A p \in DOMAIN data' :
            (p \in DOMAIN data /\ data'[p].ts = data[p].ts) \/ data'[p].ts = 0
  PROVE  ThreadOK(v)'
<1>1. RoleOK(v)'  BY DEF ThreadOK, RoleOK, HasKey, Writes
<1>2. CountsOK(v)'  BY DEF ThreadOK, CountsOK, Writes
<1>3. FindsOK(v)'
  <2>1. HasKey(v) => \A p : p \in DOMAIN index /\ index[p].key = local[v].key =>
           p \in DOMAIN index' /\ index'[p] = index[p]
    BY DEF KeySame
  <2>2. HasKey(v) => \A p : p \in DOMAIN index' /\ index'[p].key = local[v].key =>
           p \in DOMAIN index /\ index'[p] = index[p]
    BY DEF KeySame
  <2>3. pc[v] \in {"read", "readPage", "readSlot"} =>
           local[v].item \in DOMAIN index' /\ index'[local[v].item].key = local[v].key
    BY DEF ThreadOK, FindsOK, Stays
  <2> QED  BY <2>1, <2>2, <2>3 DEF ThreadOK, FindsOK, HasKey, Writes, Inserting, LinkingPcs
<1>4. RecordOK(v)'
  <2>1. (Writes(v) /\ pc[v] \in {"found", "record", "grow", "inserted", "stamp"}) =>
           Newest(local[v].prev, local[v].key)'
    <3>1. SUFFICES ASSUME Writes(v), pc[v] \in {"found", "record", "grow", "inserted", "stamp"}
                   PROVE  Newest(local[v].prev, local[v].key)'
      OBVIOUS
    <3>2. PICK x, k : x = local[v].prev /\ k = local[v].key  OBVIOUS
    <3>3. KeySame(k)  BY <3>1, <3>2 DEF HasKey, Inserting
    <3>4. Newest(x, k)  BY <3>1, <3>2 DEF ThreadOK, RecordOK
    <3>5. Newest(x, k)'  BY <3>3, <3>4, SameNewest
    <3>6. x = local'[v].prev /\ k = local'[v].key  BY <3>2
    <3> QED  BY <3>5, <3>6
  <2>2. Pending(v) => local[v].at \in DOMAIN data' /\ data'[local[v].at] = NewRecord(v)
    <3>1. Pending(v) => HasKey(v)
      BY DEF ThreadOK, RoleOK, HasKey, Pending, CommitPcs
    <3> QED  BY <3>1 DEF ThreadOK, RecordOK, KeySame, NewRecord
  <2>3. pc[v] = "stamp" => clock' > 0 /\ \A p \in DOMAIN data' : data'[p].ts < clock'
    BY DEF ThreadOK, RecordOK, RoleOK, CommitPcs
  <2>4. pc[v] \in LinkingPcs =>
          /\ clock' > 0 /\ local[v].at \in DOMAIN data'
          /\ data'[local[v].at].key = local[v].key /\ data'[local[v].at].ts = clock'
    <3>1. pc[v] \in LinkingPcs => HasKey(v) /\ committer = v
      BY DEF ThreadOK, RoleOK, HasKey, CommitPcs
    <3> QED  BY <3>1 DEF ThreadOK, RecordOK, KeySame
  <2>5. pc[v] \in {"link", "linkPage", "linkSlot"} =>
          /\ index'[local[v].item] = index[local[v].item]
          /\ Committed(local[v].key)' = Committed(local[v].key)
    <3>1. SUFFICES ASSUME pc[v] \in {"link", "linkPage", "linkSlot"}
                   PROVE  /\ index'[local[v].item] = index[local[v].item]
                          /\ Committed(local[v].key)' = Committed(local[v].key)
      OBVIOUS
    <3>2. HasKey(v) /\ local[v].item \in DOMAIN index /\ index[local[v].item].key = local[v].key
      BY <3>1 DEF ThreadOK, RoleOK, FindsOK, HasKey, Writes, LinkingPcs
    <3>3. PICK k : k = local[v].key  OBVIOUS
    <3>4. KeySame(k)  BY <3>2, <3>3
    <3>5. Committed(k)' = Committed(k)  BY <3>4, SameVersions
    <3>6. k = local'[v].key  BY <3>3
    <3>7. index'[local[v].item] = index[local[v].item]  BY <3>2, <3>3, <3>4 DEF KeySame
    <3> QED  BY <3>3, <3>5, <3>6, <3>7
  <2>6. pc[v] \in {"readPage", "readSlot", "found"} => CopyOK(v)'
    <3>1. SUFFICES ASSUME pc[v] \in {"readPage", "readSlot", "found"}  PROVE CopyOK(v)'
      OBVIOUS
    <3>2. PICK k, x : k = local[v].key /\ x = local[v].prev  OBVIOUS
    <3>3. k = local'[v].key /\ x = local'[v].prev  BY <3>2
    <3>4. CopyOK(v)  BY <3>1 DEF ThreadOK, RecordOK
    <3>5. Committed(k) \subseteq Committed(k)'  BY DEF Stays
    <3>6. Halves(k) \subseteq Halves(k)'  BY HalvesStay
    <3>7. Writes(v) /\ pc[v] \in {"readPage", "readSlot"} =>
             index'[local[v].item] = index[local[v].item]
      <4>1. SUFFICES ASSUME Writes(v), pc[v] \in {"readPage", "readSlot"}
                     PROVE  index'[local[v].item] = index[local[v].item]
        OBVIOUS
      <4>2. KeySame(local[v].key)  BY <4>1 DEF HasKey, Inserting
      <4>3. local[v].item \in DOMAIN index /\ index[local[v].item].key = local[v].key
        BY <4>1 DEF ThreadOK, FindsOK
      <4> QED  BY <4>2, <4>3 DEF KeySame
    <3>8. pc[v] = "readSlot" => \E u \in Committed(k)' : x[1] = u[1]
      BY <3>2, <3>4, <3>5 DEF CopyOK
    <3>9. pc[v] = "readPage" => \E u \in Committed(k)' : x[2] = u[2]
      BY <3>2, <3>4, <3>5 DEF CopyOK
    <3>10. pc[v] = "found" => x \in Halves(k)'
      BY <3>2, <3>4, <3>6 DEF CopyOK
    <3> QED  BY <3>3, <3>4, <3>7, <3>8, <3>9, <3>10 DEF CopyOK, Writes
  <2> QED
    BY <2>1, <2>2, <2>3, <2>4, <2>5, <2>6 DEF ThreadOK, RecordOK, Writes, Pending, NewRecord
<1> QED  BY <1>1, <1>2, <1>3, <1>4 DEF ThreadOK

(* A key that no step touches keeps its part.                                *)
LEMMA OtherKey ==
  ASSUME NEW k \in Keys, KeyOK(k), KeySame(k), Linking(k)' <=> Linking(k)
  PROVE  KeyOK(k)'
<1>1. Committed(k)' = Committed(k) /\ \A p \in Committed(k) : data'[p] = data[p]
  BY SameVersions
<1>2. \A p : p \in DOMAIN index /\ index[p].key = k <=> p \in DOMAIN index' /\ index'[p].key = k
  BY DEF KeySame
<1>3. \A p \in DOMAIN index' : index'[p].key = k => index'[p] = index[p]  BY DEF KeySame
<1>4. ASSUME NEW p \in DOMAIN index', index'[p].key = k, ~Linking(k)
      PROVE  Newest(index[p].at, k)'
  <2>1. PICK x : x = index[p].at  OBVIOUS
  <2>2. Newest(x, k)  BY <1>2, <1>4, <2>1 DEF KeyOK
  <2>3. Newest(x, k)'  BY <2>2, SameNewest
  <2>4. x = index'[p].at  BY <1>3, <1>4, <2>1
  <2> QED  BY <2>3, <2>4, <1>3, <1>4
<1>5. ASSUME NEW p \in Committed(k)  PROVE  IsPrevious(data[p].prev, k, data[p].ts)'
  <2>1. PICK x, ts : x = data[p].prev /\ ts = data[p].ts  OBVIOUS
  <2>2. IsPrevious(x, k, ts)  BY <2>1 DEF KeyOK
  <2>3. IsPrevious(x, k, ts)'  BY <2>2, SamePrevious
  <2>4. x = data'[p].prev /\ ts = data'[p].ts  BY <1>1, <2>1
  <2> QED  BY <2>3, <2>4
<1>6. ASSUME NEW p \in DOMAIN index', index'[p].key = k
      PROVE  index'[p].at \in Halves(k)'
  <2>1. Halves(k)' = Halves(k)  BY <1>1 DEF Halves
  <2>2. index[p].at \in Halves(k)  BY <1>2, <1>6 DEF KeyOK
  <2> QED  BY <1>3, <1>6, <2>1, <2>2
<1> QED  BY <1>1, <1>2, <1>3, <1>4, <1>5, <1>6 DEF KeyOK

--------------------------------------------------------------------------------
(* Steps that change no page. *)

LEMMA Unchanged ==
  ASSUME UNCHANGED <<index, data>>
  PROVE  \A k : KeySame(k)
BY DEF KeySame

(* Such a step of a thread that does not begin or end linking its version    *)
(* keeps the invariant if it keeps the part of that thread.                  *)
LEMMA Quiet ==
  ASSUME BucketInv, NEW w \in Threads,
         UNCHANGED <<index, data, headerWriter>>,
         header'.nIndex = header.nIndex, header'.nData = header.nData,
         header'.good \/ UNCHANGED <<header, backup>>,
         \A v \in Threads \ {w} : pc'[v] = pc[v] /\ local'[v] = local[v],
         \A v \in Threads \ {w} : v \in headerReaders => v \in headerReaders',
         \A v \in Threads \ {w}, k \in Keys : keyLock[k] = v => keyLock'[k] = v,
         UNCHANGED <<committer, clock>>
         \/ ({committer, committer'} \subseteq {w, Nobody} /\ clock' \in Nat /\ clock' >= clock),
         \/ pc[w] \notin LinkingPcs /\ pc'[w] \notin LinkingPcs
         \/ pc[w] = "index" /\ pc'[w] = "indexHeader" /\ local'[w] = local[w],
         pc[w] \in {"idle", "parse", "repair"} =>
            header'.good \/ pc'[w] \in {"idle", "parse", "repair"},
         TypeOK', InsertsAlone', ThreadOK(w)'
  PROVE  BucketInv'
<1>1. (\A k : KeySame(k)) /\ Stays  BY Unchanged, SameStays
<1>2. TypeOK /\ FilesOK /\ InsertsAlone
      /\ (\A v \in Threads : ThreadOK(v)) /\ (\A k \in Keys : KeyOK(k))
  BY DEF BucketInv
<1>3. \A v \in Threads : ThreadOK(v)'
  <2>1. ASSUME NEW v \in Threads, v # w  PROVE ThreadOK(v)'
    <3>1. ThreadOK(v) /\ pc'[v] = pc[v] /\ local'[v] = local[v]  BY <1>2, <2>1
    <3>2. header.nIndex \in Nat /\ header'.nIndex \in Nat /\ local[v].nIndex \in Nat /\ clock \in Nat
          /\ local[v].key \in Keys
      BY <1>2 DEF TypeOK, Counts, Local
    <3>3. committer' = v <=> committer = v  BY <2>1, NobodyAssumption
    <3>4. HasKey(v) => keyLock'[local[v].key] = v
      BY <3>1, <3>2, <2>1 DEF ThreadOK, RoleOK
    <3>5. pc[v] = "checksum" => v \in headerReaders'
      BY <3>1, <2>1 DEF ThreadOK, CountsOK
    <3>6. committer = v => clock' = clock  BY <2>1, NobodyAssumption
    <3>7. HasKey(v) => KeySame(local[v].key)  BY <1>1
    <3>8. header'.nIndex >= header.nIndex  BY <3>2
    <3> QED  BY <1>1, <3>1, <3>2, <3>3, <3>4, <3>5, <3>6, <3>7, <3>8, OtherThread
  <2> QED  BY <2>1
<1>4. \A k \in Keys : KeyOK(k)'
  <2>1. ASSUME NEW k \in Keys  PROVE  KeyOK(k)'
    <3>1. Linking(k)' <=> Linking(k)  BY DEF Linking, LinkingPcs
    <3>2. KeyOK(k) /\ KeySame(k)  BY <1>1, <1>2
    <3> QED  BY <3>1, <3>2, OtherKey
  <2> QED  BY <2>1
<1>5. FilesOK'
  <2>1. clock \in Nat /\ clock' \in Nat /\ clock' >= clock  BY <1>2 DEF TypeOK
  <2>2. \A p \in DOMAIN data : data[p].ts \in Nat  BY <1>2 DEF TypeOK, Record
  <2>3. \A p \in DOMAIN data : data[p].ts <= clock'  BY <1>2, <2>1, <2>2 DEF FilesOK
  <2>4. header'.good \/ Fresh' \/ \E v \in Threads : pc'[v] = "checksum"
    BY <1>2 DEF FilesOK, Fresh, LinkingPcs
  <2> QED  BY <1>2, <2>3, <2>4 DEF FilesOK
<1> QED  BY <1>2, <1>3, <1>4, <1>5 DEF BucketInv

LEMMA StaysAlone ==
  ASSUME InsertsAlone, NEW w \in Threads,
         \A v \in Threads \ {w} : pc'[v] = pc[v] /\ local'[v] = local[v],
         local'[w].op # "read" /\ pc'[w] \in Inserting =>
            \/ local[w].op # "read" /\ pc[w] \in Inserting
            \/ \A v \in Threads \ {w} : local[v].op = "read" \/ pc[v] \notin Inserting
  PROVE  InsertsAlone'
<1>1. ASSUME NEW u \in Threads, NEW v \in Threads, Writes(u)', pc'[u] \in Inserting,
             Writes(v)', pc'[v] \in Inserting
      PROVE  u = v
  <2>1. CASE u = w \/ v = w  BY <1>1, <2>1 DEF InsertsAlone, Writes
  <2>2. CASE u # w /\ v # w  BY <1>1, <2>2 DEF InsertsAlone, Writes
  <2> QED  BY <2>1, <2>2
<1> QED  BY <1>1 DEF InsertsAlone, Inserting

LEMMA StartStep ==
  ASSUME BucketInv, NEW w \in Threads, StartAlone(w)
  PROVE  BucketInv'
<1>1. TypeOK /\ InsertsAlone /\ ThreadOK(w)  BY DEF BucketInv
<1>2. PICK c : c = Head(todo[w])  OBVIOUS
<1>3. c \in Operations /\ Tail(todo[w]) \in Seq(Operations)
  <2>1. todo[w] \in Seq(Operations) /\ todo[w] # <<>>
    BY <1>1 DEF TypeOK, StartAlone, Start
  <2> QED  BY <1>2, <2>1, HeadTailProperties
<1>4. /\ pc[w] = "idle" /\ pc' = [pc EXCEPT ![w] = "parse"]
      /\ local' = [local EXCEPT ![w].op = c.op, ![w].key = c.key]
      /\ todo' = [todo EXCEPT ![w] = Tail(todo[w])]
      /\ \/ c.op = "read" /\ keyLock' = keyLock
         \/ keyLock[c.key] = Nobody /\ keyLock' = [keyLock EXCEPT ![c.key] = w]
      /\ c.op = "read" \/ \A v \in Threads \ {w} : local[v].op = "read" \/ pc[v] \notin Inserting
  BY <1>2 DEF StartAlone, Start, At, Goto
<1>5. UNCHANGED <<pageVars, lockVars, committer, clock>>  BY DEF StartAlone, Start
<1>6. /\ c.op \in {"read", "set", "insert"} /\ c.key \in Keys
      /\ local[w] \in Local /\ w \in DOMAIN local /\ w \in DOMAIN pc
  BY <1>1, <1>3 DEF Operations, TypeOK
<1>7. local'[w] = [local[w] EXCEPT !.op = c.op, !.key = c.key] /\ pc'[w] = "parse"
      /\ \A v \in Threads \ {w} : pc'[v] = pc[v] /\ local'[v] = local[v]
  BY <1>4, <1>6, <1>1 DEF TypeOK
<1>8. local'[w] \in Local /\ local'[w].op = c.op /\ local'[w].key = c.key
      /\ local'[w].nIndex = local[w].nIndex
  BY <1>6, <1>7 DEF Local
<1>9. TypeOK'
  <2>1. local' \in [Threads -> Local]  BY <1>1, <1>4, <1>7, <1>8 DEF TypeOK
  <2>2. todo' \in [Threads -> Seq(Operations)]  BY <1>1, <1>3, <1>4 DEF TypeOK
  <2>3. pc' \in [Threads -> PcValues]  BY <1>1, <1>4 DEF TypeOK, PcValues
  <2>4. keyLock' \in [Keys -> Threads \cup {Nobody}]  BY <1>1, <1>4 DEF TypeOK
  <2> QED  BY <1>1, <1>5, <2>1, <2>2, <2>3, <2>4 DEF TypeOK, pageVars, lockVars
<1>10. InsertsAlone'  BY <1>1, <1>4, <1>7, <1>8, StaysAlone
<1>11. ThreadOK(w)'
  <2>1. RoleOK(w)'
    <3>1. c.op # "read" => keyLock'[c.key] = w
      BY <1>1, <1>4, <1>6, NobodyAssumption DEF StartAlone, Start, TypeOK
    <3> QED  BY <3>1, <1>1, <1>4, <1>5, <1>7, <1>8
             DEF ThreadOK, RoleOK, HasKey, Writes, CommitPcs, LinkingPcs
  <2>2. CountsOK(w)'
    BY <1>1, <1>5, <1>7, <1>8 DEF ThreadOK, CountsOK, Writes, pageVars
  <2>3. FindsOK(w)'  BY <1>7 DEF FindsOK
  <2>4. RecordOK(w)'  BY <1>7 DEF RecordOK, Pending, LinkingPcs
  <2> QED  BY <2>1, <2>2, <2>3, <2>4 DEF ThreadOK
<1>12. \A v \in Threads \ {w}, k \in Keys : keyLock[k] = v => keyLock'[k] = v
  BY <1>1, <1>4, NobodyAssumption DEF TypeOK
<1> QED
  BY <1>4, <1>5, <1>7, <1>9, <1>10, <1>11, <1>12, Quiet DEF pageVars, lockVars, LinkingPcs

LEMMA ParseHeaderStep ==
  ASSUME BucketInv, NEW w \in Threads, ParseHeader(w)
  PROVE  BucketInv'
<1>1. TypeOK /\ FilesOK /\ InsertsAlone /\ ThreadOK(w)  BY DEF BucketInv
<1>2. /\ pc[w] = "parse" /\ local' = local /\ UNCHANGED <<header, backup, index, data>>
      /\ UNCHANGED <<headerWriter, dataWriter, indexWriter, keyLock, committer, clock, todo>>
      /\ \/ header.good /\ headerReaders' = headerReaders \cup {w} /\ pc' = [pc EXCEPT ![w] = "counts"]
         \/ headerReaders' = headerReaders /\ pc' = [pc EXCEPT ![w] = "repair"]
  BY DEF ParseHeader, At, Goto, pageVars, commitVars
<1>3. /\ pc'[w] \in {"counts", "repair"} /\ (header.good \/ pc'[w] = "repair")
      /\ \A v \in Threads \ {w} : pc'[v] = pc[v]
  BY <1>1, <1>2 DEF TypeOK
<1>4. TypeOK'
  <2>1. pc' \in [Threads -> PcValues]  BY <1>1, <1>2 DEF TypeOK, PcValues
  <2>2. headerReaders' \subseteq Threads  BY <1>1, <1>2 DEF TypeOK
  <2> QED  BY <1>1, <1>2, <2>1, <2>2 DEF TypeOK
<1>5. InsertsAlone'  BY <1>1, <1>2, <1>3, StaysAlone DEF Inserting
<1>6. ThreadOK(w)'
  <2>1. RoleOK(w)'
    BY <1>1, <1>2, <1>3 DEF ThreadOK, RoleOK, HasKey, Writes, Inserting, CommitPcs, LinkingPcs
  <2>2. CountsOK(w)'  BY <1>1, <1>2, <1>3 DEF ThreadOK, CountsOK
  <2>3. FindsOK(w)'  BY <1>3 DEF FindsOK
  <2>4. RecordOK(w)'  BY <1>3 DEF RecordOK, Pending, LinkingPcs
  <2> QED  BY <2>1, <2>2, <2>3, <2>4 DEF ThreadOK
<1> QED  BY <1>1, <1>2, <1>3, <1>4, <1>5, <1>6, Quiet DEF LinkingPcs

LEMMA ReadCountsStep ==
  ASSUME BucketInv, NEW w \in Threads, ReadCounts(w)
  PROVE  BucketInv'
<1>1. TypeOK /\ FilesOK /\ InsertsAlone /\ ThreadOK(w)  BY DEF BucketInv
<1>2. /\ pc[w] = "counts" /\ pc' = [pc EXCEPT ![w] = "find"]
      /\ local' = [local EXCEPT ![w].nIndex = header.nIndex, ![w].nData = header.nData]
      /\ headerReaders' = headerReaders \ {w}
      /\ UNCHANGED <<header, backup, index, data>>
      /\ UNCHANGED <<headerWriter, dataWriter, indexWriter, keyLock, committer, clock, todo>>
  BY DEF ReadCounts, At, Goto, pageVars, commitVars
<1>3. pc'[w] = "find" /\ \A v \in Threads \ {w} : pc'[v] = pc[v] /\ local'[v] = local[v]
  BY <1>1, <1>2 DEF TypeOK
<1>4. header.nIndex \in Nat /\ header.nData \in Nat  BY <1>1 DEF TypeOK, Counts
<1>5. local'[w] = [local[w] EXCEPT !.nIndex = header.nIndex, !.nData = header.nData]
  BY <1>1, <1>2 DEF TypeOK
<1>6. /\ local'[w] \in Local /\ local'[w].op = local[w].op /\ local'[w].key = local[w].key
      /\ local'[w].nIndex = header.nIndex /\ local'[w].nData = header.nData
  <2>1. PICK m \in Nat, n \in Nat : m = header.nIndex /\ n = header.nData  BY <1>4
  <2>2. PICK c \in Local : c = local[w]  BY <1>1 DEF TypeOK
  <2>3. PICK d : d = [c EXCEPT !.nIndex = m, !.nData = n]  OBVIOUS
  <2>4. d \in Local /\ d.op = c.op /\ d.key = c.key /\ d.nIndex = m /\ d.nData = n
    BY <2>3 DEF Local
  <2>5. d = local'[w]  BY <1>5, <2>1, <2>2, <2>3
  <2> QED  BY <2>1, <2>2, <2>4, <2>5
<1>7. TypeOK'
  <2>1. pc' \in [Threads -> PcValues]  BY <1>1, <1>2 DEF TypeOK, PcValues
  <2>2. headerReaders' \subseteq Threads  BY <1>1, <1>2 DEF TypeOK
  <2>3. local' \in [Threads -> Local]  BY <1>1, <1>2, <1>3, <1>6 DEF TypeOK
  <2> QED  BY <1>1, <1>2, <2>1, <2>2, <2>3 DEF TypeOK
<1>8. InsertsAlone'  BY <1>1, <1>2, <1>3, <1>6, StaysAlone DEF Inserting
<1>9. ThreadOK(w)'
  <2>1. RoleOK(w)'
    BY <1>1, <1>2, <1>3, <1>6 DEF ThreadOK, RoleOK, HasKey, Writes, Inserting, CommitPcs, LinkingPcs
  <2>2. CountsOK(w)'  BY <1>2, <1>3, <1>4, <1>6 DEF CountsOK
  <2>3. FindsOK(w)'  BY <1>1, <1>2, <1>3, <1>6 DEF FindsOK, FilesOK
  <2>4. RecordOK(w)'  BY <1>3 DEF RecordOK, Pending, LinkingPcs
  <2> QED  BY <2>1, <2>2, <2>3, <2>4 DEF ThreadOK
<1> QED  BY <1>1, <1>2, <1>3, <1>7, <1>8, <1>9, Quiet DEF LinkingPcs

LEMMA RepairStep ==
  ASSUME BucketInv, NEW w \in Threads, Repair(w)
  PROVE  BucketInv'
<1>1. TypeOK /\ FilesOK /\ InsertsAlone /\ \A v \in Threads : ThreadOK(v)  BY DEF BucketInv
<1>2. /\ pc[w] = "repair" /\ headerReaders = {} /\ pc' = [pc EXCEPT ![w] = "find"]
      /\ header' = IF header.good THEN header
                   ELSE IF backup.good THEN backup
                   ELSE [NoCounts EXCEPT !.good = TRUE]
      /\ backup' = IF header.good \/ backup.good THEN backup ELSE header'
      /\ local' = [local EXCEPT ![w].nIndex = header'.nIndex, ![w].nData = header'.nData]
      /\ UNCHANGED <<index, data>>
      /\ UNCHANGED <<headerReaders, headerWriter, dataWriter, indexWriter>>
      /\ UNCHANGED <<keyLock, committer, clock, todo>>
  BY DEF Repair, At, Goto, HeaderFree, lockVars, commitVars
<1>3. header.good \/ (header = NoCounts /\ backup = NoCounts)
  <2>1. \A v \in Threads : pc[v] # "checksum"  BY <1>1, <1>2 DEF ThreadOK, CountsOK
  <2> QED  BY <1>1, <2>1 DEF FilesOK, Fresh
<1>4. /\ header'.good /\ header' \in Counts /\ backup' \in Counts
      /\ header'.nIndex = header.nIndex /\ header'.nData = header.nData
  BY <1>1, <1>2, <1>3 DEF TypeOK, Counts, NoCounts
<1>5. header'.nIndex \in Nat /\ header'.nData \in Nat  BY <1>4 DEF Counts
<1>6. pc'[w] = "find" /\ \A v \in Threads \ {w} : pc'[v] = pc[v] /\ local'[v] = local[v]
  BY <1>1, <1>2 DEF TypeOK
<1>7. local'[w] = [local[w] EXCEPT !.nIndex = header'.nIndex, !.nData = header'.nData]
  BY <1>1, <1>2 DEF TypeOK
<1>8. /\ local'[w] \in Local /\ local'[w].op = local[w].op /\ local'[w].key = local[w].key
      /\ local'[w].nIndex = header'.nIndex /\ local'[w].nData = header'.nData
  <2>1. PICK m \in Nat, n \in Nat : m = header'.nIndex /\ n = header'.nData  BY <1>5
  <2>2. PICK c \in Local : c = local[w]  BY <1>1 DEF TypeOK
  <2>3. PICK d : d = [c EXCEPT !.nIndex = m, !.nData = n]  OBVIOUS
  <2>4. d \in Local /\ d.op = c.op /\ d.key = c.key /\ d.nIndex = m /\ d.nData = n
    BY <2>3 DEF Local
  <2>5. d = local'[w]  BY <1>7, <2>1, <2>2, <2>3
  <2> QED  BY <2>1, <2>2, <2>4, <2>5
<1>9. TypeOK'
  <2>1. pc' \in [Threads -> PcValues]  BY <1>1, <1>2 DEF TypeOK, PcValues
  <2>2. local' \in [Threads -> Local]  BY <1>1, <1>2, <1>6, <1>8 DEF TypeOK
  <2> QED  BY <1>1, <1>2, <1>4, <2>1, <2>2 DEF TypeOK
<1>10. InsertsAlone'  BY <1>1, <1>2, <1>6, <1>8, StaysAlone DEF Inserting
<1>11. ThreadOK(w)'
  <2>1. RoleOK(w)'
    BY <1>1, <1>2, <1>6, <1>8 DEF ThreadOK, RoleOK, HasKey, Writes, Inserting, CommitPcs, LinkingPcs
  <2>2. CountsOK(w)'  BY <1>2, <1>5, <1>6, <1>8 DEF CountsOK
  <2>3. FindsOK(w)'  BY <1>1, <1>2, <1>4, <1>6, <1>8 DEF FindsOK, FilesOK
  <2>4. RecordOK(w)'  BY <1>6 DEF RecordOK, Pending, LinkingPcs
  <2> QED  BY <2>1, <2>2, <2>3, <2>4 DEF ThreadOK
<1> QED  BY <1>1, <1>2, <1>4, <1>6, <1>9, <1>10, <1>11, Quiet DEF LinkingPcs

(* What the index says of the key of a writer, that nobody else links: if it *)
(* has no item it has no version, and an item points at the newest one.      *)
LEMMA NobodyLinks ==
  ASSUME BucketInv, NEW w \in Threads, HasKey(w), pc[w] \notin LinkingPcs
  PROVE  ~Linking(local[w].key)
<1>1. ASSUME NEW v \in Threads, local[v].key = local[w].key, pc[v] \in LinkingPcs
      PROVE  FALSE
  <2>1. ThreadOK(v) /\ ThreadOK(w)  BY DEF BucketInv
  <2>2. HasKey(v)  BY <1>1, <2>1 DEF ThreadOK, RoleOK, HasKey, CommitPcs
  <2>3. v = w  BY <1>1, <2>1, <2>2 DEF ThreadOK, RoleOK
  <2> QED  BY <1>1, <2>3
<1> QED  BY <1>1 DEF Linking, LinkingPcs

LEMMA FindIndexStep ==
  ASSUME BucketInv, NEW w \in Threads, FindIndex(w)
  PROVE  BucketInv'
<1>1. TypeOK /\ FilesOK /\ InsertsAlone /\ ThreadOK(w) /\ \A k \in Keys : KeyOK(k)
  BY DEF BucketInv
<1>2. /\ pc[w] = "find" /\ UNCHANGED <<header, backup, index, data>>
      /\ UNCHANGED <<headerReaders, headerWriter, dataWriter, indexWriter>>
      /\ UNCHANGED <<keyLock, committer, clock, todo>>
  BY DEF FindIndex, At, pageVars, lockVars, commitVars
<1>3. /\ local'[w] \in Local /\ local'[w].op = local[w].op /\ local'[w].key = local[w].key
      /\ local'[w].nIndex = local[w].nIndex /\ local'[w].nData = local[w].nData
      /\ \A v \in Threads \ {w} : local'[v] = local[v]
      /\ pc' = [pc EXCEPT ![w] = pc'[w]] /\ pc'[w] \in {"read", "record", "idle", "leave"}
      /\ pc'[w] = "read" => local'[w].item \in Hits(w)
      /\ pc'[w] = "record" => /\ Hits(w) = {} /\ local[w].op = "insert"
                              /\ local'[w].prev = NoPlace
      /\ pc'[w] = "leave" => local[w].op # "read"
      /\ local' = [local EXCEPT ![w] = local'[w]]
  <2>1. PICK c \in Local : c = local[w]  BY <1>1 DEF TypeOK
  <2>2. CASE \E p \in Hits(w) :
            local' = [local EXCEPT ![w].item = p] /\ Goto(w, "read")
    <3>1. PICK p \in Hits(w) : local' = [local EXCEPT ![w].item = p] /\ Goto(w, "read")
      BY <2>2
    <3>2. p \in Places  BY <1>1 DEF Hits, TypeOK, Places
    <3>3. PICK d : d = [c EXCEPT !.item = p]  OBVIOUS
    <3>4. d \in Local /\ d.op = c.op /\ d.key = c.key /\ d.nIndex = c.nIndex
          /\ d.nData = c.nData /\ d.item = p
      BY <3>2, <3>3 DEF Local
    <3>5. local' = [local EXCEPT ![w] = d] /\ pc' = [pc EXCEPT ![w] = "read"]
      BY <1>1, <2>1, <3>1, <3>3 DEF Goto, TypeOK
    <3> QED  BY <1>1, <2>1, <3>1, <3>4, <3>5 DEF TypeOK
  <2>3. CASE Hits(w) = {} /\ local[w].op = "insert"
             /\ local' = [local EXCEPT ![w].prev = NoPlace] /\ Goto(w, "record")
    <3>1. PICK d : d = [c EXCEPT !.prev = NoPlace]  OBVIOUS
    <3>2. d \in Local /\ d.op = c.op /\ d.key = c.key /\ d.nIndex = c.nIndex
          /\ d.nData = c.nData /\ d.prev = NoPlace
      BY <3>1 DEF Local, NoPlace, Places
    <3>3. local' = [local EXCEPT ![w] = d] /\ pc' = [pc EXCEPT ![w] = "record"]
      BY <1>1, <2>1, <2>3, <3>1 DEF Goto, TypeOK
    <3> QED  BY <1>1, <2>1, <2>3, <3>2, <3>3 DEF TypeOK
  <2>4. CASE Hits(w) = {} /\ local[w].op # "insert" /\ local' = local
             /\ Goto(w, IF local[w].op = "read" THEN "idle" ELSE "leave")
    BY <1>1, <2>1, <2>4 DEF Goto, TypeOK
  <2> QED  BY <2>2, <2>3, <2>4 DEF FindIndex
<1>4. PICK l, x, y : l = pc'[w] /\ x = local'[w].item /\ y = local'[w].prev  OBVIOUS
<1>5. \A v \in Threads \ {w} : pc'[v] = pc[v] /\ local'[v] = local[v]
  BY <1>1, <1>3 DEF TypeOK
<1>6. TypeOK'
  <2>1. pc' \in [Threads -> PcValues]  BY <1>1, <1>3 DEF TypeOK, PcValues
  <2>2. local' \in [Threads -> Local]  BY <1>1, <1>3 DEF TypeOK
  <2> QED  BY <1>1, <1>2, <2>1, <2>2 DEF TypeOK
<1>7. InsertsAlone'  BY <1>1, <1>2, <1>3, <1>4, <1>5, StaysAlone DEF Inserting
<1>8. ThreadOK(w)'
  <2>1. RoleOK(w)'
    BY <1>1, <1>2, <1>3, <1>4, <1>5 DEF ThreadOK, RoleOK, HasKey, Writes, Inserting, CommitPcs, LinkingPcs
  <2>2. CountsOK(w)'
    BY <1>1, <1>2, <1>3, <1>4, <1>5 DEF ThreadOK, CountsOK, Writes
  <2>3. Writes(w) /\ Hits(w) = {} => \A p \in DOMAIN index : index[p].key # local[w].key
    BY <1>1, <1>2 DEF ThreadOK, FindsOK, Hits
  <2>4. FindsOK(w)'
    <3>1. l = "read" => x \in DOMAIN index' /\ index'[x].key = local[w].key
      BY <1>2, <1>3, <1>4 DEF Hits
    <3>2. l = "record" => \A p \in DOMAIN index' : index'[p].key # local[w].key
      BY <1>2, <1>3, <1>4, <2>3 DEF Writes
    <3> QED  BY <1>3, <1>4, <1>5, <3>1, <3>2 DEF FindsOK, Writes
  <2>5. l = "record" => Newest(y, local[w].key)'
    <3>1. SUFFICES ASSUME l = "record"  PROVE Newest(y, local[w].key)'
      OBVIOUS
    <3>2. PICK k \in Keys : k = local[w].key  BY <1>1 DEF TypeOK, Local
    <3>3. ~Linking(k) /\ KeyOK(k)
      BY <1>1, <1>2, <1>3, <1>4, <3>1, <3>2, NobodyLinks
      DEF HasKey, Writes, Inserting, LinkingPcs
    <3>4. \A p \in DOMAIN index : index[p].key # k
      BY <1>3, <1>4, <2>3, <3>1, <3>2 DEF Writes
    <3>5. Committed(k) = {}  BY <3>3, <3>4 DEF KeyOK
    <3>6. Newest(y, k)  BY <1>3, <1>4, <3>1, <3>5 DEF Newest
    <3>7. KeySame(k)  BY <1>2, Unchanged
    <3>8. Newest(y, k)'  BY <3>6, <3>7, SameNewest
    <3> QED  BY <1>3, <3>2, <3>8
  <2>6. RecordOK(w)'
    BY <1>3, <1>4, <1>5, <2>5 DEF RecordOK, Pending, LinkingPcs, Writes
  <2> QED  BY <2>1, <2>2, <2>4, <2>6 DEF ThreadOK
<1>9. pc[w] \notin LinkingPcs /\ pc'[w] \notin LinkingPcs
  BY <1>2, <1>3, <1>4 DEF LinkingPcs
<1> QED  BY <1>1, <1>2, <1>5, <1>6, <1>7, <1>8, <1>9, Quiet

(* One half of the pointer, copied.                                          *)
LEMMA HalfCopied ==
  ASSUME BucketInv, NEW w \in Threads, pc[w] \in {"read", "readPage", "readSlot"},
         NEW x \in Places, NEW l \in {"readPage", "readSlot", "found"},
         local' = [local EXCEPT ![w].prev = x], pc' = [pc EXCEPT ![w] = l],
         l = "readSlot" => x[1] = index[local[w].item].at[1],
         l = "readPage" => x[2] = index[local[w].item].at[2],
         l = "found" => x \in Halves(local[w].key),
         Writes(w) /\ l = "found" => x = index[local[w].item].at,
         UNCHANGED <<pageVars, lockVars, commitVars, todo>>
  PROVE  BucketInv'
<1>1. TypeOK /\ FilesOK /\ InsertsAlone /\ ThreadOK(w) /\ \A k \in Keys : KeyOK(k)
  BY DEF BucketInv
<1>2. /\ UNCHANGED <<header, backup, index, data, todo>>
      /\ UNCHANGED <<headerReaders, headerWriter, dataWriter, indexWriter>>
      /\ UNCHANGED <<keyLock, committer, clock>>
  BY DEF pageVars, lockVars, commitVars
<1>3. PICK c \in Local : c = local[w]  BY <1>1 DEF TypeOK
<1>4. PICK d : d = [c EXCEPT !.prev = x]  OBVIOUS
<1>5. d \in Local /\ d.op = c.op /\ d.key = c.key /\ d.nIndex = c.nIndex
      /\ d.nData = c.nData /\ d.item = c.item /\ d.prev = x
  BY <1>4 DEF Local
<1>6. local' = [local EXCEPT ![w] = d]  BY <1>1, <1>3, <1>4 DEF TypeOK
<1>7. local'[w] = d /\ pc'[w] = l
      /\ \A v \in Threads \ {w} : pc'[v] = pc[v] /\ local'[v] = local[v]
  BY <1>1, <1>6 DEF TypeOK
<1>0. PICK k \in Keys : k = c.key  BY DEF Local
<1>8. PICK i : k = c.key /\ i = c.item  BY <1>0
<1>9. i \in DOMAIN index /\ index[i].key = k /\ KeyOK(k)
  BY <1>1, <1>3, <1>8 DEF ThreadOK, FindsOK
<1>10. TypeOK'
  <2>1. pc' \in [Threads -> PcValues]  BY <1>1 DEF TypeOK, PcValues
  <2>2. local' \in [Threads -> Local]  BY <1>1, <1>5, <1>6 DEF TypeOK
  <2> QED  BY <1>1, <1>2, <2>1, <2>2 DEF TypeOK
<1>11. InsertsAlone'  BY <1>1, <1>3, <1>5, <1>7, StaysAlone DEF Inserting
<1>12. ThreadOK(w)'
  <2>1. RoleOK(w)'
    BY <1>1, <1>2, <1>3, <1>5, <1>7
    DEF ThreadOK, RoleOK, HasKey, Writes, Inserting, CommitPcs, LinkingPcs
  <2>2. CountsOK(w)'  BY <1>1, <1>2, <1>3, <1>5, <1>7 DEF ThreadOK, CountsOK, Writes
  <2>3. FindsOK(w)'
    <3>1. local'[w].item = i /\ local'[w].key = k  BY <1>5, <1>7, <1>8
    <3>2. local'[w].item \in DOMAIN index' /\ index'[local'[w].item].key = local'[w].key
      BY <1>2, <1>9, <3>1
    <3>3. pc'[w] \in {"readPage", "readSlot", "found"}  BY <1>7
    <3> QED  BY <3>2, <3>3 DEF FindsOK
  <2>4. l = "found" /\ Writes(w) => Newest(x, k)'
    <3>1. SUFFICES ASSUME l = "found", Writes(w)  PROVE Newest(x, k)'
      OBVIOUS
    <3>2. ~Linking(k)
      BY <1>3, <1>8, <3>1, NobodyLinks DEF HasKey, Inserting, LinkingPcs
    <3>3. x = index[i].at  BY <1>3, <1>8, <3>1
    <3>4. Newest(x, k)  BY <1>9, <3>2, <3>3 DEF KeyOK
    <3>5. KeySame(k)  BY <1>2, Unchanged
    <3> QED  BY <3>4, <3>5, SameNewest
  <2>5. CopyOK(w)'
    <3>1. index[i].at \in Halves(k)  BY <1>9 DEF KeyOK
    <3>2. PICK y : y = index[i].at  OBVIOUS
    <3>3. PICK u \in Committed(k), v \in Committed(k) : y = <<u[1], v[2]>>
      BY <3>1, <3>2 DEF Halves
    <3>4. y[1] = u[1] /\ y[2] = v[2]  BY <3>3
    <3>5. Committed(k)' = Committed(k) /\ Halves(k)' = Halves(k)
      BY <1>2 DEF Committed, Halves
    <3>6. /\ l = "readSlot" => x[1] = y[1]
          /\ l = "readPage" => x[2] = y[2]
          /\ l = "found" => x \in Halves(k)
      BY <1>3, <1>8, <3>2
    <3>7. index'[i].at = y  BY <1>2, <3>2
    <3>8. local'[w].prev = x /\ local'[w].key = k /\ local'[w].item = i /\ pc'[w] = l
      BY <1>5, <1>7, <1>8
    <3>9. /\ l = "readSlot" => \E t \in Committed(k)' : x[1] = t[1]
          /\ l = "readPage" => \E t \in Committed(k)' : x[2] = t[2]
          /\ l = "found" => x \in Halves(k)'
      BY <3>3, <3>4, <3>5, <3>6
    <3> QED  BY <3>6, <3>7, <3>8, <3>9 DEF CopyOK
  <2>6. RecordOK(w)'
    BY <1>3, <1>5, <1>7, <1>8, <2>4, <2>5 DEF RecordOK, Pending, LinkingPcs, Writes
  <2> QED  BY <2>1, <2>2, <2>3, <2>6 DEF ThreadOK
<1>13. pc[w] \notin LinkingPcs /\ pc'[w] \notin LinkingPcs  BY <1>7 DEF LinkingPcs
<1> QED  BY <1>2, <1>7, <1>10, <1>11, <1>12, <1>13, Quiet

LEMMA ReadStep ==
  ASSUME BucketInv, NEW w \in Threads, ReadPage(w) \/ ReadSlot(w)
  PROVE  BucketInv'
<1>1. TypeOK /\ ThreadOK(w) /\ \A k \in Keys : KeyOK(k)  BY DEF BucketInv
<1>2. pc[w] \in {"read", "readPage", "readSlot"}
      /\ UNCHANGED <<pageVars, lockVars, commitVars, todo>>
  BY DEF ReadPage, ReadSlot
<1>3. PICK c \in Local : c = local[w]  BY <1>1 DEF TypeOK
<1>0. PICK k \in Keys : k = c.key  BY DEF Local
<1>4. PICK i : k = c.key /\ i = c.item  BY <1>0
<1>5. i \in DOMAIN index /\ index[i].key = k /\ index[i] \in Item /\ KeyOK(k)
  BY <1>1, <1>2, <1>3, <1>4 DEF ThreadOK, FindsOK, TypeOK
<1>6. index[i].at \in Nat \X Nat /\ c.prev \in Nat \X Nat
  BY <1>5 DEF Item, Places, Local
<1>7. PICK b1 \in Nat, b2 \in Nat : index[i].at = <<b1, b2>>  BY <1>6
<1>8. PICK c1 \in Nat, c2 \in Nat : c.prev = <<c1, c2>>  BY <1>6
<1>9. PICK u \in Committed(k), v \in Committed(k) : b1 = u[1] /\ b2 = v[2]
  <2>1. <<b1, b2>> \in Halves(k)  BY <1>4, <1>5, <1>7 DEF KeyOK
  <2> QED  BY <2>1 DEF Halves
<1>10. CASE ReadPage(w)
  <2>1. PICK x : x = <<b1, c2>>  OBVIOUS
  <2>2. x \in Places /\ x[1] = b1 /\ x[2] = c2  BY <2>1 DEF Places
  <2>3. local' = [local EXCEPT ![w].prev = x]
    <3>1. local' = [local EXCEPT ![w].prev[1] = b1]
      <4>1. PICK e : e = index[local[w].item].at[1]  OBVIOUS
      <4>2. local' = [local EXCEPT ![w].prev[1] = e]  BY <1>10, <4>1 DEF ReadPage
      <4>3. e = b1  BY <1>3, <1>4, <1>7, <4>1
      <4> QED  BY <4>2, <4>3
    <3>2. x = [c.prev EXCEPT ![1] = b1]  BY <1>8, <2>1
    <3> QED  BY <1>1, <1>3, <3>1, <3>2 DEF TypeOK
  <2>4. PICK l : l = IF pc[w] = "read" THEN "readSlot" ELSE "found"  OBVIOUS
  <2>5. l \in {"readSlot", "found"} /\ pc' = [pc EXCEPT ![w] = l]
    BY <1>10, <2>4 DEF ReadPage, Goto, At
  <2>6. l = "found" => x \in Halves(k) /\ (Writes(w) => x = <<b1, b2>>)
    <3>1. SUFFICES ASSUME l = "found"
                   PROVE  x \in Halves(k) /\ (Writes(w) => x = <<b1, b2>>)
      OBVIOUS
    <3>2. pc[w] = "readPage"  BY <1>2, <1>10, <2>4, <3>1 DEF ReadPage
    <3>3. CopyOK(w)  BY <1>1, <3>2 DEF ThreadOK, RecordOK
    <3>4. PICK t \in Committed(k) : c2 = t[2]
      BY <1>3, <1>4, <1>8, <3>2, <3>3 DEF CopyOK
    <3>5. Writes(w) => c2 = b2  BY <1>3, <1>4, <1>7, <1>8, <3>2, <3>3 DEF CopyOK
    <3> QED  BY <1>9, <2>1, <3>4, <3>5 DEF Halves
  <2>7. l = "readSlot" => x[1] = index[local[w].item].at[1]  BY <1>3, <1>4, <1>7, <2>2
  <2>8. l = "found" => x \in Halves(local[w].key)  BY <1>3, <1>4, <2>6
  <2>9. Writes(w) /\ l = "found" => x = index[local[w].item].at
    BY <1>3, <1>4, <1>7, <2>6
  <2> QED  BY <1>2, <2>2, <2>3, <2>5, <2>7, <2>8, <2>9, HalfCopied
<1>11. CASE ReadSlot(w)
  <2>1. PICK x : x = <<c1, b2>>  OBVIOUS
  <2>2. x \in Places /\ x[1] = c1 /\ x[2] = b2  BY <2>1 DEF Places
  <2>3. local' = [local EXCEPT ![w].prev = x]
    <3>1. local' = [local EXCEPT ![w].prev[2] = b2]
      <4>1. PICK e : e = index[local[w].item].at[2]  OBVIOUS
      <4>2. local' = [local EXCEPT ![w].prev[2] = e]  BY <1>11, <4>1 DEF ReadSlot
      <4>3. e = b2  BY <1>3, <1>4, <1>7, <4>1
      <4> QED  BY <4>2, <4>3
    <3>2. x = [c.prev EXCEPT ![2] = b2]  BY <1>8, <2>1
    <3> QED  BY <1>1, <1>3, <3>1, <3>2 DEF TypeOK
  <2>4. PICK l : l = IF pc[w] = "read" THEN "readPage" ELSE "found"  OBVIOUS
  <2>5. l \in {"readPage", "found"} /\ pc' = [pc EXCEPT ![w] = l]
    BY <1>11, <2>4 DEF ReadSlot, Goto, At
  <2>6. l = "found" => x \in Halves(k) /\ (Writes(w) => x = <<b1, b2>>)
    <3>1. SUFFICES ASSUME l = "found"
                   PROVE  x \in Halves(k) /\ (Writes(w) => x = <<b1, b2>>)
      OBVIOUS
    <3>2. pc[w] = "readSlot"  BY <1>2, <1>11, <2>4, <3>1 DEF ReadSlot
    <3>3. CopyOK(w)  BY <1>1, <3>2 DEF ThreadOK, RecordOK
    <3>4. PICK t \in Committed(k) : c1 = t[1]
      BY <1>3, <1>4, <1>8, <3>2, <3>3 DEF CopyOK
    <3>5. Writes(w) => c1 = b1  BY <1>3, <1>4, <1>7, <1>8, <3>2, <3>3 DEF CopyOK
    <3> QED  BY <1>9, <2>1, <3>4, <3>5 DEF Halves
  <2>7. l = "readPage" => x[2] = index[local[w].item].at[2]  BY <1>3, <1>4, <1>7, <2>2
  <2>8. l = "found" => x \in Halves(local[w].key)  BY <1>3, <1>4, <2>6
  <2>9. Writes(w) /\ l = "found" => x = index[local[w].item].at
    BY <1>3, <1>4, <1>7, <2>6
  <2> QED  BY <1>2, <2>2, <2>3, <2>5, <2>7, <2>8, <2>9, HalfCopied
<1> QED  BY <1>10, <1>11

LEMMA GetRecordStep ==
  ASSUME BucketInv, NEW w \in Threads, GetRecord(w)
  PROVE  BucketInv'
<1>1. TypeOK /\ FilesOK /\ InsertsAlone /\ ThreadOK(w)  BY DEF BucketInv
<1>2. /\ pc[w] = "found" /\ local' = local
      /\ UNCHANGED <<header, backup, index, data, todo>>
      /\ UNCHANGED <<headerReaders, headerWriter, dataWriter, indexWriter>>
      /\ UNCHANGED <<keyLock, committer, clock>>
  BY DEF GetRecord, At, pageVars, lockVars, commitVars
<1>3. /\ pc' = [pc EXCEPT ![w] = pc'[w]] /\ pc'[w] \in {"idle", "leave", "record"}
      /\ pc'[w] = "leave" => local[w].op # "read"
      /\ pc'[w] = "record" => local[w].op = "set"
      /\ \A v \in Threads \ {w} : pc'[v] = pc[v]
  BY <1>1 DEF GetRecord, Goto, TypeOK
<1>4. TypeOK'
  <2>1. pc' \in [Threads -> PcValues]  BY <1>1, <1>3 DEF TypeOK, PcValues
  <2> QED  BY <1>1, <1>2, <2>1 DEF TypeOK
<1>5. InsertsAlone'  BY <1>1, <1>2, <1>3, StaysAlone DEF Inserting
<1>6. ThreadOK(w)'
  <2>1. RoleOK(w)'
    BY <1>1, <1>2, <1>3 DEF ThreadOK, RoleOK, HasKey, Writes, Inserting, CommitPcs, LinkingPcs
  <2>2. CountsOK(w)'  BY <1>1, <1>2, <1>3 DEF ThreadOK, CountsOK, Writes
  <2>3. FindsOK(w)'  BY <1>1, <1>2, <1>3 DEF ThreadOK, FindsOK, Writes
  <2>4. pc'[w] = "record" => Newest(local[w].prev, local[w].key)'
    <3>1. pc'[w] = "record" => Newest(local[w].prev, local[w].key)
      BY <1>1, <1>2, <1>3 DEF ThreadOK, RecordOK, Writes
    <3> QED  BY <1>2, <3>1 DEF Newest, Committed
  <2>5. RecordOK(w)'  BY <1>3, <2>4 DEF RecordOK, Pending, LinkingPcs
  <2> QED  BY <2>1, <2>2, <2>3, <2>5 DEF ThreadOK
<1>7. pc[w] \notin LinkingPcs /\ pc'[w] \notin LinkingPcs  BY <1>2, <1>3 DEF LinkingPcs
<1> QED  BY <1>1, <1>2, <1>3, <1>4, <1>5, <1>6, <1>7, Quiet

LEMMA CommitLockStep ==
  ASSUME BucketInv, NEW w \in Threads, CommitLock(w)
  PROVE  BucketInv'
<1>1. TypeOK /\ FilesOK /\ InsertsAlone /\ ThreadOK(w)  BY DEF BucketInv
<1>2. /\ pc[w] = "inserted" /\ pc' = [pc EXCEPT ![w] = "stamp"] /\ local' = local
      /\ committer = Nobody /\ committer' = w /\ clock' = clock + 1
      /\ UNCHANGED <<header, backup, index, data, todo, keyLock>>
      /\ UNCHANGED <<headerReaders, headerWriter, dataWriter, indexWriter>>
  BY DEF CommitLock, At, Goto, pageVars, lockVars
<1>3. pc'[w] = "stamp" /\ \A v \in Threads \ {w} : pc'[v] = pc[v]  BY <1>1, <1>2 DEF TypeOK
<1>4. TypeOK'
  <2>1. pc' \in [Threads -> PcValues]  BY <1>1, <1>2 DEF TypeOK, PcValues
  <2>2. clock' \in Nat  BY <1>1, <1>2 DEF TypeOK
  <2> QED  BY <1>1, <1>2, <2>1, <2>2 DEF TypeOK
<1>5. InsertsAlone'  BY <1>1, <1>2, <1>3, StaysAlone DEF Inserting
<1>6. ThreadOK(w)'
  <2>1. RoleOK(w)'
    BY <1>1, <1>2, <1>3 DEF ThreadOK, RoleOK, HasKey, Writes, Inserting, CommitPcs, LinkingPcs
  <2>2. CountsOK(w)'  BY <1>1, <1>2, <1>3 DEF ThreadOK, CountsOK, Writes
  <2>3. FindsOK(w)'  BY <1>1, <1>2, <1>3 DEF ThreadOK, FindsOK, Writes
  <2>4. Newest(local[w].prev, local[w].key)'
    <3>1. Newest(local[w].prev, local[w].key)
      BY <1>1, <1>2 DEF ThreadOK, RecordOK, RoleOK, Writes
    <3> QED  BY <1>2, <3>1 DEF Newest, Committed
  <2>5. clock' > 0 /\ \A p \in DOMAIN data : data[p].ts < clock'
    <3>1. clock \in Nat /\ \A p \in DOMAIN data : data[p].ts \in Nat
      BY <1>1 DEF TypeOK, Record
    <3> QED  BY <1>1, <1>2, <3>1 DEF FilesOK
  <2>6. local'[w].at \in DOMAIN data' /\ data'[local'[w].at] = NewRecord(w)'
    BY <1>1, <1>2 DEF ThreadOK, RecordOK, Pending, NewRecord
  <2>7. RecordOK(w)'  BY <1>2, <1>3, <2>4, <2>5, <2>6 DEF RecordOK, LinkingPcs
  <2> QED  BY <2>1, <2>2, <2>3, <2>7 DEF ThreadOK
<1>7. pc[w] \notin LinkingPcs /\ pc'[w] \notin LinkingPcs  BY <1>2, <1>3 DEF LinkingPcs
<1>8. clock' \in Nat /\ clock' >= clock  BY <1>1, <1>2 DEF TypeOK
<1> QED  BY <1>1, <1>2, <1>3, <1>4, <1>5, <1>6, <1>7, <1>8, Quiet

(* UnlockKey, CommitUnlock and Abort only give locks back.                   *)
LEMMA ReleaseStep ==
  ASSUME BucketInv, NEW w \in Threads, UnlockKey(w) \/ CommitUnlock(w) \/ Abort(w)
  PROVE  BucketInv'
<1>1. TypeOK /\ FilesOK /\ InsertsAlone /\ ThreadOK(w)  BY DEF BucketInv
<1>2. /\ UNCHANGED <<header, backup, index, data, todo, clock>> /\ local' = local
      /\ UNCHANGED <<headerReaders, headerWriter, dataWriter, indexWriter>>
  BY DEF UnlockKey, CommitUnlock, Abort, pageVars, lockVars
<1>3. /\ pc' = [pc EXCEPT ![w] = pc'[w]]
      /\ \/ pc[w] = "unlock" /\ pc'[w] = "commitUnlock" /\ committer' = committer
            /\ keyLock' = [keyLock EXCEPT ![local[w].key] = Nobody]
         \/ pc[w] = "commitUnlock" /\ pc'[w] = "idle" /\ committer' = Nobody /\ keyLock' = keyLock
         \/ pc[w] \in {"inserted", "leave"} /\ pc'[w] = "idle" /\ committer' = committer
            /\ keyLock' = [keyLock EXCEPT ![local[w].key] = Nobody]
  BY <1>1 DEF UnlockKey, CommitUnlock, Abort, At, Goto, Release, TypeOK
<1>4. \A v \in Threads \ {w} : pc'[v] = pc[v]  BY <1>1, <1>3 DEF TypeOK
<1>5. local[w].key \in Keys  BY <1>1 DEF TypeOK, Local
<1>6. TypeOK'
  <2>1. pc' \in [Threads -> PcValues]  BY <1>1, <1>3 DEF TypeOK, PcValues
  <2>2. keyLock' \in [Keys -> Threads \cup {Nobody}]  BY <1>1, <1>3, <1>5 DEF TypeOK
  <2>3. committer' \in Threads \cup {Nobody}  BY <1>1, <1>3 DEF TypeOK
  <2> QED  BY <1>1, <1>2, <2>1, <2>2, <2>3 DEF TypeOK
<1>7. InsertsAlone'  BY <1>1, <1>2, <1>3, <1>4, StaysAlone DEF Inserting
<1>8. ThreadOK(w)'
  <2>1. RoleOK(w)'
    BY <1>1, <1>2, <1>3, NobodyAssumption
    DEF ThreadOK, RoleOK, HasKey, Writes, Inserting, CommitPcs, LinkingPcs
  <2>2. CountsOK(w)'  BY <1>1, <1>2, <1>3 DEF ThreadOK, CountsOK
  <2>3. FindsOK(w)'  BY <1>3 DEF FindsOK
  <2>4. RecordOK(w)'  BY <1>3 DEF RecordOK, Pending, LinkingPcs
  <2> QED  BY <2>1, <2>2, <2>3, <2>4 DEF ThreadOK
<1>9. \A v \in Threads \ {w}, k \in Keys : keyLock[k] = v => keyLock'[k] = v
  <2>1. pc'[w] # pc[w] /\ pc[w] # "commitUnlock" => keyLock[local[w].key] = w
    BY <1>1, <1>3 DEF ThreadOK, RoleOK, HasKey, CommitPcs
  <2> QED  BY <1>1, <1>3, <1>5, <2>1 DEF TypeOK
<1>10. UNCHANGED <<committer, clock>>
       \/ ({committer, committer'} \subseteq {w, Nobody} /\ clock' \in Nat /\ clock' >= clock)
  <2>1. pc[w] = "commitUnlock" => committer = w  BY <1>1 DEF ThreadOK, RoleOK, CommitPcs
  <2> QED  BY <1>1, <1>2, <1>3, <2>1 DEF TypeOK
<1>11. pc[w] \notin LinkingPcs /\ pc'[w] \notin LinkingPcs  BY <1>3 DEF LinkingPcs
<1>12. pc[w] \notin {"idle", "parse", "repair"}  BY <1>3
<1> QED  BY <1>1, <1>2, <1>4, <1>6, <1>7, <1>8, <1>9, <1>10, <1>11, <1>12, Quiet

--------------------------------------------------------------------------------
(* insert_record. *)

(* A set of naturals that is not empty has a least element.                  *)
LEMMA LeastFree ==
  ASSUME NEW S \in SUBSET Nat, S # {}
  PROVE  \E s \in S : \A u \in S : s <= u
<1>1. \E s \in S : \A u \in S : ~(<<u, s>> \in OpToRel(<, Nat))
  BY NatLessThanWellFounded, WFMin
<1>2. PICK s \in S : \A u \in S : ~(<<u, s>> \in OpToRel(<, Nat))  BY <1>1
<1>3. \A u \in S : ~(u < s)  BY <1>2 DEF OpToRel
<1>4. \A u \in S : s <= u  BY <1>3
<1> QED  BY <1>4

(* The place that a new record or item gets is in the page and was free.     *)
LEMMA FirstFreeIsFree ==
  ASSUME NEW pages, NEW page \in Nat, NEW slots \in Nat, HasRoom(pages, page, slots)
  PROVE  \E s \in 0 .. slots - 1 :
            FirstFree(pages, page, slots) = <<page, s>> /\ <<page, s>> \notin DOMAIN pages
<1>1. PICK S : S = FreeIn(pages, page, slots)  OBVIOUS
<1>2. S \in SUBSET Nat /\ S # {}  BY <1>1 DEF HasRoom, FreeIn
<1>3. \E s \in S : \A u \in S : s <= u  BY <1>2, LeastFree
<1>4. PICK s : s = CHOOSE t \in S : \A u \in S : t <= u  OBVIOUS
<1>5. s \in S  BY <1>3, <1>4
<1>6. FirstFree(pages, page, slots) = <<page, s>>  BY <1>1, <1>4 DEF FirstFree
<1>7. s \in 0 .. slots - 1 /\ <<page, s>> \notin DOMAIN pages  BY <1>1, <1>5 DEF FreeIn
<1> QED  BY <1>6, <1>7

(* A record of a writer in a place that was free.                            *)
LEMMA RecordPut ==
  ASSUME BucketInv, NEW w \in Threads, pc[w] \in {"record", "grow"},
         NEW page \in Nat, NEW s \in 0 .. DataSlots - 1, <<page, s>> \notin DOMAIN data,
         DOMAIN data' = DOMAIN data \cup {<<page, s>>},
         data'[<<page, s>>] = NewRecord(w), \A p \in DOMAIN data : data'[p] = data[p],
         local' = [local EXCEPT ![w].at = <<page, s>>], pc' = [pc EXCEPT ![w] = "inserted"],
         header' \in Counts, backup' \in Counts, header'.nIndex = header.nIndex,
         header'.nData \in Nat, header.nData \in Nat, header.nData <= header'.nData,
         page < header'.nData, header'.good \/ header' = header,
         dataWriter' \in Threads \cup {Nobody},
         UNCHANGED <<index, headerReaders, headerWriter, indexWriter, commitVars, todo>>
  PROVE  BucketInv'
<1>1. /\ TypeOK /\ FilesOK /\ InsertsAlone
      /\ (\A v \in Threads : ThreadOK(v)) /\ (\A k \in Keys : KeyOK(k))
  BY DEF BucketInv
<1>2. UNCHANGED <<keyLock, committer, clock>>  BY DEF commitVars
<1>3. PICK c \in Local : c = local[w]  BY <1>1 DEF TypeOK
<1>4. PICK d : d = [c EXCEPT !.at = <<page, s>>]  OBVIOUS
<1>5. d \in Local /\ d.op = c.op /\ d.key = c.key /\ d.nIndex = c.nIndex
      /\ d.nData = c.nData /\ d.item = c.item /\ d.prev = c.prev /\ d.at = <<page, s>>
  <2>1. <<page, s>> \in Places  BY DEF Places
  <2> QED  BY <1>4, <2>1 DEF Local
<1>6. local' = [local EXCEPT ![w] = d]  BY <1>1, <1>3, <1>4 DEF TypeOK
<1>7. local'[w] = d /\ pc'[w] = "inserted"
      /\ \A v \in Threads \ {w} : pc'[v] = pc[v] /\ local'[v] = local[v]
  BY <1>1, <1>6 DEF TypeOK
<1>8. NewRecord(w) \in Record /\ NewRecord(w).ts = Uncommitted
  BY <1>3 DEF NewRecord, Record, Local, Uncommitted
<1>9. (\A k : KeySame(k)) /\ Stays
  <2>1. data'[<<page, s>>].ts = Uncommitted  BY <1>8
  <2>2. \A k : KeySame(k)  BY <2>1 DEF KeySame
  <2> QED  BY <2>2, SameStays
<1>10. Writes(w)  BY <1>1 DEF ThreadOK, RoleOK
<1>11. TypeOK'
  <2>1. pc' \in [Threads -> PcValues]  BY <1>1 DEF TypeOK, PcValues
  <2>2. local' \in [Threads -> Local]  BY <1>1, <1>5, <1>6 DEF TypeOK
  <2>3. <<page, s>> \in Nat \X (0 .. DataSlots - 1)  OBVIOUS
  <2>4. DOMAIN data' \subseteq Nat \X (0 .. DataSlots - 1)  BY <1>1, <2>3 DEF TypeOK
  <2>5. \A p \in DOMAIN data' : data'[p] \in Record  BY <1>1, <1>8 DEF TypeOK
  <2> QED  BY <1>1, <1>2, <2>1, <2>2, <2>4, <2>5 DEF TypeOK
<1>12. InsertsAlone'  BY <1>1, <1>7, StaysAlone DEF Inserting
<1>13. \A v \in Threads : ThreadOK(v)'
  <2>1. ASSUME NEW v \in Threads, v # w  PROVE ThreadOK(v)'
    <3>1. ThreadOK(v) /\ pc'[v] = pc[v] /\ local'[v] = local[v]  BY <1>1, <1>7, <2>1
    <3>2. local[v].nIndex \in Nat /\ clock \in Nat /\ header.nIndex \in Nat
      BY <1>1 DEF TypeOK, Counts, Local
    <3>3. HasKey(v) => keyLock'[local[v].key] = v  BY <1>2, <3>1 DEF ThreadOK, RoleOK
    <3>4. pc[v] = "checksum" => v \in headerReaders'  BY <3>1 DEF ThreadOK, CountsOK
    <3>5. ~(Writes(v) /\ pc[v] \in {"find", "read", "readPage", "readSlot", "found", "record", "grow"})
      BY <1>1, <1>10, <2>1 DEF InsertsAlone, Inserting
    <3>6. \A p \in DOMAIN data' : (p \in DOMAIN data /\ data'[p].ts = data[p].ts) \/ data'[p].ts = 0
      BY <1>8 DEF Uncommitted
    <3> QED  BY <1>2, <1>9, <3>1, <3>2, <3>3, <3>4, <3>5, <3>6, OtherThread
  <2>2. ThreadOK(w)'
    <3>1. RoleOK(w)'
      BY <1>1, <1>2, <1>3, <1>5, <1>7
      DEF ThreadOK, RoleOK, HasKey, Writes, Inserting, CommitPcs, LinkingPcs
    <3>2. CountsOK(w)'  BY <1>1, <1>3, <1>5, <1>7 DEF ThreadOK, CountsOK
    <3>3. FindsOK(w)'  BY <1>1, <1>3, <1>5, <1>7 DEF ThreadOK, FindsOK, Writes
    <3>4. Newest(d.prev, d.key)'
      <4>1. PICK x, k : x = d.prev /\ k = d.key  OBVIOUS
      <4>2. Newest(x, k)  BY <1>1, <1>3, <1>5, <1>10, <4>1 DEF ThreadOK, RecordOK
      <4>3. Newest(x, k)'  BY <1>9, <4>2, SameNewest
      <4> QED  BY <4>1, <4>3
    <3>5. d.at \in DOMAIN data' /\ data'[d.at] = NewRecord(w)'
      BY <1>3, <1>5, <1>7 DEF NewRecord
    <3>6. RecordOK(w)'  BY <1>7, <3>4, <3>5 DEF RecordOK, LinkingPcs
    <3> QED  BY <3>1, <3>2, <3>3, <3>6 DEF ThreadOK
  <2> QED  BY <2>1, <2>2
<1>14. \A k \in Keys : KeyOK(k)'
  <2>1. ASSUME NEW k \in Keys  PROVE  KeyOK(k)'
    <3>1. Linking(k)' <=> Linking(k)  BY <1>7 DEF Linking
    <3>2. KeyOK(k) /\ KeySame(k)  BY <1>1, <1>9
    <3> QED  BY <3>1, <3>2, OtherKey
  <2> QED  BY <2>1
<1>15. FilesOK'
  <2>1. \A p \in DOMAIN data' : p[1] < header'.nData /\ data'[p].ts <= clock'
    <3>1. ASSUME NEW p \in DOMAIN data  PROVE  p[1] < header'.nData /\ data'[p].ts <= clock'
      <4>1. p[1] \in Nat /\ p[1] < header.nData /\ data[p].ts <= clock
        BY <1>1 DEF TypeOK, FilesOK
      <4> QED  BY <1>2, <4>1
    <3>2. data'[<<page, s>>].ts <= clock'
      BY <1>1, <1>2, <1>8 DEF Uncommitted, TypeOK
    <3> QED  BY <3>1, <3>2
  <2>2. header.good \/ \E v \in Threads : pc'[v] = "checksum"
    BY <1>1, <1>7 DEF FilesOK, Fresh
  <2>3. \A p \in DOMAIN index' : p[1] < header'.nIndex  BY <1>1 DEF FilesOK
  <2>4. headerWriter' = Nobody  BY <1>1 DEF FilesOK
  <2> QED  BY <2>1, <2>2, <2>3, <2>4 DEF FilesOK
<1> QED  BY <1>11, <1>12, <1>13, <1>14, <1>15 DEF BucketInv

LEMMA InsertRecordStep ==
  ASSUME BucketInv, NEW w \in Threads, InsertRecord(w)
  PROVE  BucketInv'
<1>1. TypeOK /\ FilesOK /\ InsertsAlone /\ ThreadOK(w)  BY DEF BucketInv
<1>2. /\ pc[w] = "record" /\ UNCHANGED <<header, backup, index, todo>>
      /\ UNCHANGED <<headerReaders, headerWriter, indexWriter, commitVars>>
      /\ UNCHANGED <<keyLock, committer, clock>>
  BY DEF InsertRecord, At, commitVars
<1>3. /\ header.nIndex \in Nat /\ header.nData \in Nat /\ local[w].nData = header.nData
      /\ header \in Counts /\ backup \in Counts
  BY <1>1, <1>2 DEF TypeOK, Counts, ThreadOK, CountsOK, RoleOK
<1>4. PICK page \in Int : page = local[w].nData - 1  BY <1>3
<1>5. CASE page >= 0 /\ HasRoom(data, page, DataSlots) /\ PutRecord(w, data, page)
           /\ UNCHANGED dataWriter
  <2>1. page \in Nat /\ page < header.nData  BY <1>3, <1>4, <1>5
  <2>2. PICK s \in 0 .. DataSlots - 1 :
           FirstFree(data, page, DataSlots) = <<page, s>> /\ <<page, s>> \notin DOMAIN data
    <3>1. DataSlots \in Nat /\ HasRoom(data, page, DataSlots)  BY <1>5, SlotsAssumption
    <3> QED  BY <2>1, <3>1, FirstFreeIsFree
  <2>3. /\ data' = Put(data, <<page, s>>, NewRecord(w))
        /\ local' = [local EXCEPT ![w].at = <<page, s>>] /\ pc' = [pc EXCEPT ![w] = "inserted"]
    BY <1>5, <2>2 DEF PutRecord, Goto
  <2>4. /\ DOMAIN data' = DOMAIN data \cup {<<page, s>>}
        /\ data'[<<page, s>>] = NewRecord(w) /\ \A p \in DOMAIN data : data'[p] = data[p]
    BY <2>2, <2>3 DEF Put
  <2>5. dataWriter' \in Threads \cup {Nobody}  BY <1>1, <1>5 DEF TypeOK
  <2>6. pc[w] \in {"record", "grow"} /\ header' \in Counts /\ backup' \in Counts
        /\ header' = header /\ header'.nIndex = header.nIndex /\ header'.nData \in Nat
        /\ header.nData <= header'.nData /\ page < header'.nData
    BY <1>2, <1>3, <2>1
  <2> QED  BY <1>2, <1>3, <2>1, <2>2, <2>3, <2>4, <2>5, <2>6, RecordPut
<1>6. CASE dataWriter' = w /\ Goto(w, "grow") /\ UNCHANGED <<data, local>>
  <2>1. pc' = [pc EXCEPT ![w] = "grow"]  BY <1>6 DEF Goto
  <2>2. pc'[w] = "grow" /\ \A v \in Threads \ {w} : pc'[v] = pc[v]  BY <1>1, <2>1 DEF TypeOK
  <2>3. TypeOK'
    <3>1. pc' \in [Threads -> PcValues]  BY <1>1, <2>1 DEF TypeOK, PcValues
    <3> QED  BY <1>1, <1>2, <1>6, <3>1 DEF TypeOK
  <2>4. InsertsAlone'  BY <1>1, <1>2, <1>6, <2>2, StaysAlone DEF Inserting
  <2>5. ThreadOK(w)'
    <3>1. RoleOK(w)'
      BY <1>1, <1>2, <1>6, <2>2
      DEF ThreadOK, RoleOK, HasKey, Writes, Inserting, CommitPcs, LinkingPcs
    <3>2. CountsOK(w)'  BY <1>1, <1>2, <1>6, <2>2 DEF ThreadOK, CountsOK, Writes
    <3>3. FindsOK(w)'  BY <1>1, <1>2, <1>6, <2>2 DEF ThreadOK, FindsOK, Writes
    <3>4. Newest(local[w].prev, local[w].key)'
      <4>1. Newest(local[w].prev, local[w].key)
        BY <1>1, <1>2 DEF ThreadOK, RecordOK, RoleOK
      <4> QED  BY <1>6, <4>1 DEF Newest, Committed
    <3>5. RecordOK(w)'  BY <2>2, <3>4 DEF RecordOK, Pending, LinkingPcs
    <3> QED  BY <3>1, <3>2, <3>3, <3>5 DEF ThreadOK
  <2>6. pc[w] \notin LinkingPcs /\ pc'[w] \notin LinkingPcs  BY <1>2, <2>2 DEF LinkingPcs
  <2> QED  BY <1>1, <1>2, <1>6, <2>2, <2>3, <2>4, <2>5, <2>6, Quiet
<1> QED  BY <1>4, <1>5, <1>6 DEF InsertRecord

(* In a file that a thread grows alone the new page was never used before,   *)
(* so that clearing it loses nothing.                                       *)
LEMMA GrowDataStep ==
  ASSUME BucketInv, NEW w \in Threads, GrowData(w)
  PROVE  BucketInv'
<1>1. TypeOK /\ FilesOK /\ InsertsAlone /\ ThreadOK(w)  BY DEF BucketInv
<1>2. /\ pc[w] = "grow" /\ UNCHANGED <<index, headerReaders, headerWriter, indexWriter, commitVars, todo>>
      /\ PutRecord(w, Zeroed(data, header.nData), header.nData)
      /\ header' = [header EXCEPT !.good = TRUE, !.nData = header.nData + 1]
      /\ backup' = header' /\ dataWriter' = Nobody
  BY DEF GrowData, At
<1>3. header \in Counts /\ header.nIndex \in Nat /\ header.nData \in Nat
  BY <1>1 DEF TypeOK, Counts
<1>4. PICK page \in Nat : page = header.nData  BY <1>3
<1>5. PICK n \in Nat : n = page + 1  OBVIOUS
<1>6. header' = [header EXCEPT !.good = TRUE, !.nData = n]  BY <1>2, <1>4, <1>5
<1>7. header' \in Counts /\ header'.good /\ header'.nIndex = header.nIndex /\ header'.nData = n
  BY <1>3, <1>6 DEF Counts
<1>8. PICK pages : pages = Zeroed(data, page)  OBVIOUS
<1>9. \A p \in DOMAIN data : p[1] # page
  <2>1. \A p \in DOMAIN data : p[1] < header.nData /\ p[1] \in Nat
    BY <1>1 DEF FilesOK, TypeOK
  <2> QED  BY <1>4, <2>1
<1>10. DOMAIN pages = DOMAIN data /\ \A p \in DOMAIN data : pages[p] = data[p]
  BY <1>8, <1>9 DEF Zeroed
<1>11. PICK s \in 0 .. DataSlots - 1 :
          FirstFree(pages, page, DataSlots) = <<page, s>> /\ <<page, s>> \notin DOMAIN pages
  <2>1. DataSlots \in Nat /\ 0 \in 0 .. DataSlots - 1  BY SlotsAssumption
  <2>2. <<page, 0>> \notin DOMAIN pages  BY <1>9, <1>10
  <2>3. HasRoom(pages, page, DataSlots)  BY <2>1, <2>2 DEF HasRoom, FreeIn
  <2> QED  BY <2>1, <2>3, FirstFreeIsFree
<1>12. /\ data' = Put(pages, <<page, s>>, NewRecord(w))
       /\ local' = [local EXCEPT ![w].at = <<page, s>>] /\ pc' = [pc EXCEPT ![w] = "inserted"]
  BY <1>2, <1>4, <1>8, <1>11 DEF PutRecord, Goto
<1>13. /\ DOMAIN data' = DOMAIN data \cup {<<page, s>>} /\ <<page, s>> \notin DOMAIN data
       /\ data'[<<page, s>>] = NewRecord(w) /\ \A p \in DOMAIN data : data'[p] = data[p]
  BY <1>10, <1>11, <1>12 DEF Put
<1>14. pc[w] \in {"record", "grow"} /\ header' \in Counts /\ backup' \in Counts
       /\ header'.good /\ header'.nData \in Nat
       /\ header.nData <= header'.nData /\ page < header'.nData
       /\ dataWriter' \in Threads \cup {Nobody}
  BY <1>2, <1>3, <1>4, <1>5, <1>7
<1> QED  BY <1>2, <1>3, <1>7, <1>11, <1>12, <1>13, <1>14, RecordPut

--------------------------------------------------------------------------------
(* commit. *)

(* Only the committer links a version.                                       *)
LEMMA OnlyCommitterLinks ==
  ASSUME BucketInv, NEW w \in Threads, pc[w] \in CommitPcs, NEW v \in Threads, v # w
  PROVE  /\ pc[v] \notin CommitPcs /\ pc[v] \notin LinkingPcs /\ committer # v
         /\ HasKey(w) => (HasKey(v) => local[v].key # local[w].key)
<1>1. ThreadOK(v) /\ ThreadOK(w)  BY DEF BucketInv
<1>2. committer = w  BY <1>1 DEF ThreadOK, RoleOK
<1>3. pc[v] \notin CommitPcs  BY <1>1, <1>2 DEF ThreadOK, RoleOK
<1> QED  BY <1>1, <1>2, <1>3 DEF ThreadOK, RoleOK, CommitPcs

LEMMA StampRecordStep ==
  ASSUME BucketInv, NEW w \in Threads, StampRecord(w)
  PROVE  BucketInv'
<1>1. /\ TypeOK /\ FilesOK /\ InsertsAlone
      /\ (\A v \in Threads : ThreadOK(v)) /\ (\A k \in Keys : KeyOK(k))
  BY DEF BucketInv
<1>2. /\ pc[w] = "stamp" /\ local' = local
      /\ UNCHANGED <<header, backup, index, todo, headerReaders, headerWriter, dataWriter, indexWriter>>
      /\ UNCHANGED <<keyLock, committer, clock>>
      /\ pc' = [pc EXCEPT ![w] = IF local[w].op = "insert" THEN "index" ELSE "link"]
  BY DEF StampRecord, At, Goto, lockVars, commitVars
<1>3. PICK k \in Keys : k = local[w].key  BY <1>1 DEF TypeOK, Local
<1>4. PICK a : a = local[w].at  OBVIOUS
<1>5. /\ a \in DOMAIN data /\ data[a].key = k /\ data[a].ts = 0 /\ data[a].prev = local[w].prev
      /\ clock > 0 /\ clock \in Nat /\ \A p \in DOMAIN data : data[p].ts < clock /\ data[p] \in Record
      /\ data[a] \in Record
  <2>1. a \in DOMAIN data /\ data[a] = NewRecord(w) /\ clock > 0
        /\ \A p \in DOMAIN data : data[p].ts < clock
    BY <1>1, <1>2, <1>4 DEF ThreadOK, RecordOK, Pending
  <2>2. data[a].key = k /\ data[a].ts = 0 /\ data[a].prev = local[w].prev
    BY <1>3, <2>1 DEF NewRecord, Uncommitted
  <2>3. clock \in Nat /\ \A p \in DOMAIN data : data[p] \in Record  BY <1>1 DEF TypeOK
  <2> QED  BY <2>1, <2>2, <2>3
<1>6. PICK r : r = [data[a] EXCEPT !.ts = clock]  OBVIOUS
<1>7. r \in Record /\ r.key = k /\ r.ts = clock /\ r.prev = local[w].prev
  BY <1>5, <1>6 DEF Record
<1>8. data' = [data EXCEPT ![a] = r]
  BY <1>2, <1>4, <1>5, <1>6 DEF StampRecord
<1>9. DOMAIN data' = DOMAIN data /\ data'[a] = r /\ \A p \in DOMAIN data : p # a => data'[p] = data[p]
  BY <1>5, <1>8
<1>10. /\ pc'[w] \in {"index", "link"} /\ (pc'[w] = "index" <=> local[w].op = "insert")
       /\ \A v \in Threads \ {w} : pc'[v] = pc[v]
  BY <1>1, <1>2 DEF TypeOK
<1>11. Writes(w) /\ HasKey(w)
  BY <1>1, <1>2 DEF ThreadOK, RoleOK, HasKey, CommitPcs
<1>12. local[w].op \in {"insert", "set"}
  BY <1>1, <1>11 DEF Writes, TypeOK, Local
<1>13. ~Linking(k)  BY <1>2, <1>3, <1>11, NobodyLinks DEF LinkingPcs
<1>14. \A m : m # k => KeySame(m)  BY <1>2, <1>5, <1>7, <1>9 DEF KeySame
<1>15. Committed(k)' = Committed(k) \cup {a} /\ a \notin Committed(k)
  BY <1>5, <1>7, <1>9 DEF Committed, Uncommitted
<1>16. \A p \in Committed(k) : p # a /\ p \in DOMAIN data /\ data'[p] = data[p]
          /\ data[p].ts \in Nat /\ data[p].ts < clock /\ p \in DOMAIN data'
  BY <1>5, <1>9, <1>15 DEF Committed, Record
<1>0. Stays
  <2>1. ASSUME NEW m  PROVE Committed(m) \subseteq Committed(m)'
    <3>1. CASE m = k  BY <1>15, <3>1
    <3>2. CASE m # k
      <4>1. KeySame(m)  BY <1>14, <3>2
      <4> QED  BY <4>1, SameVersions
    <3> QED  BY <3>1, <3>2
  <2> QED  BY <1>2, <2>1 DEF Stays
<1>17. TypeOK'
  <2>1. pc' \in [Threads -> PcValues]  BY <1>1, <1>2 DEF TypeOK, PcValues
  <2>2. \A p \in DOMAIN data' : data'[p] \in Record  BY <1>1, <1>7, <1>9 DEF TypeOK
  <2> QED  BY <1>1, <1>2, <1>9, <2>1, <2>2 DEF TypeOK
<1>18. InsertsAlone'  BY <1>1, <1>2, <1>10, StaysAlone DEF Inserting
<1>19. FilesOK'
  <2>1. \A p \in DOMAIN data' : p[1] < header'.nData /\ data'[p].ts <= clock'
    BY <1>1, <1>2, <1>5, <1>7, <1>9 DEF FilesOK
  <2>2. header.good \/ \E v \in Threads : pc'[v] = "checksum"
    BY <1>1, <1>2, <1>10 DEF FilesOK, Fresh
  <2> QED  BY <1>1, <1>2, <2>1, <2>2 DEF FilesOK
<1>20. \A v \in Threads : ThreadOK(v)'
  <2>1. ASSUME NEW v \in Threads, v # w  PROVE ThreadOK(v)'
    <3>1. ThreadOK(v) /\ pc'[v] = pc[v] /\ local'[v] = local[v]  BY <1>1, <1>2, <1>10, <2>1
    <3>2. local[v].nIndex \in Nat /\ header.nIndex \in Nat
      BY <1>1 DEF TypeOK, Counts, Local
    <3>3. committer # v /\ (HasKey(v) => local[v].key # k)
      BY <1>2, <1>3, <1>11, <2>1, OnlyCommitterLinks DEF CommitPcs
    <3>4. HasKey(v) => keyLock'[local[v].key] = v  BY <1>2, <3>1 DEF ThreadOK, RoleOK
    <3>5. pc[v] = "checksum" => v \in headerReaders'
      BY <1>2, <3>1 DEF ThreadOK, CountsOK
    <3>6. HasKey(v) => KeySame(local[v].key)  BY <1>14, <3>3
    <3>7. header'.nIndex >= header.nIndex  BY <1>2, <3>2
    <3> QED  BY <1>0, <1>2, <1>5, <3>1, <3>2, <3>3, <3>4, <3>5, <3>6, <3>7, OtherThread
  <2>2. ThreadOK(w)'
    <3>1. RoleOK(w)'
      BY <1>1, <1>2, <1>10, <1>11, <1>12
      DEF ThreadOK, RoleOK, HasKey, Writes, Inserting, CommitPcs, LinkingPcs
    <3>2. CountsOK(w)'  BY <1>1, <1>2, <1>10 DEF ThreadOK, CountsOK
    <3>3. FindsOK(w)'  BY <1>1, <1>2, <1>10 DEF ThreadOK, FindsOK, Writes
    <3>4. local[w].op = "set" => index[local[w].item].at \in Committed(k)
      <4>1. local[w].op = "set" =>
               local[w].item \in DOMAIN index /\ index[local[w].item].key = k
        BY <1>1, <1>2, <1>3 DEF ThreadOK, FindsOK
      <4>2. KeyOK(k)  BY <1>1
      <4> QED  BY <1>13, <4>1, <4>2 DEF KeyOK, Newest
    <3>5. RecordOK(w)'
      BY <1>2, <1>3, <1>4, <1>5, <1>7, <1>9, <1>10, <1>12, <1>15, <3>4
      DEF RecordOK, Pending, LinkingPcs
    <3> QED  BY <3>1, <3>2, <3>3, <3>5 DEF ThreadOK
  <2> QED  BY <2>1, <2>2
<1>21. \A m \in Keys : KeyOK(m)'
  <2>1. ASSUME NEW m \in Keys, m # k  PROVE KeyOK(m)'
    <3>1. Linking(m)' <=> Linking(m)  BY <1>2, <1>3, <1>10, <2>1 DEF Linking
    <3>2. KeyOK(m) /\ KeySame(m)  BY <1>1, <1>14, <2>1
    <3> QED  BY <3>1, <3>2, OtherKey
  <2>2. KeyOK(k)'
    <3>1. Linking(k)'
      BY <1>2, <1>3, <1>10 DEF Linking
    <3>2. KeyOK(k)  BY <1>1
    <3>3. ASSUME NEW p \in Committed(k)  PROVE IsPrevious(data[p].prev, k, data[p].ts)'
      <4>1. IsPrevious(data[p].prev, k, data[p].ts)  BY <3>2 DEF KeyOK
      <4>2. PICK x : x = data[p].prev  OBVIOUS
      <4>3. PICK t \in Nat : t = data[p].ts  BY <1>16
      <4>4. t < clock  BY <1>16, <4>3
      <4>5. \A q \in Committed(k)' : data'[q].ts < t => q \in Committed(k) /\ data'[q] = data[q]
        BY <1>5, <1>7, <1>9, <1>15, <1>16, <4>4
      <4>6. \A q \in Committed(k) : q \in Committed(k)' /\ data'[q] = data[q]
        BY <1>15, <1>16
      <4>7. IsPrevious(x, k, t)'
        BY <4>1, <4>2, <4>3, <4>5, <4>6 DEF IsPrevious
      <4> QED  BY <1>16, <4>2, <4>3, <4>7
    <3>4. IsPrevious(r.prev, k, clock)'
      <4>1. PICK x : x = r.prev  OBVIOUS
      <4>2. Newest(x, k)
        BY <1>1, <1>2, <1>3, <1>7, <1>11, <4>1 DEF ThreadOK, RecordOK
      <4>3. \A q \in Committed(k)' : data'[q].ts < clock => q \in Committed(k) /\ data'[q] = data[q]
        BY <1>5, <1>7, <1>9, <1>15, <1>16
      <4>4. \A q \in Committed(k) : q \in Committed(k)' /\ data'[q] = data[q] /\ data'[q].ts < clock
        BY <1>15, <1>16
      <4>5. IsPrevious(x, k, clock)'
        BY <1>2, <4>2, <4>3, <4>4 DEF IsPrevious, Newest
      <4> QED  BY <4>1, <4>5
    <3>5. \A p \in Committed(k)' : IsPrevious(data[p].prev, k, data[p].ts)'
      BY <1>2, <1>7, <1>9, <1>15, <3>3, <3>4
    <3>6. \A p \in DOMAIN index' : index'[p].key = k => index'[p].at \in Halves(k)'
      BY <1>0, <1>2, <3>2, HalvesStay DEF KeyOK
    <3> QED  BY <1>2, <1>15, <3>1, <3>2, <3>5, <3>6 DEF KeyOK
  <2> QED  BY <2>1, <2>2
<1> QED  BY <1>17, <1>18, <1>19, <1>20, <1>21 DEF BucketInv

(* update_index: an item whose pointer changes while its key is being linked, *)
(* and points at the new version when that ends.                             *)
LEMMA PointerMoved ==
  ASSUME BucketInv, NEW w \in Threads, pc[w] \in {"link", "linkPage", "linkSlot"},
         pc'[w] \in {"linkPage", "linkSlot", "unlock"}, pc' = [pc EXCEPT ![w] = pc'[w]],
         DOMAIN index' = DOMAIN index, index'[local[w].item] \in Item,
         index'[local[w].item].key = local[w].key,
         index'[local[w].item].at \in Halves(local[w].key),
         \A p \in DOMAIN index : p # local[w].item => index'[p] = index[p],
         pc'[w] = "linkSlot" => index'[local[w].item].at[1] = local[w].at[1],
         pc'[w] = "linkPage" => index'[local[w].item].at[2] = local[w].at[2],
         pc'[w] = "unlock" => index'[local[w].item].at = local[w].at,
         UNCHANGED <<header, backup, data, lockVars, commitVars, todo, local>>
  PROVE  BucketInv'
<1>0. PICK l, i, x : l = pc'[w] /\ i = local[w].item /\ x = index'[i].at  OBVIOUS
<1>1. /\ TypeOK /\ FilesOK /\ InsertsAlone
      /\ (\A v \in Threads : ThreadOK(v)) /\ (\A k \in Keys : KeyOK(k))
  BY DEF BucketInv
<1>2. /\ UNCHANGED <<header, backup, data, todo, local>>
      /\ UNCHANGED <<headerReaders, headerWriter, dataWriter, indexWriter>>
      /\ UNCHANGED <<keyLock, committer, clock>>
  BY DEF lockVars, commitVars
<1>3. PICK k \in Keys : k = local[w].key  BY <1>1 DEF TypeOK, Local
<1>4. /\ i \in DOMAIN index /\ index[i].key = k /\ index'[i].key = k /\ index'[i].at = x
      /\ DOMAIN index' = DOMAIN index /\ \A p \in DOMAIN index : p # i => index'[p] = index[p]
      /\ (l = "linkSlot" => x[1] = local[w].at[1]) /\ (l = "linkPage" => x[2] = local[w].at[2])
      /\ (l = "unlock" => x = local[w].at) /\ x \in Halves(k)
  BY <1>0, <1>1, <1>3 DEF ThreadOK, RoleOK, FindsOK
<1>5. /\ pc'[w] = l /\ \A v \in Threads \ {w} : pc'[v] = pc[v] /\ local'[v] = local[v]
      /\ l \in {"linkPage", "linkSlot", "unlock"} /\ pc' = [pc EXCEPT ![w] = l]
  BY <1>0, <1>1, <1>2 DEF TypeOK
<1>6. PICK a : a = local[w].at  OBVIOUS
<1>7. /\ Writes(w) /\ HasKey(w) /\ pc[w] \in CommitPcs /\ committer = w /\ local[w].op = "set"
      /\ clock > 0 /\ a \in Committed(k) /\ data[a].ts = clock
  <2>1. Writes(w) /\ HasKey(w) /\ pc[w] \in CommitPcs /\ committer = w /\ local[w].op = "set"
        /\ pc[w] \in LinkingPcs
    BY <1>1 DEF ThreadOK, RoleOK, HasKey, CommitPcs, LinkingPcs
  <2>2. clock > 0 /\ a \in DOMAIN data /\ data[a].key = k /\ data[a].ts = clock
    BY <1>1, <1>3, <1>6, <2>1 DEF ThreadOK, RecordOK
  <2>3. data[a].ts # Uncommitted  BY <2>2 DEF Uncommitted
  <2> QED  BY <2>1, <2>2, <2>3 DEF Committed
<1>8. (\A m : m # k => KeySame(m)) /\ Stays
  <2>1. \A m : m # k => KeySame(m)  BY <1>2, <1>4 DEF KeySame
  <2>2. \A m : Committed(m)' = Committed(m)  BY <1>2 DEF Committed
  <2>3. \A p \in DOMAIN index : p \in DOMAIN index' /\ index'[p].key = index[p].key  BY <1>4
  <2> QED  BY <2>1, <2>2, <2>3 DEF Stays
<1>9. TypeOK'
  <2>1. pc' \in [Threads -> PcValues]  BY <1>1, <1>5 DEF TypeOK, PcValues
  <2>2. \A p \in DOMAIN index' : index'[p] \in Item  BY <1>0, <1>1, <1>4 DEF TypeOK
  <2> QED  BY <1>1, <1>2, <1>4, <2>1, <2>2 DEF TypeOK
<1>10. InsertsAlone'  BY <1>1, <1>2, <1>5, StaysAlone DEF Inserting
<1>11. FilesOK'
  <2>1. header.good \/ \E v \in Threads : pc'[v] = "checksum"
    BY <1>1, <1>5 DEF FilesOK, Fresh
  <2> QED  BY <1>1, <1>2, <1>4, <2>1 DEF FilesOK
<1>12. \A v \in Threads : ThreadOK(v)'
  <2>1. ASSUME NEW v \in Threads, v # w  PROVE ThreadOK(v)'
    <3>1. ThreadOK(v) /\ pc'[v] = pc[v] /\ local'[v] = local[v]  BY <1>1, <1>5, <2>1
    <3>2. local[v].nIndex \in Nat /\ header.nIndex \in Nat /\ clock \in Nat
      BY <1>1 DEF TypeOK, Counts, Local
    <3>3. committer # v /\ (HasKey(v) => local[v].key # k)
      BY <1>3, <1>7, <2>1, OnlyCommitterLinks
    <3>4. HasKey(v) => keyLock'[local[v].key] = v  BY <1>2, <3>1 DEF ThreadOK, RoleOK
    <3>5. pc[v] = "checksum" => v \in headerReaders'
      BY <1>2, <3>1 DEF ThreadOK, CountsOK
    <3>6. HasKey(v) => KeySame(local[v].key)  BY <1>8, <3>3
    <3>7. header'.nIndex >= header.nIndex  BY <1>2, <3>2
    <3> QED  BY <1>2, <1>8, <3>1, <3>2, <3>3, <3>4, <3>5, <3>6, <3>7, OtherThread
  <2>2. ThreadOK(w)'
    <3>1. RoleOK(w)'
      BY <1>1, <1>2, <1>5, <1>7
      DEF ThreadOK, RoleOK, HasKey, Writes, Inserting, CommitPcs, LinkingPcs
    <3>2. CountsOK(w)'  BY <1>1, <1>2, <1>4, <1>5 DEF ThreadOK, CountsOK
    <3>3. FindsOK(w)'  BY <1>0, <1>2, <1>3, <1>4, <1>5, <1>7 DEF FindsOK
    <3>4. local[w].at \in DOMAIN data /\ data[local[w].at].key = local[w].key
          /\ data[local[w].at].ts = clock
      BY <1>3, <1>6, <1>7 DEF Committed
    <3>5. RecordOK(w)'
      BY <1>0, <1>2, <1>4, <1>5, <1>7, <3>4 DEF RecordOK, Pending, LinkingPcs
    <3> QED  BY <3>1, <3>2, <3>3, <3>5 DEF ThreadOK
  <2> QED  BY <2>1, <2>2
<1>13. \A m \in Keys : KeyOK(m)'
  <2>1. ASSUME NEW m \in Keys, m # k  PROVE KeyOK(m)'
    <3>1. Linking(m)' <=> Linking(m)  BY <1>2, <1>3, <1>5, <2>1 DEF Linking
    <3>2. KeyOK(m) /\ KeySame(m)  BY <1>1, <1>8, <2>1
    <3> QED  BY <3>1, <3>2, OtherKey
  <2>2. KeyOK(k)'
    <3>1. KeyOK(k)  BY <1>1
    <3>2. Committed(k)' = Committed(k)  BY <1>2 DEF Committed
    <3>3. \A p \in Committed(k) : IsPrevious(data[p].prev, k, data[p].ts)'
      BY <1>2, <3>1, <3>2 DEF KeyOK, IsPrevious
    <3>4. l # "unlock" => Linking(k)'  BY <1>2, <1>3, <1>5 DEF Linking
    <3>5. \A p \in DOMAIN index' : index'[p].key = k => p = i
      BY <1>4, <3>1 DEF KeyOK
    <3>6. l = "unlock" => Newest(x, k)'
      <4>1. \A q \in Committed(k) : data[q].ts <= data[a].ts
        BY <1>1, <1>7 DEF FilesOK, Committed
      <4>2. l = "unlock" => x = a  BY <1>4, <1>6
      <4> QED  BY <1>2, <1>7, <3>2, <4>1, <4>2 DEF Newest
    <3>7. \A p \in DOMAIN index' : index'[p].key = k =>
             Committed(k)' # {} /\ (Linking(k)' \/ Newest(index[p].at, k)')
      BY <1>4, <1>7, <3>2, <3>4, <3>5, <3>6
    <3>8. Halves(k)' = Halves(k)  BY <3>2 DEF Halves
    <3>9. \A p \in DOMAIN index' : index'[p].key = k => index'[p].at \in Halves(k)'
      BY <1>4, <3>5, <3>8
    <3> QED  BY <1>2, <1>4, <3>2, <3>3, <3>5, <3>7, <3>9 DEF KeyOK
  <2> QED  BY <2>1, <2>2
<1> QED  BY <1>9, <1>10, <1>11, <1>12, <1>13 DEF BucketInv

LEMMA LinkStep ==
  ASSUME BucketInv, NEW w \in Threads, LinkPage(w) \/ LinkSlot(w)
  PROVE  BucketInv'
<1>1. TypeOK /\ ThreadOK(w)  BY DEF BucketInv
<1>2. pc[w] \in {"link", "linkPage", "linkSlot"}
      /\ UNCHANGED <<header, backup, data, lockVars, commitVars, todo, local>>
  BY DEF LinkPage, LinkSlot
<1>3. PICK i : i = local[w].item  OBVIOUS
<1>4. i \in DOMAIN index /\ index[i].key = local[w].key /\ index[i] \in Item
  BY <1>1, <1>2, <1>3 DEF ThreadOK, RoleOK, FindsOK, TypeOK
<1>5. local[w].at \in Nat \X Nat  BY <1>1 DEF TypeOK, Local, Places
<1>6. PICK a1 \in Nat, a2 \in Nat : local[w].at = <<a1, a2>>  BY <1>5
<1>7. index[i].at \in Nat \X Nat  BY <1>4 DEF Item, Places
<1>8. PICK b1 \in Nat, b2 \in Nat : index[i].at = <<b1, b2>>  BY <1>7
<1>9. pc[w] = "linkSlot" => b1 = a1  BY <1>1, <1>3, <1>6, <1>8 DEF ThreadOK, RecordOK
<1>10. pc[w] = "linkPage" => b2 = a2  BY <1>1, <1>3, <1>6, <1>8 DEF ThreadOK, RecordOK
<1>13. PICK k \in Keys : k = local[w].key  BY <1>1 DEF TypeOK, Local
<1>14. <<a1, b2>> \in Halves(k) /\ <<b1, a2>> \in Halves(k)
  <2>1. <<a1, a2>> \in Committed(k)
    <3>1. clock > 0 /\ local[w].at \in DOMAIN data /\ data[local[w].at].key = k
          /\ data[local[w].at].ts = clock
      BY <1>1, <1>2, <1>13 DEF ThreadOK, RecordOK, LinkingPcs
    <3> QED  BY <1>6, <3>1 DEF Committed, Uncommitted
  <2>2. KeyOK(k)  BY DEF BucketInv
  <2>3. <<b1, b2>> \in Halves(k)  BY <1>4, <1>8, <1>13, <2>2 DEF KeyOK
  <2>4. PICK u \in Committed(k), v \in Committed(k) : <<b1, b2>> = <<u[1], v[2]>>
    BY <2>3 DEF Halves
  <2>5. b1 = u[1] /\ b2 = v[2]  BY <2>4
  <2>6. PICK y \in Committed(k) : y[1] = a1 /\ y[2] = a2  BY <2>1
  <2> QED  BY <2>5, <2>6 DEF Halves
<1>11. CASE LinkPage(w)
  <2>1. index' = [index EXCEPT ![i].at[1] = a1]  BY <1>3, <1>6, <1>11 DEF LinkPage
  <2>2. DOMAIN index' = DOMAIN index /\ \A p \in DOMAIN index : p # i => index'[p] = index[p]
    BY <2>1
  <2>3. PICK x : x = [index[i].at EXCEPT ![1] = a1]  OBVIOUS
  <2>4. index'[i] = [index[i] EXCEPT !.at = x]  BY <1>4, <2>1, <2>3
  <2>5. x = <<a1, b2>>  BY <1>8, <2>3
  <2>6. x \in Places  BY <2>5 DEF Places
  <2>7. index'[i] \in Item /\ index'[i].key = local[w].key /\ index'[i].at = x
    BY <1>4, <2>4, <2>6 DEF Item
  <2>11. x \in Halves(local[w].key)  BY <1>13, <1>14, <2>5
  <2>8. pc' = [pc EXCEPT ![w] = pc'[w]]
        /\ \/ pc[w] = "link" /\ pc'[w] = "linkSlot"
           \/ pc[w] # "link" /\ pc[w] = "linkPage" /\ pc'[w] = "unlock"
    BY <1>1, <1>11 DEF LinkPage, Goto, At, TypeOK
  <2>9. x[1] = local[w].at[1]  BY <1>6, <2>5
  <2>10. pc'[w] = "unlock" => x = local[w].at  BY <1>6, <1>10, <2>5, <2>8
  <2> QED  BY <1>2, <1>3, <2>2, <2>7, <2>8, <2>9, <2>10, <2>11, PointerMoved
<1>12. CASE LinkSlot(w)
  <2>1. index' = [index EXCEPT ![i].at[2] = a2]  BY <1>3, <1>6, <1>12 DEF LinkSlot
  <2>2. DOMAIN index' = DOMAIN index /\ \A p \in DOMAIN index : p # i => index'[p] = index[p]
    BY <2>1
  <2>3. PICK x : x = [index[i].at EXCEPT ![2] = a2]  OBVIOUS
  <2>4. index'[i] = [index[i] EXCEPT !.at = x]  BY <1>4, <2>1, <2>3
  <2>5. x = <<b1, a2>>  BY <1>8, <2>3
  <2>6. x \in Places  BY <2>5 DEF Places
  <2>7. index'[i] \in Item /\ index'[i].key = local[w].key /\ index'[i].at = x
    BY <1>4, <2>4, <2>6 DEF Item
  <2>11. x \in Halves(local[w].key)  BY <1>13, <1>14, <2>5
  <2>8. pc' = [pc EXCEPT ![w] = pc'[w]]
        /\ \/ pc[w] = "link" /\ pc'[w] = "linkPage"
           \/ pc[w] # "link" /\ pc[w] = "linkSlot" /\ pc'[w] = "unlock"
    BY <1>1, <1>12 DEF LinkSlot, Goto, At, TypeOK
  <2>9. x[2] = local[w].at[2]  BY <1>6, <2>5
  <2>10. pc'[w] = "unlock" => x = local[w].at  BY <1>6, <1>9, <2>5, <2>8
  <2> QED  BY <1>2, <1>3, <2>2, <2>7, <2>8, <2>9, <2>10, <2>11, PointerMoved
<1> QED  BY <1>11, <1>12

(* insert_index: an item in a place that was free.                           *)
LEMMA ItemPut ==
  ASSUME BucketInv, NEW w \in Threads, pc[w] \in {"index", "indexHeader", "checksum"},
         NEW page \in Nat, NEW s \in 0 .. IndexSlots - 1, <<page, s>> \notin DOMAIN index,
         DOMAIN index' = DOMAIN index \cup {<<page, s>>}, page < header.nIndex,
         index'[<<page, s>>] = [key |-> local[w].key, at |-> local[w].at],
         \A p \in DOMAIN index : index'[p] = index[p],
         pc' = [pc EXCEPT ![w] = "unlock"],
         header' \in Counts, header'.nIndex = header.nIndex, header'.nData = header.nData,
         header'.good \/ (header' = header /\ pc[w] # "checksum"),
         headerReaders' \subseteq Threads, headerReaders \ {w} \subseteq headerReaders',
         indexWriter' \in Threads \cup {Nobody},
         UNCHANGED <<backup, data, headerWriter, dataWriter, commitVars, todo, local>>
  PROVE  BucketInv'
<1>1. /\ TypeOK /\ FilesOK /\ InsertsAlone
      /\ (\A v \in Threads : ThreadOK(v)) /\ (\A k \in Keys : KeyOK(k))
  BY DEF BucketInv
<1>2. /\ UNCHANGED <<backup, data, todo, local>> /\ UNCHANGED <<headerWriter, dataWriter>>
      /\ UNCHANGED <<keyLock, committer, clock>>
  BY DEF commitVars
<1>3. PICK k \in Keys : k = local[w].key  BY <1>1 DEF TypeOK, Local
<1>4. PICK a \in Places : a = local[w].at  BY <1>1 DEF TypeOK, Local
<1>5. PICK i : i = <<page, s>>  OBVIOUS
<1>6. /\ DOMAIN index' = DOMAIN index \cup {i} /\ i \notin DOMAIN index
      /\ index'[i] \in Item /\ index'[i].key = k /\ index'[i].at = a
      /\ \A p \in DOMAIN index : index'[p] = index[p]
      /\ i \in Nat \X (0 .. IndexSlots - 1) /\ i[1] = page
  BY <1>3, <1>4, <1>5 DEF Item
<1>7. /\ pc'[w] = "unlock" /\ \A v \in Threads \ {w} : pc'[v] = pc[v] /\ local'[v] = local[v]
  BY <1>1, <1>2 DEF TypeOK
<1>8. /\ Writes(w) /\ HasKey(w) /\ pc[w] \in CommitPcs /\ committer = w /\ local[w].op = "insert"
      /\ clock > 0 /\ a \in Committed(k) /\ data[a].ts = clock
      /\ \A p \in DOMAIN index : index[p].key # k
  <2>1. Writes(w) /\ HasKey(w) /\ pc[w] \in CommitPcs /\ committer = w /\ local[w].op = "insert"
        /\ pc[w] \in LinkingPcs
    BY <1>1 DEF ThreadOK, RoleOK, HasKey, CommitPcs, LinkingPcs
  <2>2. clock > 0 /\ a \in DOMAIN data /\ data[a].key = k /\ data[a].ts = clock
    BY <1>1, <1>3, <1>4, <2>1 DEF ThreadOK, RecordOK
  <2>3. data[a].ts # Uncommitted  BY <2>2 DEF Uncommitted
  <2>4. \A p \in DOMAIN index : index[p].key # k
    BY <1>1, <1>3, <2>1 DEF ThreadOK, FindsOK
  <2> QED  BY <2>1, <2>2, <2>3, <2>4 DEF Committed
<1>9. (\A m : m # k => KeySame(m)) /\ Stays
  <2>1. \A m : m # k => KeySame(m)  BY <1>2, <1>6 DEF KeySame
  <2>2. \A m : Committed(m)' = Committed(m)  BY <1>2 DEF Committed
  <2>3. \A p \in DOMAIN index : p \in DOMAIN index' /\ index'[p].key = index[p].key  BY <1>6
  <2> QED  BY <2>1, <2>2, <2>3 DEF Stays
<1>10. TypeOK'
  <2>1. pc' \in [Threads -> PcValues]  BY <1>1 DEF TypeOK, PcValues
  <2>2. \A p \in DOMAIN index' : index'[p] \in Item  BY <1>1, <1>6 DEF TypeOK
  <2>3. DOMAIN index' \subseteq Nat \X (0 .. IndexSlots - 1)  BY <1>1, <1>6 DEF TypeOK
  <2> QED  BY <1>1, <1>2, <2>1, <2>2, <2>3 DEF TypeOK
<1>11. InsertsAlone'  BY <1>1, <1>2, <1>7, StaysAlone DEF Inserting
<1>12. \A v \in Threads \ {w} :
          pc[v] # "checksum" /\ committer # v /\ (HasKey(v) => local[v].key # k)
  BY <1>3, <1>8, OnlyCommitterLinks DEF LinkingPcs
<1>13. FilesOK'
  <2>1. header'.good
    BY <1>1, <1>12 DEF FilesOK, Fresh
  <2>2. \A p \in DOMAIN index' : p[1] < header'.nIndex
    BY <1>1, <1>6 DEF FilesOK
  <2> QED  BY <1>1, <1>2, <2>1, <2>2 DEF FilesOK
<1>14. \A v \in Threads : ThreadOK(v)'
  <2>1. ASSUME NEW v \in Threads, v # w  PROVE ThreadOK(v)'
    <3>1. ThreadOK(v) /\ pc'[v] = pc[v] /\ local'[v] = local[v]  BY <1>1, <1>7, <2>1
    <3>2. local[v].nIndex \in Nat /\ header.nIndex \in Nat /\ clock \in Nat
      BY <1>1 DEF TypeOK, Counts, Local
    <3>3. pc[v] # "checksum" /\ committer # v /\ (HasKey(v) => local[v].key # k)
      BY <1>12, <2>1
    <3>4. HasKey(v) => keyLock'[local[v].key] = v  BY <1>2, <3>1 DEF ThreadOK, RoleOK
    <3>5. HasKey(v) => KeySame(local[v].key)  BY <1>9, <3>3
    <3>6. header'.nIndex >= header.nIndex  BY <3>2
    <3> QED  BY <1>2, <1>9, <3>1, <3>2, <3>3, <3>4, <3>5, <3>6, OtherThread
  <2>2. ThreadOK(w)'
    <3>1. RoleOK(w)'
      BY <1>1, <1>2, <1>7, <1>8
      DEF ThreadOK, RoleOK, HasKey, Writes, Inserting, CommitPcs, LinkingPcs
    <3>2. CountsOK(w)'  BY <1>1, <1>2, <1>7 DEF ThreadOK, CountsOK
    <3>3. FindsOK(w)'  BY <1>7 DEF FindsOK
    <3>4. RecordOK(w)'  BY <1>7 DEF RecordOK, Pending, LinkingPcs
    <3> QED  BY <3>1, <3>2, <3>3, <3>4 DEF ThreadOK
  <2> QED  BY <2>1, <2>2
<1>15. \A m \in Keys : KeyOK(m)'
  <2>1. ASSUME NEW m \in Keys, m # k  PROVE KeyOK(m)'
    <3>1. Linking(m)' <=> Linking(m)  BY <1>2, <1>3, <1>7, <2>1 DEF Linking
    <3>2. KeyOK(m) /\ KeySame(m)  BY <1>1, <1>9, <2>1
    <3> QED  BY <3>1, <3>2, OtherKey
  <2>2. KeyOK(k)'
    <3>1. KeyOK(k)  BY <1>1
    <3>2. Committed(k)' = Committed(k)  BY <1>2 DEF Committed
    <3>3. \A p \in Committed(k) : IsPrevious(data[p].prev, k, data[p].ts)'
      BY <1>2, <3>1, <3>2 DEF KeyOK, IsPrevious
    <3>4. \A p \in DOMAIN index' : index'[p].key = k => p = i
      BY <1>6, <1>8
    <3>5. Newest(a, k)'
      <4>1. \A q \in Committed(k) : data[q].ts <= data[a].ts
        BY <1>1, <1>8 DEF FilesOK, Committed
      <4> QED  BY <1>2, <1>8, <3>2, <4>1 DEF Newest
    <3>6. \A p \in DOMAIN index' : index'[p].key = k =>
             Committed(k)' # {} /\ Newest(index[p].at, k)'
      BY <1>6, <1>8, <3>2, <3>4, <3>5
    <3>7. \A p \in DOMAIN index' : index'[p].key = k => index'[p].at \in Halves(k)'
      <4>1. a = <<a[1], a[2]>>  BY DEF Places
      <4>2. PICK a1, a2 : a1 = a[1] /\ a2 = a[2]  OBVIOUS
      <4>3. a = <<a1, a2>>  BY <4>1, <4>2
      <4>4. a \in Halves(k)  BY <1>8, <4>2, <4>3 DEF Halves
      <4>5. Halves(k)' = Halves(k)  BY <3>2 DEF Halves
      <4> QED  BY <1>6, <3>4, <4>4, <4>5
    <3> QED  BY <1>2, <1>6, <3>2, <3>3, <3>4, <3>6, <3>7 DEF KeyOK
  <2> QED  BY <2>1, <2>2
<1> QED  BY <1>10, <1>11, <1>13, <1>14, <1>15 DEF BucketInv

(* What PutItem does in a page that has room.                                *)
LEMMA PutItemPlace ==
  ASSUME NEW w, NEW pages, NEW page \in Nat, HasRoom(pages, page, IndexSlots),
         PutItem(w, pages, page)
  PROVE  \E s \in 0 .. IndexSlots - 1 :
            /\ <<page, s>> \notin DOMAIN pages
            /\ DOMAIN index' = DOMAIN pages \cup {<<page, s>>}
            /\ index'[<<page, s>>] = [key |-> local[w].key, at |-> local[w].at]
            /\ \A p \in DOMAIN pages : index'[p] = pages[p]
<1>1. IndexSlots \in Nat  BY SlotsAssumption
<1>2. PICK s \in 0 .. IndexSlots - 1 :
         FirstFree(pages, page, IndexSlots) = <<page, s>> /\ <<page, s>> \notin DOMAIN pages
  BY <1>1, FirstFreeIsFree
<1>3. index' = Put(pages, <<page, s>>, [key |-> local[w].key, at |-> local[w].at])
  BY <1>2 DEF PutItem
<1>4. /\ DOMAIN index' = DOMAIN pages \cup {<<page, s>>}
      /\ index'[<<page, s>>] = [key |-> local[w].key, at |-> local[w].at]
      /\ \A p \in DOMAIN pages : index'[p] = pages[p]
  BY <1>2, <1>3 DEF Put
<1> QED  BY <1>2, <1>4

LEMMA InsertIndexStep ==
  ASSUME BucketInv, NEW w \in Threads, InsertIndex(w)
  PROVE  BucketInv'
<1>1. TypeOK /\ FilesOK /\ InsertsAlone /\ ThreadOK(w)  BY DEF BucketInv
<1>2. /\ pc[w] = "index" /\ UNCHANGED <<header, backup, data, headerReaders, headerWriter, dataWriter>>
      /\ UNCHANGED <<commitVars, todo, local>> /\ UNCHANGED <<keyLock, committer, clock>>
  BY DEF InsertIndex, At, commitVars
<1>3. /\ header.nIndex \in Nat /\ local[w].nIndex \in Nat /\ local[w].nIndex <= header.nIndex
      /\ header \in Counts
  BY <1>1 DEF TypeOK, Counts, Local, ThreadOK, CountsOK
<1>4. PICK page \in Int : page = local[w].nIndex - 1  BY <1>3
<1>5. CASE page >= 0 /\ HasRoom(index, page, IndexSlots) /\ PutItem(w, index, page)
           /\ Goto(w, "unlock") /\ UNCHANGED indexWriter
  <2>1. page \in Nat /\ page < header.nIndex  BY <1>3, <1>4, <1>5
  <2>2. PICK s \in 0 .. IndexSlots - 1 :
           /\ <<page, s>> \notin DOMAIN index
           /\ DOMAIN index' = DOMAIN index \cup {<<page, s>>}
           /\ index'[<<page, s>>] = [key |-> local[w].key, at |-> local[w].at]
           /\ \A p \in DOMAIN index : index'[p] = index[p]
    BY <1>5, <2>1, PutItemPlace
  <2>3. pc' = [pc EXCEPT ![w] = "unlock"]  BY <1>5 DEF Goto
  <2>4. /\ headerReaders' \subseteq Threads /\ headerReaders \ {w} \subseteq headerReaders'
        /\ indexWriter' \in Threads \cup {Nobody} /\ header' \in Counts
        /\ header' = header /\ pc[w] # "checksum"
    BY <1>1, <1>2, <1>3, <1>5 DEF TypeOK
  <2> QED  BY <1>2, <2>1, <2>2, <2>3, <2>4, ItemPut
<1>6. CASE indexWriter' = w /\ Goto(w, "indexHeader") /\ UNCHANGED index
  <2>1. pc' = [pc EXCEPT ![w] = "indexHeader"]  BY <1>6 DEF Goto
  <2>2. pc'[w] = "indexHeader" /\ \A v \in Threads \ {w} : pc'[v] = pc[v]  BY <1>1, <2>1 DEF TypeOK
  <2>3. TypeOK'
    <3>1. pc' \in [Threads -> PcValues]  BY <1>1, <2>1 DEF TypeOK, PcValues
    <3> QED  BY <1>1, <1>2, <1>6, <3>1 DEF TypeOK
  <2>4. InsertsAlone'  BY <1>1, <1>2, <1>6, <2>2, StaysAlone DEF Inserting
  <2>5. ThreadOK(w)'
    <3>1. RoleOK(w)'
      BY <1>1, <1>2, <1>6, <2>2
      DEF ThreadOK, RoleOK, HasKey, Writes, Inserting, CommitPcs, LinkingPcs
    <3>2. CountsOK(w)'  BY <1>1, <1>2, <1>6, <2>2 DEF ThreadOK, CountsOK, Writes
    <3>3. FindsOK(w)'  BY <1>1, <1>2, <1>6, <2>2 DEF ThreadOK, FindsOK, Writes
    <3>4. RecordOK(w)'
      BY <1>1, <1>2, <1>6, <2>2 DEF ThreadOK, RecordOK, Pending, LinkingPcs
    <3> QED  BY <3>1, <3>2, <3>3, <3>4 DEF ThreadOK
  <2> QED  BY <1>1, <1>2, <1>6, <2>2, <2>3, <2>4, <2>5, Quiet
<1> QED  BY <1>4, <1>5, <1>6 DEF InsertIndex

LEMMA NewerIndexPageStep ==
  ASSUME BucketInv, NEW w \in Threads, NewerIndexPage(w)
  PROVE  BucketInv'
<1>1. TypeOK /\ ThreadOK(w)  BY DEF BucketInv
<1>2. /\ pc[w] = "indexHeader" /\ HasNewer(w) /\ PutItem(w, index, header.nIndex - 1)
      /\ indexWriter' = Nobody /\ pc' = [pc EXCEPT ![w] = "unlock"]
      /\ UNCHANGED <<header, headerReaders>>
      /\ UNCHANGED <<backup, data, headerWriter, dataWriter, commitVars, todo, local>>
  BY DEF NewerIndexPage, At, Goto
<1>3. /\ header.nIndex \in Nat /\ local[w].nIndex \in Nat /\ local[w].nIndex < header.nIndex
      /\ header \in Counts
  BY <1>1, <1>2 DEF TypeOK, Counts, Local, HasNewer
<1>4. PICK page \in Nat : page = header.nIndex - 1  BY <1>3
<1>5. page < header.nIndex /\ HasRoom(index, page, IndexSlots) /\ PutItem(w, index, page)
  BY <1>2, <1>3, <1>4 DEF HasNewer
<1>6. PICK s \in 0 .. IndexSlots - 1 :
         /\ <<page, s>> \notin DOMAIN index
         /\ DOMAIN index' = DOMAIN index \cup {<<page, s>>}
         /\ index'[<<page, s>>] = [key |-> local[w].key, at |-> local[w].at]
         /\ \A p \in DOMAIN index : index'[p] = index[p]
  BY <1>5, PutItemPlace
<1>7. /\ headerReaders' \subseteq Threads /\ headerReaders \ {w} \subseteq headerReaders'
      /\ indexWriter' \in Threads \cup {Nobody} /\ header' \in Counts
      /\ header' = header /\ pc[w] # "checksum"
  BY <1>1, <1>2, <1>3 DEF TypeOK
<1> QED  BY <1>2, <1>5, <1>6, <1>7, ItemPut

LEMMA FillChecksumStep ==
  ASSUME BucketInv, NEW w \in Threads, FillChecksum(w)
  PROVE  BucketInv'
<1>1. TypeOK /\ ThreadOK(w)  BY DEF BucketInv
<1>2. /\ pc[w] = "checksum" /\ PutItem(w, index, header.nIndex - 1)
      /\ header' = [header EXCEPT !.good = TRUE] /\ headerReaders' = headerReaders \ {w}
      /\ indexWriter' = Nobody /\ pc' = [pc EXCEPT ![w] = "unlock"]
      /\ UNCHANGED <<backup, data, headerWriter, dataWriter, commitVars, todo, local>>
  BY DEF FillChecksum, At, Goto
<1>3. /\ header.nIndex \in Nat /\ header.nIndex > 0 /\ header \in Counts
      /\ \A p \in DOMAIN index : p[1] # header.nIndex - 1
  BY <1>1, <1>2 DEF TypeOK, Counts, ThreadOK, CountsOK
<1>4. PICK page \in Nat : page = header.nIndex - 1  BY <1>3
<1>5. page < header.nIndex /\ HasRoom(index, page, IndexSlots) /\ PutItem(w, index, page)
  <2>1. 0 \in 0 .. IndexSlots - 1  BY SlotsAssumption
  <2>2. <<page, 0>> \notin DOMAIN index  BY <1>3, <1>4
  <2> QED  BY <1>2, <1>3, <1>4, <2>1, <2>2 DEF HasRoom, FreeIn
<1>6. PICK s \in 0 .. IndexSlots - 1 :
         /\ <<page, s>> \notin DOMAIN index
         /\ DOMAIN index' = DOMAIN index \cup {<<page, s>>}
         /\ index'[<<page, s>>] = [key |-> local[w].key, at |-> local[w].at]
         /\ \A p \in DOMAIN index : index'[p] = index[p]
  BY <1>5, PutItemPlace
<1>7. /\ headerReaders' \subseteq Threads /\ headerReaders \ {w} \subseteq headerReaders'
      /\ indexWriter' \in Threads \cup {Nobody} /\ header' \in Counts
      /\ header'.good /\ header'.nIndex = header.nIndex /\ header'.nData = header.nData
  BY <1>1, <1>2, <1>3 DEF TypeOK, Counts
<1> QED  BY <1>2, <1>5, <1>6, <1>7, ItemPut

(* A page that the header counts before there is an item in it.              *)
LEMMA GrowIndexStep ==
  ASSUME BucketInv, NEW w \in Threads, GrowIndex(w)
  PROVE  BucketInv'
<1>1. /\ TypeOK /\ FilesOK /\ InsertsAlone
      /\ (\A v \in Threads : ThreadOK(v)) /\ (\A k \in Keys : KeyOK(k))
  BY DEF BucketInv
<1>2. /\ pc[w] = "indexHeader" /\ pc' = [pc EXCEPT ![w] = "checksum"] /\ local' = local
      /\ headerReaders' = headerReaders \cup {w} /\ index' = Zeroed(index, header.nIndex)
      /\ backup' = [good |-> TRUE, nIndex |-> header.nIndex + 1, nData |-> header.nData]
      /\ header' = [header EXCEPT !.nIndex = header.nIndex + 1, !.good = FALSE]
      /\ UNCHANGED <<data, headerWriter, dataWriter, indexWriter, todo>>
      /\ UNCHANGED <<keyLock, committer, clock>>
  BY DEF GrowIndex, At, Goto, commitVars
<1>3. header \in Counts /\ header.nIndex \in Nat /\ header.nData \in Nat
  BY <1>1 DEF TypeOK, Counts
<1>4. PICK n \in Nat : n = header.nIndex + 1  BY <1>3
<1>5. /\ header' \in Counts /\ header'.nIndex = n /\ header'.nData = header.nData
      /\ backup' \in Counts
  BY <1>2, <1>3, <1>4 DEF Counts
<1>6. \A p \in DOMAIN index : p[1] # header.nIndex /\ p[1] < header.nIndex /\ p[1] \in Nat
  <2>1. \A p \in DOMAIN index : p[1] < header.nIndex /\ p[1] \in Nat
    BY <1>1 DEF FilesOK, TypeOK
  <2> QED  BY <1>3, <2>1
<1>7. DOMAIN index' = DOMAIN index /\ \A p \in DOMAIN index : index'[p] = index[p]
  BY <1>2, <1>6 DEF Zeroed
<1>8. (\A k : KeySame(k)) /\ Stays
  <2>1. \A k : KeySame(k)  BY <1>2, <1>7 DEF KeySame
  <2> QED  BY <2>1, SameStays
<1>9. pc'[w] = "checksum" /\ \A v \in Threads \ {w} : pc'[v] = pc[v]  BY <1>1, <1>2 DEF TypeOK
<1>10. TypeOK'
  <2>1. pc' \in [Threads -> PcValues]  BY <1>1, <1>2 DEF TypeOK, PcValues
  <2>2. \A p \in DOMAIN index' : index'[p] \in Item  BY <1>1, <1>7 DEF TypeOK
  <2>3. headerReaders' \subseteq Threads  BY <1>1, <1>2 DEF TypeOK
  <2> QED  BY <1>1, <1>2, <1>5, <1>7, <2>1, <2>2, <2>3 DEF TypeOK
<1>11. InsertsAlone'  BY <1>1, <1>2, <1>9, StaysAlone DEF Inserting
<1>12. FilesOK'
  <2>1. \A p \in DOMAIN index' : p[1] < header'.nIndex  BY <1>3, <1>4, <1>5, <1>6, <1>7
  <2> QED  BY <1>1, <1>2, <1>5, <1>9, <2>1 DEF FilesOK
<1>13. pc[w] \in CommitPcs  BY <1>2 DEF CommitPcs, LinkingPcs
<1>14. \A v \in Threads : ThreadOK(v)'
  <2>1. ASSUME NEW v \in Threads, v # w  PROVE ThreadOK(v)'
    <3>1. ThreadOK(v) /\ pc'[v] = pc[v] /\ local'[v] = local[v]  BY <1>1, <1>2, <1>9, <2>1
    <3>2. local[v].nIndex \in Nat /\ clock \in Nat  BY <1>1 DEF TypeOK, Local
    <3>3. pc[v] # "checksum" /\ committer # v
      BY <1>13, <2>1, OnlyCommitterLinks DEF LinkingPcs
    <3>4. HasKey(v) => keyLock'[local[v].key] = v  BY <1>2, <3>1 DEF ThreadOK, RoleOK
    <3>5. header'.nIndex >= header.nIndex /\ header'.nIndex \in Nat  BY <1>3, <1>4, <1>5
    <3> QED  BY <1>2, <1>3, <1>5, <1>8, <3>1, <3>2, <3>3, <3>4, <3>5, OtherThread
  <2>2. ThreadOK(w)'
    <3>1. RoleOK(w)'
      BY <1>1, <1>2, <1>9
      DEF ThreadOK, RoleOK, HasKey, Writes, Inserting, CommitPcs, LinkingPcs
    <3>2. CountsOK(w)'
      <4>1. local[w].nIndex \in Nat /\ local[w].nIndex <= header.nIndex
        BY <1>1 DEF ThreadOK, CountsOK, TypeOK, Local
      <4>2. local[w].nIndex <= n /\ n > 0 /\ \A p \in DOMAIN index : p[1] # n - 1
        BY <1>3, <1>4, <1>6, <4>1
      <4> QED  BY <1>2, <1>5, <1>7, <1>9, <4>2 DEF CountsOK
    <3>3. FindsOK(w)'  BY <1>1, <1>2, <1>7, <1>9 DEF ThreadOK, FindsOK, Writes
    <3>4. RecordOK(w)'
      BY <1>1, <1>2, <1>9 DEF ThreadOK, RecordOK, Pending, LinkingPcs
    <3> QED  BY <3>1, <3>2, <3>3, <3>4 DEF ThreadOK
  <2> QED  BY <2>1, <2>2
<1>15. \A k \in Keys : KeyOK(k)'
  <2>1. ASSUME NEW k \in Keys  PROVE  KeyOK(k)'
    <3>1. Linking(k)' <=> Linking(k)
      <4>1. \A v \in Threads :
               pc'[v] \in {"link", "linkPage", "linkSlot", "index", "indexHeader", "checksum"}
               <=> pc[v] \in {"link", "linkPage", "linkSlot", "index", "indexHeader", "checksum"}
        BY <1>2, <1>9
      <4> QED  BY <1>2, <4>1 DEF Linking
    <3>2. KeyOK(k) /\ KeySame(k)  BY <1>1, <1>8
    <3> QED  BY <3>1, <3>2, OtherKey
  <2> QED  BY <2>1
<1> QED  BY <1>10, <1>11, <1>12, <1>14, <1>15 DEF BucketInv

--------------------------------------------------------------------------------
(* The invariant. *)

LEMMA InitInv == Init => BucketInv
<1>1. SUFFICES ASSUME Init  PROVE BucketInv
  OBVIOUS
<1>2. /\ header = NoCounts /\ backup = NoCounts /\ index = <<>> /\ data = <<>>
      /\ headerReaders = {} /\ headerWriter = Nobody /\ dataWriter = Nobody /\ indexWriter = Nobody
      /\ keyLock = [k \in Keys |-> Nobody] /\ committer = Nobody /\ clock = 0
      /\ todo \in Plans /\ pc = [w \in Threads |-> "idle"]
  BY <1>1 DEF Init
<1>3. DOMAIN index = {} /\ DOMAIN data = {}  BY <1>2
<1>4. PICK k0 \in Keys : k0 = CHOOSE k \in Keys : TRUE  BY KeysAssumption
<1>5. PICK c : c = [op |-> "read", key |-> k0, nIndex |-> 0, nData |-> 0,
                    item |-> NoPlace, prev |-> NoPlace, at |-> NoPlace]
  OBVIOUS
<1>6. local \in [Threads -> {c}]  BY <1>1, <1>4, <1>5 DEF Init
<1>7. c \in Local /\ c.nIndex = 0  BY <1>5 DEF Local, NoPlace, Places
<1>8. \A w \in Threads : local[w] = c /\ pc[w] = "idle"  BY <1>2, <1>6
<1>9. NoCounts \in Counts /\ NoCounts.nIndex = 0  BY DEF NoCounts, Counts
<1>10. TypeOK
  <2>1. pc \in [Threads -> PcValues]  BY <1>2 DEF PcValues
  <2>2. local \in [Threads -> Local]  BY <1>6, <1>7
  <2>3. todo \in [Threads -> Seq(Operations)]  BY <1>2, PlansAssumption
  <2>4. keyLock \in [Keys -> Threads \cup {Nobody}]  BY <1>2
  <2> QED  BY <1>2, <1>3, <1>9, <2>1, <2>2, <2>3, <2>4 DEF TypeOK
<1>11. FilesOK  BY <1>2, <1>3, <1>8 DEF FilesOK, Fresh
<1>12. InsertsAlone  BY <1>8 DEF InsertsAlone, Inserting
<1>13. ASSUME NEW w \in Threads  PROVE ThreadOK(w)
  <2>1. RoleOK(w)
    BY <1>2, <1>8, NobodyAssumption DEF RoleOK, HasKey, Inserting, CommitPcs, LinkingPcs
  <2>2. CountsOK(w)  BY <1>2, <1>7, <1>8, <1>9 DEF CountsOK
  <2>3. FindsOK(w)  BY <1>8 DEF FindsOK
  <2>4. RecordOK(w)  BY <1>8 DEF RecordOK, Pending, LinkingPcs
  <2> QED  BY <2>1, <2>2, <2>3, <2>4 DEF ThreadOK
<1>14. ASSUME NEW k \in Keys  PROVE KeyOK(k)
  <2>1. Committed(k) = {}  BY <1>3 DEF Committed
  <2> QED  BY <1>3, <2>1 DEF KeyOK
<1> QED  BY <1>10, <1>11, <1>12, <1>13, <1>14 DEF BucketInv

LEMMA StutterInv == BucketInv /\ UNCHANGED vars => BucketInv'
<1>1. SUFFICES ASSUME BucketInv, UNCHANGED vars  PROVE BucketInv'
  OBVIOUS
<1>2. /\ UNCHANGED <<header, backup, index, data, headerReaders, headerWriter>>
      /\ UNCHANGED <<dataWriter, indexWriter, keyLock, committer, clock, todo, pc, local>>
  BY <1>1 DEF vars, pageVars, lockVars, commitVars, threadVars
<1>3. TypeOK'  BY <1>1, <1>2 DEF BucketInv, TypeOK
<1>4. FilesOK' /\ InsertsAlone'
  BY <1>1, <1>2 DEF BucketInv, FilesOK, Fresh, InsertsAlone, Writes
<1>5. (\A k : KeySame(k)) /\ Stays  BY <1>2, Unchanged, SameStays
<1>6. ASSUME NEW v \in Threads  PROVE ThreadOK(v)'
  <2>1. ThreadOK(v) /\ local[v].nIndex \in Nat /\ header.nIndex \in Nat /\ clock \in Nat
    BY <1>1 DEF BucketInv, TypeOK, Counts, Local
  <2>2. HasKey(v) => keyLock'[local[v].key] = v  BY <1>2, <2>1 DEF ThreadOK, RoleOK
  <2>3. pc[v] = "checksum" => v \in headerReaders'  BY <1>2, <2>1 DEF ThreadOK, CountsOK
  <2>4. header'.nIndex >= header.nIndex  BY <1>2, <2>1
  <2> QED  BY <1>2, <1>5, <2>1, <2>2, <2>3, <2>4, OtherThread
<1>7. ASSUME NEW k \in Keys  PROVE KeyOK(k)'
  <2>1. Linking(k)' <=> Linking(k)  BY <1>2 DEF Linking
  <2>2. KeyOK(k) /\ KeySame(k)  BY <1>1, <1>5 DEF BucketInv
  <2> QED  BY <2>1, <2>2, OtherKey
<1> QED  BY <1>3, <1>4, <1>6, <1>7 DEF BucketInv

LEMMA StepInv == BucketInv /\ [NextAlone]_vars => BucketInv'
<1>1. ASSUME BucketInv, NEW w \in Threads, StepAlone(w)  PROVE BucketInv'
  <2>1. CASE StartAlone(w)  BY <1>1, <2>1, StartStep
  <2>2. CASE ParseHeader(w)  BY <1>1, <2>2, ParseHeaderStep
  <2>3. CASE ReadCounts(w)  BY <1>1, <2>3, ReadCountsStep
  <2>4. CASE Repair(w)  BY <1>1, <2>4, RepairStep
  <2>5. CASE FindIndex(w)  BY <1>1, <2>5, FindIndexStep
  <2>17. CASE ReadPage(w) \/ ReadSlot(w)  BY <1>1, <2>17, ReadStep
  <2>6. CASE GetRecord(w)  BY <1>1, <2>6, GetRecordStep
  <2>7. CASE InsertRecord(w)  BY <1>1, <2>7, InsertRecordStep
  <2>8. CASE GrowData(w)  BY <1>1, <2>8, GrowDataStep
  <2>9. CASE CommitLock(w)  BY <1>1, <2>9, CommitLockStep
  <2>10. CASE StampRecord(w)  BY <1>1, <2>10, StampRecordStep
  <2>11. CASE LinkPage(w) \/ LinkSlot(w)  BY <1>1, <2>11, LinkStep
  <2>12. CASE InsertIndex(w)  BY <1>1, <2>12, InsertIndexStep
  <2>13. CASE NewerIndexPage(w)  BY <1>1, <2>13, NewerIndexPageStep
  <2>14. CASE GrowIndex(w)  BY <1>1, <2>14, GrowIndexStep
  <2>15. CASE FillChecksum(w)  BY <1>1, <2>15, FillChecksumStep
  <2>16. CASE UnlockKey(w) \/ CommitUnlock(w) \/ Abort(w)  BY <1>1, <2>16, ReleaseStep
  <2> QED
    BY <1>1, <2>1, <2>2, <2>3, <2>4, <2>5, <2>6, <2>7, <2>8, <2>9, <2>10, <2>11,
       <2>12, <2>13, <2>14, <2>15, <2>16, <2>17 DEF StepAlone, Work
<1>2. BucketInv /\ Finished => BucketInv'  BY StutterInv DEF Finished
<1> QED  BY <1>1, <1>2, StutterInv DEF NextAlone

(* The parts of the invariant hold in every reachable state: locks and        *)
(* commit_mutex, page counts, what find_index found, records, chains.        *)
THEOREM BucketInvHolds == FairSpecAlone => []BucketInv
<1>1. FairSpecAlone => Init /\ [][NextAlone]_vars  BY PTL DEF FairSpecAlone
<1>2. Init /\ [][NextAlone]_vars => []BucketInv  BY InitInv, StepInv, PTL
<1> QED  BY <1>1, <1>2

(* Every reachable state has the variables' types.                           *)
THEOREM TypeHolds == FairSpecAlone => []TypeOK
<1>1. BucketInv => TypeOK  BY DEF BucketInv
<1> QED  BY <1>1, BucketInvHolds, PTL

(* The chain of every key is whole, whatever commits, aborts and reads come   *)
(* between the steps of the thread that inserts a record (insert_record,     *)
(* update_record, update_index, insert_index).                               *)
THEOREM ChainWholeHolds == FairSpecAlone => []ChainWhole
<1>1. BucketInv => ChainWhole
  <2>1. SUFFICES ASSUME BucketInv  PROVE ChainWhole
    OBVIOUS
  <2>2. TypeOK /\ FilesOK /\ (\A w \in Threads : ThreadOK(w)) /\ (\A k \in Keys : KeyOK(k))
    BY <2>1 DEF BucketInv
  <2>3. PICK t \in Nat : t = clock + 1  BY <2>2 DEF TypeOK
  <2>4. \A k : \A q \in Committed(k) : data[q].ts < t
    <3>1. \A q \in DOMAIN data : data[q].ts \in Nat /\ data[q].ts <= clock /\ clock \in Nat
      BY <2>2 DEF TypeOK, Record, FilesOK
    <3> QED  BY <2>3, <3>1 DEF Committed
  <2>5. \A k, v : Newest(v, k) => IsPrevious(v, k, t)
    BY <2>4 DEF Newest, IsPrevious
  <2>6. ASSUME NEW p \in DOMAIN index
        PROVE  Linking(index[p].key) \/ IsPrevious(index[p].at, index[p].key, t)
    <3>1. PICK k \in Keys : k = index[p].key  BY <2>2 DEF TypeOK, Item
    <3>2. KeyOK(k)  BY <2>2
    <3>3. Linking(k) \/ Newest(index[p].at, k)  BY <3>1, <3>2 DEF KeyOK
    <3> QED  BY <2>5, <3>1, <3>3
  <2>7. \A k \in Keys : \A p \in Committed(k) : IsPrevious(data[p].prev, k, data[p].ts)
    BY <2>2 DEF KeyOK
  <2>8. ASSUME NEW w \in Threads, Pending(w)
        PROVE  /\ local[w].at \in DOMAIN data /\ data[local[w].at] = NewRecord(w)
               /\ IsPrevious(local[w].prev, local[w].key, t)
    <3>1. ThreadOK(w) /\ Writes(w) /\ pc[w] \in {"inserted", "stamp"}
      BY <2>2, <2>8 DEF ThreadOK, RoleOK, Pending, CommitPcs
    <3>2. Newest(local[w].prev, local[w].key)  BY <3>1 DEF ThreadOK, RecordOK
    <3> QED  BY <2>5, <2>8, <3>1, <3>2 DEF ThreadOK, RecordOK
  <2> QED  BY <2>3, <2>6, <2>7, <2>8 DEF ChainWhole
<1> QED  BY <1>1, BucketInvHolds, PTL

(* Every committed key has one index item, in a page that the header counts   *)
(* (parse_header, find_index, insert_index).                                 *)
THEOREM IndexFindsHolds == FairSpecAlone => []IndexFinds
<1>1. BucketInv => IndexFinds
  <2>1. SUFFICES ASSUME BucketInv  PROVE IndexFinds
    OBVIOUS
  <2>2. TypeOK /\ FilesOK /\ (\A k \in Keys : KeyOK(k))  BY <2>1 DEF BucketInv
  <2>3. \A p \in DOMAIN index : index[p].key \in Keys  BY <2>2 DEF TypeOK, Item
  <2>4. \A p, q \in DOMAIN index : index[p].key = index[q].key => p = q
    BY <2>2, <2>3 DEF KeyOK
  <2>5. \A k \in Keys : Committed(k) # {} /\ ~Linking(k) =>
           \E p \in DOMAIN index : index[p].key = k
    BY <2>2 DEF KeyOK
  <2> QED  BY <2>2, <2>4, <2>5 DEF FilesOK, IndexFinds
<1> QED  BY <1>1, BucketInvHolds, PTL

(* What find_index returns to a thread with the key lock is a committed        *)
(* version of the key, to a reader one half of each of two (update_index).   *)
THEOREM FindsVersionHolds == FairSpecAlone => []FindsVersion
<1>1. BucketInv => FindsVersion
  <2>1. SUFFICES ASSUME BucketInv, NEW w \in Threads, pc[w] = "found"
                 PROVE  local[w].prev \in
                           (IF local[w].op = "read" THEN Halves(local[w].key)
                                                    ELSE Committed(local[w].key))
    BY DEF FindsVersion, At
  <2>2. ThreadOK(w)  BY <2>1 DEF BucketInv
  <2>3. local[w].prev \in Halves(local[w].key)  BY <2>1, <2>2 DEF ThreadOK, RecordOK, CopyOK
  <2>4. Committed(local[w].key) # {}  BY <2>3 DEF Halves
  <2>5. Writes(w) => Newest(local[w].prev, local[w].key)  BY <2>1, <2>2 DEF ThreadOK, RecordOK
  <2> QED  BY <2>3, <2>4, <2>5 DEF Newest, Writes
<1> QED  BY <1>1, BucketInvHolds, PTL

===============================================================================
