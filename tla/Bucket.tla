-------------------------------- MODULE Bucket --------------------------------
(***************************************************************************)
(* The files of one hash: a header page that counts the pages, its backup,  *)
(* index pages with an item per key, data pages with a record per version.  *)
(* Threads read, set and insert keys of the bucket at the same time, each   *)
(* as the command and the commit of one transaction (Executor).             *)
(*                                                                         *)
(* A page is the places in it that its bitmap has taken.  Key locks and     *)
(* commit_mutex are here as far as they order the threads, read timestamps   *)
(* and values are not: a set may give up whenever it could find its version *)
(* too new, and any attempt may be aborted before it commits.               *)
(***************************************************************************)
EXTENDS Integers, FiniteSets, Sequences

CONSTANTS
    Threads, Keys,
    DataSlots,      \* N_DATA_RECORDS_PER_PAGE
    IndexSlots,     \* N_INDEX_ITEMS_PER_PAGE
    Plans,          \* bound: the operations of each thread, one after another
    Nobody          \* no thread

Operations == [op : {"read", "set", "insert"}, key : Keys]

ASSUME SlotsAssumption == DataSlots \in Nat \ {0} /\ IndexSlots \in Nat \ {0}
ASSUME PlansAssumption == Plans \subseteq [Threads -> Seq(Operations)]
ASSUME NobodyAssumption == Nobody \notin Threads
ASSUME KeysAssumption == Keys # {}

VARIABLES
    header,         \* the header page: its checksum is good, page counts
    backup,         \* the backup of it
    index,          \* the index items, by place
    data,           \* the data records, by place
    headerReaders,  \* who has the header read lock,
    headerWriter,   \* ... and the write lock
    dataWriter,     \* who has the data_slot write lock
    indexWriter,    \* who has the index_slot write lock
    keyLock,        \* who has the write lock of a key
    committer,      \* who has commit_mutex
    clock,          \* the last timestamp given to a commit
    todo,           \* what a thread has still to do
    pc,             \* where it stands
    local           \* the variables of its operation

pageVars == <<header, backup, index, data>>
lockVars == <<headerReaders, headerWriter, dataWriter, indexWriter>>
commitVars == <<keyLock, committer, clock>>
threadVars == <<todo, pc, local>>
vars == <<pageVars, lockVars, commitVars, threadVars>>

--------------------------------------------------------------------------------
Places == Nat \X Nat            \* page_ID, slot_ID
NoPlace == <<0, 0>>             \* prev_page_ID, prev_slot_ID of a first version
Uncommitted == 0                \* stands for UINT_MAX, the timestamp of no commit

Counts == [good : BOOLEAN, nIndex : Nat, nData : Nat]
Record == [key : Keys, ts : Nat, prev : Places]
Item == [key : Keys, at : Places]

NoCounts == [good |-> FALSE, nIndex |-> 0, nData |-> 0]

PcValues ==
    {"idle", "parse", "counts", "repair", "find", "read", "readPage", "readSlot",
     "found", "record", "grow", "inserted", "stamp", "link", "linkPage", "linkSlot",
     "index", "indexHeader", "checksum", "unlock", "commitUnlock", "leave"}

Local ==
    [op : {"read", "set", "insert"}, key : Keys, nIndex : Nat, nData : Nat,
     item : Places, prev : Places, at : Places]

(* Empty files, in which no checksum is good.                               *)
Init ==
    /\ header = NoCounts /\ backup = NoCounts
    /\ index = <<>> /\ data = <<>>
    /\ headerReaders = {} /\ headerWriter = Nobody
    /\ dataWriter = Nobody /\ indexWriter = Nobody
    /\ keyLock = [k \in Keys |-> Nobody]
    /\ committer = Nobody /\ clock = 0
    /\ todo \in Plans
    /\ pc = [w \in Threads |-> "idle"]
    /\ local \in [Threads -> {[op |-> "read", key |-> k, nIndex |-> 0, nData |-> 0,
                    item |-> NoPlace, prev |-> NoPlace, at |-> NoPlace] :
                        k \in {CHOOSE k \in Keys : TRUE}}]

--------------------------------------------------------------------------------
(* Pages and their places. *)

Put(pages, place, x) ==
    [p \in DOMAIN pages \cup {place} |-> IF p = place THEN x ELSE pages[p]]

(* memset of a page.                                                        *)
Zeroed(pages, page) == [p \in {q \in DOMAIN pages : q[1] # page} |-> pages[p]]

FreeIn(pages, page, slots) ==
    {s \in 0 .. slots - 1 : <<page, s>> \notin DOMAIN pages}

HasRoom(pages, page, slots) == FreeIn(pages, page, slots) # {}

(* Slip: slots are searched from 1.                                         *)
FirstFreeFromOne(pages, page, slots) ==
    LET free == {s \in 1 .. slots : <<page, s>> \notin DOMAIN pages}
    IN <<page, CHOOSE s \in free : \A u \in free : s <= u>>

(* The place that try_insert_*_to_page takes.                               *)
FirstFree(pages, page, slots) ==
    LET free == FreeIn(pages, page, slots)
    IN <<page, CHOOSE s \in free : \A u \in free : s <= u>>

(* The item of the key in the pages that the thread has counted.            *)
Hits(w) ==
    {p \in DOMAIN index : p[1] < local[w].nIndex /\ index[p].key = local[w].key}

--------------------------------------------------------------------------------
At(w, l) == pc[w] = l
Goto(w, l) == pc' = [pc EXCEPT ![w] = l]
HeaderFree == headerWriter = Nobody /\ headerReaders = {}

(* find_index has the index_slot read lock until it has read the pointer.    *)
IndexFree ==
    /\ indexWriter = Nobody
    /\ \A w \in Threads : pc[w] \notin {"read", "readPage", "readSlot"}

(* The operations of a thread come one after another; write_key and         *)
(* insert_key take the key lock first.                                     *)
Start(w) ==
    /\ At(w, "idle") /\ todo[w] # <<>>
    /\ LET c == Head(todo[w])
       IN /\ \/ c.op = "read" /\ UNCHANGED keyLock
             \/ /\ c.op # "read" /\ keyLock[c.key] = Nobody
                /\ keyLock' = [keyLock EXCEPT ![c.key] = w]
          /\ local' = [local EXCEPT ![w].op = c.op, ![w].key = c.key]
    /\ todo' = [todo EXCEPT ![w] = Tail(@)]
    /\ Goto(w, "parse")
    /\ UNCHANGED <<pageVars, lockVars, committer, clock>>

(* parse_header: the check of the checksum under the read lock ...          *)
ParseHeader(w) ==
    /\ At(w, "parse") /\ headerWriter = Nobody
    /\ \/ header.good /\ headerReaders' = headerReaders \cup {w} /\ Goto(w, "counts")
       \/ ~header.good /\ UNCHANGED headerReaders /\ Goto(w, "repair")
    /\ UNCHANGED <<pageVars, headerWriter, dataWriter, indexWriter, commitVars,
                   todo, local>>

(* ... then the page counts, which insert_index may have changed meanwhile; *)
ReadCounts(w) ==
    /\ At(w, "counts")
    /\ local' = [local EXCEPT ![w].nIndex = header.nIndex, ![w].nData = header.nData]
    /\ headerReaders' = headerReaders \ {w}
    /\ Goto(w, "find")
    /\ UNCHANGED <<pageVars, headerWriter, dataWriter, indexWriter, commitVars, todo>>

(* or, if it was not good, another check under the write lock, and the      *)
(* header restored from the backup, or both made anew.                      *)
Repair(w) ==
    /\ At(w, "repair") /\ HeaderFree
    /\ header' = IF header.good THEN header
                 ELSE IF backup.good THEN backup
                 ELSE [NoCounts EXCEPT !.good = TRUE]
    /\ backup' = IF header.good \/ backup.good THEN backup ELSE header'
    /\ local' = [local EXCEPT ![w].nIndex = header'.nIndex, ![w].nData = header'.nData]
    /\ Goto(w, "find")
    /\ UNCHANGED <<index, data, lockVars, commitVars, todo>>

(* find_index: the search and the reading of the pointer are under the      *)
(* index_slot read lock.                                                    *)
FindIndex(w) ==
    /\ At(w, "find")
    /\ local[w].nIndex = 0 \/ indexWriter = Nobody
    /\ \/ \E p \in Hits(w) :
            /\ \A q \in Hits(w) : p[1] < q[1] \/ (p[1] = q[1] /\ p[2] <= q[2])
            /\ local' = [local EXCEPT ![w].item = p]
            /\ Goto(w, "read")
       \/ /\ Hits(w) = {} /\ local[w].op = "insert"
          /\ local' = [local EXCEPT ![w].prev = NoPlace]
          /\ Goto(w, "record")
       \/ /\ Hits(w) = {} /\ local[w].op # "insert"
          /\ Goto(w, IF local[w].op = "read" THEN "idle" ELSE "leave")
          /\ UNCHANGED local
    /\ UNCHANGED <<pageVars, lockVars, commitVars, todo>>

(* It copies the page and the slot of the pointer one after the other, in    *)
(* the order the compiler chooses; update_index does not wait for it.       *)
ReadPage(w) ==
    /\ pc[w] \in {"read", "readPage"}
    /\ local' = [local EXCEPT ![w].prev[1] = index[local[w].item].at[1]]
    /\ Goto(w, IF At(w, "read") THEN "readSlot" ELSE "found")
    /\ UNCHANGED <<pageVars, lockVars, commitVars, todo>>

ReadSlot(w) ==
    /\ pc[w] \in {"read", "readSlot"}
    /\ local' = [local EXCEPT ![w].prev[2] = index[local[w].item].at[2]]
    /\ Goto(w, IF At(w, "read") THEN "readPage" ELSE "found")
    /\ UNCHANGED <<pageVars, lockVars, commitVars, todo>>

(* get_record, and what becomes of it: the value read; ERROR_INSERT_EXIST;  *)
(* a version to write on top of, or ERROR_RETRY_WRITE.                      *)
GetRecord(w) ==
    /\ At(w, "found")
    /\ \/ local[w].op = "read" /\ Goto(w, "idle")
       \/ local[w].op \in {"insert", "set"} /\ Goto(w, "leave")
       \/ local[w].op = "set" /\ Goto(w, "record")
    /\ UNCHANGED <<pageVars, lockVars, commitVars, todo, local>>

--------------------------------------------------------------------------------
(* insert_record *)

NewRecord(w) == [key |-> local[w].key, ts |-> Uncommitted, prev |-> local[w].prev]

PutRecord(w, pages, page) ==
    LET place == FirstFree(pages, page, DataSlots)
    IN /\ data' = Put(pages, place, NewRecord(w))
       /\ local' = [local EXCEPT ![w].at = place]
       /\ Goto(w, "inserted")

(* The last page the thread knows of, under the data_slot lock.             *)
InsertRecord(w) ==
    /\ At(w, "record") /\ dataWriter = Nobody
    /\ LET page == local[w].nData - 1
       IN \/ /\ page >= 0 /\ HasRoom(data, page, DataSlots)
             /\ PutRecord(w, data, page)
             /\ UNCHANGED dataWriter
          \/ /\ ~(page >= 0 /\ HasRoom(data, page, DataSlots))
             /\ dataWriter' = w
             /\ Goto(w, "grow")
             /\ UNCHANGED <<data, local>>
    /\ UNCHANGED <<header, backup, index, headerReaders, headerWriter, indexWriter,
                   commitVars, todo>>

(* More pages than it knows of: it tries the page after the last one        *)
(* (executor.cpp:319).                                                      *)
TriesNewer(w) ==
    header.nData > local[w].nData /\ HasRoom(data, header.nData, DataSlots)

NewerPage(w) ==
    /\ At(w, "grow") /\ HeaderFree
    /\ TriesNewer(w)
    /\ PutRecord(w, data, header.nData)
    /\ dataWriter' = Nobody
    /\ UNCHANGED <<header, backup, index, headerReaders, headerWriter, indexWriter,
                   commitVars, todo>>

(* Slip: the new page is not counted in the header.                         *)
GrowDataUncounted(w) ==
    /\ At(w, "grow") /\ HeaderFree
    /\ ~TriesNewer(w)
    /\ PutRecord(w, Zeroed(data, header.nData), header.nData)
    /\ dataWriter' = Nobody
    /\ UNCHANGED <<header, backup, index, headerReaders, headerWriter, indexWriter,
                   commitVars, todo>>

(* A new page: cleared, used, and counted in the backup and in the header.  *)
(* The header write lock is held throughout, so nobody sees the steps.      *)
GrowData(w) ==
    /\ At(w, "grow") /\ HeaderFree
    /\ ~TriesNewer(w)
    /\ PutRecord(w, Zeroed(data, header.nData), header.nData)
    /\ header' = [header EXCEPT !.good = TRUE, !.nData = @ + 1]
    /\ backup' = header'
    /\ dataWriter' = Nobody
    /\ UNCHANGED <<index, headerReaders, headerWriter, indexWriter, commitVars, todo>>

--------------------------------------------------------------------------------
(* commit *)

(* commit_lock_and_get_timestamp.                                           *)
CommitLock(w) ==
    /\ At(w, "inserted") /\ committer = Nobody
    /\ committer' = w
    /\ clock' = clock + 1
    /\ Goto(w, "stamp")
    /\ UNCHANGED <<pageVars, lockVars, keyLock, todo, local>>

(* update_record.  On a page that was cleared the timestamp goes into a     *)
(* place that stays free.                                                   *)
StampRecord(w) ==
    /\ At(w, "stamp")
    /\ LET at == local[w].at
       IN data' = IF at \in DOMAIN data THEN [data EXCEPT ![at].ts = clock] ELSE data
    /\ Goto(w, IF local[w].op = "insert" THEN "index" ELSE "link")
    /\ UNCHANGED <<header, backup, index, lockVars, commitVars, todo, local>>

(* Slip: only the slot of the pointer is written.                           *)
LinkSlotOnly(w) ==
    /\ pc[w] \in {"link", "linkSlot"}
    /\ index' = [index EXCEPT ![local[w].item].at[2] = local[w].at[2]]
    /\ Goto(w, "unlock")
    /\ UNCHANGED <<header, backup, data, lockVars, commitVars, todo, local>>

(* update_index writes the slot and the page of the pointer under no lock   *)
(* that find_index takes, in the order the compiler chooses.               *)
LinkSlot(w) ==
    /\ pc[w] \in {"link", "linkSlot"}
    /\ index' = [index EXCEPT ![local[w].item].at[2] = local[w].at[2]]
    /\ Goto(w, IF At(w, "link") THEN "linkPage" ELSE "unlock")
    /\ UNCHANGED <<header, backup, data, lockVars, commitVars, todo, local>>

LinkPage(w) ==
    /\ pc[w] \in {"link", "linkPage"}
    /\ index' = [index EXCEPT ![local[w].item].at[1] = local[w].at[1]]
    /\ Goto(w, IF At(w, "link") THEN "linkSlot" ELSE "unlock")
    /\ UNCHANGED <<header, backup, data, lockVars, commitVars, todo, local>>

PutItem(w, pages, page) ==
    index' = Put(pages, FirstFree(pages, page, IndexSlots),
                 [key |-> local[w].key, at |-> local[w].at])

(* insert_index: the last index page the thread knows of, under the         *)
(* index_slot lock;                                                        *)
InsertIndex(w) ==
    /\ At(w, "index") /\ IndexFree
    /\ LET page == local[w].nIndex - 1
       IN \/ /\ page >= 0 /\ HasRoom(index, page, IndexSlots)
             /\ PutItem(w, index, page)
             /\ Goto(w, "unlock")
             /\ UNCHANGED indexWriter
          \/ /\ ~(page >= 0 /\ HasRoom(index, page, IndexSlots))
             /\ indexWriter' = w
             /\ Goto(w, "indexHeader")
             /\ UNCHANGED index
    /\ UNCHANGED <<header, backup, data, headerReaders, headerWriter, dataWriter,
                   commitVars, todo, local>>

(* else, under the header read lock too, the last page there is,            *)
HasNewer(w) ==
    /\ header.nIndex > local[w].nIndex
    /\ HasRoom(index, header.nIndex - 1, IndexSlots)

(* Slip: as in insert_record, the page after the last one.                  *)
NewerIndexPageNext(w) ==
    /\ At(w, "indexHeader") /\ headerWriter = Nobody
    /\ HasNewer(w)
    /\ PutItem(w, index, header.nIndex)
    /\ indexWriter' = Nobody
    /\ Goto(w, "unlock")
    /\ UNCHANGED <<header, backup, data, headerReaders, headerWriter, dataWriter,
                   commitVars, todo, local>>

(* Slip: the early return forgets the read lock of the header.              *)
NewerIndexPageLocked(w) ==
    /\ At(w, "indexHeader") /\ headerWriter = Nobody
    /\ HasNewer(w)
    /\ PutItem(w, index, header.nIndex - 1)
    /\ headerReaders' = headerReaders \cup {w}
    /\ indexWriter' = Nobody
    /\ Goto(w, "unlock")
    /\ UNCHANGED <<header, backup, data, headerWriter, dataWriter, commitVars, todo, local>>

NewerIndexPage(w) ==
    /\ At(w, "indexHeader") /\ headerWriter = Nobody
    /\ HasNewer(w)
    /\ PutItem(w, index, header.nIndex - 1)
    /\ indexWriter' = Nobody
    /\ Goto(w, "unlock")
    /\ UNCHANGED <<header, backup, data, headerReaders, headerWriter, dataWriter,
                   commitVars, todo, local>>

(* or a new page, which the header counts before its checksum is right.     *)
GrowIndex(w) ==
    /\ At(w, "indexHeader") /\ headerWriter = Nobody
    /\ ~HasNewer(w)
    /\ headerReaders' = headerReaders \cup {w}
    /\ index' = Zeroed(index, header.nIndex)
    /\ backup' = [good |-> TRUE, nIndex |-> header.nIndex + 1, nData |-> header.nData]
    /\ header' = [header EXCEPT !.nIndex = @ + 1, !.good = FALSE]
    /\ Goto(w, "checksum")
    /\ UNCHANGED <<data, headerWriter, dataWriter, indexWriter, commitVars, todo, local>>

FillChecksum(w) ==
    /\ At(w, "checksum")
    /\ header' = [header EXCEPT !.good = TRUE]
    /\ PutItem(w, index, header.nIndex - 1)
    /\ headerReaders' = headerReaders \ {w}
    /\ indexWriter' = Nobody
    /\ Goto(w, "unlock")
    /\ UNCHANGED <<backup, data, headerWriter, dataWriter, commitVars, todo, local>>

Release(w) == keyLock' = [keyLock EXCEPT ![local[w].key] = Nobody]

UnlockKey(w) ==
    /\ At(w, "unlock")
    /\ Release(w)
    /\ Goto(w, "commitUnlock")
    /\ UNCHANGED <<pageVars, lockVars, committer, clock, todo, local>>

CommitUnlock(w) ==
    /\ At(w, "commitUnlock")
    /\ committer' = Nobody
    /\ Goto(w, "idle")
    /\ UNCHANGED <<pageVars, lockVars, keyLock, clock, todo, local>>

(* abort: nothing is undone, the place of the record stays taken.           *)
Abort(w) ==
    /\ pc[w] \in {"inserted", "leave"}
    /\ Release(w)
    /\ Goto(w, "idle")
    /\ UNCHANGED <<pageVars, lockVars, committer, clock, todo, local>>

--------------------------------------------------------------------------------
Inserting ==
    {"parse", "counts", "repair", "find", "read", "readPage", "readSlot", "found",
     "record", "grow"}

(* The steps of a thread but for its start and for NewerPage.               *)
Work(w) ==
    \/ ParseHeader(w) \/ ReadCounts(w) \/ Repair(w) \/ FindIndex(w)
    \/ ReadPage(w) \/ ReadSlot(w) \/ GetRecord(w)
    \/ InsertRecord(w) \/ GrowData(w)
    \/ CommitLock(w) \/ StampRecord(w) \/ LinkSlot(w) \/ LinkPage(w)
    \/ InsertIndex(w) \/ NewerIndexPage(w) \/ GrowIndex(w) \/ FillChecksum(w)
    \/ UnlockKey(w) \/ CommitUnlock(w) \/ Abort(w)

Step(w) == Start(w) \/ Work(w) \/ NewerPage(w)

Finished ==
    /\ \A w \in Threads : At(w, "idle") /\ todo[w] = <<>>
    /\ UNCHANGED vars

Next == (\E w \in Threads : Step(w)) \/ Finished

Spec == Init /\ [][Next]_vars

(* Threads that do not insert records into the bucket at the same time:     *)
(* one reads the header when no other has read it and not yet inserted.      *)
(* Commits, aborts and reads go on meanwhile, and NewerPage is never needed. *)
StartAlone(w) ==
    /\ \/ todo[w] # <<>> /\ Head(todo[w]).op = "read"
       \/ \A v \in Threads \ {w} : local[v].op = "read" \/ pc[v] \notin Inserting
    /\ Start(w)

StepAlone(w) == StartAlone(w) \/ Work(w)

NextAlone == (\E w \in Threads : StepAlone(w)) \/ Finished

(* Every thread is scheduled.                                               *)
FairSpecAlone ==
    /\ Init /\ [][NextAlone]_vars
    /\ \A w \in Threads : WF_vars(StepAlone(w))

--------------------------------------------------------------------------------
TypeOK ==
    /\ header \in Counts /\ backup \in Counts
    /\ DOMAIN index \subseteq Nat \X (0 .. IndexSlots - 1)
    /\ DOMAIN data \subseteq Nat \X (0 .. DataSlots - 1)
    /\ \A p \in DOMAIN index : index[p] \in Item
    /\ \A p \in DOMAIN data : data[p] \in Record
    /\ headerReaders \subseteq Threads
    /\ {headerWriter, dataWriter, indexWriter, committer} \subseteq Threads \cup {Nobody}
    /\ keyLock \in [Keys -> Threads \cup {Nobody}]
    /\ clock \in Nat
    /\ todo \in [Threads -> Seq(Operations)]
    /\ pc \in [Threads -> PcValues]
    /\ local \in [Threads -> Local]

(* The committed versions of a key; who is about to commit one; who has one  *)
(* that is not committed; who is between its timestamp and its index item.   *)
Committed(k) == {p \in DOMAIN data : data[p].key = k /\ data[p].ts # Uncommitted}
Linking(k) ==
    \E w \in Threads :
        /\ local[w].key = k
        /\ pc[w] \in {"link", "linkPage", "linkSlot", "index", "indexHeader", "checksum"}
Pending(w) == pc[w] \in {"inserted", "stamp"}

(* v is the version of k before a version with timestamp ts.                *)
IsPrevious(v, k, ts) ==
    IF \E q \in Committed(k) : data[q].ts < ts
    THEN /\ v \in Committed(k) /\ data[v].ts < ts
         /\ \A q \in Committed(k) : data[q].ts < ts => data[q].ts <= data[v].ts
    ELSE v = NoPlace

(***************************************************************************)
(* The chain of every key is whole: its index item points at the newest     *)
(* committed version, each version at the one before it, down to the first, *)
(* and a version that waits for its commit is in its place and will follow  *)
(* the newest.  A record put in a place that is cleared or reused, a stale  *)
(* count of pages, a commit that links the wrong version would break it.    *)
(***************************************************************************)
ChainWhole ==
    /\ \A p \in DOMAIN index :
         Linking(index[p].key) \/ IsPrevious(index[p].at, index[p].key, clock + 1)
    /\ \A k \in Keys : \A p \in Committed(k) : IsPrevious(data[p].prev, k, data[p].ts)
    /\ \A w \in Threads : Pending(w) =>
         /\ local[w].at \in DOMAIN data
         /\ data[local[w].at] = NewRecord(w)
         /\ IsPrevious(local[w].prev, local[w].key, clock + 1)

(***************************************************************************)
(* The index finds every committed key, in a page that the header counts,   *)
(* and has one item for it: a thread that inserts a key has seen the pages  *)
(* of all who had the key before, however many commits come between its     *)
(* reading of the header and its own item.                                  *)
(***************************************************************************)
IndexFinds ==
    /\ \A p, q \in DOMAIN index : index[p].key = index[q].key => p = q
    /\ \A p \in DOMAIN index : p[1] < header.nIndex
    /\ \A k \in Keys : Committed(k) # {} /\ ~Linking(k) =>
         \E p \in DOMAIN index : index[p].key = k

(***************************************************************************)
(* Every operation ends: slot locks, header lock and commit_mutex are never *)
(* kept, and their holders do not wait in a circle.                         *)
(***************************************************************************)
OperationsEnd == <>[](\A w \in Threads : pc[w] = "idle" /\ todo[w] = <<>>)

(***************************************************************************)
(* What find_index returns.  To a thread that has the lock of the key: a      *)
(* committed version of it, whatever commits of other keys do to the pages   *)
(* meanwhile.  To a reader: the page of one and the slot of one, but not     *)
(* always of the same one, for commits of the key go on while it copies the  *)
(* pointer, and update_index writes it half by half (executor.cpp:387).      *)
(* Such a place may have a record of another key.                           *)
(***************************************************************************)
Halves(k) == {<<u[1], v[2]>> : u, v \in Committed(k)}

FindsVersion ==
    \A w \in Threads : At(w, "found") =>
        local[w].prev \in
            (IF local[w].op = "read" THEN Halves(local[w].key) ELSE Committed(local[w].key))

===============================================================================
