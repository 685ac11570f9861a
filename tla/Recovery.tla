-------------------------------- MODULE Recovery --------------------------------
(***************************************************************************)
(* Crashes and LogManager::recover(): what transactions log and write, what *)
(* of it is in the files when the process stops, and what the next start    *)
(* makes of it.                                                             *)
(*                                                                         *)
(* The log is a DurableLog, which LogStore implements; data and index pages *)
(* reach their files by eviction, which flushes the log first (LogBeforeData*)
(* of PagePool), or by a checkpoint.  Their writes may be torn: they have no *)
(* checksum.  A worker runs transactions that write keys: one action is one *)
(* log item with the change of the page it tells of, or one page write.     *)
(*                                                                         *)
(* Abstracted: values, reads and read timestamps (Transactions), index pages *)
(* after the first and threads that insert records into one bucket at the   *)
(* same time (Bucket), the pages of the log (LogStore), the old values of    *)
(* log items (nothing comes to use them).                                   *)
(***************************************************************************)
EXTENDS Integers, FiniteSets, Sequences

CONSTANTS
    Workers, Keys, Hashes,
    Hashings,       \* the functions from keys to hashes considered
    Slots,          \* N_DATA_RECORDS_PER_PAGE
    MaxFds,         \* DATA_POOL_MAX_FD: files that the data pool has open
    MaxPages,       \* bound: data pages of a hash
    MaxRecords,     \* bound: records in the log
    MaxTx,          \* bound: max_allocated_transaction_ID
    MaxCheckpoints, \* bound: checkpoints in the log
    MaxCrashes,     \* bound: crashes
    Bad,            \* a header page that fails its checksum
    NoKey           \* the key of an index item never filled

VARIABLES
    hashOf,         \* the hash of each key
    \* files
    header, backup, \* page counts of a hash, or Bad
    disk,           \* data and index pages
    log, durable,   \* the log, and how much of it is in its file
    \* LogManager and LockManager
    pc,             \* where main() stands
    nextLogId,      \* next_log_ID
    maxTx,          \* max_transaction_ID, then max_allocated_transaction_ID
    maxTs,          \* max_timestamp, then max_allocated_timestamp
    \* the data pool, or the file for a page that is not in it
    mem,
    \* workers and checkpoints
    wpc,            \* where a worker stands
    tx,             \* dynamic_transaction_ID
    items,          \* write_items
    n,              \* the write item that commit() is at, or 0
    cpc,            \* where the checkpoint manager stands
    \* history
    acked,          \* the commits there were when one last returned or the process stopped
    crashes         \* crashes so far

fileVars == <<header, backup, disk>>
logVars == <<log, durable, nextLogId>>
counters == <<maxTx, maxTs>>
workerVars == <<wpc, tx, items, n>>
history == <<acked, crashes>>
vars == <<hashOf, fileVars, logVars, pc, counters, mem, workerVars, cpc, history>>

-------------------------------------------------------------------------------
(* Pages: bitmap byte at offset 0, records or index items at the others.    *)

DataPage(h, i) == <<h, "data", i>>
IndexPage(h) == <<h, "index", 0>>
DataPages == {DataPage(h, i) : h \in Hashes, i \in 0 .. MaxPages - 1}
Pages == DataPages \cup {IndexPage(h) : h \in Hashes}
FileOf(p) == <<p[1], p[2]>>
Bitmap == 0

NoPlace == <<0, 0>>   \* prev of a first version; slots are counted from 1 here
Uncommitted == 0      \* stands for UINT_MAX

Offsets(p) == IF p \in DataPages THEN 0 .. Slots ELSE 0 .. Cardinality(Keys)

Zero(p) ==
    [o \in Offsets(p) |->
        IF o = Bitmap THEN {}
        ELSE IF p \in DataPages THEN [tx |-> 0, ts |-> Uncommitted, prev |-> NoPlace]
        ELSE [key |-> NoKey, last |-> NoPlace]]

Counts == [index : 0 .. 1, data : 0 .. MaxPages]
NoPages == [index |-> 0, data |-> 0]

WriteItem == [key : Keys, page : 0 .. MaxPages - 1, slot : 1 .. Slots, first : BOOLEAN]

LogTypes ==
    {"DATA_SLOT_LOG", "DATA_RECORD_INSERT_LOG", "DATA_RECORD_UPDATE_LOG",
     "INDEX_SLOT_LOG", "INDEX_ITEM_INSERT_LOG", "INDEX_ITEM_UPDATE_LOG",
     "COMMIT_LOG", "ABORT_LOG", "CHECKPOINT_LOG"}

(* The undo types are left out: undo_logs never gets to add one.            *)
NeedUndo == {"DATA_SLOT_LOG", "INDEX_SLOT_LOG", "INDEX_ITEM_UPDATE_LOG"}
Ends == {"COMMIT_LOG", "ABORT_LOG"}
NoChange == Ends \cup {"CHECKPOINT_LOG"}

ASSUME SizesAssumption == Slots \in Nat \ {0} /\ MaxFds \in Nat \ {0}
ASSUME KeysAssumption == IsFiniteSet(Keys) /\ NoKey \notin Keys
ASSUME HashingsAssumption == Hashings \subseteq [Keys -> Hashes]
ASSUME BoundsAssumption ==
    /\ MaxPages \in Nat /\ MaxRecords \in Nat /\ MaxTx \in Nat
    /\ MaxCheckpoints \in Nat /\ MaxCrashes \in Nat
ASSUME BadAssumption == Bad \notin Counts

WorkerPlaces ==
    {"idle", "run", "backup", "header", "stamp", "link", "index", "commit", "flush", "unlock"}

-------------------------------------------------------------------------------
(* The log *)

Log == INSTANCE DurableLog WITH Items <- {}

(* add_log_item_to_page.                                                    *)
AddLog(x) == Log!Add(x) /\ nextLogId' = nextLogId + 1

(* build_normal_log_item, build_checkpoint_log_item.                        *)
Item(type, t, p, o, new) ==
    [type |-> type, tx |-> t, page |-> p, offset |-> o, new |-> new,
     maxTx |-> 0, maxTs |-> 0, id |-> nextLogId]

MarkItem(type, t) == Item(type, t, <<>>, 0, {})

(* A change of a page that is in the pool, and its log item.                *)
Change(w, type, p, o, new) ==
    /\ mem' = [mem EXCEPT ![p][o] = new]
    /\ AddLog(Item(type, tx[w], p, o, new))

(* A slot is taken and filled, with two log items.  The page stays pinned    *)
(* and locked in between; a crash there leaves what it leaves after them,   *)
(* with a shorter log.                                                      *)
Take(w, slotType, type, p, page, s, x) ==
    LET taken == page[Bitmap] \cup {s}
    IN /\ mem' = [mem EXCEPT ![p] = [page EXCEPT ![Bitmap] = taken, ![s] = x]]
       /\ log' = log \o <<Item(slotType, tx[w], p, Bitmap, taken),
                         [Item(type, tx[w], p, s, x) EXCEPT !.id = @ + 1]>>
       /\ nextLogId' = nextLogId + 2
       /\ UNCHANGED durable

FlushLogs == Log!Flush /\ UNCHANGED nextLogId

-------------------------------------------------------------------------------
(* Empty files.                                                             *)
Init ==
    /\ hashOf \in Hashings
    /\ header = [h \in Hashes |-> Bad] /\ backup = [h \in Hashes |-> Bad]
    /\ disk = [p \in Pages |-> Zero(p)]
    /\ Log!Init /\ nextLogId = 0
    /\ pc = "down"
    /\ maxTx = 0 /\ maxTs = 0
    /\ mem = disk
    /\ wpc = [w \in Workers |-> "idle"]
    /\ tx = [w \in Workers |-> 0]
    /\ items = [w \in Workers |-> <<>>]
    /\ n = [w \in Workers |-> 0]
    /\ cpc = "idle"
    /\ acked = 0 /\ crashes = 0

-------------------------------------------------------------------------------
(* recover() *)

(* The log items after item c, and those of them that are commits.           *)
After(c) == c + 1 .. Len(log)
CommitsAfter(c) == {i \in After(c) : log[i].type = "COMMIT_LOG"}

(* Where backtrace_until_checkpoint stops; 0 is before the whole log.        *)
IsLastCheckpoint(c) ==
    /\ c > 0 => log[c].type = "CHECKPOINT_LOG"
    /\ \A i \in After(c) : log[i].type # "CHECKPOINT_LOG"

(* Slip: the counters of the checkpoint are not taken.                      *)
TxAtNone(c) == 0

(* The counters in the checkpoint.                                          *)
TxAt(c) == IF c = 0 THEN 0 ELSE log[c].maxTx

TsAt(c) == IF c = 0 THEN 0 ELSE log[c].maxTs

(* redo_logitem for a change: get_page opens the file of the page.  If it    *)
(* cannot, the pages in the pool being dirty, it calls flush_logs, which    *)
(* waits for the mutex that recover() has.                                  *)
RedoChange(r, x) ==
    IF FileOf(x.page) \in r.open \/ Cardinality(r.open) < MaxFds
    THEN [r EXCEPT !.open = @ \cup {FileOf(x.page)},
                   !.mem = [@ EXCEPT ![x.page][x.offset] = x.new],
                   !.undo = IF x.type \in NeedUndo THEN @ \cup {x.tx} ELSE @]
    ELSE [r EXCEPT !.hung = TRUE]

(* Slip: an abort does not end a transaction.                               *)
RedoItemAbort(r, x) ==
    IF r.hung THEN r
    ELSE IF x.type \notin NoChange THEN RedoChange(r, x)
    ELSE [r EXCEPT !.undo = IF x.type = "COMMIT_LOG" THEN @ \ {x.tx} ELSE @]

(* A log item in redo_pass: redo_logitem and update_logitems_to_undo, of     *)
(* which the transactions with something to undo are left.                  *)
RedoItem(r, x) ==
    IF r.hung THEN r
    ELSE IF x.type \notin NoChange THEN RedoChange(r, x)
    ELSE [r EXCEPT !.undo = IF x.type \in Ends THEN @ \ {x.tx} ELSE @]

Redone(c) ==
    LET redone[i \in c .. Len(log)] ==
            IF i = c THEN [mem |-> mem, open |-> {}, undo |-> {}, hung |-> FALSE]
            ELSE RedoItem(redone[i - 1], log[i])
    IN redone[Len(log)]

(* The assertion of update_max_timestamp_with_logitem.                      *)
TimestampsRise(c) ==
    \A i \in CommitsAfter(c) :
        /\ log[i].maxTs > TsAt(c)
        /\ \A j \in CommitsAfter(c) : j < i => log[i].maxTs > log[j].maxTs

(* Slip: the log ID of the checkpoint itself is not looked at.              *)
RestoreCountersPast(c) ==
    /\ \E m \in {0} \cup {log[i].id + 1 : i \in After(c)} :
        /\ \A i \in After(c) : log[i].id < m
        /\ nextLogId' = m
    /\ \E m \in {TxAt(c)} \cup {log[i].tx : i \in After(c)} :
        /\ TxAt(c) <= m /\ \A i \in After(c) : log[i].tx <= m
        /\ maxTx' = m
    /\ \E m \in {TsAt(c)} \cup {log[i].maxTs : i \in CommitsAfter(c)} :
        /\ TsAt(c) <= m /\ \A i \in CommitsAfter(c) : log[i].maxTs <= m
        /\ maxTs' = m

(* next_log_ID comes after the log IDs that backtrace_until_checkpoint meets;*)
(* the checkpoint has the counters to start from, and redo_pass brings them *)
(* up to what it meets.                                                     *)
RestoreCounters(c) ==
    /\ \E m \in {0} \cup {log[i].id + 1 : i \in (c .. Len(log)) \ {0}} :
        /\ \A i \in (c .. Len(log)) \ {0} : log[i].id < m
        /\ nextLogId' = m
    /\ \E m \in {TxAt(c)} \cup {log[i].tx : i \in After(c)} :
        /\ TxAt(c) <= m /\ \A i \in After(c) : log[i].tx <= m
        /\ maxTx' = m
    /\ \E m \in {TsAt(c)} \cup {log[i].maxTs : i \in CommitsAfter(c)} :
        /\ TsAt(c) <= m /\ \A i \in CommitsAfter(c) : log[i].maxTs <= m
        /\ maxTs' = m

(* Slip: transactions that have not ended are left as they are.             *)
UndoPassSkipped(r) == pc' = IF r.hung THEN "hung" ELSE "up"

(* undo_pass: with anything to undo, undo_logs waits for the mutex that      *)
(* recover() has.  Else main() goes on.                                     *)
UndoPass(r) == pc' = IF r.hung \/ r.undo # {} THEN "hung" ELSE "up"

(* recover(), one step: until it is over no page is written to its file, and*)
(* a crash finds the files as they were.                                    *)
Recover ==
    /\ pc = "down"
    /\ \E c \in 0 .. Len(log) :
        /\ IsLastCheckpoint(c)
        /\ RestoreCounters(c)
        /\ mem' = Redone(c).mem
        /\ IF TimestampsRise(c) THEN UndoPass(Redone(c)) ELSE pc' = "failed"
    /\ UNCHANGED <<hashOf, fileVars, log, durable, workerVars, cpc, history>>

-------------------------------------------------------------------------------
(* Transactions *)

Up == pc = "up"
At(w, place) == wpc[w] = place
Goto(w, place) == wpc' = [wpc EXCEPT ![w] = place]

Committing(w) == n[w] > 0
Current(w) == items[w][IF Committing(w) THEN n[w] ELSE Len(items[w])]
KeyOf(w) == Current(w).key
HashAt(w) == hashOf[KeyOf(w)]
PageOf(w) == DataPage(HashAt(w), Current(w).page)
SlotOf(w) == Current(w).slot

KeysOf(w) == {items[w][i].key : i \in DOMAIN items[w]}

(* Who is inside insert_record and has the data_slot and header locks of the *)
(* hash; who is inside insert_index with its header lock.                   *)
Inserting(h) ==
    \E v \in Workers :
        ~Committing(v) /\ wpc[v] \in {"backup", "header"} /\ HashAt(v) = h
GrowingIndex(h) ==
    \E v \in Workers : Committing(v) /\ wpc[v] \in {"backup", "header"} /\ HashAt(v) = h

Taken(p) == mem[p][Bitmap]
FreeSlots(p) == Offsets(p) \ (Taken(p) \cup {Bitmap})
FirstFree(p) == CHOOSE s \in FreeSlots(p) : \A u \in FreeSlots(p) : s <= u
HasRoom(h) == header[h].data > 0 /\ FreeSlots(DataPage(h, header[h].data - 1)) # {}

(* find_index: where the item of the key is in the index page.              *)
Found(k) ==
    {o \in Taken(IndexPage(hashOf[k])) : mem[IndexPage(hashOf[k])][o].key = k}
ItemOf(k) == CHOOSE o \in Found(k) : \A u \in Found(k) : o <= u
LastOf(k) ==
    IF Found(k) = {} THEN NoPlace ELSE mem[IndexPage(hashOf[k])][ItemOf(k)].last

(* begin_transaction and Executor::reset.                                   *)
Begin(w) ==
    /\ Up /\ At(w, "idle") /\ cpc = "idle"
    /\ maxTx < MaxTx
    /\ maxTx' = maxTx + 1
    /\ tx' = [tx EXCEPT ![w] = maxTx']
    /\ Goto(w, "run")
    /\ UNCHANGED <<hashOf, fileVars, logVars, pc, maxTs, mem, items, n, cpc, history>>

(* parse_header, when the header page fails its checksum: it is restored     *)
(* from the backup, or both are made anew, the backup first.                *)
Repair(w, h) ==
    /\ Up /\ At(w, "run")
    /\ header[h] = Bad
    /\ \/ /\ backup[h] # Bad
          /\ header' = [header EXCEPT ![h] = backup[h]]
          /\ UNCHANGED backup
       \/ /\ backup[h] = Bad
          /\ backup' = [backup EXCEPT ![h] = NoPages]
          /\ UNCHANGED header
    /\ UNCHANGED <<hashOf, disk, logVars, pc, counters, mem, workerVars, cpc, history>>

NewItem(k, page, slot) ==
    [key |-> k, page |-> page, slot |-> slot, first |-> Found(k) = {}]

(* write_key or insert_key has the key lock and goes into insert_record,     *)
(* under the data_slot lock: into the last data page, or a new one, which   *)
(* is cleared, written at once, and still to be counted.                    *)
Write(w, k) ==
    /\ Up /\ At(w, "run")
    /\ Cardinality({i \in DOMAIN log : log[i].type = "DATA_RECORD_INSERT_LOG"}) < MaxRecords
    /\ \A v \in Workers : k \notin KeysOf(v)
    /\ header[hashOf[k]] # Bad
    /\ ~Inserting(hashOf[k])
    /\ LET h == hashOf[k]
           count == header[h].data
           record == [tx |-> tx[w], ts |-> Uncommitted, prev |-> LastOf(k)]
       IN \/ /\ HasRoom(h)
             /\ LET p == DataPage(h, count - 1)
                    s == FirstFree(p)
                IN /\ Take(w, "DATA_SLOT_LOG", "DATA_RECORD_INSERT_LOG", p, mem[p], s, record)
                   /\ items' = [items EXCEPT ![w] = Append(@, NewItem(k, count - 1, s))]
             /\ UNCHANGED <<disk, wpc>>
          \/ /\ ~HasRoom(h) /\ count < MaxPages /\ ~GrowingIndex(h)
             /\ LET p == DataPage(h, count)
                IN /\ Take(w, "DATA_SLOT_LOG", "DATA_RECORD_INSERT_LOG", p, Zero(p), 1, record)
                   /\ disk' = [disk EXCEPT ![p] = Zero(p)]
             /\ items' = [items EXCEPT ![w] = Append(@, NewItem(k, count, 1))]
             /\ Goto(w, "backup")
    /\ UNCHANGED <<hashOf, header, backup, pc, counters, tx, n, cpc, history>>

(* The new page counts of insert_record or insert_index.                    *)
Counted(w) ==
    LET old == header[HashAt(w)]
    IN IF Committing(w) THEN [old EXCEPT !.index = @ + 1] ELSE [old EXCEPT !.data = @ + 1]

WriteBackup(w) ==
    /\ At(w, "backup")
    /\ backup' = [backup EXCEPT ![HashAt(w)] = Counted(w)]
    /\ Goto(w, "header")
    /\ UNCHANGED <<hashOf, header, disk, logVars, pc, counters, mem, tx, items, n, cpc,
                   history>>

(* Slip: the header is made from the backup, which counts the page already. *)
WriteHeaderTwice(w) ==
    /\ At(w, "header")
    /\ header' = [header EXCEPT ![HashAt(w)] =
                    IF Committing(w) THEN [backup[HashAt(w)] EXCEPT !.index = @ + 1]
                    ELSE [backup[HashAt(w)] EXCEPT !.data = @ + 1]]
    /\ Goto(w, IF Committing(w) THEN "index" ELSE "run")
    /\ UNCHANGED <<hashOf, backup, disk, logVars, pc, counters, mem, tx, items, n, cpc,
                   history>>

WriteHeader(w) ==
    /\ At(w, "header")
    /\ header' = [header EXCEPT ![HashAt(w)] = Counted(w)]
    /\ Goto(w, IF Committing(w) THEN "index" ELSE "run")
    /\ UNCHANGED <<hashOf, backup, disk, logVars, pc, counters, mem, tx, items, n, cpc,
                   history>>

(* abort: its undo_logs gets an empty list.                                 *)
Abort(w) ==
    /\ At(w, "run")
    /\ AddLog(MarkItem("ABORT_LOG", tx[w]))
    /\ Goto(w, "idle")
    /\ items' = [items EXCEPT ![w] = <<>>] /\ tx' = [tx EXCEPT ![w] = 0]
    /\ UNCHANGED <<hashOf, fileVars, pc, counters, mem, n, cpc, history>>

-------------------------------------------------------------------------------
(* commit *)

(* Slip: commits do not wait for each other.                                *)
CommitLockBarging(w) ==
    /\ At(w, "run")
    /\ n' = [n EXCEPT ![w] = 1]
    /\ Goto(w, IF items[w] = <<>> THEN "commit" ELSE "stamp")
    /\ UNCHANGED <<hashOf, fileVars, logVars, pc, counters, mem, tx, items, cpc, history>>

(* commit_lock_and_get_timestamp.                                           *)
CommitLock(w) ==
    /\ At(w, "run")
    /\ \A v \in Workers : ~Committing(v)
    /\ n' = [n EXCEPT ![w] = 1]
    /\ Goto(w, IF items[w] = <<>> THEN "commit" ELSE "stamp")
    /\ UNCHANGED <<hashOf, fileVars, logVars, pc, counters, mem, tx, items, cpc, history>>

(* update_record.                                                           *)
Stamp(w) ==
    /\ At(w, "stamp")
    /\ LET p == PageOf(w)
       IN Change(w, "DATA_RECORD_UPDATE_LOG", p, SlotOf(w),
                 [mem[p][SlotOf(w)] EXCEPT !.ts = maxTs + 1])
    /\ Goto(w, IF Current(w).first THEN "index" ELSE "link")
    /\ UNCHANGED <<hashOf, fileVars, pc, counters, tx, items, n, cpc, history>>

Pointer(w) == [key |-> KeyOf(w), last |-> <<Current(w).page, SlotOf(w)>>]

(* The write item is done.                                                  *)
NextItem(w) ==
    /\ n' = [n EXCEPT ![w] = @ + 1]
    /\ Goto(w, IF n[w] < Len(items[w]) THEN "stamp" ELSE "commit")

(* update_index.                                                            *)
Link(w) ==
    /\ At(w, "link")
    /\ Change(w, "INDEX_ITEM_UPDATE_LOG", IndexPage(HashAt(w)), ItemOf(KeyOf(w)), Pointer(w))
    /\ NextItem(w)
    /\ UNCHANGED <<hashOf, fileVars, pc, counters, tx, items, cpc, history>>

(* insert_index: the first index page is made,                              *)
NewIndexPage(w) ==
    /\ At(w, "index") /\ header[HashAt(w)].index = 0
    /\ ~Inserting(HashAt(w))
    /\ LET p == IndexPage(HashAt(w))
       IN mem' = [mem EXCEPT ![p] = Zero(p)] /\ disk' = [disk EXCEPT ![p] = Zero(p)]
    /\ Goto(w, "backup")
    /\ UNCHANGED <<hashOf, header, backup, logVars, pc, counters, tx, items, n, cpc,
                   history>>

(* and the item put into it.                                                *)
PutIndexItem(w) ==
    /\ At(w, "index") /\ header[HashAt(w)].index > 0
    /\ LET p == IndexPage(HashAt(w))
       IN Take(w, "INDEX_SLOT_LOG", "INDEX_ITEM_INSERT_LOG", p, mem[p], FirstFree(p), Pointer(w))
    /\ NextItem(w)
    /\ UNCHANGED <<hashOf, fileVars, pc, counters, tx, items, cpc, history>>

(* The commit record; a transaction without writes does not flush it.       *)
AddCommit(w) ==
    /\ At(w, "commit")
    /\ AddLog([MarkItem("COMMIT_LOG", tx[w]) EXCEPT !.maxTs = maxTs + 1])
    /\ Goto(w, IF items[w] = <<>> THEN "unlock" ELSE "flush")
    /\ UNCHANGED <<hashOf, fileVars, pc, counters, mem, tx, items, n, cpc, history>>

(* The transactions whose commits are in a log, oldest first.               *)
CommitsIn(l) ==
    LET commits[i \in 0 .. Len(l)] ==
            IF i = 0 THEN <<>>
            ELSE IF l[i].type = "COMMIT_LOG" THEN Append(commits[i - 1], l[i].tx)
            ELSE commits[i - 1]
    IN commits[Len(l)]

Commits == CommitsIn(log)

(* Slip: the flush is left to somebody else.                                *)
FlushCommitSkipped(w) ==
    /\ At(w, "flush")
    /\ acked' = Len(Commits)
    /\ Goto(w, "unlock")
    /\ UNCHANGED <<hashOf, fileVars, logVars, pc, counters, mem, tx, items, n, cpc,
                   crashes>>

FlushCommit(w) ==
    /\ At(w, "flush")
    /\ FlushLogs
    /\ acked' = Len(Commits)
    /\ Goto(w, "unlock")
    /\ UNCHANGED <<hashOf, fileVars, pc, counters, mem, tx, items, n, cpc, crashes>>

(* key_write_unlock and commit_unlock.                                      *)
Unlock(w) ==
    /\ At(w, "unlock")
    /\ maxTs' = maxTs + 1
    /\ items' = [items EXCEPT ![w] = <<>>]
    /\ n' = [n EXCEPT ![w] = 0]
    /\ Goto(w, "idle") /\ tx' = [tx EXCEPT ![w] = 0]
    /\ UNCHANGED <<hashOf, fileVars, logVars, pc, maxTx, mem, cpc, history>>

-------------------------------------------------------------------------------
(* Pages to their files *)

(* Bound: after the last crash pages are not written, as none reads them.    *)
CrashAhead == crashes < MaxCrashes

Dirty(p) == mem[p] # disk[p]
DirtyPages == {p \in Pages : Dirty(p)}

(* clean_pool makes room for another page: it flushes the log, then all      *)
(* pages that nobody has pinned.                                            *)
CleanPool ==
    /\ Up /\ cpc = "idle" /\ CrashAhead /\ DirtyPages # {}
    /\ FlushLogs
    /\ disk' = mem
    /\ UNCHANGED <<hashOf, header, backup, pc, counters, mem, workerVars, cpc, history>>

(* make_checkpoint, once all transactions have ended (NoneDuringCheckpoint   *)
(* of CheckpointGate).                                                      *)
CheckpointBegin ==
    /\ Up /\ cpc = "idle" /\ CrashAhead
    /\ \A w \in Workers : At(w, "idle")
    /\ Cardinality({i \in DOMAIN log : log[i].type = "CHECKPOINT_LOG"}) < MaxCheckpoints
    /\ cpc' = "flush pages"
    /\ UNCHANGED <<hashOf, fileVars, logVars, pc, counters, mem, workerVars, history>>

(* flush_all_pages                                                          *)
CheckpointPages ==
    /\ cpc = "flush pages"
    /\ disk' = mem
    /\ cpc' = "log"
    /\ UNCHANGED <<hashOf, header, backup, logVars, pc, counters, mem, workerVars,
                   history>>

CheckpointItem ==
    [MarkItem("CHECKPOINT_LOG", 0) EXCEPT !.maxTx = maxTx, !.maxTs = maxTs]

(* Slip: the checkpoint is logged before the pages are written.             *)
CheckpointLogEarly ==
    /\ cpc = "flush pages"
    /\ AddLog(CheckpointItem)
    /\ cpc' = "flush log"
    /\ UNCHANGED <<hashOf, fileVars, pc, counters, mem, workerVars, history>>

CheckpointLog ==
    /\ cpc = "log"
    /\ AddLog(CheckpointItem)
    /\ cpc' = "flush log"
    /\ UNCHANGED <<hashOf, fileVars, pc, counters, mem, workerVars, history>>

CheckpointFlush ==
    /\ cpc = "flush log"
    /\ FlushLogs
    /\ cpc' = "idle"
    /\ UNCHANGED <<hashOf, fileVars, pc, counters, mem, workerVars, history>>

-------------------------------------------------------------------------------
(* Crashes *)

(* The process ends; what it had in memory is gone.                         *)
Stop ==
    /\ pc' = "down"
    /\ nextLogId' = 0 /\ maxTx' = 0 /\ maxTs' = 0
    /\ mem' = disk'
    /\ wpc' = [w \in Workers |-> "idle"]
    /\ tx' = [w \in Workers |-> 0]
    /\ items' = [w \in Workers |-> <<>>]
    /\ n' = [w \in Workers |-> 0]
    /\ cpc' = "idle"
    /\ CrashAhead
    /\ crashes' = crashes + 1
    /\ acked' = Len(Commits')
    /\ UNCHANGED hashOf

Crash ==
    /\ pc # "down"
    /\ Log!Crash
    /\ UNCHANGED fileVars
    /\ Stop

(* In the midst of writing pages: some are in the file, and of one the bits  *)
(* of its slots without what is in them, or the other way round.            *)
TornPage(p) ==
    /\ Up /\ Dirty(p)
    /\ \/ cpc = "idle" /\ Log!Flush
       \/ cpc = "flush pages" /\ Log!Crash
    /\ \E before \in SUBSET (DirtyPages \ {p}), part \in {{Bitmap}, Offsets(p) \ {Bitmap}} :
         disk' = [q \in Pages |->
                    IF q \in before THEN mem[q]
                    ELSE IF q = p THEN [o \in Offsets(p) |-> IF o \in part THEN mem[p][o]
                                                            ELSE disk[p][o]]
                    ELSE disk[q]]
    /\ UNCHANGED <<header, backup>>
    /\ Stop

TornHeader(w) ==
    /\ \/ /\ At(w, "backup")
          /\ backup' = [backup EXCEPT ![HashAt(w)] = Bad]
          /\ UNCHANGED header
       \/ /\ At(w, "header")
          /\ header' = [header EXCEPT ![HashAt(w)] = Bad]
          /\ UNCHANGED backup
    /\ UNCHANGED disk
    /\ Log!Crash
    /\ Stop

-------------------------------------------------------------------------------
CountPage(w) == WriteBackup(w) \/ WriteHeader(w)

Commit(w) ==
    \/ CommitLock(w) \/ Stamp(w) \/ Link(w)
    \/ NewIndexPage(w) \/ PutIndexItem(w)
    \/ AddCommit(w) \/ FlushCommit(w) \/ Unlock(w)

Transaction(w) ==
    \/ Begin(w) \/ CountPage(w) \/ Commit(w) \/ Abort(w)
    \/ \E k \in Keys : Write(w, k)
    \/ \E h \in Hashes : Repair(w, h)

Checkpoint == CheckpointBegin \/ CheckpointPages \/ CheckpointLog \/ CheckpointFlush

Fault ==
    \/ Crash
    \/ \E p \in Pages : TornPage(p)
    \/ \E w \in Workers : TornHeader(w)

Next ==
    \/ Recover
    \/ \E w \in Workers : Transaction(w)
    \/ CleanPool \/ Checkpoint
    \/ Fault

Spec == Init /\ [][Next]_vars

-------------------------------------------------------------------------------
(* Properties *)

PcValues == {"down", "up", "hung", "failed"}

TypeOK ==
    /\ hashOf \in [Keys -> Hashes]
    /\ header \in [Hashes -> Counts \cup {Bad}]
    /\ backup \in [Hashes -> Counts \cup {Bad}]
    /\ \A p \in Pages : DOMAIN mem[p] = Offsets(p) /\ DOMAIN disk[p] = Offsets(p)
    /\ \A i \in DOMAIN log : log[i].type \in LogTypes
    /\ durable \in 0 .. Len(log)
    /\ pc \in PcValues
    /\ nextLogId \in Nat /\ maxTx \in 0 .. MaxTx /\ maxTs \in Nat
    /\ wpc \in [Workers -> WorkerPlaces]
    /\ tx \in [Workers -> 0 .. MaxTx]
    /\ items \in [Workers -> Seq(WriteItem)]
    /\ n \in [Workers -> Nat]
    /\ cpc \in {"idle", "flush pages", "log", "flush log"}
    /\ acked \in Nat /\ crashes \in 0 .. MaxCrashes

Ended(t, type) == \E i \in DOMAIN log : log[i].type = type /\ log[i].tx = t

(* The versions of a key in the log: the index items that point at them.    *)
IndexItems == {"INDEX_ITEM_INSERT_LOG", "INDEX_ITEM_UPDATE_LOG"}
Versions(k) ==
    LET versions[i \in 0 .. Len(log)] ==
            IF i = 0 THEN <<>>
            ELSE IF log[i].type \in IndexItems /\ log[i].new.key = k
                 THEN Append(versions[i - 1], log[i])
            ELSE versions[i - 1]
    IN versions[Len(log)]

(* The timestamp that the commit of t gave to its versions.                 *)
TimestampOf(t) ==
    IF Ended(t, "COMMIT_LOG")
    THEN (CHOOSE x \in {log[i] : i \in {j \in DOMAIN log :
              log[j].type = "COMMIT_LOG" /\ log[j].tx = t}} : TRUE).maxTs
    ELSE maxTs + 1

ReadCounts(h) ==
    IF header[h] # Bad THEN header[h] ELSE IF backup[h] # Bad THEN backup[h] ELSE NoPages

(***************************************************************************)
(* Whatever was written when, torn or lost: a program that is up has, for   *)
(* every key, exactly the versions the log tells of.  The index has one     *)
(* item for the key, which points at the last; each version is in a taken   *)
(* slot of a page that the header counts, with the timestamp of its commit, *)
(* and points at the one before.                                            *)
(***************************************************************************)
HistoryRestored ==
    Up => \A k \in Keys :
        LET h == hashOf[k]
            v == Versions(k)
        IN /\ Cardinality(Found(k)) = IF v = <<>> THEN 0 ELSE 1
           /\ v # <<>> => LastOf(k) = v[Len(v)].new.last /\ ReadCounts(h).index = 1
           /\ \A i \in DOMAIN v :
                LET place == v[i].new.last
                    p == DataPage(h, place[1])
                IN /\ place[1] < ReadCounts(h).data
                   /\ place[2] \in Taken(p)
                   /\ mem[p][place[2]] =
                        [tx |-> v[i].tx, ts |-> TimestampOf(v[i].tx),
                         prev |-> IF i = 1 THEN NoPlace ELSE v[i - 1].new.last]

(***************************************************************************)
(* No transaction is there in part: a program that is up has index items of *)
(* transactions that have committed or are committing now, and of no other. *)
(***************************************************************************)
NothingInPart ==
    Up => \A i \in DOMAIN log : log[i].type \in IndexItems =>
        \/ Ended(log[i].tx, "COMMIT_LOG")
        \/ \E w \in Workers : Committing(w) /\ tx[w] = log[i].tx

(***************************************************************************)
(* recover() sees the log from the last checkpoint on; still what it hands  *)
(* to the LockManager is never behind: transaction IDs, log IDs and         *)
(* timestamps that are given out were never used in what is left of the log.*)
(***************************************************************************)
LogIdsIncrease ==
    /\ \A i, j \in DOMAIN log : i < j => log[i].id < log[j].id
    /\ Up => \A i \in DOMAIN log : log[i].id < nextLogId

TransactionIdsNew ==
    Up => \A i \in DOMAIN log : log[i].tx <= maxTx

(* The assertion of update_max_timestamp_with_logitem never fails           *)
(* (logmanager.cpp:205): the timestamps of commits increase, across crashes.*)
NoAssertionFails == pc # "failed"

(***************************************************************************)
(* recover() hangs for no other reason than these: the log tells of a       *)
(* transaction that has neither committed nor aborted, or of more files     *)
(* since the last checkpoint than the pool can open.                        *)
(***************************************************************************)
Unfinished ==
    \E i \in DOMAIN log :
        log[i].type \in NeedUndo /\ \A type \in Ends : ~Ended(log[i].tx, type)

TooManyFiles ==
    \E c \in 0 .. Len(log) :
        /\ \A i \in DOMAIN log : i > c => log[i].type # "CHECKPOINT_LOG"
        /\ Cardinality({FileOf(log[i].page) :
                i \in {j \in DOMAIN log : j > c /\ log[j].type \notin NoChange}}) > MaxFds

HangsOnlyFor == pc = "hung" => Unfinished \/ TooManyFiles

(* A commit that has returned survives every crash, with all before it; so   *)
(* does one that was there after an earlier crash.                          *)
Survival ==
    INSTANCE DurableLog WITH Items <- 1 .. MaxTx, durable <- acked, log <- Commits

CommitsSurvive == Survival!Spec

(* The program comes up again after a crash (README.md:2: the database       *)
(* "supports ACID").                                                        *)
RecoveryReturns == pc # "hung"

===============================================================================
