# Specifications of StayDB

StayDB is a small transactional key-value store in C++: worker threads run
transactions from input files against multi-version records on disk, with key
locks, a write-ahead log, checkpoints and recovery (`src/README.md`: "supports
ACID with MVCC"). This directory holds TLA+ models of it, the TLC runs that
check them on small instances, and proofs checked by TLAPS. All line numbers
are those of the sources under `src/staydb/`.

## 1. The system

| component | state it keeps | operations | modelled in |
|---|---|---|---|
| Worker (`worker/`) | `local_map`, the commands and the place in them | `execute_begin/insert/read/set/commit`, redo, giving up | `Transactions` |
| Executor (`executor/`) | IDs, `read_timestamp`, `write_items`, `locked_write_keys` | `reset`, `read_key`, `write_key`, `insert_key`, `commit`, `abort` | `Transactions`, `VersionChain` |
| bucket files (`executor/`, `filelayout.h`) | header, index and data pages of each hash, slot bitmaps | `parse_header`, `find_index`, `insert_record`, `update_*`, `insert_index` | `Bucket` |
| LockManager (`lockmanager/lockmanager.*`) | timestamps, dynamic IDs, `commit_mutex`, the checkpoint gate | see the two modules | `Transactions`, `CheckpointGate` |
| OccupyLockTable | `occupy_locks`, `aborting_dynamic_IDs` | `occupy_lock`, `occupy_unlock`, `occupy_abort_finish` | `OccupyLockTable` |
| WaitQueueTable, WaitQueue | map from ID to queue; counters and `released` of a queue | `insert`, `wait`, `release`, `delete this` | `WaitQueue`, `WaitTable` |
| LockTable, BookableLock | slot and header read-write locks | `read_lock`, `write_lock`, `unlock` | lock variables of `Bucket` |
| CheckpointManager, `main()` | `task_finish` | `start`, `run`, `make_checkpoint`, `end` | `CheckpointGate` |
| LogManager, files | log pages, header, backup page | constructor, `add_log`, `flush_logs` | `LogStore`, `DurableLog` |
| LogManager, recovery | the items after the last checkpoint, what is to be undone | `recover`: backtrace, redo, undo | `Recovery` |
| PageManager, PoolManager | page frames, LRU list, file table | `get_page`, `release_page`, flushes, eviction | `PagePool` |
| `util/` | - | md5, crc32, timer, files, preparing inputs | not modelled: pure functions and I/O |

How they interact. A worker thread calls its Executor for each command; the
Executor calls the LockManager (key lock, timestamps, commit mutex, waiting for
another transaction), the LogManager (an item for every change) and the
PageManager (pages of a bucket). The LockManager and the OccupyLockTable each
own a WaitQueueTable: the first one's queues are released when a transaction
ends, the second one's when the abort of an attempt is over. The
CheckpointManager's thread bans new transactions, waits for the running ones,
flushes the data pool and the log, and lets transactions in again. `main()`
recovers, runs the prepare thread alone, then four workers beside the
checkpoint manager, and stops the latter at the end.

What is hard here: the interleavings of the threads (all of it), the lifetime
of the wait queues, the two condition variables of the checkpoint gate, and
crashes between and inside page writes. `PROJECT.json` lists the hazards with
their lines and the properties that watch them.

What makes the components correct:

* *transactions*: clients see snapshot isolation; every transaction ends;
* *key locks*: one writer per key; no cycle of waiting;
* *wait queues*: `wait` returns after the release and does return; a queue is
  deleted once, when nobody uses it any more;
* *checkpoint gate*: no transaction runs during a checkpoint; the checkpoint
  record is true; the program ends;
* *log files*: what a flush has written survives crashes;
* *page pool*: a page is what was last written to it, a pinned page stays, no
  eviction writes a change before its log item (a checkpoint writes the pages first
  and the log then, while transactions are banned), `get_page` returns;
* *buckets*: the index finds every key, its item points at the newest version,
  each version at the one before; no two records share a slot;
* *recovery*: what the log tells is in the pages again, whatever was written or
  torn before; a commit that returned is there, an unfinished transaction is not;
  IDs and timestamps go on where they were; and recovery comes to an end.

## 2. Modules

### SnapshotIsolation, Transactions, TransactionsProps

`SnapshotIsolation` is the promise to clients: the history of committed states,
and transactions that read one of them, overlay their own writes, and commit
if no key they wrote was committed since (first committer wins).

`Transactions` is the code. Each transaction has a thread; `pc` is where the
thread stands. The state is that of the Worker (`view` is `local_map`), the
Executor (`dyn`, `readTs`, `writeTs`, `items`, `locked`), the LockManager
(`maxTs`, `committer` for the holder of `commit_mutex`, `live` for the static
IDs in the wait queue table), the key locks of `OccupyLockTable` and the version
chain of each key (`VersionChain`). Actions, in the order of the code:

| action | code |
|---|---|
| `Begin` | `execute_begin` with `Executor::reset`; on a redo the same without `begin_transaction` |
| `ReadKey`, `WalkOn`, `OutputRow` | `get_value_for_key`, `read_key`, `execute_read` |
| `LockFree`, `LockFails`, `LockSteal`, `AwaitVictim` | the outcomes of `key_write_lock` at the head of `write_key` and `insert_key` |
| `ApplySet`, `Rewrite`, `ApplyInsert` | the rest of `write_key` and `insert_key`, with what the worker makes of the result |
| `CommitLock`, `LinkItem`, `LogCommit`, `UnlockKey`, `CommitUnlock` | `Executor::commit`, one step per critical section and per write item |
| `UnlockKey`, `AbortDone`, `AwaitEnd` | `Executor::abort`, `wait_for_transaction`, and the way back to `BEGIN` |
| `End` | `end_transaction` |
| `WakeSpuriously` | a spurious wakeup of either wait; in `SpuriousSpec`, and in `MCSpec` for some workloads |

Choices. A command of the input is a record with an operation, a key, the key of
its operand and a number. A dynamic ID is fresh if no transaction, lock or
`aborting` entry refers to it: the code's counter grows for ever, and only
whether two IDs are equal matters. Keys have buckets of their own (no two keys
with one hash), and the pages of a bucket, the log and the checkpoint gate are
left to the other modules. Nothing is undone by an abort, as in the code:
`log_items` is never filled, and the records of the attempt are in no chain. A
failed assertion takes the process, and every thread, down (`ProcessUp`).

`TransactionsProps` has the properties, the inductive invariant `LockInv` and
the refinement mapping: the history is the states at timestamps `1..maxTs`, the
snapshot of a transaction is its `readTs`, and it commits at `CommitUnlock`,
when `maxTs` makes its versions readable.

### WaitTable, WaitQueue

`WaitTable` says what the users of a wait queue table rely on: `wait(ID)`
returns once the ID is not registered, and not before. This is what the guards
of `AwaitEnd` and `AwaitVictim` in `Transactions` take for granted. `WaitQueue`
is the code: table lookups under the rwlock, booking, the sleep, the release,
and the deletion by whoever is last, with the object's life in `heap`.

### CheckpointGate

The counter and flag under `checkpoint_mutex`, the two condition variables, the
manager's loop, and `main()`. Transactions are reduced to the pages they make
dirty; `flush_all_pages` goes page by page, so that a transaction that got past
the gate could dirty a page it has already passed.

### DurableLog, LogStore

`DurableLog`: a log of which a flush makes a prefix durable and of which a crash
may lose the rest. What a crash leaves is in the file: no later crash loses it.
`LogStore` is the code: the log page in memory, the log
file, the header that counts its pages, and the backup page that each of them is
written to first. `Crash` may come anywhere; `CrashWriting` in the middle of a
page write, and leaves a page that fails its checksum. The constructor's steps
open the files again. In `Spec` a crash may tear any page write; `SparingSpec` leaves
out one, that of the backup while the last page of the log is torn in its file
(`OnlyCopy`): the constructor restored that page in memory only, and the backup is
its only good copy. The log page itself may be torn over and over, and header and
backup at any other time. `DurableLog` is implemented by `SparingSpec`; what `Spec`
does is the run `log_torn_twice`.

### PagePool

The data pool: frames with a page, a pin count and a dirty flag, the LRU list,
the table of open files with the number of frames each has, and the mutex.
`holder` is the thread inside `get_page`; `job` is where it stands there, with
`clean_pool` as a loop of steps since it lets go of nothing but flushes the log
in the middle. What a page holds is the number of its changes, so that a page in
its frame, in its file and in the log can be compared. Threads pin a page,
change it, add the log item, mark it dirty (or, for a header, flush it) and
release it, as the Executor does. The Executor also flushes a new data or index page
that it has cleared (`executor.cpp:335`, `:422`): a page without changes, clean and
like its file, so that the flush changes nothing here. `FlushAllPages` comes when nobody is changing
a page: that is `NoneDuringCheckpoint` of `CheckpointGate`.

| action | code |
|---|---|
| `Hit`, `Miss`, `OpenFile`, `LoadPage`, `NoFrame` | the branches of `get_page` |
| `CleanOldest`, `FlushLog`, `Sweep`, `SweepDone` | `clean_pool` and its callback `flush_log_data_pool` |
| `Change`, `AddLog`, `MarkDirty`, `FlushPage`, `Release` | what users do with a pinned page |
| `FlushLogs`, `FlushAllPages` | commits and checkpoints |

`NeverExhausted` needs room (`Roomy`): more frames and more open files than the
threads pin at a time. `const.h` has 60000 frames and 512 files for four threads
that pin at most two pages each.

### Bucket

The files of one hash. A page is the places of it that its bitmap has taken, so
`data` and `index` are functions whose domain is the set of taken places;
clearing a page removes its places. The header and its backup are their counts
and whether the checksum is right. Each thread runs one operation after another:
`parse_header` (`ParseHeader`, `ReadCounts`, `Repair`), `find_index`
(`FindIndex`, `ReadPage`, `ReadSlot`), `get_record` (`GetRecord`), `insert_record` (`InsertRecord`,
`NewerPage`, `GrowData`), and in the commit `update_record` (`StampRecord`),
`update_index` (`LinkPage`, `LinkSlot`) or `insert_index` (`InsertIndex`,
`NewerIndexPage`, `GrowIndex`, `FillChecksum`). What a lock covers completely is
one step; what others can see half of is more: the pointer that `update_index`
writes half by half and `find_index` copies half by half, the header that `insert_index` changes under a read lock. Key locks and
`commit_mutex` are the outcome of the other modules. Timestamps are kept, values
and snapshots are not: a set may give up where the code compares them.

### Recovery

Where the parts meet that a crash separates: the transactions' log items, the
pages of the buckets in the pool and in their files, the checkpoints, and
`recover()`. The log is a `DurableLog`, which `LogStore` implements but
for the torn write that `SparingSpec` leaves out. A page is a
function from offsets, the bitmap byte at 0, to what is there; `mem` is what the
pool has (or the file, for a page that is not in the pool), `disk` what the files
have. A log item is a record with page, offset and new value, as in the code, so
that redo is a fold over the log, not an assumption about it.

| action | code |
|---|---|
| `Recover` | `recover`: where `backtrace_until_checkpoint` stops (`IsLastCheckpoint`), what it and `redo_pass` make of the counters (`RestoreCounters`), `redo_logitem` and `update_logitems_to_undo` for each item (`RedoItem`), the assertion of `update_max_timestamp_with_logitem` (`TimestampsRise`), `undo_pass` (`UndoPass`) |
| `Begin`, `Repair`, `Write`, `WriteBackup`, `WriteHeader`, `Abort` | `reset`, `parse_header`, `insert_record` with its page writes, `abort` |
| `CommitLock`, `Stamp`, `Link`, `NewIndexPage`, `PutIndexItem`, `AddCommit`, `FlushCommit`, `Unlock` | `commit`, one log item or page write at a time |
| `CleanPool` | the sweep of `clean_pool`, with its log flush (`LogBeforeData` of `PagePool`) |
| `CheckpointBegin`, `CheckpointPages`, `CheckpointLog`, `CheckpointFlush` | `make_checkpoint` when no transaction runs (`NoneDuringCheckpoint` of `CheckpointGate`) |
| `Crash`, `TornPage`, `TornHeader` | the process ends, between two writes or inside one |

A crash keeps any prefix of the log that has all that was flushed. In the midst
of writing data or index pages it leaves any of the dirty pages written and one
of them written in part: the bitmap without the slots, or the slots without the
bitmap. A torn header or backup page fails its checksum.

`Recover` is one step: until it is over it writes no page to a file, so a crash
inside it finds the files as they were. A recovery that hangs (`pc = "hung"`) can
only crash. Left out are the values, reads and snapshots (`Transactions`), the
index pages of a bucket after the first and inserts of two threads into one
bucket at a time (`Bucket`), and the old values of log items, which only
`undo_logs` would use: it never gets to do so.

Definitions whose comment begins with "Slip" are not part of any specification.
Each is the definition that follows it with a plausible mistake, and shows that
a property notices that mistake.

## 3. Runs

| run | instance | result |
|---|---|---|
| `transactions` | 3 transactions on 2 keys: transfers A->B and B->A beside a reader or another transfer; takeovers of locks; 8 pairs of programs with every command, 3 keys of which one is not there; spurious wakeups in the pairs and in one of the takeovers; fairness | types, `LockInv`, exclusion, no wait cycle, ordered versions, snapshot isolation hold; an assertion fails for two reasons only; every transaction ends |
| `insert_race` | two inserts of one key | **violated**: the process ends on an assertion |
| `read_of_insert` | a reader and an insert, with fairness | **violated**: the reader never ends |
| `wait_queue` | 2 IDs, 3 waiters, 2 calls each, with fairness | no use after free; implements `WaitTable`; no queue leaks |
| `checkpoint_gate` | 3 workers with 2 transactions each, 2 pages, with fairness | checkpoints are quiescent and complete, the last one covers all, the program ends |
| `page_pool` | 2 threads, 5 pages in 4 files, 3 frames, 3 open files, with fairness | pins, contents, counts, an eviction writes the log before the data; never exhausted; `get_page` returns |
| `log_store` | 5 items, 2 per page, 3 torn writes, none of them of the only good copy of the last page | the log opens again and implements `DurableLog` |
| `log_torn_twice` | the same with 2 torn writes of any kind | **violated**: the log does not open |
| `bucket` | 3 threads, 3 keys, pages of 2 slots, records inserted one at a time, with fairness | chains stay whole, the index finds every key, a writer finds a committed version, a reader halves of committed ones, operations end |
| `bucket_lost` | 2 threads insert as they like | **violated**: a version is lost |
| `recovery` | 2 workers, 2 keys in one bucket or two, data pages of 2 slots, 2 transactions, 2 records, a checkpoint, a crash | every version of the log is back, no unfinished transaction, no lost commit, counters never behind; recovery hangs for the named reasons only |
| `recovery_hangs` | the same | **violated**: recovery waits for its own mutex |

Why the bounds are enough. The lock protocol has at most three parties at a
time: the occupier that gives way, the thief, and a third that meets the thief's
lock; two keys give the opposite orders a deadlock needs, and with three
transactions both a cycle and a queue can form. Transactions redo as often as
they have to: nothing bounds the number of attempts, and `MCDynIds` has one ID
more than can be referred to at once. Three waiters let one book, one sleep and
one wake while the owner releases. Five items in pages of two give a first page,
a full page, a page turned over twice and a partly filled one, with a crash at
every step of each. Three torn writes tear the last log page, tear it again when it is
written once more, and tear a header or a backup besides; two in a row are enough
for `log_torn_twice`. Three frames for two threads are one more than they can pin, so that
every page has to be evicted for another and the pool is cleaned with one, two
or no frame that may go; four files over a table of three let the table be full
while frames are free, and two pages of one file let a file keep a frame when it
loses one. A thread has one page at a time there (`MaxPins` is 1), although the
Executor has up to two, a page and the header: with two the run does not end within
minutes (more than 3.7 million states), so that nested pins are covered by the
proofs only, which are for any `MaxPins`. Pages of two slots make a bucket grow at the third record and key, with
a thread that has read the old counts in every phase of its operation. What limits
`bucket` is not the size but the condition on its threads (`StartAlone`):
without it `bucket_lost` breaks the chains, which is the only run that shows
what `insert_record` does with an old page count, and with it `NewerPage` is never
needed.

In `recovery` two transactions of two workers can be in the same bucket, one in
the middle of its commit while the other inserts; the first
record of a bucket already takes all page writes of `insert_record` and, at its
commit, of `insert_index`. One checkpoint may come before, between or after the
transactions, with evictions between any two steps, and the crash anywhere. A
torn page and a lost log item can leave slots taken that no record is in, so that
pages of two slots are enough to need a second page. The
next start finds a log that was cut off anywhere; after it the workers go on with
what `MaxTx` and `MaxRecords` leave, which is enough to use the restored counters
and pages. Pages are not written after the last crash (`CrashAhead`), since
nothing would read the files. A second crash does not fit into the run with two
workers. With `Workers = {w1}` and `MaxCrashes = 2` the same properties hold
(1,739,098 states), and with two workers, two crashes and `MaxRecords = 1` as well
(499,379 states); `RecoveryProofs` and `HistoryProofs` have all of them for any
number of crashes. `MaxFds` is 3, fewer than the
four data and index files of two buckets, so that redo meets a full file table.

`EveryTransactionEnds` is about behaviours in which spurious wakeups come to an end,
and leaves out those in which the process ends or a reader is lost, which
`CrashesOnlyFor`, `insert_race` and `read_of_insert` are about.
`EveryTransactionEnds`, `ProgramEnds` and `OperationsEnd` are about the end of finite programs;
deadlock is checked in every run but the two of `Recovery`, where a program may
well stand still after the last crash with its bounds used up, and the only states without a proper step are
the end of all threads and a failed assertion, which have a stuttering step.

### Fairness

`Transactions!Fairness` is weak fairness of each thread's `Step`: the operating
system runs every thread again and again. Nothing prefers one outcome to another.
`WaitQueue!FairSpec` is weak fairness of each owner and each waiter; that an
owner gets to its release is `EveryTransactionEnds`. In `CheckpointGate` the
threads are weakly fair, but a worker's way into a transaction is strongly fair:
it is shut off while a checkpoint runs, and open for a second between two.
`PagePool!FairSpec` is weak fairness of the thread inside `get_page` only, and
`Bucket!FairSpecAlone` of each thread; with finitely many operations a writer of
a read-write lock is not kept out for ever. No strong fairness is assumed of a
mutex elsewhere.

## 4. What the checks found

1. `insert_race`: `insert_key` returns `ERROR_RETRY_WRITE` when the key has been
   committed since the snapshot (`executor.cpp:134`), and `execute_insert`
   asserts that this cannot be (`worker.cpp:172`). `execute_set` redoes.
2. `read_of_insert`: the first version of a key points at record (0, 0), and
   `read_key` follows it (`executor.cpp:51`): a reader with an older snapshot
   walks for ever instead of being told that the key does not exist.
3. `bucket_lost`: `insert_record` with an old page count puts the record on the
   page after the last one (`executor.cpp:319`), which is not counted and is
   cleared when a page is added. It takes two keys with the same hash.
4. `recovery_hangs`: `recover()` holds the log mutex (`logmanager.cpp:361`) while
   `undo_pass` calls `undo_logs` and `add_log`, which lock it again. Whenever the
   durable log has items to undo of a transaction that neither committed nor
   aborted, the database does not come up again. `HangsOnlyFor` says that the only
   other cause is redo of more files than the pool can open (512), whose eviction
   calls `flush_logs` under the same mutex; the model leaves out the third, more
   than 60000 pages.

5. `log_torn_twice`: a torn last log page is restored in memory only
   (`logmanager.cpp:51`; a torn header is written back, line 28), and the next flush
   writes over its backup first (line 490). Torn there, neither copy is good, and the
   constructor's assertion (line 50) fails at every start. `log_store` shows that
   this is the only way for torn writes to lose the log.
Two more things are stated in properties of passing runs. `CrashesOnlyFor` says that
besides the race of `insert_race` one thing makes an assertion of `execute_insert`
fail: a transaction that inserts a key twice. `insert_key` looks for the key in the
index, where the transaction's own insert is put at the commit only, so it succeeds
again, and the worker asserts that `local_map` has no such key (`worker.cpp:173`);
`transactions` has such a program. `FindsVersion` says what a reader may get of a
pointer: `update_index` writes slot and page (`executor.cpp:387-388`) without the lock
under which `find_index` copies page and slot (lines 274-275), so a reader in between
gets half of each and goes on with whatever record is there, one of another key
in some states of `bucket`. A writer, whose key lock keeps commits of the key away,
always gets a whole one.

Code that can never run in its present form: `update_logitems_to_undo` ends with
`assert(0)` for every undo item (`logmanager.cpp:318`), so that a repaired
`undo_pass` would make the recovery after it fail.

## 5. Proofs

`TransactionsProofs` proves, for any set of transactions and keys, any programs
and any initial values, and with spurious wakeups allowed:

* `LockInvHolds`: `LockInv` is an invariant;
* from it `TypesHold`, `WriteExclusionHolds`, `WaitersHoldNothingHolds` and
  `NoWaitCycleHolds`;
* `CrashesAlwaysOnlyFor`, with `OwnInserts`: what `local_map` or a write item has of a
  key without versions comes from an earlier INSERT of the same transaction.

The argument. `WriteExclusion` is not inductive by itself: when an attempt
unlocks a key, it must be known that the lock is its own or has been taken over.
`LockInv` adds that the dynamic IDs of transactions differ, that
`aborting_dynamic_IDs` is exactly the set of attempts that failed to get a lock
and have not finished their abort, that the occupier of a lock has the key in
its list or is taking it over, and that those outside a transaction hold
nothing. For the absence of cycles the relation "waits for" is not enough
either, since an edge appears when a transaction starts to wait; `NoCycleComing`
takes the edges from the moment a lock is refused (`WillWaitFor`): the occupier
that refused it is then not giving way, so it has no edge of its own, and the
new edge closes no cycle. A takeover waits only for an abort, which waits for
nothing. There is one lemma per group of actions (`BeginStep`, `GrantStep`,
`FailStep`, ...), and `NextTypeOK` and `NextProtocol` combine them.

`WaitQueueProofs` proves, for any IDs, waiters and numbers of calls, and with
spurious wakeups allowed, `QueueInvHolds` and from it `NoUseAfterFreeHolds`. "The
last one deletes" is not inductive: `QueueInv` says that `n_booked` and
`n_waiting` of every queue count exactly the threads that stand between booking
and leaving, and who may stand where after the release. Then whoever finds
`safe_to_delete()` true is the only one left: no owner that has yet to release,
no booked or sleeping waiter, and no other that found it true. The run
`wait_queue` has no spurious wakeups, since `WaitTable` does not hold with them;
without them `WaitTablePromiseKept` proves the safety part of the refinement, that
`wait()` never returns before the release: who is awake has been woken by the
release (`AwakeReleased`), and a released ID is in the table no more.

`CheckpointGateProofs` proves, for any workers, pages and numbers of
transactions, `GateInvHolds`, `NoneDuringCheckpointHolds`,
`CheckpointCompleteHolds` and `AllSavedAtExitHolds`. `GateInv` ties the counter to
the workers that are inside, the flag to the manager's place, and the pages that
are still dirty to those that the manager has yet to visit; that a checkpoint
follows once `task_finish` is seen (`StillToRun`) gives the last of them.

The second half of `TransactionsProofs` proves that `Transactions` implements
`SnapshotIsolation`, for any transactions, keys, programs and initial values and
with spurious wakeups allowed (`SpuriousIsSnapshotIsolation`,
`IsSnapshotIsolation`), and `VersionsOrderedHolds`. The invariant is `LockInv`
with `SnapInv`, whose parts are:

* `CommitterOK`: the holder of `commit_mutex`, and nobody else, is between
  `CommitLock` and `CommitUnlock`, with the timestamp `maxTs + 1`;
* `SnapshotsOK`, `ReasonsOK`, `ApplyHasLock`: a snapshot is one of the committed
  states, an attempt that goes on has no reason to abort, and `write_key` has the
  lock it asked for;
* `ItemsOK`: a write item belongs to a locked key and has the value of
  `local_map`; its record stands on the newest version of the key (or is that
  version, once linked), and all versions below are in the snapshot;
* `VersionsOrdered`.

`ItemsOK` is where the design is: it is why the comparison of timestamps is only
needed when the lock is taken, and not again at the commit. It survives the
`LinkItem` of another transaction since nobody else has a write item for a locked
key (`WriteExclusion`, from `LockInv`), and between `LogCommit` and
`CommitUnlock`, when the keys are freed one by one, since `commit_mutex` is still
held. Then `LinkItem` is not seen at any timestamp up to `maxTs` (`LinkTooNew`);
`CommitUnlock` is the abstract `Commit`: what it makes readable is what was
written (`LinkVisible`, `NothingNew`), and a version between the snapshot and
`maxTs` would have to be in the base of a write item, which has none. Each
abstract action has a lemma in terms of the mapped variables (`SeenRead`,
`SeenCommit`, ...), each concrete one a lemma that gives the invariant and the
abstract step; `QuietStep` is the common part of those that touch neither
versions nor write items. The facts about chains, what `ReadAt` returns and that
`Link` keeps a chain ordered, are lemmas at the beginning of the module.

`PagePoolProofs` proves, for any finite set of threads and any pages, files and
frames, the invariant `PoolInv` (`PoolInvHolds`) and from it every safety property
of the run: `PoolTypes`, `PagesStayWithTheirUsers`, `BooksAreRight`,
`RoomyPoolNeverFails`, `NoChangeIsLost` and `LogGoesFirst` (of evictions). `PoolInv` says who may be
inside `get_page` with which frame in hand (`HolderOK`), that a frame's
`n_readers` is the number of pins of its page (`ReadersCounted`) and a thread has
no more pages than it may (`PinsBounded`), that frames have different pages
(`FramesDistinct`), that the LRU list has each frame once (`ListOK`) and a file as
many frames as the table says, give or take the one that is on its way
(`FilesOK`); and for the contents, how far a page, its file and the log can be
apart, given who has changed it and not logged it yet or not marked it dirty yet
(`WorkOK`, `ContentsOK`), also in the middle of a sweep (`SweepOK`). "The pool is
never exhausted" is a pigeonhole argument over that: frames that may not go are
pinned, the pinned pages are at most those the threads may have, and `Roomy` has
one frame and one file more.

`LogStoreProofs` proves of `SparingSpec`, for any page size and any number of items
and torn writes, that `LogStore` implements `DurableLog` (`LogIsDurable`), that the log opens
again after every crash (`LogOpensAgain`), and the types (`LogTypes`). The invariant
`LogInv` (`LogFilesAgree`) says at each page write how header, backup and pages in
the files stand to the page in memory (`ImagesOK`, `FilesOK`), what a start that
is under way has read so far (`OpeningOK`), and that the log in the files is a
beginning of the log in memory that is at least as long as what has been
acknowledged (`AckedOK`). The length alone would not be inductive: a crash turns
what the files have into the log, so it has to be the same items. The log in the
files is the pages' items one after another, a recursive function; that it exists
and unfolds is proved once, by taking the least number at which it would not
(`Induct`, from `WellFoundedInduction`), and the other lemmas use the unfolding.

`BucketProofs` proves, for any threads, keys, operations and page sizes, all that
the run `bucket` checks but `OperationsEnd`: `ChainWholeHolds`, `IndexFindsHolds`,
`FindsVersionHolds` and `TypeHolds`. Like the run they are about `FairSpecAlone`
(without its fairness), in which records are inserted one at a time; without that
condition they are false (`bucket_lost`). The invariant `BucketInv` has a part for
each thread, one for each key and one for the files. A thread has its key lock or
`commit_mutex` as its place in the code says (`RoleOK`); the counts it read are not
above the header's, and exact if it inserts (`CountsOK`); what it found or missed
in the index is still so (`FindsOK`); the version it stands on is the newest, and
its record is where it put it (`RecordOK`). A key has one item, which points at the
newest version unless someone is just linking one, and versions that are in the
order of their timestamps (`KeyOK`). Two things make it inductive. A header whose
checksum is wrong is either that of empty files or one that `insert_index` is
about to mend while it keeps the read lock (`FilesOK`), so that `parse_header` never
restores an old count. And no page at or above the header's count has a record or
an item, so that clearing a new page loses nothing: this is where two inserters at
a time break it. While a thread copies a pointer, what it has copied so far and what
it will copy are halves of committed versions (`CopyOK`): versions never go (`Stays`),
and a pointer is only ever written with halves of the newest one. A step of one thread leaves the parts of the others and of other
keys alone because it leaves the records and items of their keys alone
(`OtherThread`, `OtherKey`, `KeySame`), so each action's lemma is about one thread
and one key; `Quiet` is the common part of those that change no page.

`RecoveryProofs` proves, for any workers, keys, buckets, bounds and number of
crashes, `LogIdsAlwaysIncrease`, `TransactionIdsAlwaysNew` and
`AssertionNeverFails`. They hold of a program that recovers from a part of a log
of which a part was lost, so the invariant has to be about every log that a crash
can leave: `LogOK` is closed under cutting the log off (`LogOKCut`) and does not
mention the counters. It says that IDs rise, that a checkpoint's counters are not
behind anything before it (`CheckpointsCover`), and that a commit's timestamp is
above all before it (`CommitsRise`). `CountersAhead` ties it to a program that is
up; a commit that is logged and not yet readable may be one ahead of the
timestamp counter, which needs that only one worker commits at a time and none
beside a checkpoint (`WorkersOK`). From `LogOK` alone `RestoredAhead` gets
`CountersAhead` back after a recovery that looks no further than the last
checkpoint. There is one lemma per action, and a few for their common shapes
(`QuietStep`, `PlainItems`, `WorkerMoves`).

It goes on to the rest of what the run `recovery` checks but `HistoryRestored`, which
`HistoryProofs` has:

* `NeverInPart` and `AlwaysHangsOnlyFor`, from the invariant `PartsInv`
  (`PartsInvariant`). `NothingInPart` is a property of a program that is up, and the
  step to prove is `Recover`: it comes up only if `redo_pass` has nothing left to
  undo, but it sees the log from the last checkpoint on, and the only trace of a
  linked version that it counts is the `INDEX_SLOT_LOG` before it or the
  `INDEX_ITEM_UPDATE_LOG` itself. So `TxLog`, which holds of every log a crash can
  leave, says that nothing of a transaction follows its end (`EndsLast`), that what
  was linked before a checkpoint has committed before it, that an
  `INDEX_ITEM_INSERT_LOG` directly follows a slot item of its transaction, and that
  an aborted transaction has linked nothing (`AbortedUnlinked`); `TxOfWorkers` says
  what of its transaction a worker has logged so far. What `redo_pass` computes is
  a recursive function of the log. That it exists and unfolds is proved as in
  `LogStoreProofs`, and an induction over the items (`RedoingNext`) says what is in
  `open` and `undo` after each: the files and the unfinished transactions of the
  items so far, or that they were too many.
* `CommitsAlwaysSurvive`: the commits in the log are themselves a `DurableLog`
  whose durable part is `acked`. `AckedLogged` says that no more have been
  acknowledged than are in the part of the log that is in the file. A log cut off
  has a beginning of the commits (`CommitsBegin`), an item that is no commit adds
  none (`SameCommitsAfter`), so each step is one of `DurableLog` or a stutter.
* `RecoveryTypes`. `HeadersTyped` is the part that says something: a worker that
  counts a new page is the only one at that header (`Apart`), the header is good and
  has room, and it stays good for whoever has written under it (`HeadersGood`), as
  only a crash makes one bad.

`HistoryProofs` proves `HistoryAlwaysRestored`, for the same constants: after any
number of crashes, with pages torn and the log cut off, a program that is up finds
every version that its log tells of, and no other. A version is spread over a
record, an index item, two bitmaps, a page count and its log items, and each can be
lost alone, so the invariant `HistoryInv` (`HistoryInvariant`) says for each place
what is known of it:

* the log: whatever is changed was in a taken slot before, bitmaps only grow, an
  index item has one key and a key one index item, who changes pages logs something
  that needs undo (`ChangesOK`), and a link comes after the stamp of the record it
  points at, which has the commit's timestamp and the place of the version before
  (`VersionsOK`). Both are closed under cutting the log off (`ChangesOKCut`,
  `VersionsOKCut`), and each action's items are shown to fit (`ItemFits`,
  `VersionFits`);
* the pages of a program that is up (`PagesUp`): a cell has its last change in the
  log, a bitmap all that was taken, an index page no slot that nothing is linked in;
* the files (`DiskOK`): what is older than the last checkpoint and was not changed
  since is in them, whichever pages were written since or torn. `DiskMixed` is the
  lemma for a torn write: a cell that is old or new is one or the other, since the
  log was flushed before and only a committer can have unflushed stamps and links
  (`Lasting`). So `redo_pass`, an induction again (`RedoneShows`), has the whole log
  in the pages at its end;
* the headers (`PagesCounted`): a page in use is counted, or its worker is about to
  count it, or its transaction has not ended in the log. In the last case
  `recover()` hangs and does not come up with a page that is not counted
  (`FaultPages`, `RecoverPages`);
* the workers amid a transaction (`WorkersWrote`, `CommittingNow`,
  `ChangesUnended`): what they wrote is in the log and in nobody else's slot, and
  stands on the last version of its key.

There is a lemma per part of `HistoryInv` for the actions of a transaction and one
for all other steps (`TransactionFiles` and `RestFiles`, `TransactionItems` and
`RestWrote`, ...). That `Versions(k)` unfolds, and that each of its versions follows
the one before, is an induction over the log (`VersionsTell`). `HistoryInv` was
checked by TLC with the constants of the run `recovery` before it was proved.

The assumptions are those the modules name: `NoTx` is no transaction, dynamic
IDs are positive numbers, `Absent` is neither a value nor a write item,
programs and initial values have their types, pages have a slot, there is a key,
`Waiters`, `Workers` and the `Threads` of `PagePool` are finite, `Bad` is no pair of
page counts, and the bounds of counters are natural numbers.

Every invariant that a passing run checks is also proved. Model-checked only: the
liveness properties, those of `CheckpointGate`, `Transactions`, `WaitQueue`,
`PagePool` and `Bucket` and the liveness part of `ImplementsWaitTable` (liveness under
fairness and `ENABLED` are out of the prover's reach).

## 6. Not modelled

* Parsing of inputs, output rows, logging, timers.
* `delete_key`, a stub, and `delete_flag`, which nothing sets.
* The unused half of LockTable/BookableLock, and the making of its locks.
* Overflow of the 32-bit timestamp and ID counters.
* `undo_logs` and `build_undo_log_item`: aborts call the first with an empty list,
  and recovery hangs before it changes anything.
* Recovery of index pages after the first, and of buckets into which two threads
  insert at a time (`bucket_lost` is lost without a crash).

## 7. Plan

1. Composition: `Bucket` shown to implement the chains that `Transactions` takes
   for granted, where it does (`StartAlone`).
2. `undo_logs`, once recovery gets to it: undo items and their redo.
