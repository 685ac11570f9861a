-------------------------------- MODULE PagePool -------------------------------
(***************************************************************************)
(* The data pool: PoolManager with the threads that use its pages.  A      *)
(* thread gets a page (and pins it), changes it in memory without the      *)
(* pool's mutex, adds a log item, marks the page dirty and releases it, as *)
(* try_insert_record_to_page does; header pages are flushed instead        *)
(* (insert_record).                                                        *)
(*                                                                         *)
(* Under the mutex, get_page is taken apart where others matter: the log   *)
(* flush of clean_pool, and every page write.  release_page,               *)
(* mark_page_dirty and flush_page are one critical section each.           *)
(*                                                                         *)
(* The contents of a page are abstracted to the number of changes made to  *)
(* it.                                                                     *)
(***************************************************************************)
EXTENDS Naturals, SequencesExt

CONSTANTS
    Threads,
    Pages,
    Files,
    FileOf,    \* FileOf[p]: the file page p is in
    Headers,   \* the pages that are not logged: flushed after each change
    NFrames,   \* n_pages of the pool
    MaxFds,    \* max_n_fds
    MaxPins,   \* how many pages a thread has pinned at once
    MaxChanges,\* bound: how often page p is changed, MaxChanges[p]
    Free,      \* a frame without a page
    Nobody     \* the mutex is free

VARIABLES
    \* the pool
    frames,    \* frames[i]: the page in frame i, or Free
    dirty,     \* dirty of its metadata
    readers,   \* n_readers of its metadata
    buf,       \* what is in the frame
    lru,       \* LRU_queue
    nPages,    \* nPages[f]: n_pages of f in file_metadata
    open,      \* the files in file_metadata
    mutex,     \* who holds the mutex inside get_page
    job,       \* what the holder is at
    \* files and log
    disk,      \* disk[p]: what is in the file
    logged,    \* logged[p]: how many changes of p have their log item
    durable,   \* durable[p]: how many of those items are flushed
    \* the threads
    pin,       \* pin[t][p]: the frame where t has p, or 0
    work       \* work[t][p]: how far t is with a change of p

poolVars == <<frames, dirty, readers, lru, nPages, open>>
storeVars == <<buf, disk, logged, durable>>
threadVars == <<pin, work>>
vars == <<poolVars, storeVars, mutex, job, threadVars>>

Frames == 1..NFrames

ASSUME SizesAssumption ==
    NFrames \in Nat \ {0} /\ MaxFds \in Nat \ {0} /\ MaxPins \in Nat \ {0}
ASSUME ThreadsAssumption == IsFiniteSet(Threads)
ASSUME FilesAssumption == FileOf \in [Pages -> Files] /\ Headers \subseteq Pages
ASSUME NonesAssumption == Free \notin Pages /\ Nobody \notin Threads
ASSUME BoundAssumption == MaxChanges \in [Pages -> Nat]

Places == {"none", "file", "frame", "clean", "flush log", "sweep", "failed"}
NoJob == [at |-> "none", page |-> Free, back |-> "none", next |-> 1, cleaned |-> 0]

Init ==
    /\ frames = [i \in Frames |-> Free]
    /\ dirty = [i \in Frames |-> FALSE]
    /\ readers = [i \in Frames |-> 0]
    /\ buf = [i \in Frames |-> 0]
    /\ lru = <<>>
    /\ nPages = [f \in Files |-> 0]
    /\ open = {}
    /\ mutex = Nobody
    /\ job = NoJob
    /\ disk = [p \in Pages |-> 0]
    /\ logged = [p \in Pages |-> 0]
    /\ durable = [p \in Pages |-> 0]
    /\ pin = [t \in Threads |-> [p \in Pages |-> 0]]
    /\ work = [t \in Threads |-> [p \in Pages |-> "done"]]

Resident(p) == \E i \in Frames : frames[i] = p
Evictable(i) == frames[i] # Free /\ readers[i] = 0
FreeFrames == {i \in Frames : frames[i] = Free}

(* it_LRU of the metadata of frame i: where it is in LRU_queue.             *)
it_LRU(i) == CHOOSE k \in DOMAIN lru : lru[k] = i
Erased(i) == RemoveAt(lru, it_LRU(i))

-------------------------------------------------------------------------------
(* get_page *)

MayGet(t, p) ==
    /\ mutex = Nobody
    /\ pin[t][p] = 0
    /\ Cardinality({q \in Pages : pin[t][q] # 0}) < MaxPins

(* Slip: a page in use keeps its place in the LRU list.                     *)
HitUnmoved(t, p) ==
    /\ MayGet(t, p)
    /\ \E i \in Frames :
        /\ frames[i] = p
        /\ readers' = [readers EXCEPT ![i] = @ + 1]
        /\ lru' = Append(lru, i)
        /\ pin' = [pin EXCEPT ![t][p] = i]
    /\ UNCHANGED <<frames, dirty, nPages, open, storeVars, mutex, job, work>>

(* The page is in the pool.                                                 *)
Hit(t, p) ==
    /\ MayGet(t, p)
    /\ \E i \in Frames :
        /\ frames[i] = p
        /\ readers' = [readers EXCEPT ![i] = @ + 1]
        /\ lru' = Append(Erased(i), i)
        /\ pin' = [pin EXCEPT ![t][p] = i]
    /\ UNCHANGED <<frames, dirty, nPages, open, storeVars, mutex, job, work>>

Miss(t, p) ==
    /\ MayGet(t, p)
    /\ ~Resident(p)
    /\ mutex' = t
    /\ job' = [NoJob EXCEPT !.at = "file", !.page = p]
    /\ UNCHANGED <<poolVars, storeVars, threadVars>>

At(place) == job.at = place
Go(place) == job' = [job EXCEPT !.at = place]
Clean(from) == job' = [job EXCEPT !.at = "clean", !.back = from]

(* The file is looked up, or opened: there must be room in the file table.  *)
(* n_pages counts the page before it has a frame.                           *)
OpenFile ==
    /\ At("file")
    /\ LET f == FileOf[job.page]
       IN \/ /\ f \in open \/ Cardinality(open) < MaxFds
             /\ open' = open \cup {f}
             /\ nPages' = [nPages EXCEPT ![f] = @ + 1]
             /\ Go("frame")
          \/ /\ f \notin open /\ Cardinality(open) >= MaxFds
             /\ Clean("file")
             /\ UNCHANGED <<open, nPages>>
    /\ UNCHANGED <<frames, dirty, readers, lru, storeVars, mutex, threadVars>>

(* The page is read into the first free frame and pinned; get_page returns. *)
LoadPage ==
    /\ At("frame")
    /\ FreeFrames # {}
    /\ LET i == Min(FreeFrames)
           p == job.page
       IN /\ frames' = [frames EXCEPT ![i] = p]
          /\ dirty' = [dirty EXCEPT ![i] = FALSE]
          /\ readers' = [readers EXCEPT ![i] = 1]
          /\ buf' = [buf EXCEPT ![i] = disk[p]]
          /\ lru' = Append(lru, i)
          /\ pin' = [pin EXCEPT ![mutex][p] = i]
    /\ mutex' = Nobody
    /\ job' = NoJob
    /\ UNCHANGED <<nPages, open, disk, logged, durable, work>>

NoFrame ==
    /\ At("frame")
    /\ FreeFrames = {}
    /\ Clean("frame")
    /\ UNCHANGED <<poolVars, storeVars, mutex, threadVars>>

-------------------------------------------------------------------------------
(* clean_pool *)

(* Slip: the file is never closed.                                          *)
CleanPosOnly(i) ==
    /\ frames' = [frames EXCEPT ![i] = Free]
    /\ nPages' = [nPages EXCEPT ![FileOf[frames[i]]] = @ - 1]
    /\ open' = open
    /\ lru' = Erased(i)
    /\ UNCHANGED <<dirty, readers>>

(* clean_pool_pos: the frame is given up, and the file with its last page.  *)
CleanPos(i) ==
    LET f == FileOf[frames[i]]
    IN /\ frames' = [frames EXCEPT ![i] = Free]
       /\ nPages' = [nPages EXCEPT ![f] = @ - 1]
       /\ open' = IF nPages'[f] = 0 THEN open \ {f} ELSE open
       /\ lru' = Erased(i)
       /\ UNCHANGED <<dirty, readers>>

(* Slip: dirty pages are given up without being written.                    *)
CleanOldestAnyway ==
    /\ At("clean")
    /\ lru # <<>>
    /\ LET i == Head(lru)
       IN \/ /\ readers[i] = 0
             /\ CleanPos(i)
             /\ IF Cardinality(open') < MaxFds THEN Go(job.back) ELSE UNCHANGED job
          \/ /\ readers[i] > 0
             /\ Go("flush log")
             /\ UNCHANGED poolVars
    /\ UNCHANGED <<storeVars, mutex, threadVars>>

(* Slip: the loop goes on at a page it cannot give up.                      *)
CleanOldestSpin ==
    /\ At("clean")
    /\ lru # <<>>
    /\ LET i == Head(lru)
       IN \/ /\ readers[i] = 0 /\ ~dirty[i]
             /\ CleanPos(i)
             /\ IF Cardinality(open') < MaxFds THEN Go(job.back) ELSE UNCHANGED job
          \/ /\ readers[i] > 0 \/ dirty[i]
             /\ UNCHANGED <<job, poolVars>>
    /\ UNCHANGED <<storeVars, mutex, threadVars>>

(* The first loop: from the oldest on, as long as the pages are clean, and  *)
(* until a file can be opened.  It asserts that the list is not empty.      *)
CleanOldest ==
    /\ At("clean")
    /\ LET i == Head(lru)
       IN IF lru = <<>> THEN Go("failed") /\ UNCHANGED poolVars
          ELSE \/ /\ readers[i] = 0 /\ ~dirty[i]
                  /\ CleanPos(i)
                  /\ IF Cardinality(open') < MaxFds THEN Go(job.back) ELSE UNCHANGED job
               \/ /\ readers[i] > 0 \/ dirty[i]
                  /\ Go("flush log")
                  /\ UNCHANGED poolVars
    /\ UNCHANGED <<storeVars, mutex, threadVars>>

(* Slip: the log is not flushed.                                            *)
FlushLogSkipped ==
    /\ At("flush log")
    /\ job' = [job EXCEPT !.at = "sweep", !.next = 1, !.cleaned = 0]
    /\ UNCHANGED <<poolVars, storeVars, mutex, threadVars>>

(* flush_log_data_pool.                                                     *)
FlushLog ==
    /\ At("flush log")
    /\ durable' = logged
    /\ job' = [job EXCEPT !.at = "sweep", !.next = 1, !.cleaned = 0]
    /\ UNCHANGED <<poolVars, buf, disk, logged, mutex, threadVars>>

(* Slip: n_readers is not looked at.                                        *)
SweepPinned ==
    /\ At("sweep") /\ job.next \in Frames
    /\ LET i == job.next
       IN \/ /\ frames[i] # Free
             /\ disk' = IF dirty[i] THEN [disk EXCEPT ![frames[i]] = buf[i]] ELSE disk
             /\ CleanPos(i)
             /\ job' = [job EXCEPT !.next = @ + 1, !.cleaned = @ + 1]
          \/ /\ frames[i] = Free
             /\ job' = [job EXCEPT !.next = @ + 1]
             /\ UNCHANGED <<disk, poolVars>>
    /\ UNCHANGED <<buf, logged, durable, mutex, threadVars>>

(* The second loop: every page that is not pinned is written and given up.  *)
Sweep ==
    /\ At("sweep") /\ job.next \in Frames
    /\ LET i == job.next
       IN \/ /\ Evictable(i)
             /\ disk' = IF dirty[i] THEN [disk EXCEPT ![frames[i]] = buf[i]] ELSE disk
             /\ CleanPos(i)
             /\ job' = [job EXCEPT !.next = @ + 1, !.cleaned = @ + 1]
          \/ /\ ~Evictable(i)
             /\ job' = [job EXCEPT !.next = @ + 1]
             /\ UNCHANGED <<disk, poolVars>>
    /\ UNCHANGED <<buf, logged, durable, mutex, threadVars>>

(* The assertions at the end of clean_pool, and those of get_page after it. *)
SweepDone ==
    /\ At("sweep") /\ job.next \notin Frames
    /\ IF job.cleaned > 0 /\ Cardinality(open) < MaxFds THEN Go(job.back) ELSE Go("failed")
    /\ UNCHANGED <<poolVars, storeVars, mutex, threadVars>>

-------------------------------------------------------------------------------
(* What a thread does with a page it has pinned *)

Change(t, p) ==
    /\ pin[t][p] # 0 /\ work[t][p] = "done"
    /\ buf[pin[t][p]] < MaxChanges[p]
    /\ buf' = [buf EXCEPT ![pin[t][p]] = @ + 1]
    /\ work' = [work EXCEPT ![t][p] = "changed"]
    /\ UNCHANGED <<poolVars, disk, logged, durable, mutex, job, pin>>

AddLog(t, p) ==
    /\ p \notin Headers /\ work[t][p] = "changed"
    /\ logged' = [logged EXCEPT ![p] = @ + 1]
    /\ work' = [work EXCEPT ![t][p] = "logged"]
    /\ UNCHANGED <<poolVars, buf, disk, durable, mutex, job, pin>>

MarkDirty(t, p) ==
    /\ mutex = Nobody
    /\ work[t][p] = "logged"
    /\ dirty' = [dirty EXCEPT ![pin[t][p]] = TRUE]
    /\ work' = [work EXCEPT ![t][p] = "done"]
    /\ UNCHANGED <<frames, readers, lru, nPages, open, storeVars, mutex, job, pin>>

(* flush_page of a changed page that has no log items, a header.  The flush  *)
(* of a new data or index page that was cleared (executor.cpp:335, :422) is   *)
(* of a page without changes, whose frame is clean and like its file: here    *)
(* it is a stutter.                                                        *)
FlushPage(t, p) ==
    /\ mutex = Nobody
    /\ p \in Headers /\ work[t][p] = "changed"
    /\ disk' = [disk EXCEPT ![p] = buf[pin[t][p]]]
    /\ dirty' = [dirty EXCEPT ![pin[t][p]] = FALSE]
    /\ work' = [work EXCEPT ![t][p] = "done"]
    /\ UNCHANGED <<frames, readers, lru, nPages, open, buf, logged, durable, mutex, job, pin>>

(* Slip: a second return path releases the page once more.                  *)
ReleaseAgain(t, p) ==
    /\ mutex = Nobody
    /\ pin[t][p] # 0 /\ work[t][p] = "done"
    /\ readers' = [readers EXCEPT ![pin[t][p]] = @ - 1]
    /\ UNCHANGED <<frames, dirty, lru, nPages, open, storeVars, mutex, job, threadVars>>

Release(t, p) ==
    /\ mutex = Nobody
    /\ pin[t][p] # 0 /\ work[t][p] = "done"
    /\ readers' = [readers EXCEPT ![pin[t][p]] = @ - 1]
    /\ pin' = [pin EXCEPT ![t][p] = 0]
    /\ UNCHANGED <<frames, dirty, lru, nPages, open, storeVars, mutex, job, work>>

(* flush_logs of a commit or a checkpoint.                                  *)
FlushLogs ==
    /\ durable # logged
    /\ durable' = logged
    /\ UNCHANGED <<poolVars, buf, disk, logged, mutex, job, threadVars>>

(* flush_all_pages of a checkpoint: no transaction changes a page           *)
(* (NoneDuringCheckpoint of CheckpointGate).                               *)
FlushAllPages ==
    /\ mutex = Nobody
    /\ \A t \in Threads, p \in Pages : work[t][p] = "done"
    /\ \E i \in Frames : dirty[i] /\ frames[i] # Free
    /\ disk' = [p \in Pages |->
                  IF \E i \in Frames : frames[i] = p /\ dirty[i]
                  THEN buf[CHOOSE i \in Frames : frames[i] = p] ELSE disk[p]]
    /\ dirty' = [i \in Frames |-> dirty[i] /\ frames[i] = Free]
    /\ UNCHANGED <<frames, readers, lru, nPages, open, buf, logged, durable, mutex, job,
                   threadVars>>

-------------------------------------------------------------------------------
CleanPool == CleanOldest \/ FlushLog \/ Sweep \/ SweepDone

(* The holder of the mutex goes on in get_page.                             *)
GoOn == OpenFile \/ LoadPage \/ NoFrame \/ CleanPool

(* A thread goes on with a page it has.                                     *)
Use(t, p) == AddLog(t, p) \/ MarkDirty(t, p) \/ FlushPage(t, p) \/ Release(t, p)

Next ==
    \/ GoOn
    \/ \E t \in Threads, p \in Pages : Hit(t, p) \/ Miss(t, p) \/ Change(t, p) \/ Use(t, p)
    \/ FlushLogs \/ FlushAllPages

Spec == Init /\ [][Next]_vars

(* The holder of the mutex is scheduled.                                    *)
FairSpec == Spec /\ WF_vars(GoOn)

-------------------------------------------------------------------------------
(* Properties *)

TypeOK ==
    /\ frames \in [Frames -> Pages \cup {Free}]
    /\ dirty \in [Frames -> BOOLEAN]
    /\ readers \in [Frames -> Nat]
    /\ buf \in [Frames -> Nat]
    /\ lru \in Seq(Frames)
    /\ nPages \in [Files -> Nat]
    /\ open \subseteq Files
    /\ mutex \in Threads \cup {Nobody}
    /\ job \in [at : Places, page : Pages \cup {Free}, back : {"none", "file", "frame"},
                next : 1..(NFrames + 1), cleaned : 0..NFrames]
    /\ disk \in [Pages -> Nat] /\ logged \in [Pages -> Nat] /\ durable \in [Pages -> Nat]
    /\ pin \in [Threads -> [Pages -> 0..NFrames]]
    /\ work \in [Threads -> [Pages -> {"done", "changed", "logged"}]]

(* A thread's pointer into the pool stays good: the page it has got is not  *)
(* evicted before it is released.                                          *)
PinsStay ==
    \A t \in Threads, p \in Pages : pin[t][p] # 0 => frames[pin[t][p]] = p

(* n_readers counts the threads that have the page; no page is in two       *)
(* frames; the LRU list has each page once; the file table has the files    *)
(* with pages in the pool and counts them, the page on its way included.    *)
PagesOf(f) == {i \in Frames : frames[i] # Free /\ FileOf[frames[i]] = f}

OnItsWay(f) ==
    IF mutex # Nobody /\ FileOf[job.page] = f /\ (At("frame") \/ job.back = "frame") THEN 1 ELSE 0

Bookkeeping ==
    /\ \A i \in Frames : frames[i] # Free =>
          /\ readers[i] = Cardinality({t \in Threads : pin[t][frames[i]] = i})
          /\ \A j \in Frames : frames[j] = frames[i] => j = i
    /\ \A i \in Frames : frames[i] # Free <=> i \in ToSet(lru)
    /\ Len(lru) = Cardinality(ToSet(lru))
    /\ \A f \in Files : nPages[f] = Cardinality(PagesOf(f)) + OnItsWay(f)
    /\ open = {f \in Files : nPages[f] > 0}
    /\ Cardinality(open) <= MaxFds

(* get_page returns what was last written to the page: a page that is not   *)
(* in the pool has all its changes in its file, and one that was changed    *)
(* in the pool is dirty when nobody has it.                                 *)
NothingLost ==
    /\ \A i \in Frames, p \in Pages \ Headers :
          frames[i] = p /\ readers[i] = 0 =>
             buf[i] = logged[p] /\ (~dirty[i] => disk[p] = logged[p])
    /\ \A p \in Pages \ Headers : ~Resident(p) => disk[p] = logged[p]
    /\ \A i \in Frames, p \in Headers :
          frames[i] = p /\ readers[i] = 0 => buf[i] = disk[p]

(* Write-ahead: eviction writes no change whose log item is not durable     *)
(* (clean_pool flushes the log first, poolmanager.cpp:144).                 *)
LogBeforeData ==
    [][At("sweep") => \A p \in Pages \ Headers :
          disk'[p] # disk[p] => disk'[p] <= durable[p]]_vars

(* No assertion of get_page or clean_pool fails, when the pool has room for *)
(* what the threads have pinned and the file table for one file more.       *)
Roomy ==
    /\ NFrames >= Cardinality(Threads) * MaxPins
    /\ MaxFds > Cardinality(Threads) * MaxPins

NeverExhausted == Roomy => ~At("failed")

(* get_page returns.                                                        *)
GetReturns == (mutex # Nobody) ~> (mutex = Nobody)

===============================================================================
