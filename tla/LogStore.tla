-------------------------------- MODULE LogStore -------------------------------
(***************************************************************************)
(* The log on disk: LogManager's log pages, the header that counts them    *)
(* and the backup page each of the two is written to first.  The process   *)
(* may crash between any two page writes, and in the middle of one: the    *)
(* page then fails its checksum.  The constructor opens the files again.   *)
(*                                                                         *)
(* LogManager::mutex makes add_log and flush_logs one sequence of steps;   *)
(* the steps are page writes (PoolManager::_flush_page: write and fsync).  *)
(*                                                                         *)
(* Abstracted: what a log item says, and the bytes of a page: a page that  *)
(* passes its checksum is an Image, one that does not (torn, or never      *)
(* written) is Bad.                                                        *)
(***************************************************************************)
EXTENDS Naturals, SequencesExt

CONSTANTS
    Bad,          \* the contents of a page that fail the checksum
    SlotsPerPage, \* N_LOG_ITEMS_PER_PAGE
    MaxItems,     \* bound: log items added
    MaxTorn       \* bound: page writes cut short by a crash

VARIABLES
    \* files
    header,       \* header file
    backup,       \* backup file
    pages,        \* pages[p]: page p of the log file
    \* memory of the process
    pc,           \* the page write or step that comes next
    headerPage,   \* header_page->n_log_pages
    headerValid,  \* header_valid of the constructor
    logPage,      \* the items in log_page
    logPageId,    \* the page it is a copy of
    everFlushed,  \* current_log_page_ever_flushed
    pending,      \* the items add_log has yet to put into a new page
    \* history
    added,        \* log items added so far
    torn,         \* page writes cut short so far
    acked         \* items there were when flush_logs last returned or the process stopped

disk == <<header, backup, pages>>
memory == <<headerPage, headerValid, logPage, logPageId, everFlushed, pending>>
history == <<added, torn, acked>>
vars == <<disk, pc, memory, history>>

ASSUME SlotsPerPageAssumption == SlotsPerPage \in Nat \ {0}
ASSUME BoundsAssumption == MaxItems \in Nat \ {0} /\ MaxTorn \in Nat

Items == 1..MaxItems
PageIds == 0..MaxItems

(* A page with a good checksum.  LogFilePage and LogHeaderFilePage have it  *)
(* in the same place, so a check accepts either kind; n is what the header  *)
(* has for n_log_pages and items what a log page has for log_items.        *)
Image == [items : Seq(Items), n : PageIds]
LogImage(s) == [items |-> s, n |-> 0]
HeaderImage(n) == [items |-> <<>>, n |-> n]

ASSUME BadAssumption == Bad \notin Image

Writing == {"logBackup", "logPage", "headerBackup", "header",
            "restoreHeader", "newBackup", "newHeader"}

Init ==
    /\ header = Bad /\ backup = Bad
    /\ pages = [p \in PageIds |-> Bad]
    /\ pc = "down"
    /\ headerPage = 0 /\ headerValid = TRUE
    /\ logPage = <<>> /\ logPageId = 0 /\ everFlushed = FALSE /\ pending = <<>>
    /\ added = 0 /\ torn = 0 /\ acked = 0

TypeOK ==
    /\ header \in Image \cup {Bad} /\ backup \in Image \cup {Bad}
    /\ pages \in [PageIds -> Image \cup {Bad}]
    /\ pc \in Writing \cup {"down", "openPage", "idle", "flushed", "failed"}
    /\ headerPage \in PageIds /\ headerValid \in BOOLEAN
    /\ logPage \in Seq(Items) /\ Len(logPage) <= SlotsPerPage
    /\ logPageId \in PageIds /\ everFlushed \in BOOLEAN
    /\ pending \in Seq(Items)
    /\ added \in 0..MaxItems /\ torn \in 0..MaxTorn /\ acked \in 0..MaxItems

-------------------------------------------------------------------------------
(* The log that the files hold: what the constructor and recover() would    *)
(* make of them now.                                                       *)

Valid(image) == image # Bad

ItemsOf(image) == IF Valid(image) THEN image.items ELSE <<>>

PagesBefore(n) == FlattenSeq([p \in 1..n |-> ItemsOf(pages[p - 1])])

HeaderOnDisk ==
    IF Valid(header) THEN header.n ELSE IF Valid(backup) THEN backup.n ELSE 0

LastPageOnDisk ==
    LET last == pages[HeaderOnDisk - 1]
    IN IF Valid(last) THEN last.items ELSE ItemsOf(backup)

LogOnDisk ==
    IF HeaderOnDisk = 0 THEN <<>> ELSE PagesBefore(HeaderOnDisk - 1) \o LastPageOnDisk

Up == pc \in {"idle", "flushed", "logBackup", "logPage", "headerBackup", "header"}

Log == IF Up THEN PagesBefore(logPageId) \o logPage ELSE LogOnDisk

-------------------------------------------------------------------------------
(* add_log and flush_logs *)

(* add_log_item_to_page with a free slot.                                   *)
AddLog ==
    /\ pc = "idle" /\ added < MaxItems
    /\ Len(logPage) < SlotsPerPage
    /\ added' = added + 1
    /\ logPage' = Append(logPage, added')
    /\ UNCHANGED <<disk, pc, headerPage, headerValid, logPageId, everFlushed, pending,
                   torn, acked>>

(* add_log_item_to_page without one: _flush_logs first.                     *)
AddLogFull ==
    /\ pc = "idle" /\ added < MaxItems
    /\ Len(logPage) = SlotsPerPage
    /\ added' = added + 1
    /\ pending' = <<added'>>
    /\ pc' = "logBackup"
    /\ UNCHANGED <<disk, headerPage, headerValid, logPage, logPageId, everFlushed, torn, acked>>

FlushLogs ==
    /\ pc = "idle"
    /\ pc' = "logBackup"
    /\ UNCHANGED <<disk, memory, history>>

(* Slip: the backup is left for later.                                      *)
WriteLogBackupSkipped ==
    /\ pc = "logBackup"
    /\ pc' = "logPage"
    /\ UNCHANGED <<disk, memory, history>>

(* flush_log_page_with_backup.                                              *)
WriteLogBackup ==
    /\ pc = "logBackup"
    /\ backup' = LogImage(logPage)
    /\ pc' = "logPage"
    /\ UNCHANGED <<header, pages, memory, history>>

(* Slip: the flag that the page is in the header is not looked at.          *)
WriteLogPageUncounted ==
    /\ pc = "logPage"
    /\ pages' = [pages EXCEPT ![logPageId] = LogImage(logPage)]
    /\ pc' = "flushed"
    /\ UNCHANGED <<header, backup, memory, history>>

(* The first time the page is flushed the header has to count it.           *)
WriteLogPage ==
    /\ pc = "logPage"
    /\ pages' = [pages EXCEPT ![logPageId] = LogImage(logPage)]
    /\ \/ /\ everFlushed
          /\ pc' = "flushed"
          /\ UNCHANGED <<headerPage, everFlushed>>
       \/ /\ ~everFlushed
          /\ pc' = "headerBackup"
          /\ headerPage' = headerPage + 1
          /\ everFlushed' = TRUE
    /\ UNCHANGED <<header, backup, headerValid, logPage, logPageId, pending, history>>

(* flush_header_page_with_backup.                                           *)
WriteHeaderBackup ==
    /\ pc = "headerBackup"
    /\ backup' = HeaderImage(headerPage)
    /\ pc' = "header"
    /\ UNCHANGED <<header, pages, memory, history>>

WriteHeader ==
    /\ pc = "header"
    /\ header' = HeaderImage(headerPage)
    /\ pc' = "flushed"
    /\ UNCHANGED <<backup, pages, memory, history>>

(* The flush is done: add_log goes on in a new page, flush_logs returns.    *)
FlushDone ==
    /\ pc = "flushed"
    /\ \/ /\ pending # <<>>
          /\ logPage' = pending
          /\ logPageId' = headerPage
          /\ everFlushed' = FALSE
          /\ pending' = <<>>
          /\ UNCHANGED acked
       \/ /\ pending = <<>>
          /\ acked' = Len(Log)
          /\ UNCHANGED <<logPage, logPageId, everFlushed, pending>>
    /\ pc' = "idle"
    /\ UNCHANGED <<disk, headerPage, headerValid, added, torn>>

-------------------------------------------------------------------------------
(* The constructor *)

OpenHeader ==
    /\ pc = "down"
    /\ headerValid' = Valid(header)
    /\ \/ Valid(header) /\ headerPage' = header.n /\ pc' = "openPage"
       \/ ~Valid(header) /\ Valid(backup) /\ headerPage' = backup.n /\ pc' = "restoreHeader"
       \/ ~Valid(header) /\ ~Valid(backup) /\ headerPage' = 0 /\ pc' = "newBackup"
    /\ UNCHANGED <<disk, logPage, logPageId, everFlushed, pending, history>>

RestoreHeader ==
    /\ pc = "restoreHeader"
    /\ header' = backup
    /\ pc' = "openPage"
    /\ UNCHANGED <<backup, pages, memory, history>>

(* Neither is valid: the log is new.  header_valid stays true.              *)
NewBackup ==
    /\ pc = "newBackup"
    /\ backup' = HeaderImage(0)
    /\ headerValid' = TRUE
    /\ pc' = "newHeader"
    /\ UNCHANGED <<header, pages, headerPage, logPage, logPageId, everFlushed, pending, history>>

NewHeader ==
    /\ pc = "newHeader"
    /\ header' = HeaderImage(0)
    /\ pc' = "openPage"
    /\ UNCHANGED <<backup, pages, memory, history>>

OpenAt(p, s, flushed) ==
    /\ logPageId' = p
    /\ logPage' = s
    /\ everFlushed' = flushed
    /\ pc' = "idle"

(* The last page the header counts; if it fails its checksum, the backup    *)
(* takes its place, in memory only.                                        *)
OpenLogPage ==
    /\ pc = "openPage"
    /\ LET last == headerPage - 1
       IN \/ headerPage = 0 /\ OpenAt(0, <<>>, FALSE)
          \/ headerPage > 0 /\ Valid(pages[last]) /\ OpenAt(last, pages[last].items, TRUE)
          \/ /\ headerPage > 0 /\ ~Valid(pages[last]) /\ headerValid /\ Valid(backup)
             /\ OpenAt(last, backup.items, TRUE)
          \/ /\ headerPage > 0 /\ ~Valid(pages[last]) /\ ~(headerValid /\ Valid(backup))
             /\ pc' = "failed"
             /\ UNCHANGED <<logPage, logPageId, everFlushed>>
    /\ UNCHANGED <<disk, headerPage, headerValid, pending, history>>

-------------------------------------------------------------------------------
(* Crashes *)

Forget ==
    /\ pc' = "down"
    /\ headerPage' = 0 /\ headerValid' = TRUE
    /\ logPage' = <<>> /\ logPageId' = 0 /\ everFlushed' = FALSE /\ pending' = <<>>
    /\ acked' = Len(LogOnDisk')

Crash ==
    /\ pc \notin {"down", "failed"}
    /\ UNCHANGED <<disk, added, torn>>
    /\ Forget

CrashWriting ==
    /\ torn < MaxTorn
    /\ \/ /\ pc \in {"logBackup", "headerBackup", "newBackup"}
          /\ backup' = Bad
          /\ UNCHANGED <<header, pages>>
       \/ /\ pc \in {"header", "restoreHeader", "newHeader"}
          /\ header' = Bad
          /\ UNCHANGED <<backup, pages>>
       \/ /\ pc = "logPage"
          /\ pages' = [pages EXCEPT ![logPageId] = Bad]
          /\ UNCHANGED <<header, backup>>
    /\ torn' = torn + 1
    /\ Forget
    /\ UNCHANGED added

-------------------------------------------------------------------------------
Step ==
    \/ AddLog \/ AddLogFull \/ FlushLogs \/ FlushDone
    \/ WriteLogBackup \/ WriteLogPage \/ WriteHeaderBackup \/ WriteHeader
    \/ OpenHeader \/ RestoreHeader \/ NewBackup \/ NewHeader \/ OpenLogPage
    \/ Crash

Next == Step \/ CrashWriting

Spec == Init /\ [][Next]_vars

(* The last log page is torn in its file: it was restored in memory only    *)
(* (logmanager.cpp:51), and the flush that comes next writes over its        *)
(* backup, the one good copy, first.                                       *)
LastPageGood == HeaderOnDisk > 0 => Valid(pages[HeaderOnDisk - 1])
OnlyCopy == pc = "logBackup" /\ ~LastPageGood

(* Disks that do not tear this one write.  Every other page write may be    *)
(* cut short, also that of the log page itself, over and over.             *)
NextSparing == Step \/ (~OnlyCopy /\ CrashWriting)

SparingSpec == Init /\ [][NextSparing]_vars

-------------------------------------------------------------------------------
(* Properties *)

(* What flush_logs has written survives every crash, also one in the middle *)
(* of a page write, and so does what an earlier crash has left: the backup  *)
(* page is written before each page.  Of SparingSpec only: a crash in the   *)
(* middle of writing the backup that is the only copy loses the log.        *)
Durable == INSTANCE DurableLog WITH log <- Log, durable <- acked

ImplementsDurableLog == Durable!Spec

(* The last log page or its backup is good when the log is opened again     *)
(* (assert, logmanager.cpp:49-50).  True of SparingSpec.  Of Spec it is not: *)
(* a crash that tears the last log page and one that tears its backup in     *)
(* the next flush leave no good copy.                                       *)
OpensAgain == pc # "failed"

===============================================================================
