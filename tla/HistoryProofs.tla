----------------------------- MODULE HistoryProofs -----------------------------
(***************************************************************************)
(* HistoryRestored of Recovery, for every number of workers, keys, pages,    *)
(* records and crashes: whatever was written when, torn or lost, a program   *)
(* that is up has exactly the versions that its log tells of.                *)
(*                                                                         *)
(* HistoryInv says of each place where a version may be what is known of it: *)
(* the log (ChangesOK, VersionsOK), the pages of a program that is up        *)
(* (PagesUp: they show all of the log), the files (DiskOK: they need no more *)
(* than redo_pass does), the part of the log that is not in its file         *)
(* (Lasting), the headers (PagesCounted), and workers amid a transaction     *)
(* (WorkersWrote, CommittingNow, ChangesUnended).                           *)
(***************************************************************************)
EXTENDS RecoveryProofs

(* The changes of a log.                                                    *)
DataTypes == {"DATA_SLOT_LOG", "DATA_RECORD_INSERT_LOG", "DATA_RECORD_UPDATE_LOG"}
IndexTypes == {"INDEX_SLOT_LOG", "INDEX_ITEM_INSERT_LOG", "INDEX_ITEM_UPDATE_LOG"}
SlotTypes == {"DATA_SLOT_LOG", "INDEX_SLOT_LOG"}
ChangeTypes == DataTypes \cup IndexTypes

ChangesOf(l) == {i \in 1 .. Len(l) : l[i].type \in ChangeTypes}
SlotsOf(l) == {i \in 1 .. Len(l) : l[i].type \in SlotTypes}
LinksOf(l) == {i \in 1 .. Len(l) : l[i].type \in IndexItems}

SameCell(x, y) == x.page = y.page /\ x.offset = y.offset

(* The last change, up to item k, of what it changes.                       *)
Latest(l, i, k) ==
    /\ i \in ChangesOf(l) /\ i <= k
    /\ \A j \in ChangesOf(l) : i < j /\ j <= k => ~SameCell(l[i], l[j])

ChangeTyped(x) ==
    /\ x.type \in DataTypes => x.page \in DataPages
    /\ x.type \in IndexTypes => \E h \in Hashes : x.page = IndexPage(h)
    /\ x.offset \in Offsets(x.page)
    /\ (x.type \in SlotTypes <=> x.offset = Bitmap)
    /\ x.type \in SlotTypes => x.new \subseteq Offsets(x.page) \ {Bitmap}
    /\ x.type \in IndexItems => x.new.key \in Keys /\ x.page = IndexPage(hashOf[x.new.key])

(* Bitmaps only grow;                                                       *)
BitmapsGrow(l) ==
    \A i, j \in SlotsOf(l) : i < j /\ l[i].page = l[j].page => l[i].new \subseteq l[j].new

(* a slot is taken before something is in it,                               *)
SlotTaken(l, i) ==
    \E j \in SlotsOf(l) : j < i /\ l[j].page = l[i].page /\ l[i].offset \in l[j].new

(* by the first insert of a record;                                         *)
FirstHere(l, i) == \A j \in ChangesOf(l) : j < i => ~SameCell(l[i], l[j])

(* an index item has one key, and a key one index item;                     *)
OneKey(l) == \A i, j \in LinksOf(l) : l[i].new.key = l[j].new.key <=> SameCell(l[i], l[j])

(* taken slots of an index page have index items, but for the last to come; *)
IndexFilled(l, j) ==
    \A o \in l[j].new :
        \E i \in LinksOf(l) : i <= j + 1 /\ l[i].page = l[j].page /\ l[i].offset = o

(* who changes a page logs something to undo,                               *)
ToUndo(l, i) == \E j \in 1 .. Len(l) : j <= i /\ l[j].type \in NeedUndo /\ l[j].tx = l[i].tx

(* and at a checkpoint all who changed pages have ended.                    *)
EndedBefore(l, c, t) == \E j \in 1 .. Len(l) : j < c /\ l[j].type \in Ends /\ l[j].tx = t

ChangesOK(l) ==
    /\ \A i \in ChangesOf(l) :
        /\ ChangeTyped(l[i])
        /\ l[i].type \notin SlotTypes => SlotTaken(l, i)
        /\ l[i].type = "DATA_RECORD_INSERT_LOG" => FirstHere(l, i)
        /\ l[i].type = "INDEX_SLOT_LOG" /\ i < Len(l) => IndexFilled(l, i)
        /\ ToUndo(l, i)
        /\ \A c \in i .. Len(l) : l[c].type = "CHECKPOINT_LOG" => EndedBefore(l, c, l[i].tx)
    /\ BitmapsGrow(l)
    /\ OneKey(l)

(* The version that the next of a key will point at, of those up to item m.  *)
LastLink(l, k, j, m) ==
    /\ j \in LinksOf(l) /\ j <= m /\ l[j].new.key = k
    /\ \A i \in LinksOf(l) : j < i /\ i <= m => l[i].new.key # k
NoLink(l, k, m) == \A i \in LinksOf(l) : i <= m => l[i].new.key # k
Follows(l, k, m, place) ==
    \/ NoLink(l, k, m) /\ place = NoPlace
    \/ \E j \in 1 .. m : LastLink(l, k, j, m) /\ place = l[j].new.last

InCell(x, k, place) == x.page = DataPage(hashOf[k], place[1]) /\ x.offset = place[2]

Record(t, ts, prev) == [tx |-> t, ts |-> ts, prev |-> prev]

StampOf(l, i, u) ==
    /\ l[u].type = "DATA_RECORD_UPDATE_LOG" /\ l[u].tx = l[i].tx
    /\ Latest(l, u, Len(l))
    /\ InCell(l[u], l[i].new.key, l[i].new.last)
    /\ l[u].new = Record(l[i].tx, l[u].new.ts, l[u].new.prev)
    /\ l[u].new.ts \in Nat
    /\ \A c \in 1 .. Len(l) : l[c].type = "COMMIT_LOG" /\ l[c].tx = l[i].tx => l[c].maxTs = l[u].new.ts
    /\ Follows(l, l[i].new.key, i - 1, l[u].new.prev)

Version(l, i) ==
    /\ l[i].new.last[1] \in 0 .. MaxPages - 1 /\ l[i].new.last[2] \in 1 .. Slots
    /\ \E u \in 1 .. i - 1 : StampOf(l, i, u)

VersionsOK(l) == \A i \in LinksOf(l) : Version(l, i)

(* Pages that show all of a log.                                             *)
Holds(m, x) == m[x.page][x.offset] = x.new

CellsShown(l, m) ==
    \A i \in ChangesOf(l) : l[i].type \notin SlotTypes /\ Latest(l, i, Len(l)) => Holds(m, l[i])
BitsShown(l, m) == \A i \in SlotsOf(l) : l[i].new \subseteq m[l[i].page][Bitmap]
BitsTyped(m) == \A p \in Pages : m[p][Bitmap] \subseteq Offsets(p) \ {Bitmap}
LinkedAt(l, p, o, k) == \E i \in LinksOf(l) : i <= k /\ l[i].page = p /\ l[i].offset = o
IndexShown(l, m, k) ==
    \A h \in Hashes : \A o \in m[IndexPage(h)][Bitmap] : LinkedAt(l, IndexPage(h), o, k)

Shown(l, m) == CellsShown(l, m) /\ BitsShown(l, m) /\ BitsTyped(m) /\ IndexShown(l, m, Len(l))

NoLoneSlot(l) == Len(l) > 0 => l[Len(l)].type # "INDEX_SLOT_LOG"

PagesUp == IF Up THEN Shown(log, mem) /\ NoLoneSlot(log) ELSE pc = "down" => mem = disk

(* Files that need no more than what is after the last checkpoint.           *)
Checkpointed(l, i, m) == \E c \in i .. m : l[c].type = "CHECKPOINT_LOG"

DiskCells(l, e, b) ==
    \A m \in b .. Len(l), i \in ChangesOf(l) :
        l[i].type \notin SlotTypes /\ Latest(l, i, m) /\ Checkpointed(l, i, m) => Holds(e, l[i])
DiskBits(l, e) ==
    \A i \in SlotsOf(l) :
        Checkpointed(l, i, Len(l)) => l[i].new \subseteq e[l[i].page][Bitmap]

DiskShown(l, e, b) ==
    DiskCells(l, e, b) /\ DiskBits(l, e) /\ BitsTyped(e) /\ IndexShown(l, e, b)

DiskOK == DiskShown(log, disk, durable) /\ (cpc = "log" => disk = mem)

(* Only a commit has stamps and links that are not in the log's file.        *)
LastingTypes == IndexItems \cup {"DATA_RECORD_UPDATE_LOG"}
Lasting ==
    \A i \in DOMAIN log : i > durable /\ log[i].type \in LastingTypes =>
        \E w \in Workers : Committing(w) /\ wpc[w] # "unlock" /\ items[w] # <<>>

(* Page counts.                                                              *)
CountsIt(v, h, a, t) ==
    /\ Growing(v) /\ ~Committing(v) /\ HashAt(v) = h /\ Current(v).page = a /\ tx[v] = t

PageCounted(h, a, t) ==
    \/ a < ReadCounts(h).data
    \/ IF Up THEN \E v \in Workers : CountsIt(v, h, a, t) ELSE Unended(t)

DataCounted ==
    \A i \in ChangesOf(log), h \in Hashes, a \in 0 .. MaxPages - 1 :
        log[i].page = DataPage(h, a) => PageCounted(h, a, log[i].tx)
IndexCounted ==
    \A i \in ChangesOf(log), h \in Hashes :
        log[i].page = IndexPage(h) => ReadCounts(h).index = 1
CountingOK(w) ==
    /\ At(w, "header") => backup[HashAt(w)] = Counted(w)
    /\ Growing(w) /\ ~Committing(w) => Current(w).page = header[HashAt(w)].data

PagesCounted == DataCounted /\ IndexCounted /\ \A w \in Workers : CountingOK(w)

(* What workers have written and not yet linked.                             *)
IsStamped(w, i) == Committing(w) /\ i = n[w] /\ wpc[w] \in {"link", "index", "backup", "header"}
TypeNow(w, i) == IF IsStamped(w, i) THEN "DATA_RECORD_UPDATE_LOG" ELSE "DATA_RECORD_INSERT_LOG"
TsNow(w, i) == IF IsStamped(w, i) THEN maxTs + 1 ELSE Uncommitted

Written(l, y, t, type, ts, u) ==
    /\ l[u].type = type /\ l[u].tx = t
    /\ Latest(l, u, Len(l))
    /\ InCell(l[u], y.key, <<y.page, y.slot>>)
    /\ l[u].new = Record(t, ts, l[u].new.prev)
    /\ Follows(l, y.key, Len(l), l[u].new.prev)

ItemWritten(l, y, t, type, ts) ==
    /\ \E u \in 1 .. Len(l) : Written(l, y, t, type, ts, u)
    /\ y.first <=> NoLink(l, y.key, Len(l))

ItemsWritten ==
    \A w \in Workers : \A i \in 1 .. Len(items[w]) :
        i >= n[w] => ItemWritten(log, items[w][i], tx[w], TypeNow(w, i), TsNow(w, i))

FirstsKnown ==
    \A w \in Workers :
        /\ At(w, "link") => ~Current(w).first
        /\ At(w, "index") \/ (Growing(w) /\ Committing(w)) => Current(w).first

PlaceOf(x) == <<hashOf[x.key], x.page, x.slot>>

ItemsApart ==
    /\ \A w \in Workers : \A i, j \in 1 .. Len(items[w]) :
        i # j => PlaceOf(items[w][i]) # PlaceOf(items[w][j])
    /\ \A v, w \in Workers : \A i \in 1 .. Len(items[v]), j \in 1 .. Len(items[w]) :
        items[v][i].key = items[w][j].key => v = w /\ i = j

WorkersWrote == Up => ItemsWritten /\ FirstsKnown /\ ItemsApart

IdleEmpty == \A w \in Workers : At(w, "idle") => items[w] = <<>>

(* Versions of a transaction that commits now.                               *)
CommittingNow ==
    Up => \A w \in Workers, i \in LinksOf(log), u \in 1 .. Len(log) :
        Committing(w) /\ log[i].tx = tx[w] /\ StampOf(log, i, u) => log[u].new.ts = maxTs + 1

(* Whose changes have not ended.                                             *)
ChangesUnended ==
    Up => \A i \in ChangesOf(log) :
        (\E w \in Workers : wpc[w] # "idle" /\ tx[w] = log[i].tx) \/ ~Unended(log[i].tx)

HistoryInv ==
    /\ ChangesOK(log) /\ VersionsOK(log)
    /\ PagesUp /\ DiskOK /\ Lasting /\ PagesCounted
    /\ WorkersWrote /\ IdleEmpty /\ CommittingNow /\ ChangesUnended

-------------------------------------------------------------------------------
(* A log that is cut off, and one with an item more.                         *)
IsCut(l, m) == Len(l) \in Nat /\ Len(m) \in 0 .. Len(l) /\ \A i \in 1 .. Len(m) : m[i] = l[i]

(* What a log and one cut off from it have in common.                        *)
LEMMA CutFacts ==
    ASSUME NEW l, NEW m, IsCut(l, m)
    PROVE  /\ ChangesOf(m) = {i \in ChangesOf(l) : i <= Len(m)}
           /\ SlotsOf(m) = {i \in SlotsOf(l) : i <= Len(m)}
           /\ LinksOf(m) = {i \in LinksOf(l) : i <= Len(m)}
           /\ \A i \in 1 .. Len(m) : i \in 1 .. Len(l) /\ m[i] = l[i]
           /\ Len(m) <= Len(l) /\ Len(m) \in Nat /\ Len(l) \in Nat
BY DEF IsCut, ChangesOf, SlotsOf, LinksOf

LEMMA CutLatest ==
    ASSUME NEW l, NEW m, IsCut(l, m), NEW i, NEW k \in 0 .. Len(m)
    PROVE  Latest(m, i, k) <=> Latest(l, i, k)
<1>1. \A j : j \in ChangesOf(m) => j \in ChangesOf(l) /\ j \in Nat /\ m[j] = l[j]
  BY CutFacts DEF ChangesOf
<1>2. \A j : j \in ChangesOf(l) /\ j <= k => j \in ChangesOf(m)
  <2>1. \A j \in ChangesOf(l) : j \in Nat
    BY DEF ChangesOf
  <2>. QED  BY <2>1, CutFacts
<1>. QED  BY <1>1, <1>2 DEF Latest

(* A cut takes nothing away that the rest needs:                             *)
LEMMA ChangesOKCut ==
    ASSUME NEW l, NEW m, IsCut(l, m), ChangesOK(l)
    PROVE  ChangesOK(m)
<1>1. /\ ChangesOf(m) = {i \in ChangesOf(l) : i <= Len(m)}
      /\ SlotsOf(m) = {i \in SlotsOf(l) : i <= Len(m)}
      /\ LinksOf(m) = {i \in LinksOf(l) : i <= Len(m)}
      /\ \A i \in 1 .. Len(m) : i \in 1 .. Len(l) /\ m[i] = l[i]
      /\ Len(m) <= Len(l) /\ Len(m) \in Nat /\ Len(l) \in Nat
  BY CutFacts
<1>2. \A i : i \in ChangesOf(l) \cup SlotsOf(l) \cup LinksOf(l) => i \in 1 .. Len(l)
  BY DEF ChangesOf, SlotsOf, LinksOf
<1>3. BitmapsGrow(m) /\ OneKey(m)
  BY <1>1, <1>2 DEF ChangesOK, BitmapsGrow, OneKey
<1>. SUFFICES ASSUME NEW i \in ChangesOf(m)
              PROVE  /\ ChangeTyped(m[i])
                     /\ m[i].type \notin SlotTypes => SlotTaken(m, i)
                     /\ m[i].type = "DATA_RECORD_INSERT_LOG" => FirstHere(m, i)
                     /\ m[i].type = "INDEX_SLOT_LOG" /\ i < Len(m) => IndexFilled(m, i)
                     /\ ToUndo(m, i)
                     /\ \A c \in i .. Len(m) :
                          m[c].type = "CHECKPOINT_LOG" => EndedBefore(m, c, m[i].tx)
  BY <1>3 DEF ChangesOK
<1>4. i \in ChangesOf(l) /\ i \in 1 .. Len(m) /\ i \in 1 .. Len(l) /\ i <= Len(m) /\ m[i] = l[i]
  BY <1>1, <1>2
<1>5. m[i].type \notin SlotTypes => SlotTaken(m, i)
  <2>1. ASSUME m[i].type \notin SlotTypes PROVE SlotTaken(m, i)
    <3>1. PICK j \in SlotsOf(l) : j < i /\ l[j].page = l[i].page /\ l[i].offset \in l[j].new
      BY <1>4, <2>1 DEF ChangesOK, SlotTaken
    <3>2. j \in SlotsOf(m) /\ m[j] = l[j]
      BY <1>1, <1>2, <1>4, <3>1
    <3>. QED  BY <1>4, <3>1, <3>2 DEF SlotTaken
  <2>. QED  BY <2>1
<1>6. m[i].type = "DATA_RECORD_INSERT_LOG" => FirstHere(m, i)
  <2>1. \A j \in ChangesOf(m) : j \in ChangesOf(l) /\ m[j] = l[j]
    BY <1>1, <1>2
  <2>. QED  BY <1>4, <2>1 DEF ChangesOK, FirstHere
<1>7. m[i].type = "INDEX_SLOT_LOG" /\ i < Len(m) => IndexFilled(m, i)
  <2>1. ASSUME m[i].type = "INDEX_SLOT_LOG", i < Len(m) PROVE IndexFilled(m, i)
    <3>0. l[i].type = "INDEX_SLOT_LOG" /\ i < Len(l)
      BY <1>1, <1>4, <2>1
    <3>1. IndexFilled(l, i)
      BY <1>4, <3>0 DEF ChangesOK
    <3>2. \A j \in LinksOf(l) : j <= i + 1 => j \in LinksOf(m) /\ m[j] = l[j]
      BY <1>1, <1>2, <1>4, <2>1
    <3>. QED  BY <1>4, <3>1, <3>2 DEF IndexFilled
  <2>. QED  BY <2>1
<1>8. ToUndo(m, i)
  <2>1. PICK j \in 1 .. Len(l) : j <= i /\ l[j].type \in NeedUndo /\ l[j].tx = l[i].tx
    BY <1>4 DEF ChangesOK, ToUndo
  <2>2. j \in 1 .. Len(m) /\ m[j] = l[j]
    BY <1>1, <1>4, <2>1
  <2>. QED  BY <1>4, <2>1, <2>2 DEF ToUndo
<1>9. ASSUME NEW c \in i .. Len(m), m[c].type = "CHECKPOINT_LOG"
      PROVE  EndedBefore(m, c, m[i].tx)
  <2>0. c \in i .. Len(l) /\ m[c] = l[c]
    BY <1>1, <1>4
  <2>1. EndedBefore(l, c, l[i].tx)
    BY <1>4, <1>9, <2>0 DEF ChangesOK
  <2>2. PICK j \in 1 .. Len(l) : j < c /\ l[j].type \in Ends /\ l[j].tx = l[i].tx
    BY <2>1 DEF EndedBefore
  <2>3. j \in 1 .. Len(m) /\ m[j] = l[j]
    BY <1>1, <1>4, <2>2
  <2>. QED  BY <1>4, <2>2, <2>3 DEF EndedBefore
<1>10. ChangeTyped(m[i])
  BY <1>4 DEF ChangesOK
<1>. QED  BY <1>5, <1>6, <1>7, <1>8, <1>9, <1>10

LEMMA CutFollows ==
    ASSUME NEW l, NEW m, IsCut(l, m), NEW k, NEW j \in 0 .. Len(m), NEW place
    PROVE  Follows(m, k, j, place) <=> Follows(l, k, j, place)
<1>1. \A i : i \in LinksOf(m) => i \in LinksOf(l) /\ i \in Nat /\ m[i] = l[i]
  BY CutFacts DEF LinksOf
<1>2. \A i : i \in LinksOf(l) /\ i <= j => i \in LinksOf(m)
  <2>1. \A i \in LinksOf(l) : i \in Nat
    BY DEF LinksOf
  <2>. QED  BY <2>1, CutFacts
<1>3. NoLink(m, k, j) <=> NoLink(l, k, j)
  BY <1>1, <1>2 DEF NoLink
<1>4. \A i : LastLink(m, k, i, j) <=> LastLink(l, k, i, j)
  BY <1>1, <1>2 DEF LastLink
<1>5. \A i : LastLink(m, k, i, j) => m[i] = l[i]
  BY <1>1 DEF LastLink
<1>. QED  BY <1>3, <1>4, <1>5 DEF Follows

(* a version comes after all that it is made of.                             *)
LEMMA VersionsOKCut ==
    ASSUME NEW l, NEW m, IsCut(l, m), VersionsOK(l)
    PROVE  VersionsOK(m)
<1>1. /\ ChangesOf(m) = {i \in ChangesOf(l) : i <= Len(m)}
      /\ LinksOf(m) = {i \in LinksOf(l) : i <= Len(m)}
      /\ \A i \in 1 .. Len(m) : i \in 1 .. Len(l) /\ m[i] = l[i]
      /\ Len(m) <= Len(l) /\ Len(m) \in Nat /\ Len(l) \in Nat
  BY CutFacts
<1>. SUFFICES ASSUME NEW i \in LinksOf(m) PROVE Version(m, i)
  BY DEF VersionsOK
<1>2. i \in LinksOf(l) /\ i \in 1 .. Len(m) /\ m[i] = l[i] /\ i - 1 \in 0 .. Len(m)
  BY <1>1 DEF LinksOf
<1>3. PICK u \in 1 .. i - 1 : StampOf(l, i, u)
  BY <1>2 DEF VersionsOK, Version
<1>4. u \in 1 .. Len(m) /\ m[u] = l[u]
  BY <1>1, <1>2
<1>5. Latest(l, u, Len(m))
  <2>1. Latest(l, u, Len(l))
    BY <1>3 DEF StampOf
  <2>2. \A j \in ChangesOf(l) : j \in Nat
    BY DEF ChangesOf
  <2>. QED  BY <1>1, <1>4, <2>1, <2>2 DEF Latest
<1>6. Latest(m, u, Len(m))
  <2>1. Len(m) \in 0 .. Len(m)
    BY <1>1
  <2>. QED  BY <1>5, <2>1, CutLatest
<1>7. Follows(m, l[i].new.key, i - 1, l[u].new.prev)
  BY <1>2, <1>3, CutFollows DEF StampOf
<1>8. StampOf(m, i, u)
  BY <1>1, <1>2, <1>3, <1>4, <1>6, <1>7 DEF StampOf
<1>. QED  BY <1>2, <1>8 DEF VersionsOK, Version

IsGrown(l, m, x) ==
    /\ Len(l) \in Nat /\ Len(m) = Len(l) + 1
    /\ \A i \in 1 .. Len(l) : m[i] = l[i]
    /\ m[Len(m)] = x

LEMMA GrownCut == ASSUME NEW l, NEW m, NEW x, IsGrown(l, m, x) PROVE IsCut(m, l)
BY DEF IsGrown, IsCut

GrowsTo(l, m, x, k) ==
    /\ k = Len(m)
    /\ Len(l) \in Nat /\ k \in Nat /\ Len(l) < k /\ Len(l) = k - 1 /\ m[k] = x
    /\ \A i \in 1 .. Len(l) : i \in 1 .. k /\ i < k /\ m[i] = l[i]
    /\ \A i : i \in 1 .. k <=> i \in 1 .. Len(l) \/ i = k
    /\ \A i : i \in ChangesOf(m) <=> i \in ChangesOf(l) \/ (i = k /\ x.type \in ChangeTypes)
    /\ \A i : i \in SlotsOf(m) <=> i \in SlotsOf(l) \/ (i = k /\ x.type \in SlotTypes)
    /\ \A i : i \in LinksOf(m) <=> i \in LinksOf(l) \/ (i = k /\ x.type \in IndexItems)
    /\ \A i : i \in ChangesOf(l) \cup SlotsOf(l) \cup LinksOf(l) => i \in 1 .. Len(l)

(* The items of a log with one more, by kind.                                *)
LEMMA GrowFacts ==
    ASSUME NEW l, NEW m, NEW x, IsGrown(l, m, x)
    PROVE  \E k : GrowsTo(l, m, x, k)
<1>. PICK k : k = Len(m)
  OBVIOUS
<1>1. Len(l) \in Nat /\ k \in Nat /\ Len(l) < k /\ Len(l) = k - 1 /\ m[k] = x
  BY DEF IsGrown
<1>2. \A i \in 1 .. Len(l) : i \in 1 .. k /\ i < k /\ m[i] = l[i]
  BY <1>1 DEF IsGrown
<1>3. \A i : i \in 1 .. k <=> i \in 1 .. Len(l) \/ i = k
  BY <1>1
<1>4. GrowsTo(l, m, x, k)
  BY <1>1, <1>2, <1>3 DEF GrowsTo, ChangesOf, SlotsOf, LinksOf
<1>. QED  BY <1>4

(* An item that fits on a log: a change,                                     *)
ChangeFits(l, x) ==
    /\ ChangeTyped(x)
    /\ x.type \notin SlotTypes =>
        \E j \in SlotsOf(l) : l[j].page = x.page /\ x.offset \in l[j].new
    /\ x.type = "DATA_RECORD_INSERT_LOG" => \A j \in ChangesOf(l) : ~SameCell(x, l[j])
    /\ x.type \in NeedUndo \/ \E j \in 1 .. Len(l) : l[j].type \in NeedUndo /\ l[j].tx = x.tx
    /\ x.type \in SlotTypes => \A i \in SlotsOf(l) : l[i].page = x.page => l[i].new \subseteq x.new
    /\ x.type \in IndexItems =>
        \A j \in LinksOf(l) : l[j].new.key = x.new.key <=> SameCell(x, l[j])

(* or a checkpoint; and what comes after an index slot fills it.             *)
ItemFits(l, x) ==
    /\ x.type \in ChangeTypes => ChangeFits(l, x)
    /\ x.type = "CHECKPOINT_LOG" =>
        \A i \in ChangesOf(l) : ~(\A j \in 1 .. Len(l) : l[j].type \in Ends => l[j].tx # l[i].tx)
    /\ ~NoLoneSlot(l) =>
        \A o \in l[Len(l)].new :
            \/ \E i \in LinksOf(l) : l[i].page = l[Len(l)].page /\ l[i].offset = o
            \/ x.type \in IndexItems /\ x.page = l[Len(l)].page /\ x.offset = o

LEMMA TypesFacts ==
    /\ IndexItems \subseteq ChangeTypes /\ SlotTypes \subseteq ChangeTypes
    /\ NeedUndo \subseteq ChangeTypes
    /\ \A t \in ChangeTypes : t \notin NoChange
    /\ \A t \in LogTypes : t \in NoChange \/ t \in ChangeTypes
    /\ IndexItems \cap SlotTypes = {}
BY DEF IndexItems, SlotTypes, ChangeTypes, DataTypes, IndexTypes, NeedUndo, NoChange, Ends, LogTypes

(* The changes of a log with an item more that fits.                         *)
LEMMA ChangesOKGrows ==
    ASSUME NEW l, NEW m, NEW x, IsGrown(l, m, x), ChangesOK(l), ItemFits(l, x)
    PROVE  ChangesOK(m)
<1>. PICK k : GrowsTo(l, m, x, k)
  BY GrowFacts
<1>1. /\ k = Len(m)
      /\ Len(l) \in Nat /\ k \in Nat /\ Len(l) < k /\ Len(l) = k - 1 /\ m[k] = x
      /\ \A i \in 1 .. Len(l) : i \in 1 .. k /\ i < k /\ m[i] = l[i]
      /\ \A i : i \in 1 .. k <=> i \in 1 .. Len(l) \/ i = k
      /\ \A i : i \in ChangesOf(m) <=> i \in ChangesOf(l) \/ (i = k /\ x.type \in ChangeTypes)
      /\ \A i : i \in SlotsOf(m) <=> i \in SlotsOf(l) \/ (i = k /\ x.type \in SlotTypes)
      /\ \A i : i \in LinksOf(m) <=> i \in LinksOf(l) \/ (i = k /\ x.type \in IndexItems)
      /\ \A i : i \in ChangesOf(l) \cup SlotsOf(l) \cup LinksOf(l) => i \in 1 .. Len(l)
  BY DEF GrowsTo
<1>2. BitmapsGrow(m)
  <2>. SUFFICES ASSUME NEW i \in SlotsOf(m), NEW j \in SlotsOf(m), i < j, m[i].page = m[j].page
                PROVE  m[i].new \subseteq m[j].new
    BY DEF BitmapsGrow
  <2>1. i \in SlotsOf(l) /\ m[i] = l[i]
    <3>1. i # k
      <4>1. j \in 1 .. k
        BY <1>1
      <4>. QED  BY <1>1, <4>1
    <3>. QED  BY <1>1, <3>1
  <2>2. CASE j = k
    BY <1>1, <2>1, <2>2, TypesFacts DEF ItemFits, ChangeFits
  <2>3. CASE j # k
    BY <1>1, <2>1, <2>3 DEF ChangesOK, BitmapsGrow
  <2>. QED  BY <2>2, <2>3
<1>3. OneKey(m)
  <2>. SUFFICES ASSUME NEW i \in LinksOf(m), NEW j \in LinksOf(m)
                PROVE  m[i].new.key = m[j].new.key <=> SameCell(m[i], m[j])
    BY DEF OneKey
  <2>0. /\ i # k => i \in LinksOf(l) /\ m[i] = l[i]
        /\ j # k => j \in LinksOf(l) /\ m[j] = l[j]
        /\ i = k \/ j = k => x.type \in IndexItems
    BY <1>1 DEF LinksOf
  <2>1. CASE i # k /\ j # k
    BY <2>0, <2>1 DEF ChangesOK, OneKey
  <2>2. CASE i = k /\ j # k
    BY <1>1, <2>0, <2>2, TypesFacts DEF ItemFits, ChangeFits
  <2>3. CASE i # k /\ j = k
    <3>1. SameCell(m[i], m[j]) <=> SameCell(m[j], m[i])
      BY DEF SameCell
    <3>. QED  BY <1>1, <2>0, <2>3, <3>1, TypesFacts DEF ItemFits, ChangeFits
  <2>4. CASE i = k /\ j = k
    BY <2>4 DEF SameCell
  <2>. QED  BY <2>1, <2>2, <2>3, <2>4
<1>. SUFFICES ASSUME NEW i \in ChangesOf(m)
              PROVE  /\ ChangeTyped(m[i])
                     /\ m[i].type \notin SlotTypes => SlotTaken(m, i)
                     /\ m[i].type = "DATA_RECORD_INSERT_LOG" => FirstHere(m, i)
                     /\ m[i].type = "INDEX_SLOT_LOG" /\ i < Len(m) => IndexFilled(m, i)
                     /\ ToUndo(m, i)
                     /\ \A c \in i .. Len(m) :
                          m[c].type = "CHECKPOINT_LOG" => EndedBefore(m, c, m[i].tx)
  BY <1>2, <1>3 DEF ChangesOK
<1>4. CASE i = k
  <2>1. x.type \in ChangeTypes /\ ChangeFits(l, x) /\ m[i] = x
    BY <1>1, <1>4 DEF ItemFits, ChangesOf
  <2>2. ChangeTyped(m[i])
    BY <2>1 DEF ChangeFits
  <2>3. m[i].type \notin SlotTypes => SlotTaken(m, i)
    <3>1. \A j \in SlotsOf(l) : j \in SlotsOf(m) /\ j < i /\ m[j] = l[j]
      BY <1>1, <1>4
    <3>. QED  BY <2>1, <3>1 DEF ChangeFits, SlotTaken
  <2>4. m[i].type = "DATA_RECORD_INSERT_LOG" => FirstHere(m, i)
    <3>1. \A j \in ChangesOf(m) : j < i => j \in ChangesOf(l) /\ m[j] = l[j]
      BY <1>1, <1>4
    <3>. QED  BY <2>1, <3>1 DEF ChangeFits, FirstHere
  <2>5. ~(i < Len(m))
    BY <1>1, <1>4
  <2>6. ToUndo(m, i)
    <3>1. \A j \in 1 .. Len(l) : j \in 1 .. Len(m) /\ j <= i /\ m[j] = l[j]
      BY <1>1, <1>4
    <3>2. i \in 1 .. Len(m) /\ i <= i
      BY <1>1, <1>4
    <3>. QED  BY <2>1, <3>1, <3>2 DEF ChangeFits, ToUndo
  <2>7. \A c \in i .. Len(m) : m[c].type # "CHECKPOINT_LOG"
    <3>1. \A c \in i .. Len(m) : c = i
      BY <1>1, <1>4
    <3>. QED  BY <2>1, <3>1 DEF ChangeTypes, DataTypes, IndexTypes
  <2>. QED  BY <2>2, <2>3, <2>4, <2>5, <2>6, <2>7
<1>5. CASE i # k
  <2>1. i \in ChangesOf(l) /\ m[i] = l[i] /\ i \in 1 .. Len(l) /\ i < k
    BY <1>1, <1>5
  <2>2. ChangeTyped(m[i])
    BY <2>1 DEF ChangesOK
  <2>3. m[i].type \notin SlotTypes => SlotTaken(m, i)
    <3>1. \A j \in SlotsOf(l) : j \in SlotsOf(m) /\ m[j] = l[j]
      BY <1>1
    <3>. QED  BY <2>1, <3>1 DEF ChangesOK, SlotTaken
  <2>4. m[i].type = "DATA_RECORD_INSERT_LOG" => FirstHere(m, i)
    <3>1. \A j \in ChangesOf(m) : j < i => j \in ChangesOf(l) /\ m[j] = l[j]
      BY <1>1, <2>1
    <3>. QED  BY <2>1, <3>1 DEF ChangesOK, FirstHere
  <2>5. m[i].type = "INDEX_SLOT_LOG" /\ i < Len(m) => IndexFilled(m, i)
    <3>1. CASE i < Len(l) /\ m[i].type = "INDEX_SLOT_LOG"
      <4>1. IndexFilled(l, i)
        BY <2>1, <3>1 DEF ChangesOK
      <4>2. \A j \in LinksOf(l) : j \in LinksOf(m) /\ m[j] = l[j]
        BY <1>1
      <4>. QED  BY <2>1, <4>1, <4>2 DEF IndexFilled
    <3>2. CASE i = Len(l) /\ m[i].type = "INDEX_SLOT_LOG"
      <4>1. ~NoLoneSlot(l)
        BY <1>1, <2>1, <3>2 DEF NoLoneSlot
      <4>2. \A j \in LinksOf(l) : j \in LinksOf(m) /\ m[j] = l[j] /\ j <= i + 1
        BY <1>1, <3>2
      <4>3. x.type \in IndexItems => k \in LinksOf(m) /\ m[k] = x /\ k <= i + 1
        BY <1>1, <3>2
      <4>. QED  BY <2>1, <3>2, <4>1, <4>2, <4>3 DEF ItemFits, IndexFilled
    <3>3. i < Len(l) \/ i = Len(l)
      BY <1>1, <2>1
    <3>. QED  BY <3>1, <3>2, <3>3
  <2>6. ToUndo(m, i)
    <3>1. \A j \in 1 .. Len(l) : j \in 1 .. Len(m) /\ m[j] = l[j]
      BY <1>1
    <3>. QED  BY <2>1, <3>1 DEF ChangesOK, ToUndo
  <2>7. ASSUME NEW c \in i .. Len(m), m[c].type = "CHECKPOINT_LOG"
        PROVE  EndedBefore(m, c, m[i].tx)
    <3>1. CASE c = k
      <4>1. PICK j \in 1 .. Len(l) : l[j].type \in Ends /\ l[j].tx = l[i].tx
        BY <1>1, <2>1, <2>7, <3>1 DEF ItemFits
      <4>2. j \in 1 .. Len(m) /\ j < c /\ m[j] = l[j]
        BY <1>1, <3>1
      <4>. QED  BY <2>1, <4>1, <4>2 DEF EndedBefore
    <3>2. CASE c # k
      <4>1. c \in i .. Len(l) /\ m[c] = l[c]
        BY <1>1, <2>1, <3>2
      <4>2. EndedBefore(l, c, l[i].tx)
        BY <2>1, <2>7, <4>1 DEF ChangesOK
      <4>3. \A j \in 1 .. Len(l) : j \in 1 .. Len(m) /\ m[j] = l[j]
        BY <1>1
      <4>. QED  BY <2>1, <4>2, <4>3 DEF EndedBefore
    <3>. QED  BY <3>1, <3>2
  <2>. QED  BY <2>2, <2>3, <2>4, <2>5, <2>6, <2>7
<1>. QED  BY <1>4, <1>5

(* No change of a version, and the commit that comes has its timestamp; a    *)
(* new version has its stamp.                                               *)
StampReady(l, u, x) ==
    /\ l[u].type = "DATA_RECORD_UPDATE_LOG" /\ l[u].tx = x.tx
    /\ Latest(l, u, Len(l)) /\ ~SameCell(l[u], x)
    /\ InCell(l[u], x.new.key, x.new.last)
    /\ l[u].new = Record(x.tx, l[u].new.ts, l[u].new.prev)
    /\ l[u].new.ts \in Nat
    /\ \A c \in 1 .. Len(l) : l[c].type = "COMMIT_LOG" => l[c].tx # x.tx
    /\ Follows(l, x.new.key, Len(l), l[u].new.prev)

VersionFits(l, x) ==
    /\ \A i \in LinksOf(l), u \in 1 .. Len(l) : StampOf(l, i, u) =>
        /\ x.type \in ChangeTypes => ~SameCell(l[u], x)
        /\ x.type = "COMMIT_LOG" /\ x.tx = l[i].tx => x.maxTs = l[u].new.ts
    /\ x.type \in IndexItems =>
        /\ x.new.last[1] \in 0 .. MaxPages - 1 /\ x.new.last[2] \in 1 .. Slots
        /\ \E u \in 1 .. Len(l) : StampReady(l, u, x)

(* What the new item does not change is still the latest.                    *)
LEMMA GrownLatest ==
    ASSUME NEW l, NEW m, NEW x, IsGrown(l, m, x), NEW u, Latest(l, u, Len(l)),
           x.type \in ChangeTypes => ~SameCell(l[u], x)
    PROVE  Latest(m, u, Len(m)) /\ u \in 1 .. Len(l) /\ m[u] = l[u]
<1>. PICK k : GrowsTo(l, m, x, k)
  BY GrowFacts
<1>2. /\ k = Len(m)
      /\ Len(l) \in Nat /\ k \in Nat /\ Len(l) < k /\ Len(l) = k - 1 /\ m[k] = x
      /\ \A i \in 1 .. Len(l) : i \in 1 .. k /\ i < k /\ m[i] = l[i]
      /\ \A i : i \in ChangesOf(m) <=> i \in ChangesOf(l) \/ (i = k /\ x.type \in ChangeTypes)
      /\ \A i : i \in ChangesOf(l) \cup SlotsOf(l) \cup LinksOf(l) => i \in 1 .. Len(l)
  BY DEF GrowsTo
<1>3. u \in ChangesOf(l) /\ u \in 1 .. Len(l) /\ m[u] = l[u] /\ u <= k
  BY <1>2 DEF Latest
<1>4. ASSUME NEW j \in ChangesOf(m), u < j PROVE ~SameCell(m[u], m[j])
  <2>1. CASE j = k
    BY <1>2, <1>3, <1>4, <2>1
  <2>2. CASE j # k
    <3>1. j \in ChangesOf(l) /\ j <= Len(l) /\ m[j] = l[j]
      BY <1>2, <2>2
    <3>. QED  BY <1>3, <1>4, <3>1 DEF Latest
  <2>. QED  BY <2>1, <2>2
<1>. QED  BY <1>2, <1>3, <1>4 DEF Latest

(* The versions of a log with an item more that fits.                        *)
LEMMA VersionsOKGrows ==
    ASSUME NEW l, NEW m, NEW x, IsGrown(l, m, x), VersionsOK(l), VersionFits(l, x)
    PROVE  VersionsOK(m)
<1>. PICK k : GrowsTo(l, m, x, k)
  BY GrowFacts
<1>1. IsCut(m, l)
  BY GrownCut
<1>2. /\ k = Len(m)
      /\ Len(l) \in Nat /\ k \in Nat /\ Len(l) < k /\ Len(l) = k - 1 /\ m[k] = x
      /\ \A i \in 1 .. Len(l) : i \in 1 .. k /\ i < k /\ m[i] = l[i]
      /\ \A i : i \in 1 .. k <=> i \in 1 .. Len(l) \/ i = k
      /\ \A i : i \in LinksOf(m) <=> i \in LinksOf(l) \/ (i = k /\ x.type \in IndexItems)
      /\ \A i : i \in ChangesOf(l) \cup SlotsOf(l) \cup LinksOf(l) => i \in 1 .. Len(l)
  BY DEF GrowsTo
<1>. SUFFICES ASSUME NEW i \in LinksOf(m) PROVE Version(m, i)
  BY DEF VersionsOK
<1>3. CASE i = k
  <2>1. x.type \in IndexItems /\ m[i] = x /\ i - 1 = Len(l)
    BY <1>2, <1>3 DEF LinksOf
  <2>2. /\ x.new.last[1] \in 0 .. MaxPages - 1 /\ x.new.last[2] \in 1 .. Slots
        /\ \E u \in 1 .. Len(l) : StampReady(l, u, x)
    BY <2>1 DEF VersionFits
  <2>3. PICK u \in 1 .. Len(l) : StampReady(l, u, x)
    BY <2>2
  <2>4. Latest(m, u, Len(m)) /\ m[u] = l[u]
    BY <2>3, GrownLatest DEF StampReady
  <2>5. Follows(m, x.new.key, Len(l), l[u].new.prev)
    <3>1. Len(l) \in 0 .. Len(l)
      BY <1>2
    <3>. QED  BY <1>1, <2>3, <3>1, CutFollows DEF StampReady
  <2>6. \A c \in 1 .. Len(m) : m[c].type = "COMMIT_LOG" => m[c].tx # x.tx
    <3>1. x.type # "COMMIT_LOG"
      BY <2>1 DEF IndexItems
    <3>. QED  BY <1>2, <2>3, <3>1 DEF StampReady
  <2>7. StampOf(m, i, u)
    BY <2>1, <2>3, <2>4, <2>5, <2>6 DEF StampReady, StampOf
  <2>. QED  BY <2>1, <2>2, <2>7 DEF Version
<1>4. CASE i # k
  <2>1. i \in LinksOf(l) /\ m[i] = l[i] /\ i \in 1 .. Len(l) /\ i - 1 \in 0 .. Len(l)
    BY <1>2, <1>4
  <2>2. Version(l, i)
    BY <2>1 DEF VersionsOK
  <2>3. PICK u \in 1 .. i - 1 : StampOf(l, i, u)
    BY <2>2 DEF Version
  <2>4. u \in 1 .. Len(l)
    BY <2>1
  <2>5. Latest(m, u, Len(m)) /\ m[u] = l[u]
    BY <2>1, <2>3, <2>4, GrownLatest DEF StampOf, VersionFits
  <2>6. Follows(m, l[i].new.key, i - 1, l[u].new.prev)
    BY <1>1, <2>1, <2>3, CutFollows DEF StampOf
  <2>7. \A c \in 1 .. Len(m) : m[c].type = "COMMIT_LOG" /\ m[c].tx = l[i].tx => m[c].maxTs = l[u].new.ts
    <3>1. \A c \in 1 .. Len(l) : l[c].type = "COMMIT_LOG" /\ l[c].tx = l[i].tx => l[c].maxTs = l[u].new.ts
      BY <2>3 DEF StampOf
    <3>2. x.type = "COMMIT_LOG" /\ x.tx = l[i].tx => x.maxTs = l[u].new.ts
      BY <2>1, <2>3, <2>4 DEF VersionFits
    <3>. QED  BY <1>2, <3>1, <3>2
  <2>8. StampOf(m, i, u)
    BY <2>1, <2>3, <2>5, <2>6, <2>7 DEF StampOf
  <2>. QED  BY <2>1, <2>2, <2>8 DEF Version
<1>. QED  BY <1>3, <1>4

-------------------------------------------------------------------------------
(* Pages and the log together.                                               *)
Applied(m, d, x) == OffsetSet(m, d, x.page, x.offset, x.new)

(* One cell of one page is changed.                                          *)
LEMMA AppliedFacts ==
    ASSUME NEW m, NEW d, NEW x, PagesTyped(m), Applied(m, d, x), x.page \in Pages, x.offset \in Offsets(x.page)
    PROVE  /\ PagesTyped(d)
           /\ Holds(d, x)
           /\ \A p \in Pages : \A o : p # x.page \/ o # x.offset => d[p][o] = m[p][o]
BY DEF Applied, OffsetSet, PagesTyped, Holds

LEMMA PageOfChange ==
    ASSUME NEW x, ChangeTyped(x), x.type \in ChangeTypes
    PROVE  x.page \in Pages /\ x.offset \in Offsets(x.page)
BY DEF ChangeTyped, ChangeTypes, Pages, DataTypes, IndexTypes

(* Pages show a log with an item more, if the item is applied to them.       *)
LEMMA CellsApplied ==
    ASSUME NEW l, NEW k, NEW x, IsGrown(l, k, x), ChangesOK(l), ChangeTyped(x), x.type \in ChangeTypes,
           NEW m, NEW d, PagesTyped(m), Applied(m, d, x), CellsShown(l, m)
    PROVE  CellsShown(k, d)
<1>. PICK b : GrowsTo(l, k, x, b)
  BY GrowFacts
<1>1. /\ b = Len(k)
      /\ Len(l) \in Nat /\ b \in Nat /\ Len(l) < b /\ k[b] = x
      /\ \A i \in 1 .. Len(l) : i < b /\ k[i] = l[i]
      /\ \A i : i \in ChangesOf(k) <=> i \in ChangesOf(l) \/ (i = b /\ x.type \in ChangeTypes)
      /\ \A i : i \in ChangesOf(l) \cup SlotsOf(l) \cup LinksOf(l) => i \in 1 .. Len(l)
  BY DEF GrowsTo
<1>2. /\ x.page \in Pages
      /\ Holds(d, x)
      /\ \A p \in Pages : \A o : p # x.page \/ o # x.offset => d[p][o] = m[p][o]
  BY PageOfChange, AppliedFacts
<1>. SUFFICES ASSUME NEW i \in ChangesOf(k), k[i].type \notin SlotTypes, Latest(k, i, Len(k))
              PROVE  Holds(d, k[i])
  BY DEF CellsShown
<1>3. CASE i = b
  BY <1>1, <1>2, <1>3
<1>4. CASE i # b
  <2>1. i \in ChangesOf(l) /\ i \in 1 .. Len(l) /\ k[i] = l[i]
    BY <1>1, <1>4
  <2>2. ~SameCell(l[i], x)
    BY <1>1, <2>1 DEF Latest
  <2>3. Latest(l, i, Len(l))
    <3>1. \A j \in ChangesOf(l) : j \in ChangesOf(k) /\ j <= Len(k) /\ k[j] = l[j]
      BY <1>1
    <3>. QED  BY <1>1, <2>1, <3>1 DEF Latest
  <2>4. Holds(m, l[i])
    BY <2>1, <2>3 DEF CellsShown
  <2>5. l[i].page \in Pages
    BY <2>1, PageOfChange DEF ChangesOK, ChangesOf
  <2>. QED  BY <1>2, <2>1, <2>2, <2>4, <2>5 DEF Holds, SameCell
<1>. QED  BY <1>3, <1>4

(* Commits, aborts and checkpoints change no page.                           *)
LEMMA CellsSame ==
    ASSUME NEW l, NEW k, NEW x, IsGrown(l, k, x), x.type \notin ChangeTypes, NEW m
    PROVE  /\ CellsShown(l, m) => CellsShown(k, m)
           /\ BitsShown(l, m) => BitsShown(k, m)
           /\ IndexShown(l, m, Len(l)) => IndexShown(k, m, Len(k))
<1>. PICK b : GrowsTo(l, k, x, b)
  BY GrowFacts
<1>1. /\ b = Len(k)
      /\ Len(l) \in Nat /\ b \in Nat /\ Len(l) < b /\ k[b] = x
      /\ \A i \in 1 .. Len(l) : i < b /\ k[i] = l[i]
      /\ \A i : i \in ChangesOf(k) <=> i \in ChangesOf(l)
      /\ \A i : i \in SlotsOf(k) <=> i \in SlotsOf(l)
      /\ \A i : i \in LinksOf(k) <=> i \in LinksOf(l)
      /\ \A i : i \in ChangesOf(l) \cup SlotsOf(l) \cup LinksOf(l) => i \in 1 .. Len(l)
  BY TypesFacts DEF GrowsTo
<1>2. ASSUME CellsShown(l, m) PROVE CellsShown(k, m)
  <2>1. \A i \in ChangesOf(k) : Latest(k, i, Len(k)) => Latest(l, i, Len(l))
    BY <1>1 DEF Latest
  <2>. QED  BY <1>1, <1>2, <2>1 DEF CellsShown
<1>3. BitsShown(l, m) => BitsShown(k, m)
  BY <1>1 DEF BitsShown
<1>4. IndexShown(l, m, Len(l)) => IndexShown(k, m, Len(k))
  <2>1. \A p, o : LinkedAt(l, p, o, Len(l)) => LinkedAt(k, p, o, Len(k))
    BY <1>1 DEF LinkedAt
  <2>. QED  BY <2>1 DEF IndexShown
<1>. QED  BY <1>2, <1>3, <1>4

LEMMA BitsApplied ==
    ASSUME NEW l, NEW k, NEW x, IsGrown(l, k, x), ChangesOK(l), ChangeTyped(x), x.type \in ChangeTypes,
           NEW m, NEW d, PagesTyped(m), Applied(m, d, x), BitsShown(l, m), BitsTyped(m),
           x.type \in SlotTypes => m[x.page][Bitmap] \subseteq x.new
    PROVE  BitsShown(k, d) /\ BitsTyped(d)
<1>. PICK b : GrowsTo(l, k, x, b)
  BY GrowFacts
<1>1. /\ b = Len(k)
      /\ Len(l) \in Nat /\ b \in Nat /\ Len(l) < b /\ k[b] = x
      /\ \A i \in 1 .. Len(l) : i < b /\ k[i] = l[i]
      /\ \A i : i \in SlotsOf(k) <=> i \in SlotsOf(l) \/ (i = b /\ x.type \in SlotTypes)
      /\ \A i : i \in ChangesOf(l) \cup SlotsOf(l) \cup LinksOf(l) => i \in 1 .. Len(l)
  BY DEF GrowsTo
<1>2. /\ x.page \in Pages
      /\ Holds(d, x)
      /\ \A p \in Pages : \A o : p # x.page \/ o # x.offset => d[p][o] = m[p][o]
  BY PageOfChange, AppliedFacts
<1>3. x.type \in SlotTypes <=> x.offset = Bitmap
  BY DEF ChangeTyped
<1>4. \A p \in Pages : d[p][Bitmap] = IF x.type \in SlotTypes /\ p = x.page THEN x.new ELSE m[p][Bitmap]
  BY <1>2, <1>3 DEF Holds
<1>5. BitsTyped(d)
  BY <1>4 DEF BitsTyped, ChangeTyped
<1>6. \A p \in Pages : m[p][Bitmap] \subseteq d[p][Bitmap]
  BY <1>4
<1>7. \A i \in SlotsOf(l) : l[i].page \in Pages
  BY PageOfChange, TypesFacts DEF ChangesOK, ChangesOf, SlotsOf
<1>. SUFFICES ASSUME NEW i \in SlotsOf(k) PROVE k[i].new \subseteq d[k[i].page][Bitmap]
  BY <1>5 DEF BitsShown
<1>8. CASE i = b
  <2>1. k[i] = x /\ x.type \in SlotTypes
    BY <1>1, <1>8 DEF SlotsOf
  <2>. QED  BY <1>2, <1>4, <2>1
<1>9. CASE i # b
  BY <1>1, <1>6, <1>7, <1>9 DEF BitsShown
<1>. QED  BY <1>8, <1>9

LEMMA IndexApplied ==
    ASSUME NEW l, NEW k, NEW x, IsGrown(l, k, x), ChangeTyped(x), x.type \in ChangeTypes, x.type # "INDEX_SLOT_LOG",
           NEW m, NEW d, PagesTyped(m), Applied(m, d, x), IndexShown(l, m, Len(l))
    PROVE  IndexShown(k, d, Len(k))
<1>. PICK b : GrowsTo(l, k, x, b)
  BY GrowFacts
<1>1. /\ b = Len(k)
      /\ Len(l) \in Nat /\ b \in Nat /\ Len(l) < b
      /\ \A i \in 1 .. Len(l) : k[i] = l[i]
      /\ \A i : i \in LinksOf(l) => i \in LinksOf(k)
      /\ \A i : i \in ChangesOf(l) \cup SlotsOf(l) \cup LinksOf(l) => i \in 1 .. Len(l)
  BY DEF GrowsTo
<1>2. \A p \in Pages : \A o : p # x.page \/ o # x.offset => d[p][o] = m[p][o]
  BY PageOfChange, AppliedFacts
<1>3. \A h \in Hashes : IndexPage(h) \in Pages /\ d[IndexPage(h)][Bitmap] = m[IndexPage(h)][Bitmap]
  <2>1. \A h \in Hashes : IndexPage(h) \in Pages /\ IndexPage(h) \notin DataPages
    BY DEF Pages, IndexPage, DataPages, DataPage
  <2>2. x.offset = Bitmap => x.page \in DataPages
    BY DEF ChangeTyped, SlotTypes, DataTypes
  <2>. QED  BY <1>2, <2>1, <2>2
<1>4. \A p, o : LinkedAt(l, p, o, Len(l)) => LinkedAt(k, p, o, Len(k))
  BY <1>1 DEF LinkedAt
<1>. QED  BY <1>3, <1>4 DEF IndexShown

(* Files and the log together.                                               *)
LEMMA LinksLonger ==
    ASSUME NEW l, NEW k, IsCut(k, l), NEW b \in 0 .. Len(l), NEW p, NEW o
    PROVE  LinkedAt(l, p, o, b) <=> LinkedAt(k, p, o, b)
<1>1. \A i : i \in LinksOf(l) <=> i \in LinksOf(k) /\ i <= Len(l)
  BY CutFacts
<1>2. \A i \in 1 .. Len(l) : k[i] = l[i]
  BY CutFacts
<1>3. \A i : i \in LinksOf(l) => i \in 1 .. Len(l)
  BY DEF LinksOf
<1>4. \A i : i \in LinksOf(k) /\ i <= b => i <= Len(l)
  BY CutFacts DEF LinksOf
<1>. QED  BY <1>1, <1>2, <1>3, <1>4 DEF LinkedAt

NoNewCheckpoint(l, k) == \A c \in 1 .. Len(k) : k[c].type = "CHECKPOINT_LOG" => c <= Len(l)

(* Files stay good while the log grows and no checkpoint is in it,           *)
LEMMA DiskGrows ==
    ASSUME NEW l, NEW k, IsCut(k, l), NoNewCheckpoint(l, k),
           NEW e, NEW d, NEW b \in 0 .. Len(l), DiskShown(l, e, b),
           \A i \in ChangesOf(l) : d[l[i].page] = e[l[i].page],
           BitsTyped(d),
           \A h \in Hashes : d[IndexPage(h)][Bitmap] \subseteq e[IndexPage(h)][Bitmap]
    PROVE  DiskShown(k, d, b)
<1>1. /\ \A i : i \in ChangesOf(l) <=> i \in ChangesOf(k) /\ i <= Len(l)
      /\ \A i : i \in SlotsOf(l) <=> i \in SlotsOf(k) /\ i <= Len(l)
      /\ \A i \in 1 .. Len(l) : i \in 1 .. Len(k) /\ k[i] = l[i]
      /\ Len(l) <= Len(k) /\ Len(l) \in Nat /\ Len(k) \in Nat
  BY CutFacts
<1>2. \A i : i \in ChangesOf(k) \cup SlotsOf(k) => i \in 1 .. Len(k)
  BY DEF ChangesOf, SlotsOf
<1>3. DiskCells(k, d, b)
  <2>. SUFFICES ASSUME NEW m \in b .. Len(k), NEW i \in ChangesOf(k), k[i].type \notin SlotTypes,
                       Latest(k, i, m), Checkpointed(k, i, m)
                PROVE  Holds(d, k[i])
    BY DEF DiskCells
  <2>1. PICK c \in i .. m : k[c].type = "CHECKPOINT_LOG"
    BY DEF Checkpointed
  <2>2. c \in 1 .. Len(k) /\ c <= Len(l)
    BY <1>1, <1>2, <2>1 DEF NoNewCheckpoint
  <2>3. i \in ChangesOf(l) /\ k[i] = l[i] /\ c \in 1 .. Len(l) /\ l[c].type = "CHECKPOINT_LOG"
    BY <1>1, <1>2, <2>1, <2>2
  <2>4. PICK a \in b .. Len(l) : c <= a /\ Latest(l, i, a)
    <3>1. CASE m <= Len(l)
      <4>1. m \in 0 .. Len(l) /\ m \in b .. Len(l)
        BY <1>1, <3>1
      <4>2. Latest(l, i, m)
        BY <4>1, CutLatest
      <4>. QED  BY <2>1, <4>1, <4>2
    <3>2. CASE ~(m <= Len(l))
      <4>1. \A j \in ChangesOf(l) : j \in ChangesOf(k) /\ j <= m /\ k[j] = l[j]
        BY <1>1, <1>2, <3>2
      <4>2. Latest(l, i, Len(l))
        BY <2>3, <1>1, <4>1 DEF Latest
      <4>. QED  BY <1>1, <2>2, <4>2
    <3>. QED  BY <3>1, <3>2
  <2>5. Checkpointed(l, i, a)
    BY <2>1, <2>3, <2>4 DEF Checkpointed
  <2>6. Holds(e, l[i])
    BY <2>3, <2>4, <2>5 DEF DiskShown, DiskCells
  <2>. QED  BY <2>3, <2>6 DEF Holds
<1>4. DiskBits(k, d)
  <2>. SUFFICES ASSUME NEW i \in SlotsOf(k), Checkpointed(k, i, Len(k))
                PROVE  k[i].new \subseteq d[k[i].page][Bitmap]
    BY DEF DiskBits
  <2>1. PICK c \in i .. Len(k) : k[c].type = "CHECKPOINT_LOG"
    BY DEF Checkpointed
  <2>2. c \in 1 .. Len(k) /\ c <= Len(l)
    BY <1>1, <1>2, <2>1 DEF NoNewCheckpoint
  <2>3. i \in SlotsOf(l) /\ i \in ChangesOf(l) /\ k[i] = l[i] /\ c \in i .. Len(l) /\ l[c].type = "CHECKPOINT_LOG"
    BY <1>1, <1>2, <2>1, <2>2, TypesFacts DEF SlotsOf, ChangesOf
  <2>4. l[i].new \subseteq e[l[i].page][Bitmap]
    BY <2>3 DEF DiskShown, DiskBits, Checkpointed
  <2>. QED  BY <2>3, <2>4
<1>5. IndexShown(k, d, b)
  <2>1. \A p, o : LinkedAt(l, p, o, b) => LinkedAt(k, p, o, b)
    BY LinksLonger
  <2>. QED  BY <2>1 DEF DiskShown, IndexShown
<1>. QED  BY <1>3, <1>4, <1>5 DEF DiskShown

(* when a checkpoint comes after all pages were written,                     *)
LEMMA DiskCheckpoint ==
    ASSUME NEW l, NEW k, NEW x, IsGrown(l, k, x), x.type = "CHECKPOINT_LOG",
           NEW e, NEW b \in 0 .. Len(l), DiskShown(l, e, b), CellsShown(l, e), BitsShown(l, e)
    PROVE  DiskShown(k, e, b)
<1>. PICK n0 : GrowsTo(l, k, x, n0)
  BY GrowFacts
<1>0. IsCut(k, l)
  BY GrownCut
<1>1. /\ n0 = Len(k)
      /\ Len(l) \in Nat /\ n0 \in Nat /\ Len(l) < n0 /\ Len(l) = n0 - 1
      /\ \A i \in 1 .. Len(l) : i < n0 /\ k[i] = l[i]
      /\ \A i : i \in ChangesOf(k) <=> i \in ChangesOf(l)
      /\ \A i : i \in SlotsOf(k) <=> i \in SlotsOf(l)
      /\ \A i : i \in ChangesOf(l) \cup SlotsOf(l) \cup LinksOf(l) => i \in 1 .. Len(l)
  BY DEF GrowsTo, ChangeTypes, DataTypes, IndexTypes, SlotTypes
<1>2. DiskCells(k, e, b)
  <2>. SUFFICES ASSUME NEW m \in b .. Len(k), NEW i \in ChangesOf(k), k[i].type \notin SlotTypes,
                       Latest(k, i, m), Checkpointed(k, i, m)
                PROVE  Holds(e, k[i])
    BY DEF DiskCells
  <2>0. i \in ChangesOf(l) /\ k[i] = l[i]
    BY <1>1
  <2>1. CASE m = n0
    <3>1. Latest(l, i, Len(l))
      BY <1>1, <2>1 DEF Latest
    <3>. QED  BY <2>0, <3>1 DEF CellsShown
  <2>2. CASE m # n0
    <3>1. m \in 0 .. Len(l) /\ m \in b .. Len(l)
      BY <1>1, <2>2
    <3>2. Latest(l, i, m)
      BY <1>0, <3>1, CutLatest
    <3>3. Checkpointed(l, i, m)
      <4>1. \A c \in i .. m : k[c] = l[c]
        BY <1>1, <2>0, <3>1
      <4>. QED  BY <4>1 DEF Checkpointed
    <3>. QED  BY <2>0, <3>1, <3>2, <3>3 DEF DiskShown, DiskCells
  <2>. QED  BY <2>1, <2>2
<1>3. DiskBits(k, e)
  BY <1>1 DEF BitsShown, DiskBits
<1>4. IndexShown(k, e, b)
  <2>1. \A p, o : LinkedAt(l, p, o, b) => LinkedAt(k, p, o, b)
    BY <1>0, LinksLonger
  <2>. QED  BY <2>1 DEF DiskShown, IndexShown
<1>. QED  BY <1>2, <1>3, <1>4 DEF DiskShown

(* and when the log that was not flushed is lost.                            *)
LEMMA DiskCut ==
    ASSUME NEW l, NEW k, IsCut(l, k), NEW e, NEW b \in 0 .. Len(k), DiskShown(l, e, b)
    PROVE  DiskShown(k, e, Len(k))
<1>1. /\ \A i : i \in ChangesOf(k) <=> i \in ChangesOf(l) /\ i <= Len(k)
      /\ \A i : i \in SlotsOf(k) <=> i \in SlotsOf(l) /\ i <= Len(k)
      /\ \A i \in 1 .. Len(k) : i \in 1 .. Len(l) /\ k[i] = l[i]
      /\ Len(k) <= Len(l) /\ Len(l) \in Nat /\ Len(k) \in Nat
      /\ Len(k) \in b .. Len(l) /\ Len(k) \in 0 .. Len(k)
  BY CutFacts
<1>2. \A i : i \in ChangesOf(k) \cup SlotsOf(k) => i \in 1 .. Len(k)
  BY DEF ChangesOf, SlotsOf
<1>3. DiskCells(k, e, Len(k))
  <2>. SUFFICES ASSUME NEW m \in Len(k) .. Len(k), NEW i \in ChangesOf(k), k[i].type \notin SlotTypes,
                       Latest(k, i, m), Checkpointed(k, i, m)
                PROVE  Holds(e, k[i])
    BY DEF DiskCells
  <2>1. m = Len(k)
    BY <1>1
  <2>2. Latest(l, i, Len(k))
    BY <1>1, <2>1, CutLatest
  <2>3. i \in ChangesOf(l) /\ k[i] = l[i] /\ \A c \in i .. m : k[c] = l[c]
    BY <1>1, <1>2, <2>1
  <2>4. Checkpointed(l, i, Len(k))
    BY <2>1, <2>3 DEF Checkpointed
  <2>. QED  BY <1>1, <2>2, <2>3, <2>4 DEF DiskShown, DiskCells
<1>4. DiskBits(k, e)
  <2>1. \A i \in SlotsOf(k) : Checkpointed(k, i, Len(k)) => Checkpointed(l, i, Len(l))
    <3>1. \A i \in SlotsOf(k) : \A c \in i .. Len(k) : c \in i .. Len(l) /\ k[c] = l[c]
      BY <1>1, <1>2
    <3>. QED  BY <3>1 DEF Checkpointed
  <2>. QED  BY <1>1, <1>2, <2>1 DEF DiskShown, DiskBits
<1>5. IndexShown(k, e, Len(k))
  <2>1. \A p, o : LinkedAt(l, p, o, b) => LinkedAt(k, p, o, b)
    BY LinksLonger
  <2>2. \A p, o : LinkedAt(k, p, o, b) => LinkedAt(k, p, o, Len(k))
    <3>1. \A i \in LinksOf(k) : i <= Len(k)
      BY <1>1 DEF LinksOf
    <3>. QED  BY <3>1 DEF LinkedAt
  <2>. QED  BY <2>1, <2>2 DEF DiskShown, IndexShown
<1>. QED  BY <1>3, <1>4, <1>5 DEF DiskShown

(* Every part of a page in its file is as it was, or as it is in the pool.   *)
Mixed(d, e, m) == \A p \in Pages : \A o \in Offsets(p) : d[p][o] = e[p][o] \/ d[p][o] = m[p][o]

(* Whatever part of the dirty pages is written, torn or not, after the log.  *)
LEMMA DiskMixed ==
    ASSUME NEW l, Len(l) \in Nat, ChangesOK(l),
           NEW m, Shown(l, m), NEW e, NEW a \in 0 .. Len(l), DiskShown(l, e, a),
           NEW b \in a .. Len(l), \A i \in ChangesOf(l) : i > b => l[i].type \notin LastingTypes,
           NEW d, Mixed(d, e, m)
    PROVE  DiskShown(l, d, b)
<1>1. \A p \in Pages : Bitmap \in Offsets(p)
  <2>1. 0 \in 0 .. Slots /\ Cardinality(Keys) \in Nat
    BY SizesAssumption, KeysAssumption, FS_CardinalityType
  <2>. QED  BY <2>1 DEF Offsets, Bitmap
<1>2. \A p \in Pages : d[p][Bitmap] = e[p][Bitmap] \/ d[p][Bitmap] = m[p][Bitmap]
  BY <1>1 DEF Mixed
<1>3. \A i \in ChangesOf(l) : l[i].page \in Pages /\ l[i].offset \in Offsets(l[i].page)
  BY PageOfChange DEF ChangesOK, ChangesOf
<1>4. \A i \in ChangesOf(l) : i \in 1 .. Len(l)
  BY DEF ChangesOf
<1>5. BitsTyped(d)
  BY <1>2 DEF BitsTyped, DiskShown, Shown
<1>6. DiskBits(l, d)
  <2>1. SlotsOf(l) \subseteq ChangesOf(l)
    BY TypesFacts DEF SlotsOf, ChangesOf
  <2>. QED  BY <1>2, <1>3, <2>1 DEF DiskBits, BitsShown, DiskShown, Shown
<1>7. IndexShown(l, d, b)
  <2>1. \A p, o : LinkedAt(l, p, o, a) => LinkedAt(l, p, o, b)
    <3>1. \A i \in LinksOf(l) : i <= a => i <= b
      BY DEF LinksOf
    <3>. QED  BY <3>1 DEF LinkedAt
  <2>2. \A p, o : LinkedAt(l, p, o, Len(l)) => LinkedAt(l, p, o, b)
    <3>1. \A i \in LinksOf(l) : i <= b
      <4>1. \A i \in LinksOf(l) : i \in ChangesOf(l) /\ l[i].type \in LastingTypes
        BY TypesFacts DEF LinksOf, ChangesOf, LastingTypes
      <4>. QED  BY <1>4, <4>1
    <3>. QED  BY <3>1 DEF LinkedAt
  <2>3. \A h \in Hashes : IndexPage(h) \in Pages
    BY DEF Pages
  <2>. QED  BY <1>2, <2>1, <2>2, <2>3 DEF IndexShown, DiskShown, Shown
<1>8. DiskCells(l, d, b)
  <2>. SUFFICES ASSUME NEW c \in b .. Len(l), NEW i \in ChangesOf(l), l[i].type \notin SlotTypes,
                       Latest(l, i, c), Checkpointed(l, i, c)
                PROVE  Holds(d, l[i])
    BY DEF DiskCells
  <2>1. Holds(e, l[i])
    <3>1. c \in a .. Len(l)
      OBVIOUS
    <3>. QED  BY <3>1 DEF DiskShown, DiskCells
  <2>2. Latest(l, i, Len(l))
    <3>1. ASSUME NEW j \in ChangesOf(l), i < j, ~(j <= c) PROVE ~SameCell(l[i], l[j])
      <4>1. l[j].type \notin LastingTypes
        BY <1>4, <3>1
      <4>2. ChangeTyped(l[j]) /\ ChangeTyped(l[i])
        BY DEF ChangesOK
      <4>3. l[j].type \in SlotTypes \/ l[j].type = "DATA_RECORD_INSERT_LOG"
        BY <4>1 DEF LastingTypes, IndexItems, SlotTypes, ChangesOf, ChangeTypes, DataTypes, IndexTypes
      <4>4. CASE l[j].type \in SlotTypes
        BY <4>2, <4>4 DEF ChangeTyped, SameCell
      <4>5. CASE l[j].type = "DATA_RECORD_INSERT_LOG"
        BY <3>1, <4>5 DEF ChangesOK, FirstHere, SameCell
      <4>. QED  BY <4>3, <4>4, <4>5
    <3>2. i <= Len(l)
      BY <1>4
    <3>. QED  BY <3>1, <3>2 DEF Latest
  <2>3. Holds(m, l[i])
    BY <2>2 DEF Shown, CellsShown
  <2>. QED  BY <1>3, <2>1, <2>3 DEF Holds, Mixed
<1>. QED  BY <1>5, <1>6, <1>7, <1>8 DEF DiskShown

-------------------------------------------------------------------------------
(* What redo makes of pages, item by item: after item k, a cell has the last *)
(* change since checkpoint c, or what it had in the file if no change is to  *)
(* come.                                                                    *)
RedoCells(m, c, k) ==
    \A i \in ChangesOf(log) :
        log[i].type \notin SlotTypes =>
            ((c < i /\ Latest(log, i, k)) \/ (i < c /\ Latest(log, i, Len(log)))
                => Holds(m, log[i]))
RedoBits(m, k) == \A i \in SlotsOf(log) : i <= k => log[i].new \subseteq m[log[i].page][Bitmap]

RedoShows(m, c, k) ==
    /\ PagesTyped(m)
    /\ RedoCells(m, c, k) /\ RedoBits(m, k)
    /\ BitsTyped(m)
    /\ IndexShown(log, m, Len(log))

(* redo_pass starts from files that show the log up to the checkpoint,       *)
LEMMA RedoShowsFirst ==
    ASSUME CountersInv, NEW c \in 0 .. Len(log), IsLastCheckpoint(c),
           PagesTyped(mem), DiskShown(log, mem, Len(log))
    PROVE  RedoShows(mem, c, c)
<1>1. Len(log) \in Nat
  BY LogFacts
<1>2. \A i : i \in ChangesOf(log) \cup SlotsOf(log) => i \in 1 .. Len(log) /\ log[i].type # "CHECKPOINT_LOG"
  BY TypesFacts DEF ChangesOf, SlotsOf, NoChange, SlotTypes
<1>3. \A i : i \in 1 .. Len(log) /\ i <= c /\ log[i].type # "CHECKPOINT_LOG" =>
            i < c /\ Checkpointed(log, i, Len(log))
  <2>. SUFFICES ASSUME NEW i \in 1 .. Len(log), i <= c, log[i].type # "CHECKPOINT_LOG"
                PROVE  i < c /\ Checkpointed(log, i, Len(log))
    OBVIOUS
  <2>1. c > 0 /\ c \in i .. Len(log)
    BY <1>1
  <2>2. log[c].type = "CHECKPOINT_LOG"
    BY <2>1 DEF IsLastCheckpoint
  <2>3. i # c
    BY <2>2
  <2>. QED  BY <2>1, <2>2, <2>3 DEF Checkpointed
<1>4. RedoCells(mem, c, c)
  <2>. SUFFICES ASSUME NEW i \in ChangesOf(log), log[i].type \notin SlotTypes,
                       (c < i /\ Latest(log, i, c)) \/ (i < c /\ Latest(log, i, Len(log)))
                PROVE  Holds(mem, log[i])
    BY DEF RedoCells
  <2>0. i \in Nat /\ (Latest(log, i, c) => i <= c)
    BY <1>2 DEF Latest
  <2>1. i < c /\ Latest(log, i, Len(log))
    BY <1>1, <2>0
  <2>2. Checkpointed(log, i, Len(log))
    BY <1>2, <1>3, <2>1
  <2>3. Len(log) \in Len(log) .. Len(log)
    BY <1>1
  <2>. QED  BY <2>1, <2>2, <2>3 DEF DiskShown, DiskCells
<1>5. RedoBits(mem, c)
  BY <1>2, <1>3 DEF RedoBits, DiskShown, DiskBits
<1>. QED  BY <1>4, <1>5 DEF RedoShows, DiskShown

LEMMA RedoShowsSame ==
    ASSUME NEW c \in Nat, NEW k \in Nat, NEW m \in Nat, m = k + 1, Len(log) \in Nat, m <= Len(log),
           log[m].type \notin ChangeTypes, NEW s, RedoShows(s, c, k)
    PROVE  RedoShows(s, c, m)
<1>1. \A i \in ChangesOf(log) \cup SlotsOf(log) : i \in Nat /\ (i <= m => i <= k)
  <2>1. m \notin ChangesOf(log) \cup SlotsOf(log)
    BY TypesFacts DEF ChangesOf, SlotsOf
  <2>. QED  BY <2>1 DEF ChangesOf, SlotsOf
<1>2. \A i : Latest(log, i, m) => Latest(log, i, k)
  BY <1>1 DEF Latest
<1>. QED  BY <1>1, <1>2 DEF RedoShows, RedoCells, RedoBits

(* each item is applied,                                                     *)
LEMMA RedoShowsNext ==
    ASSUME NEW c \in Nat, NEW k \in Nat, NEW m \in Nat, m = k + 1, c < m, Len(log) \in Nat, m <= Len(log),
           ChangesOK(log), NoLoneSlot(log),
           log[m].type \in ChangeTypes, NEW s, RedoShows(s, c, k), NEW d, Applied(s, d, log[m])
    PROVE  RedoShows(d, c, m)
<1>0. m \in ChangesOf(log) /\ m \in 1 .. Len(log)
  BY DEF ChangesOf
<1>. PICK x : x = log[m]
  OBVIOUS
<1>1. ChangeTyped(x) /\ x.type \in ChangeTypes
  BY <1>0 DEF ChangesOK
<1>2. /\ x.page \in Pages /\ PagesTyped(d)
      /\ Holds(d, x)
      /\ \A p \in Pages : \A o : p # x.page \/ o # x.offset => d[p][o] = s[p][o]
  BY <1>1, PageOfChange, AppliedFacts DEF RedoShows
<1>3. \A i \in ChangesOf(log) : log[i].page \in Pages /\ i \in 1 .. Len(log)
  BY PageOfChange DEF ChangesOK, ChangesOf
<1>4. SlotsOf(log) \subseteq ChangesOf(log)
  BY TypesFacts DEF SlotsOf, ChangesOf
<1>5. RedoCells(d, c, m)
  <2>. SUFFICES ASSUME NEW i \in ChangesOf(log), log[i].type \notin SlotTypes,
                       (c < i /\ Latest(log, i, m)) \/ (i < c /\ Latest(log, i, Len(log)))
                PROVE  Holds(d, log[i])
    BY DEF RedoCells
  <2>1. CASE i = m
    BY <1>2, <2>1
  <2>2. CASE i # m
    <3>0. Latest(log, i, m) => i <= m
      BY DEF Latest
    <3>1. i < m
      BY <1>3, <2>2, <3>0
    <3>2. ~SameCell(log[i], x)
      BY <1>0, <3>1 DEF Latest
    <3>3. (c < i /\ Latest(log, i, k)) \/ (i < c /\ Latest(log, i, Len(log)))
      <4>1. \A j \in ChangesOf(log) : j <= k => j <= m
        BY <1>3
      <4>2. i <= k
        BY <1>3, <3>1
      <4>. QED  BY <4>1, <4>2 DEF Latest
    <3>4. Holds(s, log[i])
      BY <3>3 DEF RedoShows, RedoCells
    <3>. QED  BY <1>2, <1>3, <3>2, <3>4 DEF Holds, SameCell
  <2>. QED  BY <2>1, <2>2
<1>6. x.type \in SlotTypes <=> x.offset = Bitmap
  BY <1>1 DEF ChangeTyped
<1>7. \A p \in Pages : d[p][Bitmap] = IF x.type \in SlotTypes /\ p = x.page THEN x.new ELSE s[p][Bitmap]
  BY <1>2, <1>6 DEF Holds
<1>8. BitsTyped(d)
  BY <1>1, <1>7 DEF BitsTyped, ChangeTyped, RedoShows
<1>9. RedoBits(d, m)
  <2>. SUFFICES ASSUME NEW i \in SlotsOf(log), i <= m PROVE log[i].new \subseteq d[log[i].page][Bitmap]
    BY DEF RedoBits
  <2>1. CASE x.type \in SlotTypes /\ log[i].page = x.page
    <3>1. m \in SlotsOf(log)
      BY <1>0, <2>1 DEF SlotsOf
    <3>2. i < m \/ i = m
      BY <1>3, <1>4
    <3>3. log[i].new \subseteq x.new
      BY <2>1, <3>1, <3>2 DEF ChangesOK, BitmapsGrow
    <3>. QED  BY <1>2, <1>7, <2>1, <3>3
  <2>2. CASE ~(x.type \in SlotTypes /\ log[i].page = x.page)
    <3>1. i # m
      BY <2>2 DEF SlotsOf
    <3>2. i <= k
      BY <1>3, <1>4, <3>1
    <3>3. log[i].new \subseteq s[log[i].page][Bitmap]
      BY <3>2 DEF RedoShows, RedoBits
    <3>. QED  BY <1>3, <1>4, <1>7, <2>2, <3>3
  <2>. QED  BY <2>1, <2>2
<1>10. IndexShown(log, d, Len(log))
  <2>. SUFFICES ASSUME NEW h \in Hashes, NEW o \in d[IndexPage(h)][Bitmap]
                PROVE  LinkedAt(log, IndexPage(h), o, Len(log))
    BY DEF IndexShown
  <2>0. IndexPage(h) \in Pages /\ IndexPage(h) \notin DataPages
    BY DEF Pages, IndexPage, DataPages, DataPage
  <2>1. CASE x.type \in SlotTypes /\ x.page = IndexPage(h)
    <3>1. x.type = "INDEX_SLOT_LOG" /\ o \in x.new
      BY <1>1, <1>7, <2>0, <2>1 DEF SlotTypes, ChangeTyped, DataTypes
    <3>2. m < Len(log)
      BY <3>1 DEF NoLoneSlot
    <3>3. IndexFilled(log, m)
      BY <1>0, <3>1, <3>2 DEF ChangesOK
    <3>4. \A i \in LinksOf(log) : i <= Len(log)
      BY DEF LinksOf
    <3>. QED  BY <2>1, <3>1, <3>3, <3>4 DEF IndexFilled, LinkedAt
  <2>2. CASE ~(x.type \in SlotTypes /\ x.page = IndexPage(h))
    BY <1>7, <2>0, <2>2 DEF RedoShows, IndexShown
  <2>. QED  BY <2>1, <2>2
<1>. QED  BY <1>2, <1>5, <1>8, <1>9, <1>10 DEF RedoShows

TypedLog == \A i \in 1 .. Len(log) : log[i].type \in NoChange \/ log[i].type \in ChangeTypes

(* and so the pages show the whole log at the end.                           *)
LEMMA RedoneShows ==
    ASSUME CountersInv, StoreTyped, TypedLog, ChangesOK(log), NoLoneSlot(log),
           NEW c \in 0 .. Len(log), IsLastCheckpoint(c),
           DiskShown(log, mem, Len(log)), ~Redone(c).hung
    PROVE  Shown(log, Redone(c).mem)
<1>2. PICK b \in Nat : b = Len(log)
  BY LogFacts
<1>3. PICK a \in Nat : a = c
  BY <1>2
<1>4. PICK f : Redoes(f, a, b) /\ Redone(c) = f[b]
  BY <1>2, <1>3, RedoneIs
<1>. DEFINE T == {i \in a .. b : IsRedo(f[i]) /\ (~f[i].hung => RedoShows(f[i].mem, a, i))}
<1>5. a \in a .. b /\ b \in a .. b /\ a \in 0 .. Len(log)
  BY <1>2, <1>3
<1>6. a \in T
  <2>1. f[a] = NothingRedone
    BY <1>4, <1>5, RedoesAt
  <2>2. f[a].mem = mem
    BY <2>1 DEF NothingRedone
  <2>3. IsRedo(f[a])
    BY <2>1 DEF NothingRedone, IsRedo
  <2>4. RedoShows(mem, a, a)
    BY <1>3, <1>5, RedoShowsFirst DEF StoreTyped
  <2>. QED  BY <1>5, <2>2, <2>3, <2>4
<1>7. ASSUME NEW i \in a .. b - 1, i \in T PROVE i + 1 \in T
  <2>1. PICK j \in a .. b : j = i + 1 /\ j # a /\ j - 1 = i
    OBVIOUS
  <2>2. f[j] = RedoItem(f[j - 1], log[j])
    BY <1>4, <2>1, RedoesAt
  <2>3. IsRedo(f[i]) /\ (~f[i].hung => RedoShows(f[i].mem, a, i))
    BY <1>7
  <2>4. PICK r, x, q : r = f[i] /\ x = log[j] /\ q = f[j]
    OBVIOUS
  <2>5. RedoStep(r, x, q)
    BY <2>1, <2>2, <2>3, <2>4, RedoItemFacts
  <2>6. IsRedo(q)
    BY <2>5 DEF RedoStep
  <2>7. ASSUME ~q.hung PROVE RedoShows(q.mem, a, j)
    <3>1. ~r.hung
      BY <2>5, <2>7 DEF RedoStep
    <3>2. PICK s, d : s = r.mem /\ d = q.mem
      OBVIOUS
    <3>3. RedoShows(s, a, i)
      BY <2>3, <2>4, <3>1, <3>2
    <3>4. i \in Nat /\ j \in Nat /\ j = i + 1 /\ a < j /\ j <= Len(log) /\ j \in 1 .. Len(log) /\ Len(log) \in Nat
      BY <1>2, <2>1
    <3>5. CASE x.type \in NoChange
      <4>1. d = s
        BY <2>5, <3>1, <3>2, <3>5 DEF RedoStep
      <4>2. log[j].type \notin ChangeTypes
        BY <2>4, <3>5, TypesFacts
      <4>3. RedoShows(s, a, j)
        BY <3>3, <3>4, <4>2, RedoShowsSame
      <4>. QED  BY <3>2, <4>1, <4>3
    <3>6. CASE x.type \notin NoChange
      <4>1. log[j].type \in ChangeTypes
        BY <2>4, <3>4, <3>6 DEF TypedLog
      <4>2. q.mem = [r.mem EXCEPT ![x.page][x.offset] = x.new]
        BY <2>5, <2>7, <3>1, <3>6 DEF RedoStep
      <4>3. Applied(s, d, log[j])
        BY <2>4, <3>2, <4>2 DEF Applied, OffsetSet
      <4>4. RedoShows(d, a, j)
        BY <3>3, <3>4, <4>1, <4>3, RedoShowsNext
      <4>. QED  BY <3>2, <4>4
    <3>. QED  BY <3>5, <3>6
  <2>. QED  BY <2>1, <2>4, <2>6, <2>7
<1>8. RedoShows(f[b].mem, a, b)
  <2>. HIDE DEF T
  <2>1. a .. b \subseteq T
    BY <1>6, <1>7, InductUpTo
  <2>2. b \in T
    BY <1>5, <2>1
  <2>. QED  BY <1>4, <2>2 DEF T
<1>9. PICK s : s = Redone(c).mem
  OBVIOUS
<1>10. RedoShows(s, c, Len(log))
  BY <1>2, <1>3, <1>4, <1>8, <1>9
<1>11. CellsShown(log, s)
  <2>1. \A i \in ChangesOf(log) : i \in Nat /\ i # c
    <3>1. \A i \in ChangesOf(log) : i \in 1 .. Len(log) /\ log[i].type # "CHECKPOINT_LOG"
      BY TypesFacts DEF ChangesOf, NoChange
    <3>2. c > 0 => log[c].type = "CHECKPOINT_LOG"
      BY DEF IsLastCheckpoint
    <3>. QED  BY <3>1, <3>2
  <2>2. \A i \in ChangesOf(log) : c < i \/ i < c
    BY <1>3, <2>1
  <2>. QED  BY <1>10, <2>2 DEF RedoShows, RedoCells, CellsShown
<1>12. BitsShown(log, s)
  <2>1. \A i \in SlotsOf(log) : i <= Len(log)
    BY <1>2 DEF SlotsOf
  <2>. QED  BY <1>10, <2>1 DEF RedoShows, RedoBits, BitsShown
<1>. QED  BY <1>9, <1>10, <1>11, <1>12 DEF Shown, RedoShows

(* Where what pages show of a log is found: the index item of a key.         *)
LEMMA LatestExists ==
    ASSUME NEW l, Len(l) \in Nat, NEW i \in ChangesOf(l)
    PROVE  \E j : Latest(l, j, Len(l)) /\ i <= j /\ SameCell(l[i], l[j])
<1>. PICK b \in Nat : b = Len(l)
  OBVIOUS
<1>. DEFINE S == {b - j : j \in {a \in ChangesOf(l) : SameCell(l[i], l[a])}}
<1>1. \A j \in ChangesOf(l) : j \in 1 .. b /\ b - j \in Nat
  BY DEF ChangesOf
<1>2. SameCell(l[i], l[i])
  BY DEF SameCell
<1>3. S \in SUBSET Nat /\ S # {}
  BY <1>1, <1>2
<1>4. PICK m \in S : \A a \in S : m <= a
  <2>. HIDE DEF S
  <2>. QED  BY <1>3, LeastNat
<1>5. PICK j \in ChangesOf(l) : SameCell(l[i], l[j]) /\ m = b - j
  BY <1>4
<1>6. \A a \in ChangesOf(l) : SameCell(l[i], l[a]) => a <= j
  <2>. SUFFICES ASSUME NEW a \in ChangesOf(l), SameCell(l[i], l[a]) PROVE a <= j
    OBVIOUS
  <2>1. b - a \in S
    OBVIOUS
  <2>2. b - j <= b - a
    BY <1>4, <1>5, <2>1
  <2>. QED  BY <1>1, <2>2
<1>7. \A a \in ChangesOf(l) : j < a => ~SameCell(l[j], l[a])
  <2>1. \A a \in ChangesOf(l) : SameCell(l[j], l[a]) => SameCell(l[i], l[a])
    BY <1>5 DEF SameCell
  <2>. QED  BY <1>1, <1>6, <2>1
<1>8. Latest(l, j, Len(l))
  BY <1>1, <1>7 DEF Latest
<1>. QED  BY <1>2, <1>5, <1>6, <1>8

LinksOfKey(k) == {i \in LinksOf(log) : log[i].new.key = k}

LEMMA LinkFacts ==
    ASSUME ChangesOK(log), Shown(log, mem), NEW i \in LinksOf(log)
    PROVE  /\ i \in ChangesOf(log) /\ log[i].new.key \in Keys
           /\ log[i].page = IndexPage(hashOf[log[i].new.key])
           /\ log[i].type \notin SlotTypes
           /\ log[i].offset \in Taken(IndexPage(hashOf[log[i].new.key]))
<1>1. i \in ChangesOf(log) /\ log[i].type \in IndexItems /\ log[i].type \notin SlotTypes
  BY TypesFacts DEF LinksOf, ChangesOf
<1>2. ChangeTyped(log[i]) /\ SlotTaken(log, i)
  BY <1>1 DEF ChangesOK
<1>3. PICK j \in SlotsOf(log) : log[j].page = log[i].page /\ log[i].offset \in log[j].new
  BY <1>2 DEF SlotTaken
<1>. QED  BY <1>1, <1>2, <1>3 DEF ChangeTyped, Shown, BitsShown, Taken

(* The last change of an index item is the last link of its key.             *)
LEMMA LatestLink ==
    ASSUME Len(log) \in Nat, ChangesOK(log), Shown(log, mem), NEW i \in LinksOf(log)
    PROVE  \E j \in LinksOf(log) :
              /\ LastLink(log, log[i].new.key, j, Len(log))
              /\ log[j].new.key = log[i].new.key /\ log[j].offset = log[i].offset
              /\ mem[IndexPage(hashOf[log[i].new.key])][log[i].offset] = log[j].new
<1>1. /\ i \in ChangesOf(log) /\ log[i].new.key \in Keys
      /\ log[i].page = IndexPage(hashOf[log[i].new.key])
      /\ log[i].type \notin SlotTypes
  BY LinkFacts
<1>2. PICK j : Latest(log, j, Len(log)) /\ i <= j /\ SameCell(log[i], log[j])
  BY <1>1, LatestExists
<1>3. j \in ChangesOf(log) /\ ChangeTyped(log[i]) /\ ChangeTyped(log[j])
  BY <1>1, <1>2 DEF Latest, ChangesOK
<1>4. j \in LinksOf(log)
  <2>1. log[j].type \notin SlotTypes
    BY <1>1, <1>2, <1>3 DEF ChangeTyped, SameCell
  <2>2. log[j].type \notin DataTypes
    <3>1. log[j].page = IndexPage(hashOf[log[i].new.key])
      BY <1>1, <1>2 DEF SameCell
    <3>2. log[j].page \notin DataPages
      BY <3>1 DEF DataPages, DataPage, IndexPage
    <3>. QED  BY <1>3, <3>2 DEF ChangeTyped
  <2>3. log[j].type \in IndexItems /\ j \in 1 .. Len(log)
    BY <1>3, <2>1, <2>2 DEF ChangesOf, ChangeTypes, DataTypes, IndexTypes, SlotTypes, IndexItems
  <2>. QED  BY <2>3 DEF LinksOf
<1>5. log[j].new.key = log[i].new.key
  BY <1>2, <1>4 DEF ChangesOK, OneKey
<1>6. Holds(mem, log[j])
  BY <1>1, <1>2, <1>3, <1>4, TypesFacts DEF Shown, CellsShown, LinksOf
<1>7. LastLink(log, log[i].new.key, j, Len(log))
  <2>1. \A a \in LinksOf(log) : j < a => log[a].new.key # log[i].new.key
    <3>. SUFFICES ASSUME NEW a \in LinksOf(log), j < a, log[a].new.key = log[i].new.key PROVE FALSE
      OBVIOUS
    <3>1. SameCell(log[j], log[a])
      BY <1>4, <1>5 DEF ChangesOK, OneKey
    <3>2. a \in ChangesOf(log) /\ a <= Len(log)
      BY TypesFacts DEF LinksOf, ChangesOf
    <3>. QED  BY <1>2, <3>1, <3>2 DEF Latest
  <2>2. j <= Len(log)
    BY <1>4 DEF LinksOf
  <2>. QED  BY <1>4, <1>5, <2>1, <2>2 DEF LastLink
<1>. QED  BY <1>1, <1>2, <1>4, <1>5, <1>6, <1>7 DEF SameCell, Holds

(* find_index finds the one item of a key, and in it the last version.       *)
LEMMA Lookup ==
    ASSUME Len(log) \in Nat, ChangesOK(log), Shown(log, mem), NEW k \in Keys, hashOf[k] \in Hashes
    PROVE  /\ Found(k) = {} <=> NoLink(log, k, Len(log))
           /\ \A i \in LinksOf(log) : log[i].new.key = k => Found(k) = {log[i].offset} /\ ItemOf(k) = log[i].offset
           /\ Follows(log, k, Len(log), LastOf(k))
<1>1. ASSUME NEW o \in Found(k) PROVE \E i \in LinksOf(log) : log[i].new.key = k /\ log[i].offset = o
  <2>1. o \in mem[IndexPage(hashOf[k])][Bitmap] /\ mem[IndexPage(hashOf[k])][o].key = k
    BY <1>1 DEF Found, Taken
  <2>2. PICK i \in LinksOf(log) : log[i].page = IndexPage(hashOf[k]) /\ log[i].offset = o
    BY <2>1 DEF Shown, IndexShown, LinkedAt
  <2>3. log[i].page = IndexPage(hashOf[log[i].new.key])
    BY LinkFacts
  <2>4. PICK j \in LinksOf(log) : /\ log[j].new.key = log[i].new.key
                                  /\ mem[IndexPage(hashOf[log[i].new.key])][log[i].offset] = log[j].new
    BY LatestLink
  <2>. QED  BY <2>1, <2>2, <2>3, <2>4
<1>2. ASSUME NEW i \in LinksOf(log), log[i].new.key = k PROVE log[i].offset \in Found(k)
  <2>1. PICK j \in LinksOf(log) : /\ log[j].new.key = log[i].new.key
                                  /\ mem[IndexPage(hashOf[log[i].new.key])][log[i].offset] = log[j].new
    BY LatestLink
  <2>2. log[i].offset \in Taken(IndexPage(hashOf[k]))
    BY <1>2, LinkFacts
  <2>. QED  BY <1>2, <2>1, <2>2 DEF Found
<1>3. Found(k) = {} <=> NoLink(log, k, Len(log))
  <2>1. \A i \in LinksOf(log) : i <= Len(log)
    BY DEF LinksOf
  <2>. QED  BY <1>1, <1>2, <2>1 DEF NoLink
<1>4. ASSUME NEW i \in LinksOf(log), log[i].new.key = k
      PROVE  Found(k) = {log[i].offset} /\ ItemOf(k) = log[i].offset
  <2>1. \A o \in Found(k) : o = log[i].offset
    <3>1. \A j \in LinksOf(log) : log[j].new.key = k => SameCell(log[i], log[j])
      BY <1>4 DEF ChangesOK, OneKey
    <3>. QED  BY <1>1, <3>1 DEF SameCell
  <2>2. Found(k) = {log[i].offset}
    BY <1>2, <1>4, <2>1
  <2>3. log[i].offset <= log[i].offset
    <3>1. log[i].offset \in Int
      <4>1. i \in ChangesOf(log)
        BY LinkFacts
      <4>2. log[i].offset \in Offsets(log[i].page) /\ Cardinality(Keys) \in Nat
        BY <4>1, KeysAssumption, FS_CardinalityType DEF ChangesOK, ChangeTyped
      <4>. QED  BY <4>2, SizesAssumption DEF Offsets
    <3>. QED  BY <3>1
  <2>4. PICK o : o = log[i].offset
    OBVIOUS
  <2>5. Found(k) = {o} /\ o <= o
    BY <2>2, <2>3, <2>4
  <2>6. ItemOf(k) = o
    BY <2>5 DEF ItemOf
  <2>. QED  BY <2>2, <2>4, <2>6
<1>5. Follows(log, k, Len(log), LastOf(k))
  <2>1. CASE Found(k) = {}
    BY <1>3, <2>1 DEF Follows, LastOf
  <2>2. CASE Found(k) # {}
    <3>1. PICK i \in LinksOf(log) : log[i].new.key = k
      BY <1>1, <2>2
    <3>2. PICK j \in LinksOf(log) :
              /\ LastLink(log, log[i].new.key, j, Len(log))
              /\ mem[IndexPage(hashOf[log[i].new.key])][log[i].offset] = log[j].new
      BY LatestLink
    <3>3. LastOf(k) = log[j].new.last
      BY <1>4, <2>2, <3>1, <3>2 DEF LastOf
    <3>4. j \in 1 .. Len(log)
      BY DEF LinksOf
    <3>. QED  BY <3>1, <3>2, <3>3, <3>4 DEF Follows
  <2>. QED  BY <2>1, <2>2
<1>. QED  BY <1>3, <1>4, <1>5

(* The versions of a key, as their places in the log tell.                   *)
IsLinkOf(x, k) == x.type \in IndexItems /\ x.new.key = k

VersionsTo(f, k, b) ==
    f = [i \in 0 .. b |->
            IF i = 0 THEN <<>>
            ELSE IF IsLinkOf(log[i], k)
                 THEN Append(f[i - 1], log[i])
            ELSE f[i - 1]]

LEMMA VersionsToAt ==
    ASSUME NEW k, NEW b \in Nat, NEW f, VersionsTo(f, k, b), NEW i \in 0 .. b
    PROVE  f[i] = IF i = 0 THEN <<>>
                  ELSE IF IsLinkOf(log[i], k)
                       THEN Append(f[i - 1], log[i])
                  ELSE f[i - 1]
BY DEF VersionsTo

(* Versions(k) as a function, which it is because induction says so.         *)
LEMMA VersionsToExists ==
    ASSUME NEW k, NEW b \in Nat
    PROVE  \E f : VersionsTo(f, k, b)
<1>. DEFINE T == {a \in Nat : \E f : VersionsTo(f, k, a)}
<1>1. 0 \in T
  <2>. DEFINE f == [i \in 0 .. 0 |-> <<>>]
  <2>1. \A i \in 0 .. 0 : i = 0
    OBVIOUS
  <2>2. VersionsTo(f, k, 0)
    BY <2>1, Zenon DEF VersionsTo
  <2>. QED  BY <2>2
<1>2. ASSUME NEW a \in Nat, a \in T PROVE a + 1 \in T
  <2>1. PICK f : VersionsTo(f, k, a)
    BY <1>2
  <2>. DEFINE Step(h, i) == IF IsLinkOf(log[i], k)
                            THEN Append(h[i - 1], log[i]) ELSE h[i - 1]
              g == [i \in 0 .. a + 1 |-> IF i = a + 1 THEN Step(f, i) ELSE f[i]]
  <2>2. \A i \in 0 .. a : i # a + 1 /\ i \in 0 .. a + 1 /\ a \in Nat
    OBVIOUS
  <2>3. \A i \in 0 .. a : g[i] = f[i] /\ f[i] = IF i = 0 THEN <<>> ELSE Step(f, i)
    <3>1. \A i \in 0 .. a : g[i] = f[i]
      BY <2>2
    <3>2. \A i \in 0 .. a : f[i] = IF i = 0 THEN <<>> ELSE Step(f, i)
      BY <2>1, VersionsToAt
    <3>. QED  BY <3>1, <3>2
  <2>4. \A i \in 0 .. a + 1 : i = 0 \/ i - 1 \in 0 .. a
    OBVIOUS
  <2>5. \A i \in 0 .. a + 1 : g[i] = IF i = 0 THEN <<>> ELSE Step(g, i)
    <3>. SUFFICES ASSUME NEW i \in 0 .. a + 1
                  PROVE  g[i] = IF i = 0 THEN <<>> ELSE Step(g, i)
      OBVIOUS
    <3>1. CASE i = a + 1
      <4>1. g[i] = Step(f, i) /\ i # 0 /\ i - 1 \in 0 .. a
        BY <3>1
      <4>2. g[i - 1] = f[i - 1]
        BY <2>3, <4>1
      <4>. HIDE DEF g
      <4>. QED  BY <4>1, <4>2
    <3>2. CASE i # a + 1
      <4>1. i \in 0 .. a
        BY <3>2
      <4>. HIDE DEF g
      <4>. QED  BY <2>3, <2>4, <4>1
    <3>. QED  BY <3>1, <3>2
  <2>6. VersionsTo(g, k, a + 1)
    <3>1. g = [i \in 0 .. a + 1 |-> g[i]]
      OBVIOUS
    <3>. HIDE DEF g
    <3>. QED  BY <2>5, <3>1 DEF VersionsTo
  <2>7. a + 1 \in Nat
    OBVIOUS
  <2>. QED  BY <2>6, <2>7
<1>3. Nat \subseteq T
  <2>. HIDE DEF T
  <2>. QED  BY <1>1, <1>2, Induct
<1>. QED  BY <1>3

LEMMA VersionsAre ==
    ASSUME NEW k, Len(log) \in Nat
    PROVE  \E f : VersionsTo(f, k, Len(log)) /\ Versions(k) = f[Len(log)]
<1>. DEFINE f == CHOOSE f : VersionsTo(f, k, Len(log))
<1>1. VersionsTo(f, k, Len(log))
  BY VersionsToExists
<1>2. Versions(k) = f[Len(log)]
  BY DEF Versions, VersionsTo, IsLinkOf
<1>. QED  BY <1>1, <1>2

(* v has the versions of k that the first i items of the log tell of.        *)
Tells(v, k, i) ==
    /\ IsSeq(v)
    /\ v = <<>> <=> NoLink(log, k, i)
    /\ v # <<>> => \E j \in LinksOf(log) : LastLink(log, k, j, i) /\ v[Len(v)] = log[j]
    /\ \A a \in 1 .. Len(v) : \E j \in LinksOf(log) :
        /\ log[j].new.key = k /\ v[a] = log[j]
        /\ Follows(log, k, j - 1, IF a = 1 THEN NoPlace ELSE v[a - 1].new.last)

LEMMA TellsNone ==
    ASSUME NEW k
    PROVE  Tells(<<>>, k, 0)
<1>1. NoLink(log, k, 0)
  BY DEF NoLink, LinksOf
<1>2. Len(<<>>) = 0 /\ IsSeq(<<>>)
  <2>1. <<>> \in Seq({})
    OBVIOUS
  <2>. QED  BY <2>1, SeqIs
<1>. QED  BY <1>1, <1>2 DEF Tells

LEMMA TellsMore ==
    ASSUME Len(log) \in Nat, NEW k, NEW i \in Nat, NEW m \in 1 .. Len(log), m = i + 1,
           NEW v, Tells(v, k, i),
           NEW z, z = IF IsLinkOf(log[m], k)
                      THEN Append(v, log[m]) ELSE v
    PROVE  Tells(z, k, m)
<1>0. \A j \in LinksOf(log) : j \in 1 .. Len(log) /\ (j <= m <=> j <= i \/ j = m)
  BY DEF LinksOf
<1>1. CASE m \in LinksOf(log) /\ log[m].new.key = k
  <2>0. z = Append(v, log[m]) /\ i = m - 1
    BY <1>1 DEF LinksOf, IsLinkOf
  <2>1. PICK x, b : x = log[m] /\ b = Len(v)
    OBVIOUS
  <2>2. /\ IsSeq(z) /\ Len(z) = b + 1 /\ b \in Nat
        /\ \A a \in 1 .. b : z[a] = v[a]
        /\ z[b + 1] = x
    BY <2>0, <2>1, AppendFacts, SeqFacts DEF Tells
  <2>3. z # <<>> /\ ~NoLink(log, k, m)
    <3>1. Len(<<>>) = 0 /\ b + 1 # 0
      BY <2>2
    <3>. QED  BY <1>1, <2>2, <3>1 DEF NoLink
  <2>4. LastLink(log, k, m, m) /\ z[Len(z)] = log[m]
    BY <1>0, <1>1, <2>1, <2>2 DEF LastLink
  <2>5. Follows(log, k, i, IF b = 0 THEN NoPlace ELSE v[b].new.last)
    <3>1. b = 0 <=> v = <<>>
      BY <2>1, EmptySeq DEF Tells, IsSeq
    <3>2. CASE v = <<>>
      BY <3>1, <3>2 DEF Tells, Follows
    <3>3. CASE v # <<>>
      <4>1. PICK j \in LinksOf(log) : LastLink(log, k, j, i) /\ v[b] = log[j]
        BY <2>1, <3>3 DEF Tells
      <4>2. j \in 1 .. i
        BY <1>0, <4>1 DEF LastLink
      <4>. QED  BY <3>1, <3>3, <4>1, <4>2 DEF Follows
    <3>. QED  BY <3>2, <3>3
  <2>6. ASSUME NEW a \in 1 .. Len(z)
        PROVE  \E j \in LinksOf(log) :
                 /\ log[j].new.key = k /\ z[a] = log[j]
                 /\ Follows(log, k, j - 1, IF a = 1 THEN NoPlace ELSE z[a - 1].new.last)
    <3>1. CASE a = b + 1
      <4>1. PICK place : place = IF a = 1 THEN NoPlace ELSE z[a - 1].new.last
        OBVIOUS
      <4>2. place = IF b = 0 THEN NoPlace ELSE v[b].new.last
        BY <2>2, <3>1, <4>1
      <4>3. Follows(log, k, m - 1, place)
        BY <2>0, <2>5, <4>2
      <4>4. z[a] = log[m]
        BY <2>1, <2>2, <3>1
      <4>. QED  BY <1>1, <4>1, <4>3, <4>4
    <3>2. CASE a # b + 1
      <4>1. a \in 1 .. b /\ z[a] = v[a] /\ (a # 1 => z[a - 1] = v[a - 1])
        BY <2>2, <3>2
      <4>2. PICK j \in LinksOf(log) :
                 /\ log[j].new.key = k /\ v[a] = log[j]
                 /\ Follows(log, k, j - 1, IF a = 1 THEN NoPlace ELSE v[a - 1].new.last)
        BY <2>1, <4>1 DEF Tells
      <4>3. (IF a = 1 THEN NoPlace ELSE v[a - 1].new.last)
              = IF a = 1 THEN NoPlace ELSE z[a - 1].new.last
        BY <4>1
      <4>. QED  BY <4>1, <4>2, <4>3
    <3>. QED  BY <3>1, <3>2
  <2>. QED  BY <1>1, <2>2, <2>3, <2>4, <2>6 DEF Tells
<1>2. CASE ~(m \in LinksOf(log) /\ log[m].new.key = k)
  <2>1. z = v
    BY <1>2 DEF LinksOf, IsLinkOf
  <2>2. NoLink(log, k, m) <=> NoLink(log, k, i)
    BY <1>0, <1>2 DEF NoLink
  <2>3. \A j : LastLink(log, k, j, i) => LastLink(log, k, j, m)
    BY <1>0, <1>2 DEF LastLink
  <2>. QED  BY <2>1, <2>2, <2>3 DEF Tells
<1>. QED  BY <1>1, <1>2

(* Every version of Versions(k) follows the one before it.                   *)
LEMMA VersionsTell ==
    ASSUME NEW k, Len(log) \in Nat
    PROVE  Tells(Versions(k), k, Len(log))
<1>1. PICK b \in Nat : b = Len(log)
  OBVIOUS
<1>2. PICK f : VersionsTo(f, k, b) /\ Versions(k) = f[b]
  BY <1>1, VersionsAre
<1>. DEFINE T == {i \in 0 .. b : Tells(f[i], k, i)}
<1>3. 0 \in T
  <2>1. 0 \in 0 .. b
    OBVIOUS
  <2>2. f[0] = <<>>
    BY <1>2, <2>1, VersionsToAt
  <2>. QED  BY <2>1, <2>2, TellsNone
<1>4. ASSUME NEW i \in 0 .. b - 1, i \in T PROVE i + 1 \in T
  <2>1. PICK m \in 0 .. b : m = i + 1 /\ m # 0 /\ m - 1 = i /\ i \in Nat /\ m \in 1 .. b
    OBVIOUS
  <2>2. f[m] = IF IsLinkOf(log[m], k)
               THEN Append(f[i], log[m]) ELSE f[i]
    <3>1. f[m] = IF m = 0 THEN <<>>
                 ELSE IF IsLinkOf(log[m], k) THEN Append(f[m - 1], log[m]) ELSE f[m - 1]
      BY <1>2, VersionsToAt
    <3>. QED  BY <2>1, <3>1
  <2>3. Tells(f[i], k, i)
    BY <1>4
  <2>4. PICK v, z : v = f[i] /\ z = f[m]
    OBVIOUS
  <2>5. Tells(z, k, m)
    BY <1>1, <2>1, <2>2, <2>3, <2>4, TellsMore
  <2>. QED  BY <2>1, <2>4, <2>5
<1>. HIDE DEF T
<1>5. 0 .. b \subseteq T
  BY <1>3, <1>4, InductUpTo
<1>6. b \in T
  BY <1>5
<1>. QED  BY <1>1, <1>2, <1>6 DEF T

LEMMA FollowsOne ==
    ASSUME NEW l, NEW k, NEW m, NEW p, NEW q, Follows(l, k, m, p), Follows(l, k, m, q)
    PROVE  p = q
<1>1. \A i \in LinksOf(l) : i \in Nat
  BY DEF LinksOf
<1>2. ASSUME NEW i, NEW j, LastLink(l, k, i, m), LastLink(l, k, j, m) PROVE i = j
  <2>1. ~(i < j) /\ ~(j < i)
    BY <1>2 DEF LastLink
  <2>2. i \in Nat /\ j \in Nat
    BY <1>1, <1>2 DEF LastLink
  <2>. QED  BY <2>1, <2>2
<1>3. ASSUME NEW i, LastLink(l, k, i, m) PROVE ~NoLink(l, k, m)
  BY <1>3 DEF LastLink, NoLink
<1>. QED  BY <1>2, <1>3 DEF Follows

LEMMA TimestampIs ==
    ASSUME NEW t, NEW ts,
           \A c \in DOMAIN log : log[c].type = "COMMIT_LOG" /\ log[c].tx = t => log[c].maxTs = ts,
           ~Ended(t, "COMMIT_LOG") => ts = maxTs + 1
    PROVE  TimestampOf(t) = ts
<1>1. CASE Ended(t, "COMMIT_LOG")
  <2>. DEFINE S == {log[i] : i \in {j \in DOMAIN log : log[j].type = "COMMIT_LOG" /\ log[j].tx = t}}
  <2>1. S # {}
    BY <1>1 DEF Ended
  <2>2. \A x \in S : x.maxTs = ts
    OBVIOUS
  <2>3. (CHOOSE x \in S : TRUE) \in S
    BY <2>1
  <2>. HIDE DEF S
  <2>4. (CHOOSE x \in S : TRUE).maxTs = ts
    BY <2>2, <2>3
  <2>. QED  BY <1>1, <2>4 DEF TimestampOf, S
<1>2. CASE ~Ended(t, "COMMIT_LOG")
  BY <1>2 DEF TimestampOf
<1>. QED  BY <1>1, <1>2

(* What the pages hold of one version.                                       *)
LEMMA VersionHolds ==
    ASSUME CountersInv, PartsInv, HistoryInv, Up, NEW j \in LinksOf(log),
           NEW k \in Keys, log[j].new.key = k, NEW h \in Hashes, hashOf[k] = h,
           NEW prev, Follows(log, k, j - 1, prev),
           NEW place, place = log[j].new.last
    PROVE  /\ place[1] < ReadCounts(h).data
           /\ place[2] \in Taken(DataPage(h, place[1]))
           /\ mem[DataPage(h, place[1])][place[2]] = Record(log[j].tx, TimestampOf(log[j].tx), prev)
<1>1. Len(log) \in Nat /\ DOMAIN log = 1 .. Len(log)
  BY LogFacts
<1>2. Shown(log, mem) /\ ChangesOK(log) /\ VersionsOK(log) /\ PagesCounted
  BY DEF HistoryInv, PagesUp
<1>3. place[1] \in 0 .. MaxPages - 1 /\ place[2] \in 1 .. Slots
  BY <1>2 DEF VersionsOK, Version
<1>4. PICK u \in 1 .. j - 1 : StampOf(log, j, u)
  BY <1>2 DEF VersionsOK, Version
<1>5. /\ log[u].type = "DATA_RECORD_UPDATE_LOG" /\ log[u].tx = log[j].tx
      /\ Latest(log, u, Len(log)) /\ u \in ChangesOf(log)
      /\ log[u].page = DataPage(h, place[1]) /\ log[u].offset = place[2]
      /\ log[u].new = Record(log[j].tx, log[u].new.ts, log[u].new.prev)
      /\ Follows(log, k, j - 1, log[u].new.prev)
      /\ \A c \in 1 .. Len(log) : log[c].type = "COMMIT_LOG" /\ log[c].tx = log[j].tx => log[c].maxTs = log[u].new.ts
  BY <1>4 DEF StampOf, InCell, Latest
<1>6. log[u].type \notin SlotTypes
  BY <1>5 DEF SlotTypes
<1>7. place[1] < ReadCounts(h).data
  <2>1. ASSUME NEW v \in Workers, CountsIt(v, h, place[1], log[u].tx) PROVE FALSE
    <3>1. wpc[v] # "idle" /\ ~Committing(v) /\ tx[v] = log[j].tx
      BY <1>5, <2>1 DEF CountsIt, Growing
    <3>2. Unlinked(tx[v])
      BY <3>1 DEF PartsInv, TxOfWorkers
    <3>3. j \in DOMAIN log /\ log[j].type \in IndexItems
      BY <1>1 DEF LinksOf
    <3>. QED  BY <3>1, <3>2, <3>3 DEF Unlinked
  <2>. QED  BY <1>2, <1>3, <1>5, <2>1 DEF PagesCounted, DataCounted, IndexCounted, PageCounted
<1>8. place[2] \in Taken(DataPage(h, place[1]))
  <2>1. SlotTaken(log, u)
    BY <1>2, <1>5, <1>6 DEF ChangesOK
  <2>. QED  BY <1>2, <1>5, <2>1 DEF SlotTaken, Shown, BitsShown, Taken
<1>9. mem[DataPage(h, place[1])][place[2]] = log[u].new
  BY <1>2, <1>5, <1>6 DEF Shown, CellsShown, Holds
<1>10. log[u].new.prev = prev
  BY <1>5, FollowsOne
<1>11. TimestampOf(log[j].tx) = log[u].new.ts
  <2>1. ~Ended(log[j].tx, "COMMIT_LOG") => log[u].new.ts = maxTs + 1
    <3>. SUFFICES ASSUME ~Ended(log[j].tx, "COMMIT_LOG") PROVE log[u].new.ts = maxTs + 1
      OBVIOUS
    <3>1. j \in DOMAIN log /\ log[j].type \in IndexItems
      BY <1>1 DEF LinksOf
    <3>2. PICK w \in Workers : Committing(w) /\ tx[w] = log[j].tx
      BY <3>1 DEF PartsInv, NothingInPart
    <3>3. u \in 1 .. Len(log)
      BY <1>1, <3>1
    <3>. QED  BY <1>4, <3>2, <3>3 DEF HistoryInv, CommittingNow
  <2>2. PICK t, ts : t = log[j].tx /\ ts = log[u].new.ts
    OBVIOUS
  <2>3. \A c \in DOMAIN log : log[c].type = "COMMIT_LOG" /\ log[c].tx = t => log[c].maxTs = ts
    BY <1>1, <1>5, <2>2
  <2>4. ~Ended(t, "COMMIT_LOG") => ts = maxTs + 1
    BY <2>1, <2>2
  <2>5. TimestampOf(t) = ts
    BY <2>3, <2>4, TimestampIs
  <2>. QED  BY <2>2, <2>5
<1>. QED  BY <1>5, <1>7, <1>8, <1>9, <1>10, <1>11

HistoryOf(k, h, v) ==
    /\ Cardinality(Found(k)) = IF v = <<>> THEN 0 ELSE 1
    /\ v # <<>> => LastOf(k) = v[Len(v)].new.last /\ ReadCounts(h).index = 1
    /\ \A i \in DOMAIN v :
         LET place == v[i].new.last
             p == DataPage(h, place[1])
         IN /\ place[1] < ReadCounts(h).data
            /\ place[2] \in Taken(p)
            /\ mem[p][place[2]] =
                 [tx |-> v[i].tx, ts |-> TimestampOf(v[i].tx),
                  prev |-> IF i = 1 THEN NoPlace ELSE v[i - 1].new.last]

(* HistoryInv is enough.                                                     *)
LEMMA HistoryHolds ==
    ASSUME CountersInv, PartsInv, StoreTyped, HistoryInv
    PROVE  HistoryRestored
<1>. SUFFICES ASSUME Up, NEW k \in Keys PROVE HistoryOf(k, hashOf[k], Versions(k))
  BY DEF HistoryRestored, HistoryOf
<1>. PICK h, v : h = hashOf[k] /\ v = Versions(k)
  OBVIOUS
<1>1. Len(log) \in Nat
  BY LogFacts
<1>2. Shown(log, mem) /\ ChangesOK(log) /\ VersionsOK(log) /\ PagesCounted
  BY DEF HistoryInv, PagesUp
<1>3. h \in Hashes
  BY DEF StoreTyped
<1>4. Tells(v, k, Len(log))
  BY <1>1, VersionsTell
<1>5. /\ Found(k) = {} <=> NoLink(log, k, Len(log))
      /\ \A i \in LinksOf(log) : log[i].new.key = k => Found(k) = {log[i].offset} /\ ItemOf(k) = log[i].offset
      /\ Follows(log, k, Len(log), LastOf(k))
  BY <1>1, <1>2, <1>3, Lookup
<1>6. Cardinality(Found(k)) = IF v = <<>> THEN 0 ELSE 1
  <2>1. CASE v = <<>>
    BY <1>4, <1>5, <2>1, FS_EmptySet DEF Tells
  <2>2. CASE v # <<>>
    <3>1. PICK j \in LinksOf(log) : log[j].new.key = k
      BY <1>4, <2>2 DEF Tells, LastLink
    <3>. QED  BY <1>5, <2>2, <3>1, FS_Singleton
  <2>. QED  BY <2>1, <2>2
<1>7. ASSUME v # <<>> PROVE LastOf(k) = v[Len(v)].new.last /\ ReadCounts(h).index = 1
  <2>1. PICK j \in LinksOf(log) : LastLink(log, k, j, Len(log)) /\ v[Len(v)] = log[j]
    BY <1>4, <1>7 DEF Tells
  <2>2. j \in 1 .. Len(log) /\ log[j].new.key = k
    BY <2>1 DEF LinksOf, LastLink
  <2>3. Follows(log, k, Len(log), log[j].new.last)
    BY <2>1, <2>2 DEF Follows
  <2>4. LastOf(k) = log[j].new.last
    BY <1>5, <2>3, FollowsOne
  <2>5. j \in ChangesOf(log) /\ log[j].page = IndexPage(h)
    BY <1>2, <2>2, LinkFacts
  <2>. QED  BY <1>2, <1>3, <2>1, <2>4, <2>5 DEF PagesCounted, DataCounted, IndexCounted, PageCounted
<1>8. DOMAIN v = 1 .. Len(v)
  BY <1>4, SeqFacts DEF Tells
<1>9. ASSUME NEW i \in DOMAIN v
      PROVE  /\ v[i].new.last[1] < ReadCounts(h).data
             /\ v[i].new.last[2] \in Taken(DataPage(h, v[i].new.last[1]))
             /\ mem[DataPage(h, v[i].new.last[1])][v[i].new.last[2]] =
                  Record(v[i].tx, TimestampOf(v[i].tx), IF i = 1 THEN NoPlace ELSE v[i - 1].new.last)
  <2>1. PICK prev : prev = IF i = 1 THEN NoPlace ELSE v[i - 1].new.last
    OBVIOUS
  <2>2. PICK j \in LinksOf(log) : /\ log[j].new.key = k /\ v[i] = log[j]
                                  /\ Follows(log, k, j - 1, prev)
    BY <1>4, <1>8, <2>1 DEF Tells
  <2>3. PICK place : place = log[j].new.last
    OBVIOUS
  <2>4. /\ place[1] < ReadCounts(h).data
        /\ place[2] \in Taken(DataPage(h, place[1]))
        /\ mem[DataPage(h, place[1])][place[2]] = Record(log[j].tx, TimestampOf(log[j].tx), prev)
    BY <1>3, <2>2, <2>3, VersionHolds
  <2>. QED  BY <2>1, <2>2, <2>3, <2>4
<1>. QED  BY <1>6, <1>7, <1>9 DEF Record, HistoryOf

-------------------------------------------------------------------------------
(* HistoryInv is kept.                                                      *)
Sound == CountersInv /\ PartsInv /\ StoreTyped /\ HeadersTyped

(* A cell has one latest change.                                             *)
LEMMA LatestOne ==
    ASSUME NEW l, Len(l) \in Nat, NEW i, NEW j, Latest(l, i, Len(l)), Latest(l, j, Len(l)),
           SameCell(l[i], l[j])
    PROVE  i = j
<1>1. i \in 1 .. Len(l) /\ j \in 1 .. Len(l) /\ i \in ChangesOf(l) /\ j \in ChangesOf(l)
  BY DEF Latest, ChangesOf
<1>2. SameCell(l[j], l[i])
  BY DEF SameCell
<1>3. ~(i < j) /\ ~(j < i)
  BY <1>1, <1>2 DEF Latest
<1>. QED  BY <1>1, <1>3

(* Who is at a write item.                                                   *)
LEMMA ItemFacts ==
    ASSUME Sound, NEW w \in Workers, AtItem(w)
    PROVE  /\ Up /\ cpc = "idle" /\ Unended(tx[w])
           /\ Len(items[w]) \in Nat /\ Place(w) \in 1 .. Len(items[w])
           /\ Current(w) = items[w][Place(w)]
           /\ KeyOf(w) \in Keys /\ HashAt(w) \in Hashes
           /\ Current(w).page \in 0 .. MaxPages - 1 /\ SlotOf(w) \in 1 .. Slots
           /\ PageOf(w) = DataPage(HashAt(w), Current(w).page) /\ PageOf(w) \in DataPages
<1>1. Up /\ cpc = "idle"
  BY Running DEF Sound, CountersInv, AtItem
<1>2. Unended(tx[w])
  BY DEF Sound, PartsInv, TxOfWorkers, AtItem, Logged
<1>3. items[w] \in Seq(WriteItem) /\ Place(w) \in 1 .. Len(items[w])
  BY DEF Sound, HeadersTyped, WorkerTyped
<1>4. Current(w) = items[w][Place(w)] /\ Current(w) \in WriteItem
  BY <1>3 DEF Current, Place
<1>5. KeyOf(w) \in Keys /\ HashAt(w) \in Hashes
  BY <1>4 DEF KeyOf, HashAt, WriteItem, Sound, HeadersTyped
<1>6. Current(w).page \in 0 .. MaxPages - 1 /\ SlotOf(w) \in 1 .. Slots
  BY <1>4 DEF SlotOf, WriteItem
<1>7. PageOf(w) = DataPage(HashAt(w), Current(w).page) /\ PageOf(w) \in DataPages
  BY <1>5, <1>6 DEF PageOf, DataPages
<1>. QED  BY <1>1, <1>2, <1>3, <1>4, <1>5, <1>6, <1>7

(* What the log has of the write item that commit() is at.                  *)
StandsAt(w, u, ts) ==
    /\ u \in 1 .. Len(log)
    /\ log[u].type = IF ts = Uncommitted THEN "DATA_RECORD_INSERT_LOG" ELSE "DATA_RECORD_UPDATE_LOG"
    /\ log[u].tx = tx[w] /\ Latest(log, u, Len(log))
    /\ log[u].page = PageOf(w) /\ log[u].offset = SlotOf(w)
    /\ log[u].new = Record(tx[w], ts, log[u].new.prev)
    /\ Follows(log, KeyOf(w), Len(log), log[u].new.prev)
    /\ mem[PageOf(w)][SlotOf(w)] = log[u].new
    /\ Current(w).first <=> NoLink(log, KeyOf(w), Len(log))

(* What a committing worker finds in the slot it wrote.                      *)
LEMMA CurrentWritten ==
    ASSUME Sound, HistoryInv, NEW w \in Workers, Committing(w), AtItem(w)
    PROVE  \E u : StandsAt(w, u, IF At(w, "stamp") THEN Uncommitted ELSE maxTs + 1)
<1>1. /\ Up /\ Len(items[w]) \in Nat /\ Place(w) \in 1 .. Len(items[w])
      /\ Current(w) = items[w][Place(w)]
  BY ItemFacts
<1>2. PICK i : i = n[w]
  OBVIOUS
<1>3. i \in 1 .. Len(items[w]) /\ i >= n[w] /\ Current(w) = items[w][i]
  BY <1>1, <1>2 DEF Place
<1>4. IsStamped(w, i) <=> ~At(w, "stamp")
  BY <1>2 DEF IsStamped, AtItem, At
<1>5. PICK u \in 1 .. Len(log) : Written(log, items[w][i], tx[w], TypeNow(w, i), TsNow(w, i), u)
  BY <1>1, <1>3 DEF HistoryInv, WorkersWrote, ItemsWritten, ItemWritten
<1>6. Current(w).first <=> NoLink(log, KeyOf(w), Len(log))
  BY <1>1, <1>3 DEF HistoryInv, WorkersWrote, ItemsWritten, ItemWritten, KeyOf
<1>7. PICK ts : ts = IF At(w, "stamp") THEN Uncommitted ELSE maxTs + 1
  OBVIOUS
<1>8. maxTs \in Nat
  BY LogFacts DEF Sound
<1>9. ts = Uncommitted <=> At(w, "stamp")
  BY <1>7, <1>8 DEF Uncommitted
<1>10. /\ log[u].type = IF ts = Uncommitted THEN "DATA_RECORD_INSERT_LOG" ELSE "DATA_RECORD_UPDATE_LOG"
       /\ log[u].tx = tx[w] /\ Latest(log, u, Len(log))
       /\ log[u].page = PageOf(w) /\ log[u].offset = SlotOf(w)
       /\ log[u].new = Record(tx[w], ts, log[u].new.prev)
       /\ Follows(log, KeyOf(w), Len(log), log[u].new.prev)
  BY <1>3, <1>4, <1>5, <1>7, <1>9 DEF Written, TypeNow, TsNow, InCell, PageOf, SlotOf, HashAt, KeyOf
<1>11. Holds(mem, log[u])
  BY <1>1, <1>10 DEF HistoryInv, PagesUp, Shown, CellsShown, SlotTypes, Latest
<1>12. mem[PageOf(w)][SlotOf(w)] = log[u].new
  BY <1>10, <1>11 DEF Holds
<1>13. StandsAt(w, u, ts)
  BY <1>6, <1>10, <1>12 DEF StandsAt
<1>. QED  BY <1>7, <1>13

(* What is logged next fits.                                                *)
LEMMA SlotVersions ==
    ASSUME NEW l, ChangesOK(l), NEW x, x.type \in SlotTypes, ChangeTyped(x)
    PROVE  VersionFits(l, x)
<1>1. x.offset = Bitmap /\ x.type \notin IndexItems /\ x.type # "COMMIT_LOG"
  BY DEF ChangeTyped, SlotTypes, IndexItems
<1>2. ASSUME NEW i \in LinksOf(l), NEW u \in 1 .. Len(l), StampOf(l, i, u) PROVE ~SameCell(l[u], x)
  <2>1. u \in ChangesOf(l) /\ l[u].type \notin SlotTypes
    BY <1>2 DEF StampOf, Latest, SlotTypes
  <2>. QED  BY <1>1, <2>1 DEF ChangesOK, ChangeTyped, SameCell
<1>. QED  BY <1>1, <1>2 DEF VersionFits

LEMMA MarkFits ==
    ASSUME NEW l, NoLoneSlot(l), NEW x, x.type \in Ends
    PROVE  ItemFits(l, x)
BY DEF ItemFits, Ends, ChangeTypes, DataTypes, IndexTypes

(* No change that comes after a slot was free is in it.                     *)
LEMMA FreeUnchanged ==
    ASSUME NEW l, ChangesOK(l), NEW m, BitsShown(l, m), NEW j \in ChangesOf(l),
           NEW s, s \notin m[l[j].page][Bitmap], s # Bitmap
    PROVE  l[j].offset # s
<1>. SUFFICES ASSUME l[j].offset = s PROVE FALSE
  OBVIOUS
<1>1. l[j].type \notin SlotTypes
  BY DEF ChangesOK, ChangeTyped
<1>2. PICK i \in SlotsOf(l) : l[i].page = l[j].page /\ s \in l[i].new
  BY <1>1 DEF ChangesOK, SlotTaken
<1>. QED  BY <1>2 DEF BitsShown

IsChange(x, type, t, p, o, new) ==
    x.type = type /\ x.tx = t /\ x.page = p /\ x.offset = o /\ x.new = new

(* The item of update_record,                                                *)
LEMMA StampFits ==
    ASSUME Sound, HistoryInv, NEW w \in Workers, Committing(w), At(w, "stamp"),
           NEW x, NEW new, IsChange(x, "DATA_RECORD_UPDATE_LOG", tx[w], PageOf(w), SlotOf(w), new)
    PROVE  ChangeTyped(x) /\ ItemFits(log, x) /\ VersionFits(log, x)
<1>1. AtItem(w)
  BY DEF AtItem, At
<1>2. PICK u : StandsAt(w, u, Uncommitted)
  BY <1>1, CurrentWritten
<1>3. /\ u \in ChangesOf(log) /\ log[u].type = "DATA_RECORD_INSERT_LOG" /\ SameCell(x, log[u])
      /\ log[u].tx = x.tx /\ x.type = "DATA_RECORD_UPDATE_LOG" /\ log[u].type \notin SlotTypes
      /\ x.page = log[u].page /\ x.offset = log[u].offset
  BY <1>2 DEF StandsAt, Latest, SameCell, IsChange, SlotTypes
<1>4. Up /\ Len(log) \in Nat
  BY <1>1, ItemFacts, LogFacts DEF Sound
<1>5. ChangesOK(log) /\ NoLoneSlot(log)
  BY <1>4 DEF HistoryInv, PagesUp
<1>6. SlotOf(w) # Bitmap /\ PageOf(w) \in DataPages /\ SlotOf(w) \in Offsets(PageOf(w))
  BY <1>1, ItemFacts, SizesAssumption DEF Bitmap, Offsets
<1>7. ChangeTyped(x)
  BY <1>6 DEF ChangeTyped, IsChange, DataTypes, IndexTypes, SlotTypes, IndexItems
<1>8. \E j \in SlotsOf(log) : log[j].page = x.page /\ x.offset \in log[j].new
  BY <1>3, <1>5 DEF ChangesOK, SlotTaken
<1>9. \E j \in 1 .. Len(log) : log[j].type \in NeedUndo /\ log[j].tx = x.tx
  BY <1>3, <1>5 DEF ChangesOK, ToUndo
<1>10. ChangeFits(log, x)
  BY <1>3, <1>7, <1>8, <1>9 DEF ChangeFits, SlotTypes, IndexItems
<1>11. ItemFits(log, x)
  BY <1>3, <1>5, <1>10 DEF ItemFits
<1>12. ASSUME NEW i \in LinksOf(log), NEW v \in 1 .. Len(log), StampOf(log, i, v)
       PROVE  ~SameCell(log[v], x)
  <2>1. Latest(log, v, Len(log)) /\ log[v].type = "DATA_RECORD_UPDATE_LOG"
    BY <1>12 DEF StampOf
  <2>2. SUFFICES ASSUME SameCell(log[v], x) PROVE FALSE
    OBVIOUS
  <2>3. SameCell(log[v], log[u]) /\ Latest(log, u, Len(log))
    BY <1>2, <1>3, <2>2 DEF SameCell, StandsAt
  <2>4. v = u
    BY <1>4, <2>1, <2>3, LatestOne
  <2>. QED  BY <1>3, <2>1, <2>4
<1>13. VersionFits(log, x)
  BY <1>3, <1>12 DEF VersionFits, IndexItems
<1>. QED  BY <1>7, <1>11, <1>13

(* What a link points at.                                                   *)
LEMMA PointerReady ==
    ASSUME Sound, HistoryInv, NEW w \in Workers, Committing(w), AtItem(w), ~At(w, "stamp"),
           NEW x, x.tx = tx[w], x.page \notin DataPages, x.new = Pointer(w)
    PROVE  /\ x.new.last[1] \in 0 .. MaxPages - 1 /\ x.new.last[2] \in 1 .. Slots
           /\ \E u \in 1 .. Len(log) : StampReady(log, u, x)
<1>1. /\ Up /\ Unended(tx[w]) /\ SlotOf(w) \in 1 .. Slots /\ Current(w).page \in 0 .. MaxPages - 1
      /\ PageOf(w) = DataPage(HashAt(w), Current(w).page) /\ PageOf(w) \in DataPages
  BY ItemFacts
<1>2. x.new.key = KeyOf(w) /\ x.new.last[1] = Current(w).page /\ x.new.last[2] = SlotOf(w)
  BY DEF Pointer
<1>3. PICK ts : ts = maxTs + 1
  OBVIOUS
<1>4. ts \in Nat /\ ts # Uncommitted
  BY <1>3, LogFacts DEF Sound, Uncommitted
<1>5. PICK u : StandsAt(w, u, ts)
  BY <1>3, CurrentWritten
<1>6. log[u].new.ts = ts
  BY <1>5 DEF StandsAt, Record
<1>7. log[u].new = Record(x.tx, log[u].new.ts, log[u].new.prev)
  BY <1>5, <1>6 DEF StandsAt
<1>8. InCell(log[u], x.new.key, x.new.last)
  BY <1>1, <1>2, <1>5 DEF StandsAt, InCell, HashAt
<1>9. \A c \in 1 .. Len(log) : log[c].type = "COMMIT_LOG" => log[c].tx # x.tx
  BY <1>1, LogFacts DEF Sound, Unended, Ends
<1>10. ~SameCell(log[u], x)
  BY <1>1, <1>5 DEF StandsAt, SameCell
<1>11. StampReady(log, u, x)
  BY <1>2, <1>4, <1>5, <1>6, <1>7, <1>8, <1>9, <1>10 DEF StampReady, StandsAt
<1>. QED  BY <1>1, <1>2, <1>5, <1>11 DEF StandsAt

(* Versions stay when an index page changes.                                *)
LEMMA IndexVersions ==
    ASSUME NEW l, ChangesOK(l), NEW x, x.type \in IndexTypes, ChangeTyped(x),
           NEW i \in LinksOf(l), NEW u \in 1 .. Len(l), StampOf(l, i, u)
    PROVE  ~SameCell(l[u], x)
<1>1. \E h \in Hashes : x.page = IndexPage(h)
  BY DEF ChangeTyped
<1>2. u \in ChangesOf(l) /\ l[u].type = "DATA_RECORD_UPDATE_LOG"
  BY DEF StampOf, Latest
<1>3. l[u].page \in DataPages
  BY <1>2 DEF ChangesOK, ChangeTyped, DataTypes
<1>. QED  BY <1>1, <1>3 DEF SameCell, DataPages, DataPage, IndexPage

LEMMA IndexApart == \A h \in Hashes : IndexPage(h) \in Pages /\ IndexPage(h) \notin DataPages
BY DEF DataPages, DataPage, IndexPage, Pages

(* the one of update_index,                                                  *)
LEMMA LinkFits ==
    ASSUME Sound, HistoryInv, NEW w \in Workers, Committing(w), At(w, "link"),
           NEW x, IsChange(x, "INDEX_ITEM_UPDATE_LOG", tx[w], IndexPage(HashAt(w)), ItemOf(KeyOf(w)), Pointer(w))
    PROVE  ChangeTyped(x) /\ ItemFits(log, x) /\ VersionFits(log, x)
<1>1. AtItem(w) /\ ~At(w, "stamp")
  BY DEF AtItem, At
<1>2. Up /\ Len(log) \in Nat /\ KeyOf(w) \in Keys /\ HashAt(w) \in Hashes
  BY <1>1, ItemFacts, LogFacts DEF Sound
<1>3. ChangesOK(log) /\ NoLoneSlot(log) /\ Shown(log, mem)
  BY <1>2 DEF HistoryInv, PagesUp
<1>4. /\ x.type = "INDEX_ITEM_UPDATE_LOG" /\ x.tx = tx[w] /\ x.page = IndexPage(HashAt(w))
      /\ x.offset = ItemOf(KeyOf(w)) /\ x.new = Pointer(w) /\ x.new.key = KeyOf(w)
      /\ x.page \notin DataPages
  BY <1>2, IndexApart DEF IsChange, Pointer
<1>5. PICK k : k = KeyOf(w)
  OBVIOUS
<1>6. k \in Keys /\ hashOf[k] = HashAt(w) /\ hashOf[k] \in Hashes
  BY <1>2, <1>5 DEF HashAt
<1>7. ~NoLink(log, k, Len(log))
  <2>1. ~Current(w).first
    BY <1>2 DEF HistoryInv, WorkersWrote, ItemsWritten, FirstsKnown
  <2>2. PICK u : StandsAt(w, u, maxTs + 1)
    BY <1>1, CurrentWritten
  <2>. QED  BY <1>5, <2>1, <2>2 DEF StandsAt
<1>8. PICK i \in LinksOf(log) : log[i].new.key = k
  BY <1>7 DEF NoLink
<1>9. ItemOf(k) = log[i].offset
  BY <1>2, <1>3, <1>6, <1>8, Lookup
<1>10. /\ i \in ChangesOf(log) /\ log[i].page = IndexPage(hashOf[k]) /\ log[i].type \notin SlotTypes
  BY <1>3, <1>8, LinkFacts
<1>11. SameCell(x, log[i]) /\ x.page = log[i].page /\ x.offset = log[i].offset
  BY <1>4, <1>5, <1>6, <1>9, <1>10 DEF SameCell
<1>12. log[i].offset \in Offsets(log[i].page) /\ log[i].offset # Bitmap
  BY <1>3, <1>10 DEF ChangesOK, ChangeTyped
<1>13. ChangeTyped(x)
  BY <1>2, <1>4, <1>5, <1>6, <1>11, <1>12 DEF ChangeTyped, DataTypes, SlotTypes
<1>14. \E j \in SlotsOf(log) : log[j].page = x.page /\ x.offset \in log[j].new
  BY <1>3, <1>10, <1>11 DEF ChangesOK, SlotTaken
<1>15. \A j \in LinksOf(log) : log[j].new.key = x.new.key <=> SameCell(x, log[j])
  <2>1. \A j \in LinksOf(log) : log[j].new.key = log[i].new.key <=> SameCell(log[j], log[i])
    BY <1>3 DEF ChangesOK, OneKey
  <2>. QED  BY <1>4, <1>5, <1>8, <1>11, <2>1 DEF SameCell
<1>16. ChangeFits(log, x)
  BY <1>4, <1>13, <1>14, <1>15 DEF ChangeFits, SlotTypes, NeedUndo
<1>17. ItemFits(log, x)
  BY <1>3, <1>4, <1>16 DEF ItemFits
<1>18. /\ x.new.last[1] \in 0 .. MaxPages - 1 /\ x.new.last[2] \in 1 .. Slots
       /\ \E u \in 1 .. Len(log) : StampReady(log, u, x)
  BY <1>1, <1>4, PointerReady
<1>19. \A v \in LinksOf(log), u \in 1 .. Len(log) : StampOf(log, v, u) => ~SameCell(log[u], x)
  BY <1>3, <1>4, <1>13, IndexVersions DEF IndexTypes
<1>20. VersionFits(log, x)
  BY <1>4, <1>18, <1>19 DEF VersionFits
<1>. QED  BY <1>13, <1>17, <1>20

(* Slots that are taken next.                                               *)
TakeFree(p, page, s) ==
    /\ p \in Pages /\ s \in Offsets(p) /\ s # Bitmap /\ s \notin page[Bitmap]
    /\ page[Bitmap] \subseteq Offsets(p) \ {Bitmap}
    /\ \A i \in SlotsOf(log) : log[i].page = p => log[i].new \subseteq page[Bitmap]
    /\ \A j \in ChangesOf(log) : log[j].page = p => log[j].offset # s

LEMMA OffsetsNat == ASSUME NEW p PROVE Offsets(p) \subseteq Nat /\ Bitmap \in Offsets(p)
<1>1. Cardinality(Keys) \in Nat
  BY KeysAssumption, FS_CardinalityType
<1>. QED  BY <1>1, SizesAssumption DEF Offsets, Bitmap

LEMMA FreeExists ==
    ASSUME NEW p, FreeSlots(p) # {}
    PROVE  FirstFree(p) \in FreeSlots(p)
<1>1. PICK S : S = FreeSlots(p)
  OBVIOUS
<1>2. S \in SUBSET Nat
  BY <1>1, OffsetsNat DEF FreeSlots
<1>3. PICK m \in S : \A i \in S : m <= i
  BY <1>1, <1>2, LeastNat
<1>. QED  BY <1>1, <1>3 DEF FirstFree

(* a slot that is free in the page,                                          *)
LEMMA TakeFromPage ==
    ASSUME ChangesOK(log), Shown(log, mem), NEW p \in Pages, NEW s \in FreeSlots(p)
    PROVE  TakeFree(p, mem[p], s)
<1>1. s \in Offsets(p) /\ s # Bitmap /\ s \notin mem[p][Bitmap]
  BY DEF FreeSlots, Taken
<1>2. mem[p][Bitmap] \subseteq Offsets(p) \ {Bitmap}
  BY DEF Shown, BitsTyped
<1>3. \A i \in SlotsOf(log) : log[i].page = p => log[i].new \subseteq mem[p][Bitmap]
  BY DEF Shown, BitsShown
<1>4. ASSUME NEW j \in ChangesOf(log), log[j].page = p PROVE log[j].offset # s
  BY <1>1, <1>4, FreeUnchanged DEF Shown
<1>. QED  BY <1>1, <1>2, <1>3, <1>4 DEF TakeFree

(* or in a page just cleared,                                                *)
LEMMA TakeFromNew ==
    ASSUME NEW p \in Pages, NEW s \in Offsets(p) \ {Bitmap},
           \A j \in ChangesOf(log) : log[j].page # p
    PROVE  TakeFree(p, Zero(p), s)
<1>1. Zero(p)[Bitmap] = {}
  BY OffsetsNat DEF Zero
<1>2. SlotsOf(log) \subseteq ChangesOf(log)
  BY DEF SlotsOf, ChangesOf, SlotTypes, ChangeTypes, DataTypes, IndexTypes
<1>. QED  BY <1>1, <1>2 DEF TakeFree

TakenBy(w, type, p, page, s) ==
    Item(type, tx[w], p, Bitmap, page[Bitmap] \cup {s})

(* the item that takes it,                                                   *)
LEMMA SlotFits ==
    ASSUME ChangesOK(log), NoLoneSlot(log), NEW x, NEW p, NEW page, NEW s, TakeFree(p, page, s),
           NEW t, NEW type \in SlotTypes, IsChange(x, type, t, p, Bitmap, page[Bitmap] \cup {s}),
           IF type = "DATA_SLOT_LOG" THEN p \in DataPages ELSE \E h \in Hashes : p = IndexPage(h)
    PROVE  ChangeTyped(x) /\ ItemFits(log, x) /\ VersionFits(log, x)
<1>1. x.type = type /\ x.page = p /\ x.offset = Bitmap /\ x.new = page[Bitmap] \cup {s}
  BY DEF IsChange
<1>2. Bitmap \in Offsets(p) /\ x.new \subseteq Offsets(p) \ {Bitmap}
  BY <1>1, OffsetsNat DEF TakeFree
<1>3. ChangeTyped(x)
  BY <1>1, <1>2 DEF ChangeTyped, SlotTypes, DataTypes, IndexTypes, IndexItems
<1>4. ChangeFits(log, x)
  BY <1>1, <1>3 DEF ChangeFits, SlotTypes, NeedUndo, IndexItems, TakeFree
<1>5. ItemFits(log, x)
  BY <1>1, <1>4 DEF ItemFits, SlotTypes
<1>6. VersionFits(log, x)
  BY <1>1, <1>3, SlotVersions
<1>. QED  BY <1>3, <1>5, <1>6

(* What is put into a slot just taken.                                      *)
Filled(a, y) ==
    /\ \E j \in SlotsOf(a) : a[j].page = y.page /\ y.offset \in a[j].new
    /\ \A j \in ChangesOf(a) : ~SameCell(y, a[j])
    /\ \E j \in 1 .. Len(a) : a[j].type \in NeedUndo /\ a[j].tx = y.tx

(* and what comes after that,                                                *)
LEMMA FilledFits ==
    ASSUME NEW x, NEW a, IsGrown(log, a, x), ChangesOK(a), NEW p, NEW page, NEW s, TakeFree(p, page, s),
           NEW t, NEW type \in SlotTypes, IsChange(x, type, t, p, Bitmap, page[Bitmap] \cup {s}),
           NEW y, y.page = p, y.offset = s, y.tx = t
    PROVE  Filled(a, y)
<1>1. x.type = type /\ x.page = p /\ x.offset = Bitmap /\ x.new = page[Bitmap] \cup {s} /\ x.tx = t
  BY DEF IsChange
<1>2. PICK k : GrowsTo(log, a, x, k)
  BY GrowFacts
<1>3. k \in SlotsOf(a) /\ a[k] = x /\ k \in 1 .. Len(a)
  BY <1>1, <1>2 DEF GrowsTo
<1>4. s # Bitmap /\ \A j \in ChangesOf(log) : log[j].page = p => log[j].offset # s
  BY DEF TakeFree
<1>5. ASSUME NEW j \in ChangesOf(a) PROVE ~SameCell(y, a[j])
  <2>1. CASE j = k
    BY <1>1, <1>3, <1>4, <2>1 DEF SameCell
  <2>2. CASE j # k
    <3>1. j \in ChangesOf(log) /\ a[j] = log[j]
      BY <1>2, <1>5, <2>2 DEF GrowsTo
    <3>. QED  BY <1>4, <3>1 DEF SameCell
  <2>. QED  BY <2>1, <2>2
<1>. QED  BY <1>1, <1>3, <1>5 DEF Filled, SlotTypes, NeedUndo

(* for a record                                                              *)
LEMMA RecordFits ==
    ASSUME NEW x, NEW a, IsGrown(log, a, x), ChangesOK(a), NEW p \in DataPages, NEW page, NEW s, TakeFree(p, page, s),
           NEW t, IsChange(x, "DATA_SLOT_LOG", t, p, Bitmap, page[Bitmap] \cup {s}),
           NEW y, NEW new, IsChange(y, "DATA_RECORD_INSERT_LOG", t, p, s, new)
    PROVE  ChangeTyped(y) /\ ItemFits(a, y) /\ VersionFits(a, y)
<1>1. y.page = p /\ y.offset = s /\ y.tx = t /\ y.type = "DATA_RECORD_INSERT_LOG"
  BY DEF IsChange
<1>2. /\ \E j \in SlotsOf(a) : a[j].page = y.page /\ y.offset \in a[j].new
      /\ \A j \in ChangesOf(a) : ~SameCell(y, a[j])
      /\ \E j \in 1 .. Len(a) : a[j].type \in NeedUndo /\ a[j].tx = y.tx
  <2>1. PICK type \in SlotTypes : type = "DATA_SLOT_LOG"
    BY DEF SlotTypes
  <2>. QED  BY <1>1, <2>1, FilledFits DEF Filled
<1>3. s \in Offsets(p) /\ s # Bitmap
  BY DEF TakeFree
<1>4. ChangeTyped(y)
  BY <1>1, <1>3 DEF ChangeTyped, DataTypes, SlotTypes, IndexTypes, IndexItems
<1>5. ChangeFits(a, y)
  BY <1>1, <1>2, <1>4 DEF ChangeFits, SlotTypes, IndexItems
<1>6. NoLoneSlot(a)
  BY DEF IsGrown, NoLoneSlot, IsChange
<1>7. ItemFits(a, y)
  BY <1>1, <1>5, <1>6 DEF ItemFits
<1>8. \A i \in LinksOf(a), u \in 1 .. Len(a) : StampOf(a, i, u) => ~SameCell(a[u], y)
  BY <1>2 DEF StampOf, Latest, SameCell
<1>9. VersionFits(a, y)
  BY <1>1, <1>8 DEF VersionFits, IndexItems
<1>. QED  BY <1>4, <1>7, <1>9

(* There is a free slot in an index page for a key not linked yet: no two    *)
(* slots have the same key.                                                 *)
LEMMA IndexRoom ==
    ASSUME Sound, ChangesOK(log), Shown(log, mem), NEW h \in Hashes, NEW k \in Keys,
           NoLink(log, k, Len(log))
    PROVE  FirstFree(IndexPage(h)) \in FreeSlots(IndexPage(h))
<1>. PICK p : p = IndexPage(h)
  OBVIOUS
<1>1. PICK N : N = Cardinality(Keys)
  OBVIOUS
<1>2. N \in Nat /\ p \notin DataPages /\ Offsets(p) = 0 .. N
  BY <1>1, KeysAssumption, FS_CardinalityType, IndexApart DEF Offsets
<1>3. PICK T : T = Keys \ {k}
  OBVIOUS
<1>4. IsFiniteSet(T) /\ Cardinality(T) < N
  <2>1. IsFiniteSet(Keys \ {k}) /\ Cardinality(Keys \ {k}) = N - 1
    BY <1>1, KeysAssumption, FS_RemoveElement
  <2>. QED  BY <1>2, <1>3, <2>1
<1>5. SUFFICES ASSUME FreeSlots(p) = {} PROVE FALSE
  BY FreeExists
<1>6. PICK S : S = 1 .. N
  OBVIOUS
<1>7. S \subseteq mem[p][Bitmap]
  BY <1>2, <1>5, <1>6 DEF FreeSlots, Taken, Bitmap
<1>8. IsFiniteSet(S) /\ Cardinality(S) = N
  BY <1>2, <1>6, FS_Interval
<1>9. ASSUME NEW o \in S
      PROVE  \E i \in LinksOf(log) : log[i].page = p /\ log[i].offset = o /\ log[i].new.key \in T
  <2>1. PICK i \in LinksOf(log) : i <= Len(log) /\ log[i].page = p /\ log[i].offset = o
    BY <1>7 DEF Shown, IndexShown, LinkedAt
  <2>2. log[i].new.key \in Keys
    BY LinkFacts
  <2>3. log[i].new.key # k
    BY <2>1 DEF NoLink
  <2>. QED  BY <1>3, <2>1, <2>2, <2>3
<1>10. PICK f : f = [o \in S |->
            CHOOSE q \in T : \E i \in LinksOf(log) :
                log[i].page = p /\ log[i].offset = o /\ log[i].new.key = q]
  OBVIOUS
<1>11. \A o \in S : f[o] \in T /\ \E i \in LinksOf(log) :
                log[i].page = p /\ log[i].offset = o /\ log[i].new.key = f[o]
  BY <1>9, <1>10
<1>12. f \in [S -> T]
  BY <1>10, <1>11
<1>13. PICK a, b \in S : a # b /\ f[a] = f[b]
  BY <1>4, <1>8, <1>12, FS_PigeonHole
<1>14. PICK i, j \in LinksOf(log) :
        /\ log[i].offset = a /\ log[j].offset = b /\ log[i].new.key = log[j].new.key
  BY <1>11, <1>13
<1>15. SameCell(log[i], log[j])
  BY <1>14 DEF ChangesOK, OneKey
<1>. QED  BY <1>13, <1>14, <1>15 DEF SameCell

(* and for an index item.                                                    *)
LEMMA IndexItemFits ==
    ASSUME Sound, HistoryInv, NEW w \in Workers, Committing(w), At(w, "index"),
           NEW h \in Hashes, HashAt(w) = h, NEW p, p = IndexPage(h),
           NEW x, NEW a, IsGrown(log, a, x), ChangesOK(a), NEW s, TakeFree(p, mem[p], s),
           IsChange(x, "INDEX_SLOT_LOG", tx[w], p, Bitmap, mem[p][Bitmap] \cup {s}),
           NEW y, IsChange(y, "INDEX_ITEM_INSERT_LOG", tx[w], p, s, Pointer(w))
    PROVE  ChangeTyped(y) /\ ItemFits(a, y) /\ VersionFits(a, y)
<1>1. /\ y.page = p /\ y.offset = s /\ y.tx = tx[w] /\ y.type = "INDEX_ITEM_INSERT_LOG"
      /\ y.new = Pointer(w) /\ y.new.key = KeyOf(w)
  BY DEF IsChange, Pointer
<1>2. AtItem(w) /\ ~At(w, "stamp")
  BY DEF AtItem, At
<1>3. Up /\ Len(log) \in Nat /\ KeyOf(w) \in Keys
  BY <1>2, ItemFacts, LogFacts DEF Sound
<1>4. Shown(log, mem) /\ NoLoneSlot(log) /\ ChangesOK(log)
  BY <1>3 DEF HistoryInv, PagesUp
<1>5. /\ \E j \in SlotsOf(a) : a[j].page = y.page /\ y.offset \in a[j].new
      /\ \A j \in ChangesOf(a) : ~SameCell(y, a[j])
      /\ \E j \in 1 .. Len(a) : a[j].type \in NeedUndo /\ a[j].tx = y.tx
  <2>1. PICK type \in SlotTypes : type = "INDEX_SLOT_LOG"
    BY DEF SlotTypes
  <2>2. PICK page : page = mem[p]
    OBVIOUS
  <2>3. PICK t : t = tx[w]
    OBVIOUS
  <2>4. TakeFree(p, page, s) /\ IsChange(x, type, t, p, Bitmap, page[Bitmap] \cup {s})
    BY <2>1, <2>2, <2>3
  <2>5. y.page = p /\ y.offset = s /\ y.tx = t
    BY <1>1, <2>3
  <2>6. Filled(a, y)
    BY <2>1, <2>4, <2>5, FilledFits
  <2>. QED  BY <2>6 DEF Filled
<1>6. s \in Offsets(p) /\ s # Bitmap /\ p \notin DataPages
  BY IndexApart DEF TakeFree
<1>7. ChangeTyped(y)
  BY <1>1, <1>3, <1>6 DEF ChangeTyped, DataTypes, SlotTypes, HashAt
<1>8. PICK k : GrowsTo(log, a, x, k)
  BY GrowFacts
<1>9. x.type = "INDEX_SLOT_LOG" /\ x.page = p /\ x.new = mem[p][Bitmap] \cup {s} /\ x.offset = Bitmap
  BY DEF IsChange
<1>10. LinksOf(a) = LinksOf(log) /\ \A i \in LinksOf(log) : a[i] = log[i]
  BY <1>8, <1>9 DEF GrowsTo, IndexItems
<1>11. NoLink(log, KeyOf(w), Len(log))
  <2>1. Current(w).first
    BY <1>3 DEF HistoryInv, WorkersWrote, ItemsWritten, FirstsKnown
  <2>2. PICK u : StandsAt(w, u, maxTs + 1)
    BY <1>2, CurrentWritten
  <2>. QED  BY <2>1, <2>2 DEF StandsAt
<1>12. \A j \in LinksOf(a) : a[j].new.key # y.new.key /\ ~SameCell(y, a[j])
  <2>1. \A j \in LinksOf(log) : j <= Len(log)
    BY <1>3 DEF LinksOf
  <2>2. LinksOf(a) \subseteq ChangesOf(a)
    BY TypesFacts DEF LinksOf, ChangesOf
  <2>. QED  BY <1>1, <1>5, <1>10, <1>11, <2>1, <2>2 DEF NoLink
<1>13. ChangeFits(a, y)
  BY <1>1, <1>5, <1>7, <1>12 DEF ChangeFits, SlotTypes
<1>14. \A o \in a[Len(a)].new :
            \/ \E i \in LinksOf(a) : a[i].page = a[Len(a)].page /\ a[i].offset = o
            \/ y.type \in IndexItems /\ y.page = a[Len(a)].page /\ y.offset = o
  <2>1. a[Len(a)] = x
    BY DEF IsGrown
  <2>2. ASSUME NEW o \in mem[p][Bitmap] PROVE \E i \in LinksOf(log) : log[i].page = p /\ log[i].offset = o
    BY <1>4, <2>2 DEF Shown, IndexShown, LinkedAt
  <2>. QED  BY <1>1, <1>9, <1>10, <2>1, <2>2 DEF IndexItems
<1>15. ItemFits(a, y)
  BY <1>1, <1>13, <1>14 DEF ItemFits
<1>16. /\ y.new.last[1] \in 0 .. MaxPages - 1 /\ y.new.last[2] \in 1 .. Slots
       /\ \E u \in 1 .. Len(log) : StampReady(log, u, y)
  BY <1>1, <1>2, <1>6, PointerReady
<1>17. PICK u \in 1 .. Len(log) : StampReady(log, u, y)
  BY <1>16
<1>18. Latest(a, u, Len(a)) /\ u \in 1 .. Len(a) /\ a[u] = log[u]
  <2>1. Latest(log, u, Len(log)) /\ log[u].type \notin SlotTypes
    BY <1>17 DEF StampReady, SlotTypes
  <2>2. log[u].offset # Bitmap
    BY <1>4, <2>1 DEF Latest, ChangesOK, ChangeTyped
  <2>3. ~SameCell(log[u], x)
    BY <1>9, <2>2 DEF SameCell
  <2>. QED  BY <1>8, <2>1, <2>3, GrownLatest DEF GrowsTo
<1>19. Follows(a, y.new.key, Len(a), a[u].new.prev)
  <2>1. PICK key, prev : key = y.new.key /\ prev = log[u].new.prev
    OBVIOUS
  <2>2. Follows(log, key, Len(log), prev)
    BY <1>17, <2>1 DEF StampReady
  <2>3. NoLink(log, key, Len(log))
    BY <1>1, <1>11, <2>1
  <2>4. prev = NoPlace
    BY <2>2, <2>3 DEF Follows, LastLink, NoLink
  <2>5. NoLink(a, key, Len(a))
    BY <1>12, <2>1 DEF NoLink
  <2>. QED  BY <1>18, <2>1, <2>4, <2>5 DEF Follows
<1>20. \A c \in 1 .. Len(a) : a[c].type = "COMMIT_LOG" => a[c].tx # y.tx
  <2>1. \A c \in 1 .. Len(log) : log[c].type = "COMMIT_LOG" => log[c].tx # y.tx
    BY <1>17 DEF StampReady
  <2>. QED  BY <1>8, <1>9, <2>1 DEF GrowsTo
<1>21. StampReady(a, u, y)
  BY <1>17, <1>18, <1>19, <1>20 DEF StampReady
<1>22. \A i \in LinksOf(a), v \in 1 .. Len(a) : StampOf(a, i, v) => ~SameCell(a[v], y)
  BY <1>1, <1>7, IndexVersions DEF IndexTypes
<1>23. VersionFits(a, y)
  BY <1>1, <1>16, <1>18, <1>21, <1>22 DEF VersionFits
<1>. QED  BY <1>7, <1>15, <1>23

(* The end of a transaction,                                                 *)
LEMMA CommitFits ==
    ASSUME Sound, HistoryInv, NEW w \in Workers, At(w, "commit"),
           NEW x, x.type = "COMMIT_LOG", x.tx = tx[w], x.maxTs = maxTs + 1
    PROVE  ItemFits(log, x) /\ VersionFits(log, x)
<1>1. Up /\ Committing(w)
  BY Running DEF Sound, CountersInv, WorkersOK, At
<1>2. NoLoneSlot(log)
  BY <1>1 DEF HistoryInv, PagesUp
<1>3. ItemFits(log, x)
  BY <1>2, MarkFits DEF Ends
<1>4. \A i \in LinksOf(log), u \in 1 .. Len(log) :
        StampOf(log, i, u) /\ x.tx = log[i].tx => x.maxTs = log[u].new.ts
  BY <1>1 DEF HistoryInv, CommittingNow
<1>5. VersionFits(log, x)
  BY <1>4 DEF VersionFits, ChangeTypes, DataTypes, IndexTypes, IndexItems
<1>. QED  BY <1>3, <1>5

LEMMA AbortFits ==
    ASSUME HistoryInv, Up, NEW x, x.type = "ABORT_LOG"
    PROVE  ItemFits(log, x) /\ VersionFits(log, x)
<1>1. NoLoneSlot(log)
  BY DEF HistoryInv, PagesUp
<1>2. ItemFits(log, x)
  BY <1>1, MarkFits DEF Ends
<1>3. VersionFits(log, x)
  BY DEF VersionFits, ChangeTypes, DataTypes, IndexTypes, IndexItems
<1>. QED  BY <1>2, <1>3

(* and a checkpoint: nobody is at work then.                                 *)
LEMMA CheckpointFits ==
    ASSUME Sound, HistoryInv, cpc # "idle", NEW x, x.type = "CHECKPOINT_LOG"
    PROVE  ItemFits(log, x) /\ VersionFits(log, x)
<1>1. Up /\ \A w \in Workers : wpc[w] = "idle"
  BY DEF Sound, CountersInv, WorkersOK
<1>2. NoLoneSlot(log) /\ DOMAIN log = 1 .. Len(log)
  BY <1>1, LogFacts DEF HistoryInv, PagesUp, Sound
<1>3. \A i \in ChangesOf(log) : ~(\A j \in 1 .. Len(log) : log[j].type \in Ends => log[j].tx # log[i].tx)
  BY <1>1, <1>2 DEF HistoryInv, ChangesUnended, Unended
<1>4. ItemFits(log, x)
  BY <1>2, <1>3 DEF ItemFits, ChangeTypes, DataTypes, IndexTypes
<1>5. VersionFits(log, x)
  BY DEF VersionFits, ChangeTypes, DataTypes, IndexTypes, IndexItems
<1>. QED  BY <1>4, <1>5

-------------------------------------------------------------------------------
(* The log of the next state.                                               *)
LogHistory == ChangesOK(log) /\ VersionsOK(log)

LEMMA HistoryOfLog ==
    ASSUME UNCHANGED hashOf, NEW l, l = log', ChangesOK(l), VersionsOK(l)
    PROVE  LogHistory'
<1>1. ChangesOK(log)'
  BY DEF ChangesOK, ChangeTyped
<1>2. VersionsOK(log)'
  BY DEF VersionsOK, Version, StampOf, InCell
<1>. QED  BY <1>1, <1>2 DEF LogHistory

LEMMA OneGrown ==
    ASSUME CountersInv, NEW x, AddLog(x)
    PROVE  \E l : l = log' /\ IsGrown(log, l, x) /\ durable' = durable
BY AppendedItem, LogFacts DEF IsGrown, Longer

LEMMA TwoGrown ==
    ASSUME CountersInv, NEW x, NEW y, log' = log \o <<x, y>>
    PROVE  \E a, l : l = log' /\ IsGrown(log, a, x) /\ IsGrown(a, l, y)
<1>1. /\ Len(log') = Len(log) + 2
      /\ \A i \in DOMAIN log : log'[i] = log[i]
      /\ log'[Len(log) + 1] = x
      /\ log'[Len(log) + 2] = y
  BY TwoMoreFacts DEF CountersInv, LogOK
<1>2. /\ Len(Append(log, x)) = Len(log) + 1
      /\ \A i \in DOMAIN log : Append(log, x)[i] = log[i]
      /\ Append(log, x)[Len(log) + 1] = x
  BY AppendFacts DEF CountersInv, LogOK
<1>3. Len(log) \in Nat /\ DOMAIN log = 1 .. Len(log)
  BY LogFacts
<1>4. PICK a, l : a = Append(log, x) /\ l = log'
  OBVIOUS
<1>5. IsGrown(log, a, x)
  BY <1>2, <1>3, <1>4 DEF IsGrown
<1>6. IsGrown(a, l, y)
  BY <1>1, <1>2, <1>3, <1>4 DEF IsGrown
<1>. QED  BY <1>4, <1>5, <1>6

LEMMA GrowLog ==
    ASSUME UNCHANGED hashOf, NEW x, NEW l, l = log', IsGrown(log, l, x),
           LogHistory, ItemFits(log, x), VersionFits(log, x)
    PROVE  LogHistory'
BY ChangesOKGrows, VersionsOKGrows, HistoryOfLog DEF LogHistory

(* Pages of the next state.                                                 *)
LEMMA ShownPut ==
    ASSUME NEW l, ChangesOK(l), NEW m, PagesTyped(m), Shown(l, m), NEW p \in Pages, NEW page, NEW d,
           PageSet(m, d, p, page),
           page = m[p] \/ (page = Zero(p) /\ \A j \in ChangesOf(l) : l[j].page # p)
    PROVE  Shown(l, d) /\ PagesTyped(d)
<1>1. \A q \in Pages : d[q] = IF q = p THEN page ELSE m[q]
  BY DEF PageSet, PagesTyped
<1>2. PagesTyped(d)
  BY ZeroTyped, PageReplaced DEF PagesTyped
<1>3. Zero(p)[Bitmap] = {}
  BY OffsetsNat DEF Zero
<1>4. \A i \in ChangesOf(l) : l[i].page \in Pages /\ d[l[i].page] = m[l[i].page]
  BY <1>1, PageOfChange DEF ChangesOK, ChangesOf
<1>5. \A q \in Pages : d[q][Bitmap] \subseteq m[q][Bitmap]
  BY <1>1, <1>3
<1>6. CellsShown(l, d)
  BY <1>4 DEF Shown, CellsShown, Holds
<1>7. BitsShown(l, d)
  BY <1>4, TypesFacts DEF Shown, BitsShown, SlotsOf, ChangesOf
<1>8. BitsTyped(d)
  BY <1>5 DEF Shown, BitsTyped
<1>9. IndexShown(l, d, Len(l))
  BY <1>5, IndexApart DEF Shown, IndexShown
<1>. QED  BY <1>2, <1>6, <1>7, <1>8, <1>9 DEF Shown

LEMMA ShownApplied ==
    ASSUME NEW l, NEW k, NEW x, IsGrown(l, k, x), ChangesOK(l), ChangeTyped(x), x.type \in ChangeTypes,
           x.type # "INDEX_SLOT_LOG",
           NEW m, NEW d, PagesTyped(m), Applied(m, d, x), Shown(l, m),
           x.type \in SlotTypes => m[x.page][Bitmap] \subseteq x.new
    PROVE  Shown(k, d) /\ PagesTyped(d)
<1>1. CellsShown(k, d)
  BY CellsApplied DEF Shown
<1>2. BitsShown(k, d) /\ BitsTyped(d)
  BY BitsApplied DEF Shown
<1>3. IndexShown(k, d, Len(k))
  BY IndexApplied DEF Shown
<1>4. PagesTyped(d)
  BY PageOfChange, AppliedFacts
<1>. QED  BY <1>1, <1>2, <1>3, <1>4 DEF Shown

(* A slot of an index page and its item.                                    *)
LEMMA ShownIndexItem ==
    ASSUME NEW l, NEW a, NEW x, IsGrown(l, a, x), ChangesOK(l), ChangeTyped(x),
           NEW k, NEW y, IsGrown(a, k, y), ChangesOK(a), ChangeTyped(y),
           x.type = "INDEX_SLOT_LOG", y.type = "INDEX_ITEM_INSERT_LOG", y.page = x.page,
           NEW m, PagesTyped(m), Shown(l, m), NEW s, x.new = m[x.page][Bitmap] \cup {s}, y.offset = s,
           NEW d, Applied(m, d, x), NEW e, Applied(d, e, y)
    PROVE  Shown(k, e) /\ PagesTyped(e)
<1>1. x.type \in ChangeTypes /\ y.type \in ChangeTypes /\ x.type \in SlotTypes /\ y.type \notin SlotTypes
  BY DEF ChangeTypes, DataTypes, IndexTypes, SlotTypes
<1>2. x.page \in Pages /\ x.offset \in Offsets(x.page) /\ y.page \in Pages /\ y.offset \in Offsets(y.page)
  BY <1>1, PageOfChange
<1>3. /\ PagesTyped(d) /\ Holds(d, x)
      /\ \A p \in Pages : \A o : p # x.page \/ o # x.offset => d[p][o] = m[p][o]
  BY <1>2, AppliedFacts
<1>4. /\ PagesTyped(e) /\ Holds(e, y)
      /\ \A p \in Pages : \A o : p # y.page \/ o # y.offset => e[p][o] = d[p][o]
  BY <1>2, <1>3, AppliedFacts
<1>5. CellsShown(a, d) /\ BitsShown(a, d) /\ BitsTyped(d)
  BY <1>1, CellsApplied, BitsApplied DEF Shown
<1>6. CellsShown(k, e) /\ BitsShown(k, e) /\ BitsTyped(e)
  BY <1>1, <1>3, <1>5, CellsApplied, BitsApplied
<1>7. IndexShown(k, e, Len(k))
  <2>. SUFFICES ASSUME NEW h \in Hashes, NEW o \in e[IndexPage(h)][Bitmap]
                PROVE  LinkedAt(k, IndexPage(h), o, Len(k))
    BY DEF IndexShown
  <2>1. PICK p : p = IndexPage(h)
    OBVIOUS
  <2>2. p \in Pages
    BY <2>1, IndexApart
  <2>3. y.offset # Bitmap /\ x.offset = Bitmap
    BY <1>1 DEF ChangeTyped
  <2>4. e[p][Bitmap] = d[p][Bitmap]
    BY <1>4, <2>2, <2>3
  <2>5. PICK b : GrowsTo(l, a, x, b)
    BY GrowFacts
  <2>6. PICK c : GrowsTo(a, k, y, c)
    BY GrowFacts
  <2>7. c \in LinksOf(k) /\ k[c] = y /\ c = Len(k) /\ c \in Nat
    BY <2>6 DEF GrowsTo, IndexItems
  <2>8. CASE o \in m[p][Bitmap]
    <3>1. PICK i \in LinksOf(l) : l[i].page = p /\ l[i].offset = o
      BY <2>1, <2>8 DEF Shown, IndexShown, LinkedAt
    <3>2. i \in LinksOf(k) /\ k[i] = l[i] /\ i <= Len(k)
      BY <2>5, <2>6, <3>1 DEF GrowsTo, LinksOf
    <3>. QED  BY <2>1, <3>1, <3>2 DEF LinkedAt
  <2>9. CASE o \notin m[p][Bitmap]
    <3>1. p = x.page /\ o = s
      BY <1>3, <2>1, <2>2, <2>3, <2>4, <2>9 DEF Holds
    <3>. QED  BY <2>1, <2>7, <3>1 DEF LinkedAt
  <2>. QED  BY <2>8, <2>9
<1>. QED  BY <1>4, <1>6, <1>7 DEF Shown

(* Take makes the two changes it logs.                                      *)
LEMMA TakeApplied ==
    ASSUME StoreTyped, NEW p \in Pages, NEW page, page = mem[p] \/ page = Zero(p),
           NEW s \in Offsets(p), NEW taken, NEW rec,
           NEW m, m = [mem EXCEPT ![p] = [page EXCEPT ![Bitmap] = taken, ![s] = rec]],
           NEW x, x.page = p, x.offset = Bitmap, x.new = taken,
           NEW y, y.page = p, y.offset = s, y.new = rec
    PROVE  \E d, e : PageSet(mem, d, p, page) /\ Applied(d, e, x) /\ Applied(e, m, y)
<1>1. PICK d : d = [mem EXCEPT ![p] = page]
  OBVIOUS
<1>2. PICK e : e = [d EXCEPT ![p][Bitmap] = taken]
  OBVIOUS
<1>3. p \in DOMAIN mem /\ DOMAIN page = Offsets(p) /\ Bitmap \in Offsets(p)
  BY OffsetsNat, ZeroTyped DEF StoreTyped, PagesTyped
<1>4. m = [e EXCEPT ![p][s] = rec]
  BY <1>1, <1>2, <1>3
<1>. QED  BY <1>1, <1>2, <1>4 DEF PageSet, Applied, OffsetSet

(* What Write does.                                                         *)
OldPage(k, a, p, page) == page = mem[p] /\ a < header[hashOf[k]].data /\ UNCHANGED <<disk, wpc>>
NewPage(w, k, a, p, page) ==
    /\ page = Zero(p) /\ a = header[hashOf[k]].data
    /\ Goto(w, "backup") /\ PageSet(disk, disk', p, Zero(p))
    /\ \A j \in ChangesOf(log) : log[j].page # p

WriteSlot(w, k, a, p, page, s) ==
    /\ a \in 0 .. MaxPages - 1 /\ s \in 1 .. Slots
    /\ p = DataPage(hashOf[k], a) /\ p \in DataPages /\ TakeFree(p, page, s)
    /\ items' = [items EXCEPT ![w] = Append(@, NewItem(k, a, s))]
    /\ OldPage(k, a, p, page) \/ NewPage(w, k, a, p, page)

FirstRecord(w, k) == Record(tx[w], Uncommitted, LastOf(k))

WriteTakes(w, k, p, page, s) ==
    Take(w, "DATA_SLOT_LOG", "DATA_RECORD_INSERT_LOG", p, page, s, FirstRecord(w, k))

(* Write, whichever page it takes: one with room, or a new one.              *)
LEMMA WriteFinds ==
    ASSUME Sound, HistoryInv, NEW w \in Workers, NEW k \in Keys, Write(w, k)
    PROVE  \E a, p, page, s : WriteSlot(w, k, a, p, page, s) /\ WriteTakes(w, k, p, page, s)
<1>. PICK h : h = hashOf[k]
  OBVIOUS
<1>1. Up /\ header[h] # Bad /\ ~Inserting(h) /\ h \in Hashes
  BY DEF Write, Sound, HeadersTyped
<1>2. header[h] \in Counts
  BY <1>1 DEF Sound, HeadersTyped, HeaderValues
<1>3. PICK count : count = header[h].data
  OBVIOUS
<1>4. count \in 0 .. MaxPages /\ MaxPages \in Nat
  BY <1>2, <1>3, BoundsAssumption DEF Counts
<1>5. ChangesOK(log) /\ Shown(log, mem)
  BY <1>1 DEF HistoryInv, PagesUp
<1>6. [tx |-> tx[w], ts |-> Uncommitted, prev |-> LastOf(k)] = FirstRecord(w, k)
  BY DEF FirstRecord, Record
<1>7. CASE HasRoom(h)
  <2>1. PICK a : a = count - 1
    OBVIOUS
  <2>2. PICK p : p = DataPage(h, a)
    OBVIOUS
  <2>3. a \in 0 .. MaxPages - 1 /\ a < header[h].data
    BY <1>3, <1>4, <1>7, <2>1 DEF HasRoom
  <2>4. p \in DataPages /\ p \in Pages
    BY <1>1, <2>2, <2>3 DEF DataPages, Pages
  <2>5. FreeSlots(p) # {}
    BY <1>3, <1>7, <2>1, <2>2 DEF HasRoom
  <2>6. PICK s : s = FirstFree(p)
    OBVIOUS
  <2>7. s \in FreeSlots(p) /\ s \in 1 .. Slots
    BY <2>4, <2>5, <2>6, FreeExists, FirstFreeIs
  <2>8. TakeFree(p, mem[p], s)
    BY <1>5, <2>4, <2>7, TakeFromPage
  <2>9. /\ Take(w, "DATA_SLOT_LOG", "DATA_RECORD_INSERT_LOG", p, mem[p], s, FirstRecord(w, k))
        /\ items' = [items EXCEPT ![w] = Append(@, NewItem(k, a, s))]
        /\ UNCHANGED <<disk, wpc>>
    BY <1>3, <1>6, <1>7, <2>1, <2>2, <2>6 DEF Write
  <2>10. PICK page : page = mem[p]
    OBVIOUS
  <2>11. WriteSlot(w, k, a, p, page, s) /\ WriteTakes(w, k, p, page, s)
    BY <2>2, <2>3, <2>4, <2>7, <2>8, <2>9, <2>10 DEF WriteSlot, WriteTakes, OldPage
  <2>. QED  BY <2>11
<1>8. CASE ~HasRoom(h)
  <2>1. PICK p : p = DataPage(h, count)
    OBVIOUS
  <2>2. PICK s : s = 1
    OBVIOUS
  <2>3. /\ count < MaxPages
        /\ Take(w, "DATA_SLOT_LOG", "DATA_RECORD_INSERT_LOG", p, Zero(p), 1, FirstRecord(w, k))
        /\ items' = [items EXCEPT ![w] = Append(@, NewItem(k, count, 1))]
        /\ disk' = [disk EXCEPT ![p] = Zero(p)]
        /\ Goto(w, "backup")
    BY <1>3, <1>6, <1>8, <2>1 DEF Write
  <2>4. count \in 0 .. MaxPages - 1
    BY <1>4, <2>3
  <2>5. p \in DataPages /\ p \in Pages
    BY <1>1, <2>1, <2>4 DEF DataPages, Pages
  <2>6. s \in 1 .. Slots /\ s \in Offsets(p) \ {Bitmap}
    BY <2>2, <2>5, SizesAssumption DEF Offsets, Bitmap
  <2>7. \A j \in ChangesOf(log) : log[j].page # p
    <3>. SUFFICES ASSUME NEW j \in ChangesOf(log), log[j].page = p PROVE FALSE
      OBVIOUS
    <3>1. count < ReadCounts(h).data \/ \E v \in Workers : CountsIt(v, h, count, log[j].tx)
      BY <1>1, <2>1, <2>4 DEF HistoryInv, PagesCounted, DataCounted, IndexCounted, PageCounted
    <3>2. ReadCounts(h).data = count
      BY <1>1, <1>3 DEF ReadCounts
    <3>3. PICK v \in Workers : CountsIt(v, h, count, log[j].tx)
      BY <1>4, <3>1, <3>2
    <3>. QED  BY <1>1, <3>3 DEF CountsIt, Growing, Inserting
  <2>8. TakeFree(p, Zero(p), s)
    BY <2>5, <2>6, <2>7, TakeFromNew
  <2>9. PICK page : page = Zero(p)
    OBVIOUS
  <2>10. WriteSlot(w, k, count, p, page, s) /\ WriteTakes(w, k, p, page, s)
    BY <1>3, <2>1, <2>2, <2>3, <2>4, <2>5, <2>6, <2>7, <2>8, <2>9
    DEF WriteSlot, WriteTakes, NewPage, PageSet
  <2>. QED  BY <2>10
<1>. QED  BY <1>7, <1>8

(* What a step logs, with the pages it leaves.                              *)
OneChange(x, l) == l = log' /\ IsGrown(log, l, x) /\ LogHistory' /\ Shown(l, mem')
TwoChanges(x, b, y, l) ==
    l = log' /\ IsGrown(log, b, x) /\ IsGrown(b, l, y) /\ LogHistory' /\ Shown(l, mem')

WriteItems(w, k, p, page, s, x, y) ==
    /\ IsChange(x, "DATA_SLOT_LOG", tx[w], p, Bitmap, page[Bitmap] \cup {s})
    /\ IsChange(y, "DATA_RECORD_INSERT_LOG", tx[w], p, s, FirstRecord(w, k))

(* Write logs two items that fit,                                            *)
LEMMA WriteLogs ==
    ASSUME Sound, HistoryInv, Up, UNCHANGED hashOf, NEW w \in Workers, NEW k \in Keys,
           NEW a, NEW p, NEW page, NEW s, WriteSlot(w, k, a, p, page, s), WriteTakes(w, k, p, page, s)
    PROVE  \E x, b, y, l : TwoChanges(x, b, y, l) /\ WriteItems(w, k, p, page, s, x, y)
<1>1. /\ p \in DataPages /\ p \in Pages /\ TakeFree(p, page, s) /\ s \in Offsets(p) /\ s # Bitmap
      /\ page = mem[p] \/ (page = Zero(p) /\ \A j \in ChangesOf(log) : log[j].page # p)
  BY DEF WriteSlot, OldPage, NewPage, Pages, TakeFree
<1>2. PICK t : t = tx[w]
  OBVIOUS
<1>3. PICK rec : rec = FirstRecord(w, k)
  OBVIOUS
<1>4. PICK taken : taken = page[Bitmap] \cup {s}
  OBVIOUS
<1>5. PICK x : x = Item("DATA_SLOT_LOG", t, p, Bitmap, taken)
  OBVIOUS
<1>6. PICK y : y = [Item("DATA_RECORD_INSERT_LOG", t, p, s, rec) EXCEPT !.id = @ + 1]
  OBVIOUS
<1>7. /\ x.type = "DATA_SLOT_LOG" /\ x.tx = t /\ x.page = p /\ x.offset = Bitmap /\ x.new = taken
      /\ y.type = "DATA_RECORD_INSERT_LOG" /\ y.tx = t /\ y.page = p /\ y.offset = s /\ y.new = rec
  BY <1>5, <1>6 DEF Item
<1>8. IsChange(x, "DATA_SLOT_LOG", t, p, Bitmap, page[Bitmap] \cup {s})
  BY <1>4, <1>7 DEF IsChange
<1>9. IsChange(y, "DATA_RECORD_INSERT_LOG", t, p, s, rec)
  BY <1>7 DEF IsChange
<1>10. log' = log \o <<x, y>>
  BY <1>2, <1>3, <1>4, <1>5, <1>6 DEF WriteTakes, Take
<1>11. PICK m : m = mem'
  OBVIOUS
<1>12. m = [mem EXCEPT ![p] = [page EXCEPT ![Bitmap] = taken, ![s] = rec]]
  BY <1>3, <1>4, <1>11 DEF WriteTakes, Take
<1>13. PICK b, l : l = log' /\ IsGrown(log, b, x) /\ IsGrown(b, l, y)
  BY <1>10, TwoGrown DEF Sound
<1>14. ChangesOK(log) /\ VersionsOK(log) /\ NoLoneSlot(log) /\ Shown(log, mem)
  BY DEF HistoryInv, PagesUp
<1>15. ChangeTyped(x) /\ ItemFits(log, x) /\ VersionFits(log, x)
  <2>1. PICK type \in SlotTypes : type = "DATA_SLOT_LOG"
    BY DEF SlotTypes
  <2>2. IsChange(x, type, t, p, Bitmap, page[Bitmap] \cup {s})
    BY <1>8, <2>1
  <2>. QED  BY <1>1, <1>14, <2>1, <2>2, SlotFits
<1>16. ChangesOK(b) /\ VersionsOK(b)
  BY <1>13, <1>14, <1>15, ChangesOKGrows, VersionsOKGrows
<1>17. ChangeTyped(y) /\ ItemFits(b, y) /\ VersionFits(b, y)
  BY <1>1, <1>8, <1>9, <1>13, <1>16, RecordFits
<1>18. ChangesOK(l) /\ VersionsOK(l)
  BY <1>13, <1>16, <1>17, ChangesOKGrows, VersionsOKGrows
<1>19. LogHistory'
  BY <1>13, <1>18, HistoryOfLog
<1>20. PICK d, e : PageSet(mem, d, p, page) /\ Applied(d, e, x) /\ Applied(e, m, y)
  BY <1>1, <1>7, <1>12, TakeApplied DEF Sound
<1>21. Shown(log, d) /\ PagesTyped(d)
  BY <1>1, <1>14, <1>20, ShownPut DEF Sound, StoreTyped
<1>22. d[p] = page
  BY <1>1, <1>20 DEF PageSet, Sound, StoreTyped, PagesTyped
<1>23. Shown(b, e) /\ PagesTyped(e)
  <2>1. d[x.page][Bitmap] \subseteq x.new
    BY <1>4, <1>7, <1>22
  <2>2. x.type \in ChangeTypes /\ x.type # "INDEX_SLOT_LOG"
    BY <1>7 DEF ChangeTypes, DataTypes
  <2>. QED  BY <1>13, <1>14, <1>15, <1>20, <1>21, <2>1, <2>2, ShownApplied
<1>24. Shown(l, m)
  <2>1. y.type \in ChangeTypes /\ y.type # "INDEX_SLOT_LOG" /\ y.type \notin SlotTypes
    BY <1>7 DEF ChangeTypes, DataTypes, SlotTypes
  <2>. QED  BY <1>13, <1>16, <1>17, <1>20, <1>23, <2>1, ShownApplied
<1>25. TwoChanges(x, b, y, l)
  BY <1>11, <1>13, <1>19, <1>24 DEF TwoChanges
<1>26. WriteItems(w, k, p, page, s, x, y)
  BY <1>2, <1>3, <1>8, <1>9 DEF WriteItems
<1>. QED  BY <1>25, <1>26

PutItems(w, p, s, x, y) ==
    /\ p = IndexPage(HashAt(w)) /\ TakeFree(p, mem[p], s)
    /\ IsChange(x, "INDEX_SLOT_LOG", tx[w], p, Bitmap, mem[p][Bitmap] \cup {s})
    /\ IsChange(y, "INDEX_ITEM_INSERT_LOG", tx[w], p, s, Pointer(w))

(* so does insert_index,                                                     *)
LEMMA PutLogs ==
    ASSUME Sound, HistoryInv, UNCHANGED hashOf, NEW w \in Workers, PutIndexItem(w)
    PROVE  \E p, s, x, b, y, l : TwoChanges(x, b, y, l) /\ PutItems(w, p, s, x, y)
<1>0. At(w, "index") /\ AtItem(w) /\ ~At(w, "stamp") /\ Committing(w)
  BY DEF PutIndexItem, At, AtItem, Sound, CountersInv, WorkersOK
<1>1. Up /\ HashAt(w) \in Hashes /\ KeyOf(w) \in Keys
  BY <1>0, ItemFacts
<1>2. ChangesOK(log) /\ VersionsOK(log) /\ NoLoneSlot(log) /\ Shown(log, mem)
  BY <1>1 DEF HistoryInv, PagesUp
<1>3. PICK h \in Hashes : h = HashAt(w)
  BY <1>1
<1>4. PICK p : p = IndexPage(h)
  OBVIOUS
<1>5. PICK s : s = FirstFree(p)
  OBVIOUS
<1>6. NoLink(log, KeyOf(w), Len(log))
  <2>1. Current(w).first
    BY <1>0, <1>1 DEF HistoryInv, WorkersWrote, ItemsWritten, FirstsKnown
  <2>2. PICK u : StandsAt(w, u, maxTs + 1)
    BY <1>0, CurrentWritten
  <2>. QED  BY <2>1, <2>2 DEF StandsAt
<1>7. p \in Pages /\ s \in FreeSlots(p)
  <2>1. PICK k \in Keys : k = KeyOf(w)
    BY <1>1
  <2>2. NoLink(log, k, Len(log))
    BY <1>6, <2>1
  <2>. QED  BY <1>2, <1>3, <1>4, <1>5, <2>2, IndexRoom, IndexApart
<1>8. TakeFree(p, mem[p], s)
  BY <1>2, <1>7, TakeFromPage
<1>9. PICK taken : taken = mem[p][Bitmap] \cup {s}
  OBVIOUS
<1>10. PICK x : x = Item("INDEX_SLOT_LOG", tx[w], p, Bitmap, taken)
  OBVIOUS
<1>11. PICK y : y = [Item("INDEX_ITEM_INSERT_LOG", tx[w], p, s, Pointer(w)) EXCEPT !.id = @ + 1]
  OBVIOUS
<1>12. /\ x.type = "INDEX_SLOT_LOG" /\ x.tx = tx[w] /\ x.page = p /\ x.offset = Bitmap /\ x.new = taken
       /\ y.type = "INDEX_ITEM_INSERT_LOG" /\ y.tx = tx[w] /\ y.page = p /\ y.offset = s /\ y.new = Pointer(w)
  BY <1>10, <1>11 DEF Item
<1>13. IsChange(x, "INDEX_SLOT_LOG", tx[w], p, Bitmap, mem[p][Bitmap] \cup {s})
  BY <1>9, <1>12 DEF IsChange
<1>14. IsChange(y, "INDEX_ITEM_INSERT_LOG", tx[w], p, s, Pointer(w))
  BY <1>12 DEF IsChange
<1>15. log' = log \o <<x, y>>
  BY <1>3, <1>4, <1>5, <1>9, <1>10, <1>11 DEF PutIndexItem, Take
<1>16. PICK m : m = mem'
  OBVIOUS
<1>17. PICK rec : rec = Pointer(w)
  OBVIOUS
<1>18. PICK page : page = mem[p]
  OBVIOUS
<1>19. m = [mem EXCEPT ![p] = [page EXCEPT ![Bitmap] = taken, ![s] = rec]]
  BY <1>3, <1>4, <1>5, <1>9, <1>16, <1>17, <1>18 DEF PutIndexItem, Take
<1>20. PICK b, l : l = log' /\ IsGrown(log, b, x) /\ IsGrown(b, l, y)
  BY <1>15, TwoGrown DEF Sound
<1>21. ChangeTyped(x) /\ ItemFits(log, x) /\ VersionFits(log, x)
  <2>1. PICK type \in SlotTypes : type = "INDEX_SLOT_LOG"
    BY DEF SlotTypes
  <2>2. PICK t : t = tx[w]
    OBVIOUS
  <2>3. IsChange(x, type, t, p, Bitmap, page[Bitmap] \cup {s}) /\ TakeFree(p, page, s)
    BY <1>8, <1>13, <1>18, <2>1, <2>2
  <2>. QED  BY <1>2, <1>4, <2>1, <2>3, SlotFits
<1>22. ChangesOK(b) /\ VersionsOK(b)
  BY <1>2, <1>20, <1>21, ChangesOKGrows, VersionsOKGrows
<1>23. ChangeTyped(y) /\ ItemFits(b, y) /\ VersionFits(b, y)
  BY <1>0, <1>3, <1>4, <1>8, <1>13, <1>14, <1>20, <1>22, IndexItemFits
<1>24. ChangesOK(l) /\ VersionsOK(l)
  BY <1>20, <1>22, <1>23, ChangesOKGrows, VersionsOKGrows
<1>25. LogHistory'
  BY <1>20, <1>24, HistoryOfLog
<1>26. /\ s \in Offsets(p)
       /\ page = mem[p] \/ page = Zero(p)
       /\ page = mem[p] \/ (page = Zero(p) /\ \A j \in ChangesOf(log) : log[j].page # p)
  BY <1>8, <1>18 DEF TakeFree
<1>27. PICK d, e : PageSet(mem, d, p, page) /\ Applied(d, e, x) /\ Applied(e, m, y)
  <2>1. x.page = p /\ x.offset = Bitmap /\ x.new = taken /\ y.page = p /\ y.offset = s /\ y.new = rec
    BY <1>12, <1>17
  <2>. QED  BY <1>7, <1>19, <1>26, <2>1, TakeApplied DEF Sound
<1>28. Shown(log, d) /\ PagesTyped(d)
  <2>1. PagesTyped(mem)
    BY DEF Sound, StoreTyped
  <2>. QED  BY <1>2, <1>7, <1>26, <1>27, <2>1, ShownPut
<1>29. x.new = d[x.page][Bitmap] \cup {s}
  <2>1. d[p] = page
    BY <1>7, <1>27 DEF PageSet, Sound, StoreTyped, PagesTyped
  <2>. QED  BY <1>9, <1>12, <1>18, <2>1
<1>30. Shown(l, m)
  BY <1>2, <1>12, <1>20, <1>21, <1>22, <1>23, <1>27, <1>28, <1>29, ShownIndexItem
<1>31. TwoChanges(x, b, y, l)
  BY <1>16, <1>20, <1>25, <1>30 DEF TwoChanges
<1>32. PutItems(w, p, s, x, y)
  BY <1>3, <1>4, <1>8, <1>13, <1>14 DEF PutItems
<1>. QED  BY <1>31, <1>32

(* and an update logs one.                                                   *)
LEMMA ChangeLogs ==
    ASSUME Sound, HistoryInv, Up, UNCHANGED hashOf, NEW x, AddLog(x), mem' = [mem EXCEPT ![x.page][x.offset] = x.new],
           ChangeTyped(x), x.type \in ChangeTypes, x.type \notin SlotTypes,
           ItemFits(log, x), VersionFits(log, x)
    PROVE  \E l : OneChange(x, l)
<1>1. ChangesOK(log) /\ VersionsOK(log) /\ Shown(log, mem)
  BY DEF HistoryInv, PagesUp
<1>2. PICK l : l = log' /\ IsGrown(log, l, x)
  BY OneGrown DEF Sound
<1>3. LogHistory'
  BY <1>1, <1>2, GrowLog DEF LogHistory
<1>4. PICK m : m = mem'
  OBVIOUS
<1>5. Applied(mem, m, x)
  BY <1>4 DEF Applied, OffsetSet
<1>6. Shown(l, m)
  BY <1>1, <1>2, <1>5, ShownApplied DEF Sound, StoreTyped, SlotTypes
<1>. QED  BY <1>2, <1>3, <1>4, <1>6 DEF OneChange

StampIs(w, x) ==
    IsChange(x, "DATA_RECORD_UPDATE_LOG", tx[w], PageOf(w), SlotOf(w),
             [mem[PageOf(w)][SlotOf(w)] EXCEPT !.ts = maxTs + 1])
LinkIs(w, x) ==
    IsChange(x, "INDEX_ITEM_UPDATE_LOG", tx[w], IndexPage(HashAt(w)), ItemOf(KeyOf(w)), Pointer(w))

LEMMA StampLogs ==
    ASSUME Sound, HistoryInv, UNCHANGED hashOf, NEW w \in Workers, Stamp(w)
    PROVE  \E x, l : OneChange(x, l) /\ StampIs(w, x)
<1>1. At(w, "stamp") /\ AtItem(w) /\ Committing(w)
  BY DEF Stamp, At, AtItem, Sound, CountersInv, WorkersOK
<1>2. Up
  BY <1>1, ItemFacts
<1>3. PICK new : new = [mem[PageOf(w)][SlotOf(w)] EXCEPT !.ts = maxTs + 1]
  OBVIOUS
<1>4. PICK x : x = Item("DATA_RECORD_UPDATE_LOG", tx[w], PageOf(w), SlotOf(w), new)
  OBVIOUS
<1>5. IsChange(x, "DATA_RECORD_UPDATE_LOG", tx[w], PageOf(w), SlotOf(w), new)
  BY <1>4 DEF IsChange, Item
<1>6. AddLog(x) /\ mem' = [mem EXCEPT ![x.page][x.offset] = x.new]
  BY <1>3, <1>4, <1>5 DEF Stamp, Change, IsChange
<1>7. ChangeTyped(x) /\ ItemFits(log, x) /\ VersionFits(log, x)
  BY <1>1, <1>5, StampFits
<1>8. x.type \in ChangeTypes /\ x.type \notin SlotTypes
  BY <1>5 DEF IsChange, ChangeTypes, DataTypes, SlotTypes
<1>9. \E l : OneChange(x, l)
  BY <1>2, <1>6, <1>7, <1>8, ChangeLogs
<1>. QED  BY <1>3, <1>5, <1>9 DEF StampIs

LEMMA LinkLogs ==
    ASSUME Sound, HistoryInv, UNCHANGED hashOf, NEW w \in Workers, Link(w)
    PROVE  \E x, l : OneChange(x, l) /\ LinkIs(w, x)
<1>1. At(w, "link") /\ AtItem(w) /\ Committing(w)
  BY DEF Link, At, AtItem, Sound, CountersInv, WorkersOK
<1>2. Up
  BY <1>1, ItemFacts
<1>3. PICK x : x = Item("INDEX_ITEM_UPDATE_LOG", tx[w], IndexPage(HashAt(w)), ItemOf(KeyOf(w)), Pointer(w))
  OBVIOUS
<1>4. LinkIs(w, x)
  BY <1>3 DEF IsChange, Item, LinkIs
<1>5. AddLog(x) /\ mem' = [mem EXCEPT ![x.page][x.offset] = x.new]
  BY <1>3, <1>4 DEF Link, Change, IsChange, LinkIs
<1>6. ChangeTyped(x) /\ ItemFits(log, x) /\ VersionFits(log, x)
  BY <1>1, <1>4, LinkFits DEF LinkIs
<1>7. x.type \in ChangeTypes /\ x.type \notin SlotTypes
  BY <1>4 DEF LinkIs, IsChange, ChangeTypes, IndexTypes, SlotTypes
<1>8. \E l : OneChange(x, l)
  BY <1>2, <1>5, <1>6, <1>7, ChangeLogs
<1>. QED  BY <1>4, <1>8

-------------------------------------------------------------------------------
(* The pool and the files after a step.                                     *)
Files == PagesUp /\ DiskOK

LEMMA FilesUp ==
    ASSUME pc' = pc, Up, NEW l, l = log', Shown(l, mem'), NoLoneSlot(l),
           NEW e, e = disk', NEW b, b = durable', DiskShown(l, e, b), cpc' = "log" => disk' = mem'
    PROVE  Files'
BY DEF Files, PagesUp, DiskOK, Up

LEMMA DiskFacts ==
    ASSUME Sound, HistoryInv
    PROVE  /\ Len(log) \in Nat /\ durable \in 0 .. Len(log)
           /\ DiskShown(log, disk, durable) /\ PagesTyped(disk) /\ PagesTyped(mem)
           /\ ChangesOK(log) /\ VersionsOK(log)
           /\ IsCut(log, log) /\ NoNewCheckpoint(log, log)
           /\ Up => Shown(log, mem) /\ NoLoneSlot(log)
<1>1. Len(log) \in Nat /\ durable \in 0 .. Len(log)
  BY LogFacts DEF Sound
<1>2. DiskShown(log, disk, durable) /\ (Up => Shown(log, mem) /\ NoLoneSlot(log))
  BY DEF HistoryInv, DiskOK, PagesUp
<1>3. IsCut(log, log) /\ NoNewCheckpoint(log, log)
  BY <1>1 DEF IsCut, NoNewCheckpoint
<1>. QED  BY <1>1, <1>2, <1>3 DEF Sound, HistoryInv, StoreTyped

(* Nothing is written but a page cleared that no item is about.              *)
LEMMA FilesGrow ==
    ASSUME Sound, HistoryInv, Up, cpc = "idle", UNCHANGED <<pc, cpc, durable>>,
           NEW l, l = log', IsCut(l, log), NoNewCheckpoint(log, l), Shown(l, mem'), NoLoneSlot(l),
           \/ disk' = disk
           \/ \E p \in Pages : PageSet(disk, disk', p, Zero(p)) /\ \A j \in ChangesOf(log) : log[j].page # p
    PROVE  Files'
<1>. PICK e : e = disk'
  OBVIOUS
<1>0. PICK b : b = durable
  OBVIOUS
<1>1. /\ b \in 0 .. Len(log) /\ DiskShown(log, disk, b) /\ PagesTyped(disk)
      /\ ChangesOK(log)
  BY <1>0, DiskFacts
<1>2. \A i \in ChangesOf(log) : log[i].page \in Pages
  BY <1>1, PageOfChange DEF ChangesOK, ChangesOf
<1>3. BitsTyped(disk)
  BY <1>1 DEF DiskShown
<1>4. DiskShown(l, e, b)
  <2>1. CASE disk' = disk
    <3>1. /\ \A i \in ChangesOf(log) : e[log[i].page] = disk[log[i].page]
          /\ BitsTyped(e)
          /\ \A h \in Hashes : e[IndexPage(h)][Bitmap] \subseteq disk[IndexPage(h)][Bitmap]
      BY <1>3, <2>1
    <3>. QED  BY <1>1, <3>1, DiskGrows
  <2>2. ASSUME NEW p \in Pages, PageSet(disk, disk', p, Zero(p)), \A j \in ChangesOf(log) : log[j].page # p
        PROVE  DiskShown(l, e, b)
    <3>0. \A q \in Pages : e[q] = IF q = p THEN Zero(p) ELSE disk[q]
      BY <1>1, <2>2 DEF PageSet, PagesTyped
    <3>1. \A i \in ChangesOf(log) : e[log[i].page] = disk[log[i].page]
      BY <1>2, <2>2, <3>0
    <3>2. Zero(p)[Bitmap] = {}
      BY OffsetsNat DEF Zero
    <3>3. \A q \in Pages : e[q][Bitmap] \subseteq disk[q][Bitmap]
      BY <3>0, <3>2
    <3>4. BitsTyped(e)
      BY <1>3, <3>3 DEF BitsTyped
    <3>5. \A h \in Hashes : e[IndexPage(h)][Bitmap] \subseteq disk[IndexPage(h)][Bitmap]
      BY <3>3, IndexApart
    <3>. QED  BY <1>1, <3>1, <3>4, <3>5, DiskGrows
  <2>. QED  BY <2>1, <2>2
<1>. QED  BY <1>0, <1>4, FilesUp

LEMMA OneCut ==
    ASSUME NEW x, NEW l, IsGrown(log, l, x), x.type # "CHECKPOINT_LOG"
    PROVE  IsCut(l, log) /\ NoNewCheckpoint(log, l)
<1>1. PICK k : GrowsTo(log, l, x, k)
  BY GrowFacts
<1>. QED  BY <1>1, GrownCut DEF GrowsTo, NoNewCheckpoint

LEMMA TwoCut ==
    ASSUME NEW x, NEW b, NEW y, NEW l, IsGrown(log, b, x), IsGrown(b, l, y),
           x.type # "CHECKPOINT_LOG", y.type # "CHECKPOINT_LOG"
    PROVE  IsCut(l, log) /\ NoNewCheckpoint(log, l)
<1>1. PICK i : GrowsTo(log, b, x, i)
  BY GrowFacts
<1>2. PICK k : GrowsTo(b, l, y, k)
  BY GrowFacts
<1>3. IsCut(l, log)
  BY <1>1, <1>2 DEF GrowsTo, IsCut
<1>4. \A c \in 1 .. Len(l) : l[c].type = "CHECKPOINT_LOG" => c \in 1 .. Len(log)
  BY <1>1, <1>2 DEF GrowsTo
<1>. QED  BY <1>1, <1>3, <1>4 DEF GrowsTo, NoNewCheckpoint

(* Pages and files after each action: Write,                                 *)
LEMMA WriteFiles ==
    ASSUME Sound, HistoryInv, Up, cpc = "idle", UNCHANGED <<pc, cpc>>, NEW w \in Workers, NEW k \in Keys,
           NEW a, NEW p, NEW page, NEW s, WriteSlot(w, k, a, p, page, s), WriteTakes(w, k, p, page, s),
           NEW x, NEW b, NEW y, NEW l, TwoChanges(x, b, y, l), WriteItems(w, k, p, page, s, x, y)
    PROVE  Files'
<1>1. l = log' /\ Shown(l, mem') /\ IsGrown(log, b, x) /\ IsGrown(b, l, y)
  BY DEF TwoChanges
<1>2. x.type = "DATA_SLOT_LOG" /\ y.type = "DATA_RECORD_INSERT_LOG"
  BY DEF WriteItems, IsChange
<1>3. IsCut(l, log) /\ NoNewCheckpoint(log, l)
  BY <1>1, <1>2, TwoCut
<1>4. NoLoneSlot(l)
  BY <1>1, <1>2 DEF IsGrown, NoLoneSlot
<1>5. durable' = durable
  BY DEF WriteTakes, Take
<1>6. \/ disk' = disk
      \/ \E q \in Pages : PageSet(disk, disk', q, Zero(q)) /\ \A j \in ChangesOf(log) : log[j].page # q
  BY DEF WriteSlot, OldPage, NewPage, Pages
<1>. QED  BY <1>1, <1>3, <1>4, <1>5, <1>6, FilesGrow

(* insert_index,                                                             *)
LEMMA PutFiles ==
    ASSUME Sound, HistoryInv, Up, cpc = "idle", NEW w \in Workers, PutIndexItem(w),
           NEW p, NEW s, NEW x, NEW b, NEW y, NEW l, TwoChanges(x, b, y, l), PutItems(w, p, s, x, y)
    PROVE  Files'
<1>1. l = log' /\ Shown(l, mem') /\ IsGrown(log, b, x) /\ IsGrown(b, l, y)
  BY DEF TwoChanges
<1>2. x.type = "INDEX_SLOT_LOG" /\ y.type = "INDEX_ITEM_INSERT_LOG"
  BY DEF PutItems, IsChange
<1>3. IsCut(l, log) /\ NoNewCheckpoint(log, l)
  BY <1>1, <1>2, TwoCut
<1>4. NoLoneSlot(l)
  BY <1>1, <1>2 DEF IsGrown, NoLoneSlot
<1>5. UNCHANGED <<pc, cpc, durable, disk>>
  BY DEF PutIndexItem, Take, fileVars
<1>. QED  BY <1>1, <1>3, <1>4, <1>5, FilesGrow

(* an update,                                                                *)
LEMMA ChangeFiles ==
    ASSUME Sound, HistoryInv, Up, cpc = "idle", UNCHANGED <<pc, cpc, durable, disk>>,
           NEW x, NEW l, OneChange(x, l), x.type \notin NoChange, x.type # "INDEX_SLOT_LOG"
    PROVE  Files'
<1>1. l = log' /\ Shown(l, mem') /\ IsGrown(log, l, x)
  BY DEF OneChange
<1>2. x.type # "CHECKPOINT_LOG"
  BY DEF NoChange
<1>3. IsCut(l, log) /\ NoNewCheckpoint(log, l)
  BY <1>1, <1>2, OneCut
<1>4. NoLoneSlot(l)
  BY <1>1 DEF IsGrown, NoLoneSlot
<1>. QED  BY <1>1, <1>3, <1>4, FilesGrow

(* the end of a transaction,                                                 *)
LEMMA MarkFiles ==
    ASSUME Sound, HistoryInv, Up, cpc = "idle", UNCHANGED <<pc, cpc, disk, mem>>,
           NEW x, AddLog(x), x.type \in Ends
    PROVE  Files'
<1>1. PICK l : l = log' /\ IsGrown(log, l, x) /\ durable' = durable
  BY OneGrown DEF Sound
<1>2. x.type \notin ChangeTypes /\ x.type # "CHECKPOINT_LOG" /\ x.type # "INDEX_SLOT_LOG"
  BY DEF Ends, ChangeTypes, DataTypes, IndexTypes
<1>3. IsCut(l, log) /\ NoNewCheckpoint(log, l)
  BY <1>1, <1>2, OneCut
<1>4. NoLoneSlot(l)
  BY <1>1, <1>2 DEF IsGrown, NoLoneSlot
<1>5. Shown(log, mem)
  BY DiskFacts
<1>6. Shown(l, mem)
  BY <1>1, <1>2, <1>5, CellsSame DEF Shown
<1>. QED  BY <1>1, <1>3, <1>4, <1>6, FilesGrow

(* a checkpoint's item,                                                      *)
LEMMA CheckpointLogFiles ==
    ASSUME Sound, HistoryInv, CheckpointLog
    PROVE  Files'
<1>1. Up /\ disk = mem
  BY DEF CheckpointLog, Sound, CountersInv, WorkersOK, HistoryInv, DiskOK
<1>2. PICK x : x = CheckpointItem
  OBVIOUS
<1>3. x.type = "CHECKPOINT_LOG" /\ AddLog(x)
  BY <1>2 DEF CheckpointItem, MarkItem, Item, CheckpointLog
<1>4. PICK l : l = log' /\ IsGrown(log, l, x) /\ durable' = durable
  BY <1>3, OneGrown DEF Sound
<1>5. x.type \notin ChangeTypes
  BY <1>3 DEF ChangeTypes, DataTypes, IndexTypes
<1>6. NoLoneSlot(l)
  BY <1>3, <1>4 DEF IsGrown, NoLoneSlot
<1>7. Shown(log, mem) /\ DiskShown(log, disk, durable) /\ durable \in 0 .. Len(log)
  BY <1>1, DiskFacts
<1>8. Shown(l, mem)
  BY <1>4, <1>5, <1>7, CellsSame DEF Shown
<1>9. CellsShown(log, disk) /\ BitsShown(log, disk)
  BY <1>1, <1>7 DEF Shown
<1>10. DiskShown(l, disk, durable)
  BY <1>3, <1>4, <1>7, <1>9, DiskCheckpoint
<1>11. UNCHANGED <<pc, disk, mem>> /\ cpc' # "log"
  BY DEF CheckpointLog, fileVars
<1>. QED  BY <1>1, <1>4, <1>6, <1>8, <1>10, <1>11, FilesUp

LEMMA NoIndexYet ==
    ASSUME Sound, HistoryInv, NEW w \in Workers, NewIndexPage(w)
    PROVE  \A j \in ChangesOf(log) : log[j].page # IndexPage(HashAt(w))
<1>1. AtItem(w) /\ header[HashAt(w)].index = 0
  BY DEF NewIndexPage, At, AtItem
<1>2. HashAt(w) \in Hashes /\ header[HashAt(w)] \in Counts
  BY <1>1, HashFacts DEF Sound
<1>3. ReadCounts(HashAt(w)).index = 0
  BY <1>1, <1>2, BadAssumption DEF ReadCounts
<1>. QED  BY <1>2, <1>3 DEF HistoryInv, PagesCounted, DataCounted, IndexCounted, PageCounted

(* a new index page,                                                         *)
LEMMA NewIndexFiles ==
    ASSUME Sound, HistoryInv, NEW w \in Workers, NewIndexPage(w)
    PROVE  Files'
<1>1. AtItem(w)
  BY DEF NewIndexPage, At, AtItem
<1>2. Up /\ cpc = "idle" /\ HashAt(w) \in Hashes
  BY <1>1, ItemFacts
<1>3. PICK p : p = IndexPage(HashAt(w))
  OBVIOUS
<1>4. p \in Pages /\ \A j \in ChangesOf(log) : log[j].page # p
  BY <1>2, <1>3, IndexApart, NoIndexYet
<1>5. /\ mem' = [mem EXCEPT ![p] = Zero(p)] /\ disk' = [disk EXCEPT ![p] = Zero(p)]
      /\ UNCHANGED <<pc, cpc, log, durable>>
  BY <1>3 DEF NewIndexPage, logVars
<1>6. PICK m : m = mem'
  OBVIOUS
<1>7. PICK page : page = Zero(p)
  OBVIOUS
<1>8. PageSet(mem, m, p, page)
  BY <1>5, <1>6, <1>7 DEF PageSet
<1>9. /\ ChangesOK(log) /\ PagesTyped(mem) /\ Shown(log, mem) /\ NoLoneSlot(log)
      /\ IsCut(log, log) /\ NoNewCheckpoint(log, log)
  BY <1>2, DiskFacts
<1>10. Shown(log, m)
  BY <1>4, <1>7, <1>8, <1>9, ShownPut
<1>11. PageSet(disk, disk', p, Zero(p))
  BY <1>5 DEF PageSet
<1>12. PICK l : l = log'
  OBVIOUS
<1>13. l = log
  BY <1>5, <1>12
<1>. QED  BY <1>2, <1>4, <1>5, <1>6, <1>9, <1>10, <1>11, <1>12, <1>13, FilesGrow

LEMMA MixedFiles ==
    ASSUME Sound, HistoryInv, Up, NEW d, Mixed(d, disk, mem)
    PROVE  /\ DiskShown(log, d, Len(log))
           /\ (\A w \in Workers : wpc[w] = "idle") => DiskShown(log, d, durable)
<1>1. /\ Len(log) \in Nat /\ durable \in 0 .. Len(log) /\ ChangesOK(log) /\ Shown(log, mem)
      /\ DiskShown(log, disk, durable)
  BY DiskFacts
<1>2. \A i \in ChangesOf(log) : i \in 1 .. Len(log)
  BY DEF ChangesOf
<1>3. PICK b : b = Len(log)
  OBVIOUS
<1>4. b \in durable .. Len(log) /\ durable \in durable .. Len(log)
      /\ \A i \in ChangesOf(log) : i > b => log[i].type \notin LastingTypes
  BY <1>1, <1>2, <1>3
<1>5. DiskShown(log, d, b)
  BY <1>1, <1>4, DiskMixed
<1>6. ASSUME \A w \in Workers : wpc[w] = "idle"
      PROVE  DiskShown(log, d, durable)
  <2>1. \A w \in Workers : ~Committing(w)
    BY <1>6 DEF Sound, CountersInv, WorkersOK
  <2>2. \A i \in ChangesOf(log) : i > durable => log[i].type \notin LastingTypes
    BY <1>2, <2>1, LogFacts DEF HistoryInv, Lasting, Sound
  <2>. QED  BY <1>1, <1>4, <2>2, DiskMixed
<1>. QED  BY <1>3, <1>5, <1>6

LEMMA MixedSelf == \A d, m : Mixed(d, d, m) /\ Mixed(m, d, m)
BY DEF Mixed

(* pages and log written,                                                    *)
LEMMA FlushFiles ==
    ASSUME Sound, HistoryInv, Up, UNCHANGED <<log, mem, pc>>, cpc' # "log", durable' = Len(log),
           disk' = disk \/ disk' = mem
    PROVE  Files'
<1>1. PICK e : e = disk'
  OBVIOUS
<1>2. Mixed(e, disk, mem)
  BY <1>1, MixedSelf
<1>3. DiskShown(log, e, Len(log))
  BY <1>2, MixedFiles
<1>4. Shown(log, mem) /\ NoLoneSlot(log)
  BY DiskFacts
<1>. QED  BY <1>1, <1>3, <1>4, FilesUp

(* pages written before the checkpoint's item,                               *)
LEMMA CheckpointPagesFiles ==
    ASSUME Sound, HistoryInv, CheckpointPages
    PROVE  Files'
<1>1. Up /\ \A w \in Workers : wpc[w] = "idle"
  BY DEF CheckpointPages, Sound, CountersInv, WorkersOK
<1>2. UNCHANGED <<log, durable, mem, pc>> /\ disk' = mem
  BY DEF CheckpointPages, logVars
<1>3. DiskShown(log, mem, durable)
  BY <1>1, MixedFiles, MixedSelf
<1>4. Shown(log, mem) /\ NoLoneSlot(log)
  BY <1>1, DiskFacts
<1>. QED  BY <1>1, <1>2, <1>3, <1>4, FilesUp

(* neither,                                                                  *)
LEMMA SameFiles ==
    ASSUME HistoryInv, UNCHANGED <<log, durable, mem, disk, pc>>, cpc' = cpc \/ cpc' # "log"
    PROVE  Files'
<1>1. PagesUp'
  BY DEF HistoryInv, PagesUp, Up
<1>2. DiskOK'
  BY DEF HistoryInv, DiskOK
<1>. QED  BY <1>1, <1>2 DEF Files

LEMMA FilesDown ==
    ASSUME Stop, NEW l, l = log', NEW b, b = durable', NEW e, e = disk', DiskShown(l, e, b)
    PROVE  Files'
BY DEF Stop, Files, PagesUp, DiskOK, Up

LEMMA CrashCut ==
    ASSUME Sound, HistoryInv, Stop, UNCHANGED hashOf, Log!Crash, NEW d, d = disk', DiskShown(log, d, durable)
    PROVE  LogHistory' /\ Files'
<1>1. PICK m \in durable .. Len(log) : log' = SubSeq(log, 1, m) /\ durable' = m
  BY DEF Log!Crash
<1>2. Len(log) \in Nat /\ durable \in 0 .. Len(log) /\ ChangesOK(log) /\ VersionsOK(log)
  BY DiskFacts
<1>3. m \in 0 .. Len(log) /\ m \in Nat
  BY <1>1, <1>2
<1>4. Len(log') = m /\ \A i \in 1 .. m : log'[i] = log[i]
  BY <1>1, <1>3, PrefixFacts DEF Sound, CountersInv, LogOK
<1>5. PICK l : l = log'
  OBVIOUS
<1>6. IsCut(log, l) /\ Len(l) = m
  BY <1>2, <1>3, <1>4, <1>5 DEF IsCut
<1>7. ChangesOK(l) /\ VersionsOK(l)
  BY <1>2, <1>6, ChangesOKCut, VersionsOKCut
<1>8. LogHistory'
  BY <1>5, <1>7, HistoryOfLog
<1>9. durable \in 0 .. Len(l)
  BY <1>1, <1>2, <1>6
<1>10. DiskShown(l, d, Len(l))
  BY <1>6, <1>9, DiskCut
<1>. QED  BY <1>1, <1>5, <1>6, <1>8, <1>10, FilesDown

LEMMA SameLog ==
    ASSUME HistoryInv, UNCHANGED <<hashOf, log>>
    PROVE  LogHistory'
<1>1. PICK l : l = log'
  OBVIOUS
<1>2. ChangesOK(l) /\ VersionsOK(l)
  BY <1>1 DEF HistoryInv
<1>. QED  BY <1>1, <1>2, HistoryOfLog

(* a crash,                                                                  *)
LEMMA FaultFiles ==
    ASSUME Sound, HistoryInv, Fault
    PROVE  LogHistory' /\ Files'
<1>0. DiskShown(log, disk, durable)
  BY DiskFacts
<1>1. CASE \/ Crash
           \/ \E w \in Workers : TornHeader(w)
  <2>1. Stop /\ UNCHANGED <<hashOf, disk>> /\ Log!Crash
    BY <1>1 DEF Crash, TornHeader, Stop, fileVars
  <2>. QED  BY <1>0, <2>1, CrashCut
<1>2. ASSUME NEW p \in Pages, TornPage(p) PROVE LogHistory' /\ Files'
  <2>1. Up /\ Stop /\ UNCHANGED hashOf
    BY <1>2 DEF TornPage, Stop
  <2>2. PICK d : d = disk'
    OBVIOUS
  <2>3. Mixed(d, disk, mem)
    <3>1. PICK before \in SUBSET (DirtyPages \ {p}), part \in {{Bitmap}, Offsets(p) \ {Bitmap}} :
             d = [q \in Pages |->
                    IF q \in before THEN mem[q]
                    ELSE IF q = p THEN [o \in Offsets(p) |-> IF o \in part THEN mem[p][o]
                                                            ELSE disk[p][o]]
                    ELSE disk[q]]
      BY <1>2, <2>2 DEF TornPage
    <3>. SUFFICES ASSUME NEW q \in Pages, NEW o \in Offsets(q) PROVE d[q][o] = disk[q][o] \/ d[q][o] = mem[q][o]
      BY DEF Mixed
    <3>2. CASE q \in before
      BY <3>1, <3>2
    <3>3. CASE q \notin before /\ q = p
      BY <3>1, <3>3
    <3>4. CASE q \notin before /\ q # p
      BY <3>1, <3>4
    <3>. QED  BY <3>2, <3>3, <3>4
  <2>4. CASE Log!Flush
    <3>1. log' = log /\ durable' = Len(log)
      BY <2>4 DEF Log!Flush
    <3>2. DiskShown(log, d, Len(log))
      BY <2>1, <2>3, MixedFiles
    <3>3. Files'
      BY <2>1, <2>2, <3>1, <3>2, FilesDown
    <3>. QED  BY <2>1, <3>1, <3>3, SameLog
  <2>5. CASE cpc = "flush pages" /\ Log!Crash
    <3>1. \A w \in Workers : wpc[w] = "idle"
      BY <2>5 DEF Sound, CountersInv, WorkersOK
    <3>2. DiskShown(log, d, durable)
      BY <2>1, <2>3, <3>1, MixedFiles
    <3>. QED  BY <2>1, <2>2, <2>5, <3>2, CrashCut
  <2>. QED  BY <1>2, <2>4, <2>5 DEF TornPage
<1>. QED  BY <1>1, <1>2 DEF Fault

(* A start that goes on has found nothing to undo.                          *)
LEMMA RecoverEnds ==
    ASSUME Sound, ChangesOK(log), NEW c \in 0 .. Len(log), IsLastCheckpoint(c),
           ~Redone(c).hung, Redone(c).undo = {}
    PROVE  NoLoneSlot(log) /\ \A i \in ChangesOf(log) : ~Unended(log[i].tx)
<1>1. PICK r : r = Redone(c)
  OBVIOUS
<1>2. PICK last \in Nat : last = Len(log)
  BY LogFacts DEF Sound
<1>3. Redoing(r, c, last)
  BY <1>1, <1>2, RedoneFacts DEF Sound
<1>4. DOMAIN log = 1 .. last /\ c \in Nat /\ c <= last
  BY <1>2, LogFacts DEF Sound
<1>5. \A j \in c + 1 .. last : log[j].type \in NeedUndo => EndedIn(j, last)
  BY <1>1, <1>3 DEF Redoing
<1>6. NoLoneSlot(log)
  <2>. SUFFICES ASSUME last > 0, log[last].type = "INDEX_SLOT_LOG" PROVE FALSE
    BY <1>2 DEF NoLoneSlot
  <2>1. c # last
    BY <1>4 DEF IsLastCheckpoint
  <2>2. last \in c + 1 .. last /\ log[last].type \in NeedUndo
    BY <1>4, <2>1 DEF NeedUndo
  <2>3. EndedIn(last, last)
    BY <1>5, <2>2
  <2>. QED  BY <2>3 DEF EndedIn
<1>7. ASSUME NEW i \in ChangesOf(log) PROVE ~Unended(log[i].tx)
  <2>1. PICK j \in 1 .. last : log[j].type \in NeedUndo /\ log[j].tx = log[i].tx
    BY <1>2 DEF ChangesOK, ToUndo
  <2>2. j \in ChangesOf(log)
    BY <1>2, <2>1, TypesFacts DEF ChangesOf
  <2>3. CASE j > c
    <3>1. EndedIn(j, last)
      BY <1>4, <1>5, <2>1, <2>3
    <3>2. PICK e \in j + 1 .. last : log[e].type \in Ends /\ log[e].tx = log[j].tx
      BY <3>1 DEF EndedIn
    <3>3. e \in DOMAIN log
      BY <1>4, <3>2
    <3>. QED  BY <2>1, <3>2, <3>3 DEF Unended
  <2>4. CASE j <= c
    <3>1. c \in j .. last /\ log[c].type = "CHECKPOINT_LOG"
      BY <1>4, <2>4 DEF IsLastCheckpoint
    <3>2. EndedBefore(log, c, log[j].tx)
      BY <1>2, <2>2, <3>1 DEF ChangesOK
    <3>. QED  BY <1>2, <1>4, <2>1, <3>2 DEF EndedBefore, Unended
  <2>. QED  BY <1>4, <2>3, <2>4
<1>. QED  BY <1>6, <1>7

(* and recover().                                                            *)
LEMMA RecoverFiles ==
    ASSUME Sound, HistoryInv, Recover
    PROVE  Files' /\ (Up' => \A i \in ChangesOf(log) : ~Unended(log[i].tx))
<1>1. pc = "down" /\ UNCHANGED <<log, durable, disk, cpc>>
  BY DEF Recover, fileVars
<1>2. PICK c \in 0 .. Len(log) :
        /\ IsLastCheckpoint(c) /\ mem' = Redone(c).mem
        /\ IF TimestampsRise(c) THEN UndoPass(Redone(c)) ELSE pc' = "failed"
  BY DEF Recover
<1>3. pc' = IF Redone(c).hung \/ Redone(c).undo # {} THEN "hung" ELSE "up"
  BY <1>2, AssertionHolds DEF UndoPass, Sound
<1>4. /\ mem = disk /\ cpc = "idle"
  BY <1>1 DEF HistoryInv, PagesUp, Up, Sound, CountersInv, WorkersOK
<1>5. DiskOK'
  BY <1>1, <1>4 DEF HistoryInv, DiskOK
<1>6. CASE pc' = "hung"
  BY <1>5, <1>6 DEF Files, PagesUp, Up
<1>7. CASE pc' # "hung"
  <2>1. ~Redone(c).hung /\ Redone(c).undo = {} /\ pc' = "up"
    BY <1>3, <1>7
  <2>2. /\ ChangesOK(log) /\ Len(log) \in Nat /\ durable \in 0 .. Len(log)
        /\ DiskShown(log, mem, durable) /\ IsCut(log, log)
    BY <1>4, DiskFacts
  <2>3. NoLoneSlot(log) /\ \A i \in ChangesOf(log) : ~Unended(log[i].tx)
    BY <1>2, <2>1, <2>2, RecoverEnds
  <2>4. DiskShown(log, mem, Len(log))
    BY <2>2, DiskCut
  <2>5. TypedLog
    BY TypesFacts, LogFacts DEF TypedLog, Sound, PartsInv, TxLog
  <2>6. Shown(log, Redone(c).mem)
    BY <1>2, <2>1, <2>2, <2>3, <2>4, <2>5, RedoneShows DEF Sound
  <2>7. PagesUp'
    BY <1>1, <1>2, <2>1, <2>3, <2>6 DEF PagesUp, Up
  <2>. QED  BY <1>5, <2>3, <2>7 DEF Files
<1>. QED  BY <1>6, <1>7

(***************************************************************************)
(* What a step does to the rest of HistoryInv.                              *)
(***************************************************************************)

-------------------------------------------------------------------------------
(* The log after a step: items that were there before, and new ones.        *)
Adds(l, X) ==
    /\ l = log' /\ Len(l) \in Nat /\ DOMAIN l = 1 .. Len(l)
    /\ \A j \in 1 .. Len(l) : (j \in 1 .. Len(log) /\ l[j] = log[j]) \/ l[j] \in X

LEMMA AddsOne ==
    ASSUME CountersInv', NEW x, NEW l, l = log', IsGrown(log, l, x)
    PROVE  Adds(l, {x})
<1>1. Len(l) \in Nat /\ DOMAIN l = 1 .. Len(l)
  BY SeqFacts DEF CountersInv, LogOK
<1>. QED  BY <1>1 DEF Adds, IsGrown

LEMMA AddsTwo ==
    ASSUME CountersInv', NEW x, NEW y, NEW b, NEW l, l = log', IsGrown(log, b, x), IsGrown(b, l, y)
    PROVE  Adds(l, {x, y})
<1>1. Len(l) \in Nat /\ DOMAIN l = 1 .. Len(l)
  BY SeqFacts DEF CountersInv, LogOK
<1>. QED  BY <1>1 DEF Adds, IsGrown

LEMMA AddsNone ==
    ASSUME CountersInv, UNCHANGED log, NEW l, l = log'
    PROVE  Adds(l, {})
BY LogFacts DEF Adds

LEMMA AddsMark ==
    ASSUME CountersInv, CountersInv', NEW x, AddLog(x)
    PROVE  \E l : Adds(l, {x}) /\ IsGrown(log, l, x) /\ durable' = durable
BY OneGrown, AddsOne

(* Who is about to flush what it has logged.                                *)
Lasts(w) == Committing(w) /\ wpc[w] # "unlock" /\ items[w] # <<>>

(* What is logged is no stamp and no link, or is a committer's.              *)
LEMMA LastingStays ==
    ASSUME CountersInv, CountersInv', Lasting, NEW l, NEW X, Adds(l, X),
           \A x \in X : x.type \notin LastingTypes,
           durable' = durable,
           \A w \in Workers : Lasts(w) => Lasts(w)'
    PROVE  Lasting'
<1>. SUFFICES ASSUME NEW i \in DOMAIN l, i > durable, l[i].type \in LastingTypes
              PROVE  \E w \in Workers : Lasts(w)'
  BY DEF Lasting, Lasts, Adds
<1>1. i \in DOMAIN log /\ l[i] = log[i]
  BY LogFacts DEF Adds
<1>. QED  BY <1>1 DEF Lasting, Lasts

LEMMA LastingFlushed ==
    ASSUME CountersInv', durable' = Len(log')
    PROVE  Lasting'
<1>1. Len(log') \in Nat /\ DOMAIN log' = 1 .. Len(log')
  BY SeqFacts DEF CountersInv, LogOK
<1>. QED  BY <1>1 DEF Lasting

(* The others keep what they are at.                                        *)
Others(w) ==
    \A v \in Workers : v # w =>
        wpc'[v] = wpc[v] /\ n'[v] = n[v] /\ items'[v] = items[v] /\ tx'[v] = tx[v]

LEMMA QuietLasting ==
    ASSUME CountersInv, CountersInv', Lasting, UNCHANGED <<log, durable>>,
           \A w \in Workers : Lasts(w) => Lasts(w)'
    PROVE  Lasting'
<1>1. PICK l : l = log'
  OBVIOUS
<1>2. Adds(l, {})
  BY <1>1, AddsNone
<1>. QED  BY <1>2, LastingStays

(* Lasting is kept by transactions                                           *)
LEMMA TransactionLasting ==
    ASSUME Sound, Sound', HistoryInv, NEW w \in Workers, Transaction(w)
    PROVE  Lasting'
<1>0. /\ CountersInv /\ CountersInv' /\ Lasting
      /\ wpc \in [Workers -> WorkerPlaces] /\ n \in [Workers -> Nat]
      /\ tx \in [Workers -> Nat] /\ items = [v \in Workers |-> items[v]]
      /\ wpc[w] \in {"idle", "run"} => ~Committing(w)
  BY DEF Sound, HistoryInv, CountersInv, ControlTyped, HeadersTyped, WorkersOK
<1>1. CASE Begin(w) \/ CommitLock(w) \/ NewIndexPage(w) \/ WriteBackup(w) \/ WriteHeader(w)
  <2>1. UNCHANGED <<log, durable>>
    BY <1>1 DEF Begin, CommitLock, NewIndexPage, WriteBackup, WriteHeader, logVars
  <2>. SUFFICES ASSUME NEW v \in Workers, Lasts(v) PROVE Lasts(v)'
    BY <1>0, <2>1, QuietLasting
  <2>2. CASE Begin(w)
    BY <1>0, <2>2 DEF Begin, Lasts, Committing, Goto, At
  <2>3. CASE CommitLock(w)
    BY <1>0, <2>3 DEF CommitLock, Lasts, Committing, Goto, At
  <2>4. CASE NewIndexPage(w)
    BY <1>0, <2>4 DEF NewIndexPage, Lasts, Committing, Goto, At
  <2>5. CASE WriteBackup(w)
    BY <1>0, <2>5 DEF WriteBackup, Lasts, Committing, Goto, At
  <2>6. CASE WriteHeader(w)
    BY <1>0, <2>6 DEF WriteHeader, Lasts, Committing, Goto, At
  <2>. QED  BY <1>1, <2>2, <2>3, <2>4, <2>5, <2>6
<1>2. ASSUME NEW h \in Hashes, Repair(w, h) PROVE Lasting'
  <2>1. UNCHANGED <<log, durable, wpc, n, items>>
    BY <1>2 DEF Repair, logVars, workerVars
  <2>. QED  BY <1>0, <2>1, QuietLasting DEF Lasts, Committing
<1>3. CASE Stamp(w) \/ Link(w) \/ PutIndexItem(w)
  <2>1. wpc[w] \in {"stamp", "link", "index"} /\ AtItem(w) /\ Committing(w)
    BY <1>3, <1>0 DEF Stamp, Link, PutIndexItem, At, AtItem, CountersInv, WorkersOK
  <2>2. items[w] # <<>>
    BY <2>1, ItemFacts
  <2>3. UNCHANGED items /\ n'[w] > 0 /\ wpc'[w] # "unlock"
    BY <1>3, <1>0, <2>1 DEF Stamp, Link, PutIndexItem, NextItem, Goto, Committing
  <2>4. Lasts(w)'
    BY <2>2, <2>3 DEF Lasts, Committing
  <2>. QED  BY <2>4 DEF Lasting, Lasts
<1>4. CASE AddCommit(w)
  <2>1. PICK x : x = [MarkItem("COMMIT_LOG", tx[w]) EXCEPT !.maxTs = maxTs + 1]
    OBVIOUS
  <2>2. AddLog(x) /\ x.type = "COMMIT_LOG"
    BY <1>4, <2>1 DEF AddCommit, MarkItem, Item
  <2>3. PICK l : Adds(l, {x}) /\ durable' = durable
    BY <1>0, <2>2, AddsMark
  <2>4. x.type \notin LastingTypes
    BY <2>2 DEF LastingTypes, IndexItems
  <2>5. \A v \in Workers : Lasts(v) => Lasts(v)'
    BY <1>0, <1>4 DEF AddCommit, Lasts, Committing, Goto, At
  <2>. QED  BY <1>0, <2>3, <2>4, <2>5, LastingStays
<1>5. CASE Abort(w)
  <2>1. PICK x : x = MarkItem("ABORT_LOG", tx[w])
    OBVIOUS
  <2>2. AddLog(x) /\ x.type = "ABORT_LOG"
    BY <1>5, <2>1 DEF Abort, MarkItem, Item
  <2>3. PICK l : Adds(l, {x}) /\ durable' = durable
    BY <1>0, <2>2, AddsMark
  <2>4. x.type \notin LastingTypes
    BY <2>2 DEF LastingTypes, IndexItems
  <2>5. \A v \in Workers : Lasts(v) => Lasts(v)'
    BY <1>0, <1>5 DEF Abort, Lasts, Committing, Goto, At
  <2>. QED  BY <1>0, <2>3, <2>4, <2>5, LastingStays
<1>6. CASE FlushCommit(w)
  <2>1. durable' = Len(log') /\ UNCHANGED log
    BY <1>6 DEF FlushCommit, FlushLogs, Log!Flush
  <2>. QED  BY <1>0, <2>1, LastingFlushed
<1>7. CASE Unlock(w)
  <2>1. UNCHANGED <<log, durable>>
    BY <1>7 DEF Unlock, logVars
  <2>2. \A v \in Workers : Lasts(v) => Lasts(v)'
    BY <1>0, <1>7 DEF Unlock, Lasts, Committing, Goto, At
  <2>. QED  BY <1>0, <2>1, <2>2, QuietLasting
<1>8. ASSUME NEW k \in Keys, Write(w, k) PROVE Lasting'
  <2>1. PICK a, p, page, s : WriteSlot(w, k, a, p, page, s) /\ WriteTakes(w, k, p, page, s)
    BY <1>8, WriteFinds
  <2>2. Up /\ UNCHANGED hashOf /\ At(w, "run")
    BY <1>8 DEF Write
  <2>3. PICK x, b, y, l : TwoChanges(x, b, y, l) /\ WriteItems(w, k, p, page, s, x, y)
    BY <2>1, <2>2, WriteLogs
  <2>4. Adds(l, {x, y})
    BY <1>0, <2>3, AddsTwo DEF TwoChanges
  <2>5. x.type \notin LastingTypes /\ y.type \notin LastingTypes
    BY <2>3 DEF WriteItems, IsChange, LastingTypes, IndexItems
  <2>6. durable' = durable
    BY <2>1 DEF WriteTakes, Take
  <2>7. UNCHANGED n /\ \A v \in Workers : v # w => items'[v] = items[v] /\ wpc'[v] = wpc[v]
    BY <1>0, <1>8, <2>1 DEF Write, WriteSlot, OldPage, NewPage, Goto
  <2>8. \A v \in Workers : Lasts(v) => Lasts(v)'
    BY <1>0, <2>2, <2>7 DEF Lasts, Committing, At
  <2>. QED  BY <1>0, <2>4, <2>5, <2>6, <2>8, LastingStays
<1>. QED  BY <1>1, <1>2, <1>3, <1>4, <1>5, <1>6, <1>7, <1>8 DEF Transaction, CountPage, Commit

(* and by all else.                                                          *)
LEMMA RestLasting ==
    ASSUME Sound, Sound', HistoryInv,
           Recover \/ CleanPool \/ Checkpoint \/ Fault \/ UNCHANGED vars
    PROVE  Lasting'
<1>0. CountersInv /\ CountersInv' /\ Lasting
  BY DEF Sound, HistoryInv
<1>1. CASE Recover \/ CheckpointBegin \/ CheckpointPages \/ UNCHANGED vars
  <2>1. UNCHANGED <<log, durable, wpc, n, items>>
    BY <1>1 DEF Recover, CheckpointBegin, CheckpointPages, vars, logVars, workerVars
  <2>. QED  BY <1>0, <2>1, QuietLasting DEF Lasts, Committing
<1>2. CASE CleanPool \/ CheckpointFlush
  <2>1. durable' = Len(log') /\ UNCHANGED log
    BY <1>2 DEF CleanPool, CheckpointFlush, FlushLogs, Log!Flush
  <2>. QED  BY <1>0, <2>1, LastingFlushed
<1>3. CASE CheckpointLog
  <2>1. PICK x : x = CheckpointItem
    OBVIOUS
  <2>2. AddLog(x) /\ x.type = "CHECKPOINT_LOG" /\ UNCHANGED <<wpc, n, items>>
    BY <1>3, <2>1 DEF CheckpointLog, CheckpointItem, MarkItem, Item, workerVars
  <2>3. PICK l : Adds(l, {x}) /\ durable' = durable
    BY <1>0, <2>2, AddsMark
  <2>4. x.type \notin LastingTypes
    BY <2>2 DEF LastingTypes, IndexItems
  <2>. QED  BY <1>0, <2>2, <2>3, <2>4, LastingStays DEF Lasts, Committing
<1>4. CASE Fault
  <2>1. CASE Log!Crash
    <3>1. PICK m \in durable .. Len(log) : log' = SubSeq(log, 1, m) /\ durable' = m
      BY <2>1 DEF Log!Crash
    <3>2. m \in 0 .. Len(log)
      BY <1>0, LogFacts
    <3>3. durable' = Len(log')
      BY <1>0, <3>1, <3>2, PrefixFacts DEF CountersInv, LogOK
    <3>. QED  BY <1>0, <3>3, LastingFlushed
  <2>2. CASE Log!Flush
    BY <1>0, <2>2, LastingFlushed DEF Log!Flush
  <2>. QED  BY <1>4, <2>1, <2>2 DEF Fault, Crash, TornPage, TornHeader
<1>. QED  BY <1>1, <1>2, <1>3, <1>4 DEF Checkpoint

(* What every action of a transaction has in common.                         *)
LEMMA TransactionMoves ==
    ASSUME Sound, NEW w \in Workers, Transaction(w)
    PROVE  /\ Up /\ Up' /\ cpc = "idle" /\ UNCHANGED <<hashOf, pc, cpc>>
           /\ Others(w)
           /\ wpc'[w] = "idle" => items'[w] = <<>>
           /\ \/ Begin(w) \/ Abort(w) \/ Unlock(w)
              \/ wpc[w] # "idle" /\ wpc'[w] # "idle" /\ tx'[w] = tx[w]
<1>0. /\ wpc \in [Workers -> WorkerPlaces] /\ n \in [Workers -> Nat]
      /\ tx \in [Workers -> Nat] /\ items = [v \in Workers |-> items[v]]
  BY DEF Sound, CountersInv, ControlTyped, HeadersTyped
<1>1. UNCHANGED <<hashOf, pc, cpc>>
  BY ZenonT(60) DEF Transaction, CountPage, Commit, Begin, WriteBackup, WriteHeader, CommitLock, Stamp, Link,
      NewIndexPage, PutIndexItem, AddCommit, FlushCommit, Unlock, Abort, Write, Repair
<1>2. Up /\ cpc = "idle"
  <2>1. CASE wpc[w] # "idle"
    BY <2>1, Running DEF Sound, CountersInv
  <2>2. CASE wpc[w] = "idle"
    <3>1. Begin(w)
      BY <2>2 DEF Transaction, CountPage, Commit, WriteBackup, WriteHeader, CommitLock, Stamp, Link,
        NewIndexPage, PutIndexItem, AddCommit, FlushCommit, Unlock, Abort, Write, Repair, At
    <3>. QED  BY <3>1 DEF Begin
  <2>. QED  BY <2>1, <2>2
<1>3. CASE Begin(w)
  BY <1>0, <1>1, <1>2, <1>3 DEF Begin, Others, Goto, Up
<1>4. CASE Abort(w) \/ Unlock(w)
  BY <1>0, <1>1, <1>2, <1>4 DEF Abort, Unlock, Others, Goto, Up
<1>5. CASE CommitLock(w) \/ NewIndexPage(w) \/ WriteBackup(w) \/ WriteHeader(w)
  BY <1>0, <1>1, <1>2, <1>5 DEF CommitLock, NewIndexPage, WriteBackup, WriteHeader, Others, Goto, Up, At
<1>6. CASE Stamp(w) \/ Link(w) \/ PutIndexItem(w)
  BY <1>0, <1>1, <1>2, <1>6 DEF Stamp, Link, PutIndexItem, NextItem, Others, Goto, Up, At
<1>7. CASE AddCommit(w) \/ FlushCommit(w)
  BY <1>0, <1>1, <1>2, <1>7 DEF AddCommit, FlushCommit, Others, Goto, Up, At
<1>8. ASSUME NEW h \in Hashes, Repair(w, h)
      PROVE  Others(w) /\ wpc[w] # "idle" /\ wpc'[w] # "idle" /\ tx'[w] = tx[w]
  BY <1>0, <1>1, <1>2, <1>8 DEF Repair, Others, workerVars, At
<1>9. ASSUME NEW k \in Keys, Write(w, k)
      PROVE  Others(w) /\ wpc[w] # "idle" /\ wpc'[w] # "idle" /\ tx'[w] = tx[w]
  <2>1. At(w, "run") /\ UNCHANGED <<tx, n>>
    BY <1>9 DEF Write
  <2>2. (UNCHANGED wpc \/ Goto(w, "backup")) /\ \E x : items' = [items EXCEPT ![w] = x]
    BY <1>9 DEF Write
  <2>. QED  BY <1>0, <2>1, <2>2 DEF Others, At, Goto
<1>. QED  BY <1>1, <1>2, <1>3, <1>4, <1>5, <1>6, <1>7, <1>8, <1>9 DEF Transaction, CountPage, Commit, Up

LEMMA IdleEmptyStays ==
    ASSUME Sound, HistoryInv, Next \/ UNCHANGED vars
    PROVE  IdleEmpty'
<1>0. IdleEmpty
  BY DEF HistoryInv
<1>1. ASSUME NEW w \in Workers, Transaction(w) PROVE IdleEmpty'
  BY <1>0, <1>1, TransactionMoves DEF Others, IdleEmpty, At
<1>2. CASE Recover \/ CleanPool \/ Checkpoint \/ UNCHANGED vars
  <2>1. UNCHANGED <<wpc, items>>
    BY <1>2 DEF Recover, CleanPool, Checkpoint, CheckpointBegin, CheckpointPages, CheckpointLog, CheckpointFlush,
        vars, workerVars
  <2>. QED  BY <1>0, <2>1 DEF IdleEmpty, At
<1>3. CASE Fault
  <2>1. Stop
    BY <1>3 DEF Fault, Crash, TornPage, TornHeader
  <2>. QED  BY <2>1 DEF Stop, IdleEmpty
<1>. QED  BY <1>1, <1>2, <1>3 DEF Next

-------------------------------------------------------------------------------
(* A transaction whose changes may be in the log: it is at work, or over.    *)
AtWork(t) == \E w \in Workers : wpc[w] # "idle" /\ tx[w] = t
Accounted(t) == AtWork(t) \/ ~Unended(t)

LEMMA EndedStays ==
    ASSUME CountersInv, NEW l, NEW X, Adds(l, X), IsCut(l, log), NEW t, ~Unended(t)
    PROVE  ~Unended(t)'
<1>1. PICK i \in DOMAIN log : log[i].type \in Ends /\ log[i].tx = t
  BY DEF Unended
<1>2. i \in DOMAIN l /\ l[i] = log[i]
  BY <1>1, LogFacts DEF Adds, IsCut
<1>. QED  BY <1>1, <1>2 DEF Unended, Adds

(* The changes of a log that grows are of workers, or have ended.            *)
LEMMA UnendedChanges ==
    ASSUME CountersInv, NEW l, NEW X, Adds(l, X), IsCut(l, log), Up, ChangesUnended,
           \A x \in X : x.type \in ChangeTypes => Accounted(x.tx)',
           \A w \in Workers : wpc[w] # "idle" =>
               \/ wpc'[w] # "idle" /\ tx'[w] = tx[w]
               \/ \A t : t = tx[w] => ~Unended(t)'
    PROVE  ChangesUnended'
<1>. SUFFICES ASSUME NEW i \in ChangesOf(l) PROVE Accounted(l[i].tx)'
  BY DEF ChangesUnended, Accounted, AtWork, Adds
<1>1. CASE i \in 1 .. Len(log) /\ l[i] = log[i]
  <2>1. PICK t : t = l[i].tx
    OBVIOUS
  <2>2. i \in ChangesOf(log) /\ log[i].tx = t
    BY <1>1, <2>1 DEF ChangesOf
  <2>3. CASE ~Unended(t)
    BY <2>1, <2>3, EndedStays DEF Accounted
  <2>4. CASE AtWork(t)
    <3>1. PICK w \in Workers : wpc[w] # "idle" /\ tx[w] = t
      BY <2>4 DEF AtWork
    <3>2. (wpc'[w] # "idle" /\ tx'[w] = t) \/ ~Unended(t)'
      BY <3>1
    <3>. QED  BY <2>1, <3>2 DEF AtWork, Accounted
  <2>. QED  BY <2>2, <2>3, <2>4 DEF ChangesUnended, AtWork
<1>2. CASE l[i] \in X
  BY <1>2 DEF ChangesOf
<1>. QED  BY <1>1, <1>2 DEF Adds, ChangesOf

LEMMA LogSame == CountersInv => IsCut(log, log)
BY LogFacts DEF IsCut

LEMMA QuietUnended ==
    ASSUME CountersInv, Up, ChangesUnended, UNCHANGED log,
           \A w \in Workers : wpc[w] # "idle" =>
               \/ wpc'[w] # "idle" /\ tx'[w] = tx[w]
               \/ \A t : t = tx[w] => ~Unended(t)'
    PROVE  ChangesUnended'
<1>1. PICK l : l = log'
  OBVIOUS
<1>2. Adds(l, {}) /\ IsCut(l, log)
  BY <1>1, AddsNone, LogSame
<1>. QED  BY <1>2, UnendedChanges

(* A transaction that changes pages.                                        *)
Changes(w) == Stamp(w) \/ Link(w) \/ PutIndexItem(w) \/ \E k \in Keys : Write(w, k)

LEMMA ChangesAdd ==
    ASSUME Sound, Sound', HistoryInv, NEW w \in Workers, Changes(w)
    PROVE  \E l, X :
              /\ Adds(l, X) /\ IsCut(l, log) /\ UNCHANGED <<hashOf, maxTs>>
              /\ \A x \in X : x.tx = tx[w] /\ x.type \in ChangeTypes
<1>0. CountersInv /\ CountersInv'
  BY DEF Sound
<1>1. CASE Stamp(w)
  <2>1. UNCHANGED <<hashOf, maxTs>>
    BY <1>1 DEF Stamp, counters
  <2>2. PICK x, l : OneChange(x, l) /\ StampIs(w, x)
    BY <1>1, <2>1, StampLogs
  <2>3. Adds(l, {x}) /\ IsCut(l, log)
    BY <1>0, <2>2, AddsOne, GrownCut DEF OneChange
  <2>4. x.tx = tx[w] /\ x.type \in ChangeTypes
    BY <2>2 DEF StampIs, IsChange, ChangeTypes, DataTypes
  <2>. QED  BY <2>1, <2>3, <2>4
<1>2. CASE Link(w)
  <2>1. UNCHANGED <<hashOf, maxTs>>
    BY <1>2 DEF Link, counters
  <2>2. PICK x, l : OneChange(x, l) /\ LinkIs(w, x)
    BY <1>2, <2>1, LinkLogs
  <2>3. Adds(l, {x}) /\ IsCut(l, log)
    BY <1>0, <2>2, AddsOne, GrownCut DEF OneChange
  <2>4. x.tx = tx[w] /\ x.type \in ChangeTypes
    BY <2>2 DEF LinkIs, IsChange, ChangeTypes, IndexTypes
  <2>. QED  BY <2>1, <2>3, <2>4
<1>3. CASE PutIndexItem(w)
  <2>1. UNCHANGED <<hashOf, maxTs>>
    BY <1>3 DEF PutIndexItem, counters
  <2>2. PICK p, s, x, b, y, l : TwoChanges(x, b, y, l) /\ PutItems(w, p, s, x, y)
    BY <1>3, <2>1, PutLogs
  <2>3. x.tx = tx[w] /\ x.type \in ChangeTypes /\ x.type = "INDEX_SLOT_LOG"
    BY <2>2 DEF PutItems, IsChange, ChangeTypes, IndexTypes
  <2>4. y.tx = tx[w] /\ y.type \in ChangeTypes /\ y.type = "INDEX_ITEM_INSERT_LOG"
    BY <2>2 DEF PutItems, IsChange, ChangeTypes, IndexTypes
  <2>5. Adds(l, {x, y}) /\ IsCut(l, log)
    BY <1>0, <2>2, <2>3, <2>4, AddsTwo, TwoCut DEF TwoChanges
  <2>. QED  BY <2>1, <2>3, <2>4, <2>5
<1>4. ASSUME NEW k \in Keys, Write(w, k)
      PROVE  \E l, X :
                /\ Adds(l, X) /\ IsCut(l, log) /\ UNCHANGED <<hashOf, maxTs>>
                /\ \A x \in X : x.tx = tx[w] /\ x.type \in ChangeTypes
  <2>0. Up /\ UNCHANGED <<hashOf, maxTs>>
    BY <1>4 DEF Write, counters
  <2>1. PICK a, p, page, s : WriteSlot(w, k, a, p, page, s) /\ WriteTakes(w, k, p, page, s)
    BY <1>4, WriteFinds
  <2>2. PICK x, b, y, l : TwoChanges(x, b, y, l) /\ WriteItems(w, k, p, page, s, x, y)
    BY <2>0, <2>1, WriteLogs
  <2>3. x.tx = tx[w] /\ x.type \in ChangeTypes /\ x.type = "DATA_SLOT_LOG"
    BY <2>2 DEF WriteItems, IsChange, ChangeTypes, DataTypes
  <2>4. y.tx = tx[w] /\ y.type \in ChangeTypes /\ y.type = "DATA_RECORD_INSERT_LOG"
    BY <2>2 DEF WriteItems, IsChange, ChangeTypes, DataTypes
  <2>5. Adds(l, {x, y}) /\ IsCut(l, log)
    BY <1>0, <2>2, <2>3, <2>4, AddsTwo, TwoCut DEF TwoChanges
  <2>. QED  BY <2>0, <2>3, <2>4, <2>5
<1>. QED  BY <1>1, <1>2, <1>3, <1>4 DEF Changes

(* ChangesUnended is kept by transactions                                    *)
LEMMA TransactionUnended ==
    ASSUME Sound, Sound', PartsInv, HistoryInv, NEW w \in Workers, Transaction(w)
    PROVE  ChangesUnended'
<1>0. /\ CountersInv /\ CountersInv' /\ Up /\ ChangesUnended
      /\ Others(w)
      /\ \/ Begin(w) \/ Abort(w) \/ Unlock(w)
         \/ wpc[w] # "idle" /\ wpc'[w] # "idle" /\ tx'[w] = tx[w]
  BY TransactionMoves DEF Sound, HistoryInv
<1>1. CASE Begin(w)
  <2>1. UNCHANGED log /\ wpc[w] = "idle"
    BY <1>1 DEF Begin, logVars, At
  <2>. QED  BY <1>0, <2>1, QuietUnended DEF Others
<1>2. CASE Unlock(w)
  <2>1. UNCHANGED log /\ wpc[w] = "unlock"
    BY <1>2 DEF Unlock, logVars, At
  <2>2. Ended(tx[w], "COMMIT_LOG")
    BY <2>1 DEF PartsInv, TxOfWorkers, Logged
  <2>3. ASSUME NEW t, t = tx[w] PROVE ~Unended(t)'
    BY <2>1, <2>2, <2>3 DEF Unended, Ended, Ends
  <2>. QED  BY <1>0, <2>1, <2>3, QuietUnended DEF Others
<1>3. CASE Abort(w)
  <2>1. PICK x : x = MarkItem("ABORT_LOG", tx[w])
    OBVIOUS
  <2>2. AddLog(x) /\ x.type = "ABORT_LOG" /\ x.tx = tx[w]
    BY <1>3, <2>1 DEF Abort, MarkItem, Item
  <2>3. PICK l : Adds(l, {x}) /\ IsGrown(log, l, x)
    BY <1>0, <2>2, AddsMark
  <2>4. IsCut(l, log)
    BY <2>3, GrownCut
  <2>5. ASSUME NEW t, t = tx[w] PROVE ~Unended(t)'
    BY <2>2, <2>3, <2>5 DEF Unended, Ends, Adds, IsGrown
  <2>6. x.type \notin ChangeTypes
    BY <2>2 DEF ChangeTypes, DataTypes, IndexTypes
  <2>. QED  BY <1>0, <2>3, <2>4, <2>5, <2>6, UnendedChanges DEF Others
<1>4. CASE wpc[w] # "idle" /\ wpc'[w] # "idle" /\ tx'[w] = tx[w]
  <2>1. CASE UNCHANGED log
    BY <1>0, <1>4, <2>1, QuietUnended DEF Others
  <2>2. CASE AddCommit(w)
    <3>1. PICK x : x = [MarkItem("COMMIT_LOG", tx[w]) EXCEPT !.maxTs = maxTs + 1]
      OBVIOUS
    <3>2. AddLog(x) /\ x.type = "COMMIT_LOG"
      BY <2>2, <3>1 DEF AddCommit, MarkItem, Item
    <3>3. PICK l : Adds(l, {x}) /\ IsGrown(log, l, x)
      BY <1>0, <3>2, AddsMark
    <3>4. IsCut(l, log)
      BY <3>3, GrownCut
    <3>5. x.type \notin ChangeTypes
      BY <3>2 DEF ChangeTypes, DataTypes, IndexTypes
    <3>. QED  BY <1>0, <1>4, <3>3, <3>4, <3>5, UnendedChanges DEF Others
  <2>3. CASE Changes(w)
    <3>1. PICK l, X : Adds(l, X) /\ IsCut(l, log) /\ \A x \in X : x.tx = tx[w] /\ x.type \in ChangeTypes
      BY <2>3, ChangesAdd
    <3>2. ASSUME NEW x \in X PROVE Accounted(x.tx)'
      BY <1>4, <3>1 DEF Accounted, AtWork
    <3>. QED  BY <1>0, <1>4, <3>1, <3>2, UnendedChanges DEF Others
  <2>4. ASSUME NEW h \in Hashes, Repair(w, h) PROVE UNCHANGED log
    BY <2>4 DEF Repair, logVars
  <2>5. UNCHANGED log \/ AddCommit(w) \/ Changes(w) \/ Abort(w)
    BY <2>4 DEF Transaction, CountPage, Commit, Changes, Begin, WriteBackup, WriteHeader, CommitLock,
        NewIndexPage, FlushCommit, FlushLogs, Log!Flush, Unlock, logVars
  <2>6. ~Abort(w)
    <3>1. wpc \in [Workers -> WorkerPlaces]
      BY <1>0 DEF CountersInv, ControlTyped
    <3>. QED  BY <1>4, <3>1 DEF Abort, Goto
  <2>. QED  BY <2>1, <2>2, <2>3, <2>5, <2>6
<1>. QED  BY <1>0, <1>1, <1>2, <1>3, <1>4

(* and by all else: recover() comes up when all have ended only.             *)
LEMMA RestUnended ==
    ASSUME Sound, Sound', HistoryInv,
           Recover \/ CleanPool \/ Checkpoint \/ Fault \/ UNCHANGED vars
    PROVE  ChangesUnended'
<1>0. CountersInv /\ CountersInv' /\ ChangesUnended
  BY DEF Sound, HistoryInv
<1>1. CASE Recover
  <2>1. Up' => \A i \in ChangesOf(log) : ~Unended(log[i].tx)
    BY <1>1, RecoverFiles
  <2>2. UNCHANGED log
    BY <1>1 DEF Recover
  <2>. QED  BY <2>1, <2>2 DEF ChangesUnended, Unended, ChangesOf
<1>2. CASE Fault
  <2>1. ~Up'
    BY <1>2 DEF Fault, Crash, TornPage, TornHeader, Stop, Up
  <2>. QED  BY <2>1 DEF ChangesUnended
<1>3. CASE CheckpointLog
  <2>0. Up
    BY <1>0, <1>3 DEF CheckpointLog, CountersInv, WorkersOK
  <2>1. PICK x : x = CheckpointItem
    OBVIOUS
  <2>2. AddLog(x) /\ x.type = "CHECKPOINT_LOG" /\ UNCHANGED <<wpc, tx>>
    BY <1>3, <2>1 DEF CheckpointLog, CheckpointItem, MarkItem, Item, workerVars
  <2>3. PICK l : Adds(l, {x}) /\ IsGrown(log, l, x)
    BY <1>0, <2>2, AddsMark
  <2>4. IsCut(l, log)
    BY <2>3, GrownCut
  <2>5. x.type \notin ChangeTypes
    BY <2>2 DEF ChangeTypes, DataTypes, IndexTypes
  <2>. QED  BY <1>0, <2>0, <2>2, <2>3, <2>4, <2>5, UnendedChanges
<1>4. CASE CleanPool \/ CheckpointBegin \/ CheckpointPages \/ CheckpointFlush \/ UNCHANGED vars
  <2>1. UNCHANGED <<log, wpc, tx, pc>>
    BY <1>4 DEF CleanPool, CheckpointBegin, CheckpointPages, CheckpointFlush, FlushLogs, Log!Flush, vars,
        logVars, workerVars
  <2>2. CASE Up
    BY <1>0, <2>1, <2>2, QuietUnended
  <2>3. CASE ~Up
    BY <2>1, <2>3 DEF ChangesUnended, Up
  <2>. QED  BY <2>2, <2>3
<1>. QED  BY <1>1, <1>2, <1>3, <1>4 DEF Checkpoint

LEMMA StampOfCut ==
    ASSUME NEW l, NEW m, IsCut(l, m), NEW i \in LinksOf(m), NEW u \in 1 .. Len(m), StampOf(l, i, u)
    PROVE  StampOf(m, i, u)
<1>1. /\ Len(m) \in Nat /\ Len(l) \in Nat /\ Len(m) <= Len(l)
      /\ \A j \in 1 .. Len(m) : j \in 1 .. Len(l) /\ m[j] = l[j]
      /\ i \in 1 .. Len(m)
  BY CutFacts DEF LinksOf
<1>2. m[i] = l[i] /\ m[u] = l[u]
  BY <1>1
<1>3. Latest(l, u, Len(m))
  BY <1>1 DEF StampOf, Latest, ChangesOf
<1>4. Latest(m, u, Len(m))
  <2>1. PICK k \in 0 .. Len(m) : k = Len(m)
    BY <1>1
  <2>. QED  BY <1>3, <2>1, CutLatest
<1>5. Follows(m, l[i].new.key, i - 1, l[u].new.prev)
  <2>1. PICK j \in 0 .. Len(m) : j = i - 1
    BY <1>1
  <2>2. Follows(l, l[i].new.key, j, l[u].new.prev)
    BY <2>1 DEF StampOf
  <2>. QED  BY <2>1, <2>2, CutFollows
<1>6. \A c \in 1 .. Len(m) : m[c].type = "COMMIT_LOG" /\ m[c].tx = m[i].tx => m[c].maxTs = m[u].new.ts
  BY <1>1, <1>2 DEF StampOf
<1>. QED  BY <1>2, <1>4, <1>5, <1>6 DEF StampOf

LEMMA StampOfNext ==
    ASSUME UNCHANGED hashOf, NEW l, l = log', NEW i, NEW u
    PROVE  StampOf(log, i, u)' <=> StampOf(l, i, u)
BY DEF StampOf, InCell, Latest, Follows, LastLink, NoLink, LinksOf, ChangesOf, Record

(* A stamped record that the index item x points at.                        *)
StampSeen(u, x) ==
    /\ log[u].type = "DATA_RECORD_UPDATE_LOG" /\ log[u].tx = x.tx
    /\ Latest(log, u, Len(log)) /\ InCell(log[u], x.new.key, x.new.last)

(* The versions of a committer are found with its timestamp.                 *)
LEMMA CommittingStays ==
    ASSUME CountersInv, Up, UNCHANGED <<hashOf, maxTs>>, NEW l, NEW X, Adds(l, X), IsCut(l, log), CommittingNow,
           \A x \in X : x.type = "DATA_RECORD_UPDATE_LOG" => x.new.ts = maxTs + 1,
           \A v \in Workers : Committing(v)' =>
               \/ Committing(v) /\ tx'[v] = tx[v]
               \/ \A i \in LinksOf(l) : l[i].tx # tx'[v],
           \A x \in X : x.type \in IndexItems =>
               \A u \in 1 .. Len(log) : StampSeen(u, x) => log[u].new.ts = maxTs + 1
    PROVE  CommittingNow'
<1>. SUFFICES ASSUME NEW v \in Workers, NEW i \in LinksOf(l), NEW u \in 1 .. Len(l),
                     Committing(v)', l[i].tx = tx'[v], StampOf(l, i, u)
              PROVE  l[u].new.ts = maxTs + 1
  <2>1. l = log'
    BY DEF Adds
  <2>2. \A i, u : StampOf(log, i, u)' <=> StampOf(l, i, u)
    BY <2>1, StampOfNext
  <2>. QED  BY <2>1, <2>2 DEF CommittingNow, LinksOf
<1>1. Committing(v) /\ tx'[v] = tx[v]
  OBVIOUS
<1>2. /\ Len(log) \in Nat /\ Len(l) \in Nat /\ Len(log) <= Len(l)
      /\ \A j \in 1 .. Len(log) : l[j] = log[j]
  BY DEF IsCut
<1>3. (u \in 1 .. Len(log) /\ l[u] = log[u]) \/ l[u] \in X
  BY DEF Adds
<1>4. CASE l[u] \in X
  BY <1>4 DEF StampOf
<1>5. CASE u \in 1 .. Len(log) /\ l[u] = log[u]
  <2>1. (i \in 1 .. Len(log) /\ l[i] = log[i]) \/ l[i] \in X
    BY DEF Adds, LinksOf
  <2>2. CASE i \in 1 .. Len(log) /\ l[i] = log[i]
    <3>1. i \in LinksOf(log)
      BY <2>2 DEF LinksOf
    <3>2. StampOf(log, i, u)
      BY <1>5, <3>1, StampOfCut
    <3>. QED  BY <1>1, <1>5, <2>2, <3>1, <3>2 DEF CommittingNow
  <2>3. CASE l[i] \in X
    <3>1. Latest(l, u, Len(log))
      BY <1>2, <1>5 DEF StampOf, Latest, ChangesOf
    <3>2. Latest(log, u, Len(log))
      <4>1. PICK k \in 0 .. Len(log) : k = Len(log)
        BY <1>2
      <4>. QED  BY <3>1, <4>1, CutLatest
    <3>3. StampSeen(u, l[i])
      BY <1>5, <3>2 DEF StampOf, StampSeen
    <3>4. l[i].type \in IndexItems
      BY DEF LinksOf
    <3>. QED  BY <1>5, <2>3, <3>3, <3>4
  <2>. QED  BY <2>1, <2>2, <2>3
<1>. QED  BY <1>3, <1>4, <1>5

LEMMA NobodyCommits ==
    ASSUME \A v \in Workers : ~Committing(v)'
    PROVE  CommittingNow'
BY DEF CommittingNow

LEMMA CommittingQuiet ==
    ASSUME CountersInv, Up, UNCHANGED <<hashOf, maxTs, log>>, CommittingNow,
           \A v \in Workers : Committing(v)' =>
               \/ Committing(v) /\ tx'[v] = tx[v]
               \/ \A i \in LinksOf(log) : log[i].tx # tx'[v]
    PROVE  CommittingNow'
<1>1. PICK l : l = log'
  OBVIOUS
<1>2. Adds(l, {}) /\ IsCut(l, log)
  BY <1>1, AddsNone, LogSame
<1>. QED  BY <1>1, <1>2, CommittingStays DEF LinksOf

(* What the index item to come points at is what the worker stamped.         *)
LEMMA SeenStamped ==
    ASSUME Sound, HistoryInv, NEW w \in Workers, Committing(w), AtItem(w), ~At(w, "stamp"),
           NEW x, x.tx = tx[w], x.new = Pointer(w),
           NEW u \in 1 .. Len(log), StampSeen(u, x)
    PROVE  log[u].new.ts = maxTs + 1
<1>1. PICK s : StandsAt(w, s, maxTs + 1)
  BY CurrentWritten
<1>2. PICK ts : ts = maxTs + 1
  OBVIOUS
<1>3. ts # Uncommitted /\ Len(log) \in Nat
  BY <1>2, LogFacts DEF Sound, Uncommitted
<1>4. PICK q : q = s
  OBVIOUS
<1>5. StandsAt(w, q, ts)
  BY <1>1, <1>2, <1>4
<1>6. SameCell(log[u], log[q])
  <2>1. x.new.key = KeyOf(w) /\ x.new.last[1] = Current(w).page /\ x.new.last[2] = SlotOf(w)
    BY DEF Pointer
  <2>2. log[u].page = PageOf(w) /\ log[u].offset = SlotOf(w)
    BY <2>1 DEF StampSeen, InCell, PageOf, HashAt
  <2>. QED  BY <1>5, <2>2 DEF StandsAt, SameCell
<1>7. Latest(log, u, Len(log)) /\ Latest(log, q, Len(log))
  BY <1>5 DEF StandsAt, StampSeen
<1>8. u = q
  <2>1. PICK l : l = log
    OBVIOUS
  <2>. QED  BY <1>3, <1>6, <1>7, <2>1, LatestOne
<1>. QED  BY <1>2, <1>5, <1>8 DEF StandsAt, Record

LEMMA StampedNow ==
    ASSUME Sound, HistoryInv, NEW w \in Workers, Committing(w), At(w, "stamp"), NEW x, StampIs(w, x)
    PROVE  x.new.ts = maxTs + 1
<1>1. AtItem(w)
  BY DEF AtItem, At
<1>2. PICK u : StandsAt(w, u, Uncommitted)
  BY <1>1, CurrentWritten
<1>3. mem[PageOf(w)][SlotOf(w)] = Record(tx[w], Uncommitted, log[u].new.prev)
  BY <1>2 DEF StandsAt
<1>. QED  BY <1>3 DEF StampIs, IsChange, Record

(* CommittingNow is kept by transactions                                     *)
LEMMA TransactionCommitting ==
    ASSUME Sound, Sound', PartsInv, HistoryInv, NEW w \in Workers, Transaction(w)
    PROVE  CommittingNow'
<1>0. /\ CountersInv /\ CountersInv' /\ Up /\ CommittingNow
      /\ Others(w) /\ UNCHANGED hashOf
      /\ \A v \in Workers : v # w /\ Committing(v)' => Committing(v) /\ tx'[v] = tx[v]
      /\ wpc \in [Workers -> WorkerPlaces] /\ n \in [Workers -> Nat]
      /\ wpc[w] \in {"idle", "run"} => ~Committing(w)
      /\ wpc[w] \in {"stamp", "link", "index", "commit", "flush", "unlock"} => Committing(w)
      /\ \A u, v \in Workers : Committing(u) /\ Committing(v) => u = v
  <2>1. CountersInv /\ CountersInv' /\ Up /\ CommittingNow /\ Others(w) /\ UNCHANGED hashOf
    BY TransactionMoves DEF Sound, HistoryInv
  <2>2. wpc \in [Workers -> WorkerPlaces] /\ n \in [Workers -> Nat]
    BY <2>1, LogFacts
  <2>3. WorkersOK
    BY <2>1 DEF CountersInv
  <2>. QED  BY <2>1, <2>2, <2>3 DEF WorkersOK, Others, Committing
<1>1. CASE Begin(w)
  <2>1. UNCHANGED <<log, maxTs, n>> /\ ~Committing(w)
    BY <1>0, <1>1 DEF Begin, logVars, At
  <2>. QED  BY <1>0, <2>1, CommittingQuiet DEF Committing
<1>2. CASE NewIndexPage(w) \/ WriteBackup(w) \/ WriteHeader(w) \/ FlushCommit(w)
  <2>1. UNCHANGED <<log, maxTs, n, tx>>
    BY <1>2 DEF NewIndexPage, WriteBackup, WriteHeader, FlushCommit, FlushLogs, Log!Flush, logVars, counters
  <2>. QED  BY <1>0, <2>1, CommittingQuiet DEF Committing
<1>3. ASSUME NEW h \in Hashes, Repair(w, h) PROVE CommittingNow'
  <2>1. UNCHANGED <<log, maxTs, n, tx>>
    BY <1>3 DEF Repair, logVars, counters, workerVars
  <2>. QED  BY <1>0, <2>1, CommittingQuiet DEF Committing
<1>4. CASE CommitLock(w)
  <2>1. UNCHANGED <<log, maxTs, tx>> /\ ~Committing(w) /\ wpc[w] = "run"
    BY <1>0, <1>4 DEF CommitLock, logVars, counters, At
  <2>2. Unlinked(tx[w])
    BY <2>1 DEF PartsInv, TxOfWorkers
  <2>3. \A i \in LinksOf(log) : log[i].tx # tx'[w]
    BY <1>0, <2>1, <2>2, LogFacts DEF Unlinked, LinksOf
  <2>. QED  BY <1>0, <2>1, <2>3, CommittingQuiet
<1>5. CASE Unlock(w)
  <2>1. n' = [n EXCEPT ![w] = 0] /\ wpc[w] = "unlock"
    BY <1>5 DEF Unlock, At
  <2>. QED  BY <1>0, <2>1, NobodyCommits DEF Committing
<1>6. CASE Abort(w)
  <2>1. PICK x : x = MarkItem("ABORT_LOG", tx[w])
    OBVIOUS
  <2>2. AddLog(x) /\ x.type = "ABORT_LOG" /\ UNCHANGED <<maxTs, n>> /\ ~Committing(w)
    BY <1>0, <1>6, <2>1 DEF Abort, MarkItem, Item, counters, At
  <2>3. PICK l : Adds(l, {x}) /\ IsGrown(log, l, x)
    BY <1>0, <2>2, AddsMark
  <2>4. IsCut(l, log)
    BY <2>3, GrownCut
  <2>5. x.type \notin IndexItems /\ x.type # "DATA_RECORD_UPDATE_LOG"
    BY <2>2 DEF IndexItems
  <2>. QED  BY <1>0, <2>2, <2>3, <2>4, <2>5, CommittingStays DEF Committing
<1>7. CASE AddCommit(w)
  <2>1. PICK x : x = [MarkItem("COMMIT_LOG", tx[w]) EXCEPT !.maxTs = maxTs + 1]
    OBVIOUS
  <2>2. AddLog(x) /\ x.type = "COMMIT_LOG" /\ UNCHANGED <<maxTs, n, tx>>
    BY <1>0, <1>7, <2>1 DEF AddCommit, MarkItem, Item, counters, At
  <2>3. PICK l : Adds(l, {x}) /\ IsGrown(log, l, x)
    BY <1>0, <2>2, AddsMark
  <2>4. IsCut(l, log)
    BY <2>3, GrownCut
  <2>5. x.type \notin IndexItems /\ x.type # "DATA_RECORD_UPDATE_LOG"
    BY <2>2 DEF IndexItems
  <2>. QED  BY <1>0, <2>2, <2>3, <2>4, <2>5, CommittingStays DEF Committing
<1>8. CASE Stamp(w)
  <2>1. UNCHANGED <<maxTs, n, tx>> /\ At(w, "stamp") /\ Committing(w)
    BY <1>0, <1>8 DEF Stamp, counters, At
  <2>2. PICK x, l : OneChange(x, l) /\ StampIs(w, x)
    BY <1>0, <1>8, StampLogs
  <2>3. Adds(l, {x}) /\ IsCut(l, log)
    BY <1>0, <2>2, AddsOne, GrownCut DEF OneChange
  <2>4. x.new.ts = maxTs + 1
    BY <2>1, <2>2, StampedNow
  <2>5. x.type \notin IndexItems
    BY <2>2 DEF StampIs, IsChange, IndexItems
  <2>6. \A v \in Workers : Committing(v)' => Committing(v) /\ tx'[v] = tx[v]
    BY <1>0, <2>1 DEF Committing
  <2>. QED  BY <1>0, <2>1, <2>3, <2>4, <2>5, <2>6, CommittingStays
<1>9. CASE Link(w)
  <2>1. UNCHANGED <<maxTs, tx>> /\ At(w, "link") /\ ~At(w, "stamp") /\ AtItem(w) /\ Committing(w)
    BY <1>0, <1>9 DEF Link, counters, At, AtItem
  <2>2. PICK x, l : OneChange(x, l) /\ LinkIs(w, x)
    BY <1>0, <1>9, LinkLogs
  <2>3. Adds(l, {x}) /\ IsCut(l, log)
    BY <1>0, <2>2, AddsOne, GrownCut DEF OneChange
  <2>4. x.type # "DATA_RECORD_UPDATE_LOG" /\ x.tx = tx[w] /\ x.new = Pointer(w)
    BY <2>2 DEF LinkIs, IsChange
  <2>5. \A v \in Workers : Committing(v)' => Committing(v) /\ tx'[v] = tx[v]
    BY <1>0, <2>1 DEF Committing
  <2>6. \A u \in 1 .. Len(log) : StampSeen(u, x) => log[u].new.ts = maxTs + 1
    BY <2>1, <2>4, SeenStamped
  <2>. QED  BY <1>0, <2>1, <2>3, <2>4, <2>5, <2>6, CommittingStays
<1>10. CASE PutIndexItem(w)
  <2>1. UNCHANGED <<maxTs, tx>> /\ At(w, "index") /\ ~At(w, "stamp") /\ AtItem(w) /\ Committing(w)
    BY <1>0, <1>10 DEF PutIndexItem, counters, At, AtItem
  <2>2. PICK p, s, x, b, y, l : TwoChanges(x, b, y, l) /\ PutItems(w, p, s, x, y)
    BY <1>0, <1>10, PutLogs
  <2>3. x.type = "INDEX_SLOT_LOG" /\ y.type = "INDEX_ITEM_INSERT_LOG" /\ y.tx = tx[w] /\ y.new = Pointer(w)
    BY <2>2 DEF PutItems, IsChange
  <2>4. Adds(l, {x, y}) /\ IsCut(l, log)
    BY <1>0, <2>2, <2>3, AddsTwo, TwoCut DEF TwoChanges
  <2>5. \A v \in Workers : Committing(v)' => Committing(v) /\ tx'[v] = tx[v]
    BY <1>0, <2>1 DEF Committing
  <2>6. \A u \in 1 .. Len(log) : StampSeen(u, y) => log[u].new.ts = maxTs + 1
    BY <2>1, <2>3, SeenStamped
  <2>7. x.type \notin IndexItems
    BY <2>3 DEF IndexItems
  <2>. QED  BY <1>0, <2>1, <2>3, <2>4, <2>5, <2>6, <2>7, CommittingStays
<1>11. ASSUME NEW k \in Keys, Write(w, k) PROVE CommittingNow'
  <2>1. UNCHANGED <<maxTs, n, tx>> /\ ~Committing(w)
    BY <1>0, <1>11 DEF Write, counters, At
  <2>2. PICK a, p, page, s : WriteSlot(w, k, a, p, page, s) /\ WriteTakes(w, k, p, page, s)
    BY <1>11, WriteFinds
  <2>3. PICK x, b, y, l : TwoChanges(x, b, y, l) /\ WriteItems(w, k, p, page, s, x, y)
    BY <1>0, <2>2, WriteLogs
  <2>4. x.type = "DATA_SLOT_LOG" /\ y.type = "DATA_RECORD_INSERT_LOG"
    BY <2>3 DEF WriteItems, IsChange
  <2>5. Adds(l, {x, y}) /\ IsCut(l, log)
    BY <1>0, <2>3, <2>4, AddsTwo, TwoCut DEF TwoChanges
  <2>6. x.type \notin IndexItems /\ y.type \notin IndexItems
    BY <2>4 DEF IndexItems
  <2>7. \A v \in Workers : Committing(v)' => Committing(v) /\ tx'[v] = tx[v]
    BY <1>0, <2>1 DEF Committing
  <2>. QED  BY <1>0, <2>1, <2>4, <2>5, <2>6, <2>7, CommittingStays
<1>. QED  BY <1>1, <1>2, <1>3, <1>4, <1>5, <1>6, <1>7, <1>8, <1>9, <1>10, <1>11 DEF Transaction, CountPage, Commit

(* and by all else.                                                          *)
LEMMA RestCommitting ==
    ASSUME Sound, Sound', HistoryInv,
           Recover \/ CleanPool \/ Checkpoint \/ Fault \/ UNCHANGED vars
    PROVE  CommittingNow'
<1>0. CountersInv /\ CountersInv' /\ CommittingNow
  BY DEF Sound, HistoryInv
<1>1. CASE Recover \/ Checkpoint
  <2>1. \A w \in Workers : wpc[w] = "idle"
    BY <1>0, <1>1 DEF Recover, Checkpoint, CheckpointBegin, CheckpointPages, CheckpointLog, CheckpointFlush,
        CountersInv, WorkersOK, Up, At
  <2>2. UNCHANGED n
    BY <1>1 DEF Recover, Checkpoint, CheckpointBegin, CheckpointPages, CheckpointLog, CheckpointFlush, workerVars
  <2>. QED  BY <1>0, <2>1, <2>2, NobodyCommits DEF CountersInv, WorkersOK, Committing
<1>2. CASE Fault
  <2>1. ~Up'
    BY <1>2 DEF Fault, Crash, TornPage, TornHeader, Stop, Up
  <2>. QED  BY <2>1 DEF CommittingNow
<1>3. CASE CleanPool \/ UNCHANGED vars
  <2>1. UNCHANGED <<hashOf, log, maxTs, n, tx, pc>>
    BY <1>3 DEF CleanPool, FlushLogs, Log!Flush, vars, logVars, workerVars, counters
  <2>2. CASE Up
    BY <1>0, <2>1, <2>2, CommittingQuiet DEF Committing
  <2>3. CASE ~Up
    BY <2>1, <2>3 DEF CommittingNow, Up
  <2>. QED  BY <2>2, <2>3
<1>. QED  BY <1>1, <1>2, <1>3

-------------------------------------------------------------------------------
(* Page counts as parse_header would read them only grow.                   *)
CountsGrow ==
    \A h \in Hashes :
        /\ \A a \in Nat : a < ReadCounts(h).data => a < ReadCounts(h)'.data
        /\ ReadCounts(h).index = 1 => ReadCounts(h)'.index = 1

LEMMA SameCounts == UNCHANGED <<header, backup>> => CountsGrow
BY DEF CountsGrow, ReadCounts

LEMMA GrowingFacts ==
    ASSUME HeadersTyped, NEW w \in Workers, Growing(w)
    PROVE  /\ HashAt(w) \in Hashes /\ header[HashAt(w)] \in Counts /\ header[HashAt(w)] # Bad
           /\ header[HashAt(w)].data \in Nat /\ header[HashAt(w)].index \in 0 .. 1
           /\ Counted(w) \in Counts /\ Counted(w) # Bad
           /\ Counted(w).data = IF Committing(w) THEN header[HashAt(w)].data ELSE header[HashAt(w)].data + 1
           /\ Counted(w).index = IF Committing(w) THEN 1 ELSE header[HashAt(w)].index
<1>1. AtItem(w)
  BY DEF Growing, AtItem
<1>2. HashAt(w) \in Hashes /\ header[HashAt(w)] \in Counts /\ Counted(w) \in Counts
  BY <1>1, HashFacts, CountedFacts
<1>3. PICK old : old = header[HashAt(w)]
  OBVIOUS
<1>4. /\ old = [index |-> old.index, data |-> old.data]
      /\ old.index \in 0 .. 1 /\ old.data \in Nat
  BY <1>2, <1>3, BoundsAssumption DEF Counts
<1>5. Room(w)
  BY DEF HeadersTyped, WorkerTyped
<1>6. Counted(w) = IF Committing(w) THEN [index |-> old.index + 1, data |-> old.data]
                   ELSE [index |-> old.index, data |-> old.data + 1]
  BY <1>3, <1>4 DEF Counted
<1>7. Committing(w) => old.index = 0
  BY <1>3, <1>5 DEF Room
<1>. QED  BY <1>2, <1>3, <1>4, <1>6, <1>7, BadAssumption

(* A header that is restored counts what it counted,                         *)
LEMMA RepairCounts ==
    ASSUME HeadersTyped, NEW w \in Workers, NEW h \in Hashes, Repair(w, h)
    PROVE  CountsGrow
<1>. SUFFICES ASSUME NEW g \in Hashes PROVE ReadCounts(g)' = ReadCounts(g)
  BY DEF CountsGrow
<1>0. header[h] = Bad /\ header \in [Hashes -> HeaderValues] /\ backup \in [Hashes -> HeaderValues]
  BY DEF Repair, HeadersTyped
<1>1. NoPages # Bad
  BY BadAssumption, BoundsAssumption DEF NoPages, Counts
<1>2. CASE backup[h] # Bad /\ header' = [header EXCEPT ![h] = backup[h]] /\ UNCHANGED backup
  BY <1>0, <1>2 DEF ReadCounts
<1>3. CASE backup[h] = Bad /\ backup' = [backup EXCEPT ![h] = NoPages] /\ UNCHANGED header
  BY <1>0, <1>1, <1>3 DEF ReadCounts
<1>. QED  BY <1>2, <1>3 DEF Repair

(* a backup is not read unless the header is bad,                            *)
LEMMA BackupCounts ==
    ASSUME HeadersTyped, NEW w \in Workers, WriteBackup(w)
    PROVE  CountsGrow
<1>1. Growing(w)
  BY DEF WriteBackup, At, Growing
<1>2. header[HashAt(w)] # Bad
  BY <1>1, GrowingFacts
<1>3. /\ header' = header /\ \A h \in Hashes : h # HashAt(w) => backup'[h] = backup[h]
  BY DEF WriteBackup, HeadersTyped
<1>. QED  BY <1>2, <1>3 DEF CountsGrow, ReadCounts

LEMMA CountedGrows ==
    ASSUME HeadersTyped, NEW w \in Workers, Growing(w), NEW g, g = HashAt(w), ReadCounts(g)' = Counted(w),
           \A h \in Hashes : h # g => ReadCounts(h)' = ReadCounts(h)
    PROVE  CountsGrow
<1>1. ReadCounts(g) = header[g]
  BY GrowingFacts DEF ReadCounts
<1>2. \A a \in Nat : a < header[g].data => a < Counted(w).data
  BY GrowingFacts
<1>3. header[g].index = 1 => Counted(w).index = 1
  BY GrowingFacts
<1>. QED  BY <1>1, <1>2, <1>3 DEF CountsGrow

(* and the header counts one page more.                                      *)
LEMMA HeaderCounts ==
    ASSUME HeadersTyped, NEW w \in Workers, WriteHeader(w)
    PROVE  /\ CountsGrow
           /\ ~Committing(w) =>
                \A h : h = HashAt(w) => header[h].data < ReadCounts(h)'.data
<1>1. Growing(w)
  BY DEF WriteHeader, At, Growing
<1>2. PICK g : g = HashAt(w)
  OBVIOUS
<1>3. g \in Hashes /\ Counted(w) # Bad
  BY <1>1, <1>2, GrowingFacts
<1>4. backup' = backup /\ header'[g] = Counted(w) /\ \A h \in Hashes : h # g => header'[h] = header[h]
  BY <1>2, <1>3 DEF WriteHeader, HeadersTyped
<1>5. ReadCounts(g)' = Counted(w) /\ \A h \in Hashes : h # g => ReadCounts(h)' = ReadCounts(h)
  BY <1>3, <1>4 DEF ReadCounts
<1>6. CountsGrow
  BY <1>1, <1>2, <1>5, CountedGrows
<1>7. ~Committing(w) => header[g].data < Counted(w).data
  BY <1>1, <1>2, GrowingFacts
<1>. QED  BY <1>2, <1>5, <1>6, <1>7

(* Page counts never go down, by what transactions write                     *)
LEMMA TransactionCounts ==
    ASSUME Sound, NEW w \in Workers, Transaction(w)
    PROVE  CountsGrow
<1>0. HeadersTyped
  BY DEF Sound
<1>1. ASSUME NEW h \in Hashes, Repair(w, h) PROVE CountsGrow
  BY <1>0, <1>1, RepairCounts
<1>2. CASE WriteBackup(w)
  BY <1>0, <1>2, BackupCounts
<1>3. CASE WriteHeader(w)
  BY <1>0, <1>3, HeaderCounts
<1>4. CASE UNCHANGED <<header, backup>>
  BY <1>4, SameCounts
<1>5. \/ UNCHANGED <<header, backup>> \/ WriteBackup(w) \/ WriteHeader(w)
      \/ \E h \in Hashes : Repair(w, h)
  BY ZenonT(60) DEF Transaction, CountPage, Commit, Begin, CommitLock, Stamp, Link, NewIndexPage, PutIndexItem,
      AddCommit, FlushCommit, Unlock, Abort, Write, fileVars
<1>. QED  BY <1>1, <1>2, <1>3, <1>4, <1>5

(* or by a write that is torn.                                               *)
LEMMA FaultCounts ==
    ASSUME Sound, HistoryInv, Fault
    PROVE  CountsGrow
<1>1. CASE UNCHANGED <<header, backup>>
  BY <1>1, SameCounts
<1>2. ASSUME NEW w \in Workers, TornHeader(w) PROVE CountsGrow
  <2>0. HeadersTyped /\ Growing(w)
    BY <1>2 DEF Sound, TornHeader, At, Growing
  <2>1. PICK g : g = HashAt(w)
    OBVIOUS
  <2>2. g \in Hashes /\ Counted(w) # Bad /\ header[g] # Bad
    BY <2>0, <2>1, GrowingFacts
  <2>3. CASE backup' = [backup EXCEPT ![HashAt(w)] = Bad] /\ UNCHANGED header
    <3>1. \A h \in Hashes : h # g => backup'[h] = backup[h]
      BY <2>0, <2>1, <2>3 DEF HeadersTyped
    <3>. QED  BY <2>2, <2>3, <3>1 DEF CountsGrow, ReadCounts
  <2>4. CASE At(w, "header") /\ header' = [header EXCEPT ![HashAt(w)] = Bad] /\ UNCHANGED backup
    <3>1. backup[g] = Counted(w)
      BY <2>1, <2>4 DEF HistoryInv, PagesCounted, CountingOK
    <3>2. header'[g] = Bad /\ \A h \in Hashes : h # g => header'[h] = header[h]
      BY <2>0, <2>1, <2>2, <2>4 DEF HeadersTyped
    <3>3. ReadCounts(g)' = Counted(w) /\ \A h \in Hashes : h # g => ReadCounts(h)' = ReadCounts(h)
      BY <2>2, <2>4, <3>1, <3>2 DEF ReadCounts
    <3>. QED  BY <2>0, <2>1, <3>3, CountedGrows
  <2>. QED  BY <1>2, <2>3, <2>4 DEF TornHeader
<1>3. UNCHANGED <<header, backup>> \/ \E w \in Workers : TornHeader(w)
  BY DEF Fault, Crash, TornPage, fileVars
<1>. QED  BY <1>1, <1>2, <1>3

(* Who writes page counts.                                                  *)
LEMMA CountingSame ==
    ASSUME NEW v, CountingOK(v), UNCHANGED hashOf,
           wpc'[v] = wpc[v], n'[v] = n[v], items'[v] = items[v],
           Growing(v) => \A h : h = HashAt(v) => header'[h] = header[h] /\ backup'[h] = backup[h]
    PROVE  CountingOK(v)'
<1>1. /\ Growing(v)' = Growing(v) /\ Committing(v)' = Committing(v) /\ At(v, "header")' = At(v, "header")
      /\ Current(v)' = Current(v) /\ HashAt(v)' = HashAt(v)
  BY DEF Growing, Committing, At, Current, HashAt, KeyOf
<1>2. At(v, "header") => Growing(v)
  BY DEF At, Growing
<1>3. Growing(v) => header'[HashAt(v)] = header[HashAt(v)] /\ backup'[HashAt(v)] = backup[HashAt(v)]
  OBVIOUS
<1>4. Growing(v) => Counted(v)' = Counted(v)
  BY <1>1, <1>3 DEF Counted
<1>. QED  BY <1>1, <1>2, <1>3, <1>4 DEF CountingOK

LEMMA CountingOther ==
    ASSUME Sound, HistoryInv, NEW w \in Workers, Transaction(w), NEW v \in Workers, v # w
    PROVE  CountingOK(v)'
<1>0. /\ HeadersTyped /\ CountingOK(v) /\ UNCHANGED hashOf
      /\ wpc'[v] = wpc[v] /\ n'[v] = n[v] /\ items'[v] = items[v]
  BY TransactionMoves DEF Sound, HistoryInv, PagesCounted, Others
<1>1. Growing(v) => HashAt(v) \in Hashes /\ header[HashAt(v)] # Bad
  BY <1>0, GrowingFacts
<1>2. Growing(v) /\ Growing(w) => HashAt(v) # HashAt(w)
  BY <1>0 DEF HeadersTyped, Apart
<1>. SUFFICES ASSUME Growing(v), NEW h, h = HashAt(v)
              PROVE  header'[h] = header[h] /\ backup'[h] = backup[h]
  BY <1>0, CountingSame
<1>3. CASE UNCHANGED <<header, backup>>
  BY <1>3
<1>4. ASSUME NEW g \in Hashes, Repair(w, g) PROVE header'[h] = header[h] /\ backup'[h] = backup[h]
  BY <1>0, <1>1, <1>4 DEF Repair, HeadersTyped
<1>5. CASE WriteBackup(w)
  BY <1>0, <1>1, <1>2, <1>5 DEF WriteBackup, At, Growing, HeadersTyped
<1>6. CASE WriteHeader(w)
  BY <1>0, <1>1, <1>2, <1>6 DEF WriteHeader, At, Growing, HeadersTyped
<1>7. \/ UNCHANGED <<header, backup>> \/ WriteBackup(w) \/ WriteHeader(w)
      \/ \E g \in Hashes : Repair(w, g)
  BY ZenonT(60) DEF Transaction, CountPage, Commit, Begin, CommitLock, Stamp, Link, NewIndexPage, PutIndexItem,
      AddCommit, FlushCommit, Unlock, Abort, Write, fileVars
<1>. QED  BY <1>3, <1>4, <1>5, <1>6, <1>7

LEMMA NotGrowingCounts == ASSUME NEW w, ~Growing(w)' PROVE CountingOK(w)'
BY DEF CountingOK, Growing, At

LEMMA WriteCounting ==
    ASSUME Sound, HistoryInv, NEW w \in Workers, NEW k \in Keys, Write(w, k)
    PROVE  CountingOK(w)'
<1>0. /\ wpc \in [Workers -> WorkerPlaces] /\ At(w, "run") /\ ~Committing(w)
      /\ UNCHANGED <<hashOf, header, n>> /\ items[w] \in Seq(WriteItem) /\ items = [v \in Workers |-> items[v]]
  BY DEF Write, Sound, CountersInv, ControlTyped, WorkersOK, HeadersTyped, WorkerTyped, At
<1>1. PICK a, p, page, s : WriteSlot(w, k, a, p, page, s) /\ WriteTakes(w, k, p, page, s)
  BY WriteFinds
<1>2. CASE OldPage(k, a, p, page)
  <2>1. ~Growing(w)'
    BY <1>0, <1>2 DEF OldPage, Growing, At
  <2>. QED  BY <2>1, NotGrowingCounts
<1>3. CASE NewPage(w, k, a, p, page)
  <2>1. wpc'[w] = "backup" /\ a = header[hashOf[k]].data
    BY <1>0, <1>3 DEF NewPage, Goto
  <2>2. PICK y : y = NewItem(k, a, s)
    OBVIOUS
  <2>3. items'[w] = Append(items[w], y) /\ y.key = k /\ y.page = a
    BY <1>0, <1>1, <2>2 DEF WriteSlot, NewItem
  <2>4. IsSeq(items[w])
    BY <1>0, SeqIs
  <2>5. items'[w][Len(items'[w])] = y
    BY <2>3, <2>4, AppendFacts
  <2>6. Current(w)' = y /\ ~Committing(w)'
    BY <1>0, <2>5 DEF Current, Committing
  <2>. QED  BY <1>0, <2>1, <2>3, <2>6 DEF CountingOK, At, HashAt, KeyOf
<1>. QED  BY <1>1, <1>2, <1>3 DEF WriteSlot

LEMMA TransactionCounting ==
    ASSUME Sound, HistoryInv, NEW w \in Workers, Transaction(w)
    PROVE  CountingOK(w)'
<1>0. /\ HeadersTyped /\ CountingOK(w) /\ wpc \in [Workers -> WorkerPlaces]
  BY DEF Sound, CountersInv, ControlTyped, HistoryInv, PagesCounted
<1>1. CASE \/ Begin(w) \/ CommitLock(w) \/ WriteHeader(w) \/ AddCommit(w) \/ FlushCommit(w)
           \/ Unlock(w) \/ Abort(w) \/ Stamp(w) \/ Link(w) \/ PutIndexItem(w)
  <2>1. ~Growing(w)'
    BY <1>0, <1>1 DEF Begin, CommitLock, WriteHeader, AddCommit, FlushCommit, Unlock, Abort, Stamp, Link,
        PutIndexItem, NextItem, Goto, Growing
  <2>. QED  BY <2>1, NotGrowingCounts
<1>2. ASSUME NEW h \in Hashes, Repair(w, h) PROVE CountingOK(w)'
  <2>1. ~Growing(w)'
    BY <1>2 DEF Repair, Growing, At, workerVars
  <2>. QED  BY <2>1, NotGrowingCounts
<1>3. ASSUME NEW k \in Keys, Write(w, k) PROVE CountingOK(w)'
  BY <1>3, WriteCounting
<1>4. CASE NewIndexPage(w)
  <2>1. wpc'[w] = "backup" /\ Committing(w)'
    BY <1>0, <1>4 DEF NewIndexPage, Goto, At, Sound, CountersInv, WorkersOK, Committing
  <2>. QED  BY <2>1 DEF CountingOK, At
<1>5. CASE WriteBackup(w)
  <2>1. Growing(w) /\ UNCHANGED <<hashOf, header, n, items>> /\ backup' = [backup EXCEPT ![HashAt(w)] = Counted(w)]
    BY <1>5 DEF WriteBackup, Growing, At
  <2>2. HashAt(w) \in Hashes
    BY <1>0, <2>1, GrowingFacts
  <2>3. /\ Current(w)' = Current(w) /\ HashAt(w)' = HashAt(w) /\ Counted(w)' = Counted(w)
        /\ Committing(w)' = Committing(w)
    BY <2>1 DEF Current, HashAt, KeyOf, Counted, Committing
  <2>4. backup'[HashAt(w)] = Counted(w)
    BY <1>0, <2>1, <2>2 DEF HeadersTyped
  <2>. QED  BY <1>0, <2>1, <2>3, <2>4 DEF CountingOK
<1>. QED  BY <1>1, <1>2, <1>3, <1>4, <1>5 DEF Transaction, CountPage, Commit

LEMMA RestCounting ==
    ASSUME HistoryInv, NEW v \in Workers,
           Recover \/ CleanPool \/ Checkpoint \/ Fault \/ UNCHANGED vars
    PROVE  CountingOK(v)'
<1>1. CASE Fault
  <2>1. ~Growing(v)'
    BY <1>1 DEF Fault, Crash, TornPage, TornHeader, Stop, Growing
  <2>. QED  BY <2>1, NotGrowingCounts
<1>2. CASE Recover \/ CleanPool \/ Checkpoint \/ UNCHANGED vars
  <2>1. UNCHANGED <<hashOf, wpc, n, items, header, backup>>
    BY <1>2 DEF Recover, CleanPool, Checkpoint, CheckpointBegin, CheckpointPages, CheckpointLog,
        CheckpointFlush, vars, workerVars, fileVars
  <2>. QED  BY <2>1, CountingSame DEF HistoryInv, PagesCounted
<1>. QED  BY <1>1, <1>2

(* Pages that were counted, or are being counted, stay so.                  *)
StayCounted ==
    \A h \in Hashes, a \in 0 .. MaxPages - 1 : \A t : PageCounted(h, a, t) => PageCounted(h, a, t)'

(* What counts a page goes on to.                                            *)
LEMMA TransactionPages ==
    ASSUME Sound, HistoryInv, NEW w \in Workers, Transaction(w)
    PROVE  StayCounted
<1>0. /\ CountersInv /\ HeadersTyped /\ Up /\ Up' /\ Others(w) /\ UNCHANGED hashOf /\ CountsGrow
  BY TransactionMoves, TransactionCounts DEF Sound
<1>. SUFFICES ASSUME NEW h \in Hashes, NEW a \in 0 .. MaxPages - 1, NEW t, PageCounted(h, a, t)
              PROVE  PageCounted(h, a, t)'
  BY DEF StayCounted
<1>1. CASE a < ReadCounts(h).data
  <2>1. a \in Nat
    OBVIOUS
  <2>. QED  BY <1>0, <1>1, <2>1 DEF CountsGrow, PageCounted
<1>2. ASSUME NEW v \in Workers, CountsIt(v, h, a, t) PROVE PageCounted(h, a, t)'
  <2>1. CASE v # w
    <3>1. CountsIt(v, h, a, t)'
      BY <1>0, <1>2, <2>1 DEF CountsIt, Others, Growing, Committing, HashAt, KeyOf, Current
    <3>. QED  BY <1>0, <3>1 DEF PageCounted
  <2>2. CASE v = w
    <3>0. Growing(w) /\ ~Committing(w) /\ HashAt(w) = h /\ Current(w).page = a /\ tx[w] = t
      BY <1>2, <2>2 DEF CountsIt
    <3>1. WriteBackup(w) \/ WriteHeader(w)
      <4>1. ASSUME NEW k \in Keys, Write(w, k) PROVE FALSE
        BY <3>0, <4>1 DEF Write, Growing, At
      <4>2. ASSUME NEW g \in Hashes, Repair(w, g) PROVE FALSE
        BY <3>0, <4>2 DEF Repair, Growing, At
      <4>. QED  BY <3>0, <4>1, <4>2 DEF Transaction, CountPage, Commit, Growing, At, Begin, CommitLock, Stamp, Link,
            NewIndexPage, PutIndexItem, AddCommit, FlushCommit, Unlock, Abort
    <3>2. CASE WriteBackup(w)
      <4>1. wpc'[w] = "header" /\ UNCHANGED <<n, items, tx>>
        BY <1>0, <3>2 DEF WriteBackup, Goto, CountersInv, ControlTyped
      <4>2. CountsIt(w, h, a, t)'
        BY <1>0, <3>0, <4>1 DEF CountsIt, Growing, Committing, HashAt, KeyOf, Current
      <4>. QED  BY <1>0, <4>2 DEF PageCounted
    <3>3. CASE WriteHeader(w)
      <4>1. header[h].data < ReadCounts(h)'.data
        BY <1>0, <3>0, <3>3, HeaderCounts
      <4>2. a = header[h].data
        BY <3>0 DEF HistoryInv, PagesCounted, CountingOK
      <4>. QED  BY <4>1, <4>2 DEF PageCounted
    <3>. QED  BY <3>1, <3>2, <3>3
  <2>. QED  BY <2>1, <2>2
<1>. QED  BY <1>0, <1>1, <1>2 DEF PageCounted

LEMMA DataStays ==
    ASSUME CountersInv, NEW l, NEW X, Adds(l, X), DataCounted, StayCounted,
           \A x \in X : x.type \in ChangeTypes =>
               \A h \in Hashes, a \in 0 .. MaxPages - 1 : x.page = DataPage(h, a) => PageCounted(h, a, x.tx)'
    PROVE  DataCounted'
<1>. SUFFICES ASSUME NEW i \in ChangesOf(l), NEW h \in Hashes, NEW a \in 0 .. MaxPages - 1,
                     l[i].page = DataPage(h, a), NEW t, t = l[i].tx
              PROVE  PageCounted(h, a, t)'
  BY DEF DataCounted, Adds
<1>1. CASE i \in 1 .. Len(log) /\ l[i] = log[i]
  <2>1. i \in ChangesOf(log) /\ log[i].page = DataPage(h, a) /\ log[i].tx = t
    BY <1>1 DEF ChangesOf
  <2>2. PageCounted(h, a, t)
    BY <2>1 DEF DataCounted
  <2>. QED  BY <2>2 DEF StayCounted
<1>2. CASE l[i] \in X
  BY <1>2 DEF ChangesOf
<1>. QED  BY <1>1, <1>2 DEF Adds, ChangesOf

LEMMA IndexStays ==
    ASSUME CountersInv, NEW l, NEW X, Adds(l, X), IndexCounted, CountsGrow,
           \A x \in X : x.type \in ChangeTypes =>
               \A h \in Hashes : x.page = IndexPage(h) => ReadCounts(h)'.index = 1
    PROVE  IndexCounted'
<1>. SUFFICES ASSUME NEW i \in ChangesOf(l), NEW h \in Hashes, l[i].page = IndexPage(h)
              PROVE  ReadCounts(h)'.index = 1
  BY DEF IndexCounted, Adds
<1>1. CASE i \in 1 .. Len(log) /\ l[i] = log[i]
  <2>1. i \in ChangesOf(log) /\ log[i].page = IndexPage(h)
    BY <1>1 DEF ChangesOf
  <2>. QED  BY <2>1 DEF IndexCounted, CountsGrow
<1>2. CASE l[i] \in X
  BY <1>2 DEF ChangesOf
<1>. QED  BY <1>1, <1>2 DEF Adds, ChangesOf

LEMMA PagesApart ==
    /\ \A h, g, a : DataPage(h, a) # IndexPage(g)
    /\ \A h, g, a, b : DataPage(h, a) = DataPage(g, b) <=> h = g /\ a = b
    /\ \A h, g : IndexPage(h) = IndexPage(g) <=> h = g
BY DEF DataPage, IndexPage

LEMMA QuietPages ==
    ASSUME CountersInv, UNCHANGED log, DataCounted, IndexCounted, StayCounted, CountsGrow
    PROVE  DataCounted' /\ IndexCounted'
<1>1. PICK l : l = log'
  OBVIOUS
<1>2. Adds(l, {})
  BY <1>1, AddsNone
<1>. QED  BY <1>2, DataStays, IndexStays

(* A record's page is counted, or its worker is about to count it,           *)
LEMMA WritePages ==
    ASSUME Sound, Sound', HistoryInv, NEW w \in Workers, NEW k \in Keys, Write(w, k), StayCounted, CountsGrow
    PROVE  DataCounted' /\ IndexCounted'
<1>0. /\ wpc \in [Workers -> WorkerPlaces] /\ At(w, "run") /\ ~Committing(w) /\ Up /\ Up'
      /\ UNCHANGED <<hashOf, header, n, tx>> /\ header[hashOf[k]] # Bad
      /\ items[w] \in Seq(WriteItem) /\ items = [v \in Workers |-> items[v]]
      /\ CountersInv /\ CountersInv' /\ DataCounted /\ IndexCounted
  BY DEF Write, Sound, CountersInv, ControlTyped, WorkersOK, HeadersTyped, WorkerTyped, At, HistoryInv,
      PagesCounted, Up
<1>1. PICK a, p, page, s : WriteSlot(w, k, a, p, page, s) /\ WriteTakes(w, k, p, page, s)
  BY WriteFinds
<1>2. PICK x, b, y, l : TwoChanges(x, b, y, l) /\ WriteItems(w, k, p, page, s, x, y)
  BY <1>0, <1>1, WriteLogs
<1>3. Adds(l, {x, y})
  BY <1>0, <1>2, AddsTwo DEF TwoChanges
<1>4. x.page = p /\ x.tx = tx[w] /\ y.page = p /\ y.tx = tx[w] /\ p = DataPage(hashOf[k], a)
  BY <1>1, <1>2 DEF WriteItems, IsChange, WriteSlot
<1>5. ASSUME NEW h \in Hashes, NEW c \in 0 .. MaxPages - 1, p = DataPage(h, c), NEW t, t = tx[w]
      PROVE  PageCounted(h, c, t)'
  <2>1. h = hashOf[k] /\ c = a
    BY <1>4, <1>5 DEF DataPage
  <2>2. CASE OldPage(k, a, p, page)
    <3>1. c < ReadCounts(h).data
      BY <1>0, <2>1, <2>2 DEF OldPage, ReadCounts
    <3>2. c \in Nat
      OBVIOUS
    <3>. QED  BY <3>1, <3>2 DEF CountsGrow, PageCounted
  <2>3. CASE NewPage(w, k, a, p, page)
    <3>1. wpc'[w] = "backup"
      BY <1>0, <2>3 DEF NewPage, Goto
    <3>2. PICK z : z = NewItem(k, a, s)
      OBVIOUS
    <3>3. items'[w] = Append(items[w], z) /\ z.key = k /\ z.page = a
      BY <1>0, <1>1, <3>2 DEF WriteSlot, NewItem
    <3>4. IsSeq(items[w])
      BY <1>0, SeqIs
    <3>5. items'[w][Len(items'[w])] = z
      BY <3>3, <3>4, AppendFacts
    <3>6. Current(w)' = z /\ ~Committing(w)'
      BY <1>0, <3>5 DEF Current, Committing
    <3>7. CountsIt(w, h, c, t)'
      BY <1>0, <1>5, <2>1, <3>1, <3>3, <3>6 DEF CountsIt, Growing, HashAt, KeyOf
    <3>. QED  BY <1>0, <3>7 DEF PageCounted
  <2>. QED  BY <1>1, <2>2, <2>3 DEF WriteSlot
<1>6. \A h \in Hashes : p # IndexPage(h)
  BY <1>4, PagesApart
<1>. QED  BY <1>0, <1>3, <1>4, <1>5, <1>6, DataStays, IndexStays

LEMMA StampPages ==
    ASSUME Sound, Sound', HistoryInv, NEW w \in Workers, Stamp(w), StayCounted, CountsGrow
    PROVE  DataCounted' /\ IndexCounted'
<1>0. /\ CountersInv /\ CountersInv' /\ DataCounted /\ IndexCounted /\ UNCHANGED hashOf
      /\ At(w, "stamp") /\ AtItem(w) /\ Committing(w)
  BY DEF Stamp, Sound, CountersInv, WorkersOK, HistoryInv, PagesCounted, At, AtItem
<1>1. PICK x, l : OneChange(x, l) /\ StampIs(w, x)
  BY <1>0, StampLogs
<1>2. Adds(l, {x})
  BY <1>0, <1>1, AddsOne DEF OneChange
<1>3. PICK u : StandsAt(w, u, Uncommitted)
  BY <1>0, CurrentWritten
<1>4. u \in ChangesOf(log) /\ log[u].page = PageOf(w) /\ log[u].tx = tx[w]
  BY <1>3 DEF StandsAt, ChangesOf, ChangeTypes, DataTypes
<1>5. x.page = PageOf(w) /\ x.tx = tx[w]
  BY <1>1 DEF StampIs, IsChange
<1>6. ASSUME NEW h \in Hashes, NEW a \in 0 .. MaxPages - 1, x.page = DataPage(h, a), NEW t, t = x.tx
      PROVE  PageCounted(h, a, t)'
  <2>1. PageCounted(h, a, t)
    BY <1>0, <1>4, <1>5, <1>6 DEF DataCounted
  <2>. QED  BY <2>1 DEF StayCounted
<1>7. \A h \in Hashes : x.page # IndexPage(h)
  BY <1>5, PagesApart DEF PageOf
<1>. QED  BY <1>0, <1>2, <1>6, <1>7, DataStays, IndexStays

LEMMA LinkPages ==
    ASSUME Sound, Sound', HistoryInv, NEW w \in Workers, Link(w), StayCounted, CountsGrow
    PROVE  DataCounted' /\ IndexCounted'
<1>0. /\ CountersInv /\ CountersInv' /\ DataCounted /\ IndexCounted /\ UNCHANGED hashOf
      /\ At(w, "link") /\ AtItem(w) /\ ~At(w, "stamp") /\ Committing(w)
  BY DEF Link, Sound, CountersInv, WorkersOK, HistoryInv, PagesCounted, At, AtItem
<1>1. Up /\ KeyOf(w) \in Keys
  BY <1>0, ItemFacts
<1>2. PICK x, l : OneChange(x, l) /\ LinkIs(w, x)
  BY <1>0, LinkLogs
<1>3. Adds(l, {x})
  BY <1>0, <1>2, AddsOne DEF OneChange
<1>4. PICK i \in LinksOf(log) : log[i].new.key = KeyOf(w)
  <2>1. ~Current(w).first
    BY <1>0, <1>1 DEF HistoryInv, WorkersWrote, FirstsKnown
  <2>2. PICK u : StandsAt(w, u, maxTs + 1)
    BY <1>0, CurrentWritten
  <2>3. ~NoLink(log, KeyOf(w), Len(log))
    BY <2>1, <2>2 DEF StandsAt
  <2>. QED  BY <2>3 DEF NoLink
<1>5. i \in ChangesOf(log) /\ log[i].page = IndexPage(HashAt(w))
  <2>1. ChangesOK(log) /\ Shown(log, mem)
    BY <1>1 DEF HistoryInv, PagesUp
  <2>. QED  BY <1>4, <2>1, LinkFacts DEF HashAt
<1>6. x.page = IndexPage(HashAt(w))
  BY <1>2 DEF LinkIs, IsChange
<1>7. \A h \in Hashes : x.page = IndexPage(h) => ReadCounts(h)'.index = 1
  BY <1>0, <1>5, <1>6 DEF IndexCounted, CountsGrow
<1>8. \A h \in Hashes, a \in 0 .. MaxPages - 1 : x.page # DataPage(h, a)
  BY <1>6, PagesApart
<1>. QED  BY <1>0, <1>3, <1>7, <1>8, DataStays, IndexStays

(* and an index page is counted before anything is in it.                    *)
LEMMA PutPages ==
    ASSUME Sound, Sound', HistoryInv, NEW w \in Workers, PutIndexItem(w), StayCounted, CountsGrow
    PROVE  DataCounted' /\ IndexCounted'
<1>0. /\ CountersInv /\ CountersInv' /\ DataCounted /\ IndexCounted /\ UNCHANGED hashOf
      /\ At(w, "index") /\ AtItem(w) /\ header[HashAt(w)].index > 0 /\ HeadersTyped
  BY DEF PutIndexItem, Sound, HistoryInv, PagesCounted, At, AtItem
<1>1. PICK p, s, x, b, y, l : TwoChanges(x, b, y, l) /\ PutItems(w, p, s, x, y)
  BY <1>0, PutLogs
<1>2. Adds(l, {x, y})
  BY <1>0, <1>1, AddsTwo DEF TwoChanges
<1>3. x.page = p /\ y.page = p /\ p = IndexPage(HashAt(w))
  BY <1>1 DEF PutItems, IsChange
<1>4. HashAt(w) \in Hashes /\ header[HashAt(w)] \in Counts
  BY <1>0, HashFacts
<1>5. ReadCounts(HashAt(w)).index = 1
  <2>1. header[HashAt(w)] # Bad
    BY <1>4, BadAssumption
  <2>2. header[HashAt(w)].index \in 0 .. 1
    BY <1>4 DEF Counts
  <2>. QED  BY <1>0, <2>1, <2>2 DEF ReadCounts
<1>6. \A h \in Hashes : p = IndexPage(h) => ReadCounts(h)'.index = 1
  <2>1. \A h \in Hashes : p = IndexPage(h) => h = HashAt(w)
    BY <1>3, PagesApart
  <2>. QED  BY <1>4, <1>5, <2>1 DEF CountsGrow
<1>7. \A h \in Hashes, a \in 0 .. MaxPages - 1 : p # DataPage(h, a)
  BY <1>3, PagesApart
<1>. QED  BY <1>0, <1>2, <1>3, <1>6, <1>7, DataStays, IndexStays

LEMMA MarkPages ==
    ASSUME CountersInv, CountersInv', DataCounted, IndexCounted, StayCounted, CountsGrow,
           NEW x, AddLog(x), x.type \in NoChange
    PROVE  DataCounted' /\ IndexCounted'
<1>1. PICK l : Adds(l, {x})
  BY AddsMark
<1>2. x.type \notin ChangeTypes
  BY TypesFacts
<1>. QED  BY <1>1, <1>2, DataStays, IndexStays

(* PagesCounted is kept by transactions,                                     *)
LEMMA TransactionCounted ==
    ASSUME Sound, Sound', HistoryInv, NEW w \in Workers, Transaction(w)
    PROVE  PagesCounted'
<1>0. /\ CountersInv /\ CountersInv' /\ DataCounted /\ IndexCounted /\ StayCounted /\ CountsGrow
  BY TransactionPages, TransactionCounts DEF Sound, HistoryInv, PagesCounted
<1>1. \A v \in Workers : CountingOK(v)'
  BY TransactionCounting, CountingOther
<1>2. DataCounted' /\ IndexCounted'
  <2>1. CASE UNCHANGED log
    BY <1>0, <2>1, QuietPages
  <2>2. CASE AddCommit(w)
    <3>1. PICK x : x = [MarkItem("COMMIT_LOG", tx[w]) EXCEPT !.maxTs = maxTs + 1]
      OBVIOUS
    <3>2. AddLog(x) /\ x.type \in NoChange
      BY <2>2, <3>1 DEF AddCommit, MarkItem, Item, NoChange, Ends
    <3>. QED  BY <1>0, <3>2, MarkPages
  <2>3. CASE Abort(w)
    <3>1. PICK x : x = MarkItem("ABORT_LOG", tx[w])
      OBVIOUS
    <3>2. AddLog(x) /\ x.type \in NoChange
      BY <2>3, <3>1 DEF Abort, MarkItem, Item, NoChange, Ends
    <3>. QED  BY <1>0, <3>2, MarkPages
  <2>4. CASE Changes(w)
    BY <1>0, <2>4, WritePages, StampPages, LinkPages, PutPages DEF Changes
  <2>5. ASSUME NEW h \in Hashes, Repair(w, h) PROVE UNCHANGED log
    BY <2>5 DEF Repair, logVars
  <2>6. UNCHANGED log \/ AddCommit(w) \/ Changes(w) \/ Abort(w)
    BY <2>5 DEF Transaction, CountPage, Commit, Changes, Begin, WriteBackup, WriteHeader, CommitLock,
        NewIndexPage, FlushCommit, FlushLogs, Log!Flush, Unlock, logVars
  <2>. QED  BY <2>1, <2>2, <2>3, <2>4, <2>6
<1>. QED  BY <1>1, <1>2 DEF PagesCounted

LEMMA FaultAdds ==
    ASSUME CountersInv, Fault
    PROVE  \E l : Adds(l, {})
<1>1. PICK l : l = log'
  OBVIOUS
<1>2. CASE Log!Flush
  <2>1. UNCHANGED log
    BY <1>2 DEF Log!Flush
  <2>. QED  BY <1>1, <2>1, AddsNone
<1>3. CASE Log!Crash
  <2>1. PICK m \in durable .. Len(log) : log' = SubSeq(log, 1, m)
    BY <1>3 DEF Log!Crash
  <2>2. m \in 0 .. Len(log) /\ IsSeq(log) /\ Len(log) \in Nat
    BY LogFacts DEF CountersInv, LogOK
  <2>3. Len(l) = m /\ (\A j \in 1 .. m : l[j] = log[j]) /\ IsSeq(l)
    BY <1>1, <2>1, <2>2, PrefixFacts
  <2>4. DOMAIN l = 1 .. Len(l)
    BY <2>3, SeqFacts
  <2>5. Adds(l, {})
    BY <1>1, <2>2, <2>3, <2>4 DEF Adds
  <2>. QED  BY <2>5
<1>. QED  BY <1>2, <1>3 DEF Fault, Crash, TornPage, TornHeader

LEMMA UnendedStays ==
    ASSUME CountersInv, NEW l, Adds(l, {}), NEW t, Unended(t)
    PROVE  Unended(t)'
BY LogFacts DEF Adds, Unended

(* by crashes, for who has not ended keeps recover() from coming up,         *)
LEMMA FaultPages ==
    ASSUME Sound, PartsInv, HistoryInv, Fault
    PROVE  DataCounted' /\ IndexCounted'
<1>0. CountersInv /\ DataCounted /\ IndexCounted /\ CountsGrow
  BY FaultCounts DEF Sound, HistoryInv, PagesCounted
<1>1. PICK l : Adds(l, {})
  BY <1>0, FaultAdds
<1>2. ~Up'
  BY DEF Fault, Crash, TornPage, TornHeader, Stop, Up
<1>3. StayCounted
  <2>. SUFFICES ASSUME NEW h \in Hashes, NEW a \in 0 .. MaxPages - 1, NEW t, PageCounted(h, a, t)
                PROVE  PageCounted(h, a, t)'
    BY DEF StayCounted
  <2>1. CASE a < ReadCounts(h).data
    <3>1. a \in Nat
      OBVIOUS
    <3>. QED  BY <1>0, <2>1, <3>1 DEF CountsGrow, PageCounted
  <2>2. ASSUME NEW v \in Workers, CountsIt(v, h, a, t) PROVE Unended(t)
    <3>1. wpc[v] # "idle" /\ ~Logged(v) /\ tx[v] = t
      BY <2>2 DEF CountsIt, Growing, Logged
    <3>. QED  BY <3>1 DEF PartsInv, TxOfWorkers
  <2>3. CASE Unended(t)
    <3>1. Unended(t)'
      BY <1>0, <1>1, <2>3, UnendedStays
    <3>. QED  BY <1>2, <3>1 DEF PageCounted
  <2>. QED  BY <2>1, <2>2, <2>3 DEF PageCounted
<1>. QED  BY <1>0, <1>1, <1>3, DataStays, IndexStays

(* by recover(),                                                             *)
LEMMA RecoverPages ==
    ASSUME Sound, HistoryInv, Recover
    PROVE  DataCounted' /\ IndexCounted'
<1>0. DataCounted /\ IndexCounted /\ ~Up /\ UNCHANGED <<log, header, backup>>
  BY DEF HistoryInv, PagesCounted, Recover, Up, fileVars
<1>1. Up' => \A i \in ChangesOf(log) : ~Unended(log[i].tx)
  BY RecoverFiles
<1>2. IndexCounted'
  BY <1>0 DEF IndexCounted, ReadCounts, ChangesOf
<1>3. ASSUME NEW i \in ChangesOf(log), NEW h \in Hashes, NEW a \in 0 .. MaxPages - 1,
             log[i].page = DataPage(h, a), NEW t, t = log[i].tx
      PROVE  PageCounted(h, a, t)'
  <2>1. a < ReadCounts(h).data \/ Unended(t)
    BY <1>0, <1>3 DEF DataCounted, PageCounted
  <2>2. ReadCounts(h)' = ReadCounts(h) /\ Unended(t)' = Unended(t)
    BY <1>0 DEF ReadCounts, Unended
  <2>3. Up' => ~Unended(t)
    BY <1>1, <1>3
  <2>. QED  BY <2>1, <2>2, <2>3 DEF PageCounted
<1>. QED  BY <1>0, <1>2, <1>3 DEF DataCounted, ChangesOf

LEMMA RestPages ==
    ASSUME Sound, Sound', HistoryInv, CleanPool \/ Checkpoint \/ UNCHANGED vars
    PROVE  DataCounted' /\ IndexCounted'
<1>0. /\ CountersInv /\ CountersInv' /\ DataCounted /\ IndexCounted
      /\ UNCHANGED <<header, backup, hashOf, wpc, n, items, tx, pc>>
  BY DEF Sound, HistoryInv, PagesCounted, CleanPool, Checkpoint, CheckpointBegin, CheckpointPages, CheckpointLog,
        CheckpointFlush, vars, workerVars, fileVars
<1>1. CountsGrow
  BY <1>0, SameCounts
<1>2. \A h \in Hashes : ReadCounts(h)' = ReadCounts(h)
  BY <1>0 DEF ReadCounts
<1>3. \A v, h, a, t : CountsIt(v, h, a, t)' = CountsIt(v, h, a, t)
  BY <1>0 DEF CountsIt, Growing, Committing, HashAt, KeyOf, Current
<1>4. CASE CheckpointLog
  <2>1. Up
    BY <1>0, <1>4 DEF CheckpointLog, CountersInv, WorkersOK
  <2>2. StayCounted
    BY <1>0, <1>2, <1>3, <2>1 DEF StayCounted, PageCounted, Up
  <2>3. PICK x : x = CheckpointItem
    OBVIOUS
  <2>4. AddLog(x) /\ x.type \in NoChange
    BY <1>4, <2>3 DEF CheckpointLog, CheckpointItem, MarkItem, Item, NoChange
  <2>. QED  BY <1>0, <1>1, <2>2, <2>4, MarkPages
<1>5. CASE UNCHANGED log
  <2>1. \A t : Unended(t)' = Unended(t)
    BY <1>5 DEF Unended
  <2>2. StayCounted
    BY <1>0, <1>2, <1>3, <2>1 DEF StayCounted, PageCounted, Up
  <2>. QED  BY <1>0, <1>1, <1>5, <2>2, QuietPages
<1>. QED  BY <1>4, <1>5 DEF CleanPool, Checkpoint, CheckpointBegin, CheckpointPages, CheckpointFlush, FlushLogs,
            Log!Flush, vars, logVars

(* and by all else.                                                          *)
LEMMA RestCounted ==
    ASSUME Sound, Sound', PartsInv, HistoryInv,
           Recover \/ CleanPool \/ Checkpoint \/ Fault \/ UNCHANGED vars
    PROVE  PagesCounted'
<1>1. \A v \in Workers : CountingOK(v)'
  BY RestCounting
<1>2. DataCounted' /\ IndexCounted'
  BY FaultPages, RecoverPages, RestPages
<1>. QED  BY <1>1, <1>2 DEF PagesCounted

-------------------------------------------------------------------------------
(* An item of the log that does not change what a worker has written.       *)
Misses(x, y) ==
    /\ x.type \in ChangeTypes => ~InCell(x, y.key, <<y.page, y.slot>>)
    /\ x.type \in IndexItems => x.new.key # y.key

(* What is linked of other keys changes nothing for a key.                   *)
LEMMA FollowsGrown ==
    ASSUME NEW l, NEW m, NEW x, IsGrown(l, m, x), NEW k, x.type \in IndexItems => x.new.key # k
    PROVE  /\ NoLink(m, k, Len(m)) <=> NoLink(l, k, Len(l))
           /\ \A p : Follows(l, k, Len(l), p) => Follows(m, k, Len(m), p)
<1>1. PICK b : GrowsTo(l, m, x, b)
  BY GrowFacts
<1>2. /\ b = Len(m) /\ b \in Nat /\ Len(l) \in Nat /\ Len(l) < b /\ m[b] = x
      /\ \A i \in 1 .. Len(l) : i \in 1 .. b /\ i < b /\ m[i] = l[i]
      /\ \A i : i \in LinksOf(m) <=> i \in LinksOf(l) \/ (i = b /\ x.type \in IndexItems)
      /\ \A i \in LinksOf(l) : i \in 1 .. Len(l)
  BY <1>1 DEF GrowsTo
<1>3. NoLink(m, k, b) <=> NoLink(l, k, Len(l))
  <2>1. ASSUME NoLink(m, k, b) PROVE NoLink(l, k, Len(l))
    BY <1>2, <2>1 DEF NoLink
  <2>2. ASSUME NoLink(l, k, Len(l)) PROVE NoLink(m, k, b)
    BY <1>2, <2>2 DEF NoLink
  <2>. QED  BY <2>1, <2>2
<1>4. ASSUME NEW p, Follows(l, k, Len(l), p) PROVE Follows(m, k, b, p)
  <2>1. CASE NoLink(l, k, Len(l)) /\ p = NoPlace
    BY <1>3, <2>1 DEF Follows
  <2>2. ASSUME NEW j \in 1 .. Len(l), LastLink(l, k, j, Len(l)), p = l[j].new.last
        PROVE  Follows(m, k, b, p)
    <3>1. j \in LinksOf(m) /\ m[j] = l[j] /\ j \in 1 .. b /\ j <= b
      BY <1>2, <2>2 DEF LastLink
    <3>2. \A i \in LinksOf(m) : j < i /\ i <= b => m[i].new.key # k
      BY <1>2, <2>2 DEF LastLink
    <3>3. LastLink(m, k, j, b)
      BY <3>1, <3>2, <2>2 DEF LastLink
    <3>. QED  BY <2>2, <3>1, <3>3 DEF Follows
  <2>. QED  BY <1>4, <2>1, <2>2 DEF Follows
<1>. QED  BY <1>2, <1>3, <1>4

(* What is written stays written, if the item is not about it.               *)
LEMMA ItemGrows ==
    ASSUME NEW l, NEW m, NEW x, IsGrown(l, m, x), NEW y, Misses(x, y),
           NEW t, NEW type, NEW ts, ItemWritten(l, y, t, type, ts)
    PROVE  ItemWritten(m, y, t, type, ts)
<1>1. PICK u \in 1 .. Len(l) : Written(l, y, t, type, ts, u)
  BY DEF ItemWritten
<1>2. PICK k : k = y.key
  OBVIOUS
<1>3. x.type \in IndexItems => x.new.key # k
  BY <1>2 DEF Misses
<1>4. NoLink(m, k, Len(m)) <=> NoLink(l, k, Len(l))
  BY <1>3, FollowsGrown
<1>5. \A p : Follows(l, k, Len(l), p) => Follows(m, k, Len(m), p)
  BY <1>3, FollowsGrown
<1>6. Latest(l, u, Len(l))
  BY <1>1 DEF Written
<1>7. x.type \in ChangeTypes => ~SameCell(l[u], x)
  BY <1>1 DEF Written, Misses, InCell, SameCell
<1>8. Latest(m, u, Len(m)) /\ u \in 1 .. Len(l) /\ m[u] = l[u]
  BY <1>6, <1>7, GrownLatest
<1>9. u \in 1 .. Len(m)
  BY <1>8 DEF IsGrown
<1>10. Written(m, y, t, type, ts, u)
  BY <1>1, <1>2, <1>5, <1>8 DEF Written
<1>. QED  BY <1>2, <1>4, <1>9, <1>10 DEF ItemWritten

KeepsItem(l, y) == \A t, type, ts : ItemWritten(log, y, t, type, ts) => ItemWritten(l, y, t, type, ts)

LEMMA KeepsOne ==
    ASSUME NEW x, NEW l, IsGrown(log, l, x), NEW y, Misses(x, y)
    PROVE  KeepsItem(l, y)
BY ItemGrows DEF KeepsItem

LEMMA KeepsTwo ==
    ASSUME NEW x, NEW z, NEW b, NEW l, IsGrown(log, b, x), IsGrown(b, l, z), NEW y, Misses(x, y), Misses(z, y)
    PROVE  KeepsItem(l, y)
<1>1. \A t, type, ts : ItemWritten(log, y, t, type, ts) => ItemWritten(b, y, t, type, ts)
  BY ItemGrows
<1>2. \A t, type, ts : ItemWritten(b, y, t, type, ts) => ItemWritten(l, y, t, type, ts)
  BY ItemGrows
<1>. QED  BY <1>1, <1>2 DEF KeepsItem

(* What a worker has written is in the log l.                               *)
WrittenIn(v, l) ==
    \A i \in 1 .. Len(items[v]) :
        i >= n[v] => ItemWritten(l, items[v][i], tx[v], TypeNow(v, i), TsNow(v, i))

LEMMA WrittenNext ==
    ASSUME NEW l, l = log', \A v \in Workers : WrittenIn(v, l)'
    PROVE  ItemsWritten'
BY DEF ItemsWritten, WrittenIn, ItemWritten, Written, InCell

LEMMA WorkerKeeps ==
    ASSUME ItemsWritten, UNCHANGED hashOf, NEW v \in Workers, maxTs' = maxTs \/ ~Committing(v), NEW l,
           items'[v] = items[v], tx'[v] = tx[v],
           \A i \in 1 .. Len(items[v]) : i >= n'[v] =>
               /\ i >= n[v] /\ IsStamped(v, i)' = IsStamped(v, i) /\ KeepsItem(l, items[v][i])
    PROVE  WrittenIn(v, l)'
<1>. SUFFICES ASSUME NEW i \in 1 .. Len(items[v]), i >= n'[v]
              PROVE  ItemWritten(l, items[v][i], tx[v], TypeNow(v, i)', TsNow(v, i)')
  BY DEF WrittenIn, ItemWritten, Written, InCell
<1>1. ItemWritten(log, items[v][i], tx[v], TypeNow(v, i), TsNow(v, i))
  BY DEF ItemsWritten
<1>2. TypeNow(v, i)' = TypeNow(v, i) /\ TsNow(v, i)' = TsNow(v, i)
  BY DEF TypeNow, TsNow, IsStamped
<1>. QED  BY <1>1, <1>2 DEF KeepsItem

LEMMA NoItemsWritten ==
    ASSUME NEW v, NEW l, items'[v] = <<>>
    PROVE  WrittenIn(v, l)'
BY DEF WrittenIn

LEMMA OthersWritten ==
    ASSUME ItemsWritten, UNCHANGED hashOf, NEW w \in Workers, Others(w), NEW v \in Workers, v # w,
           maxTs' = maxTs \/ ~Committing(v), NEW l,
           \A i \in 1 .. Len(items[v]) : i >= n[v] => KeepsItem(l, items[v][i])
    PROVE  WrittenIn(v, l)'
<1>1. items'[v] = items[v] /\ tx'[v] = tx[v] /\ n'[v] = n[v] /\ wpc'[v] = wpc[v]
  BY DEF Others
<1>2. \A i : IsStamped(v, i)' = IsStamped(v, i)
  BY <1>1 DEF IsStamped, Committing
<1>. QED  BY <1>1, <1>2, WorkerKeeps

LEMMA KeepsSame == ASSUME NEW l, l = log, NEW y PROVE KeepsItem(l, y)
BY DEF KeepsItem

QuietMoves(w) ==
    \/ Begin(w) \/ Unlock(w) \/ CommitLock(w) \/ NewIndexPage(w) \/ FlushCommit(w)
    \/ CountPage(w) \/ \E h \in Hashes : Repair(w, h)

(* Actions that log nothing,                                                 *)
LEMMA QuietItems ==
    ASSUME Sound, HistoryInv, NEW w \in Workers, Transaction(w), QuietMoves(w)
    PROVE  ItemsWritten'
<1>0. /\ ItemsWritten /\ UNCHANGED hashOf /\ Others(w) /\ IdleEmpty /\ Up
      /\ wpc \in [Workers -> WorkerPlaces] /\ n \in [Workers -> Nat]
      /\ items = [v \in Workers |-> items[v]]
      /\ wpc[w] \in {"idle", "run"} => ~Committing(w)
      /\ \A u, v \in Workers : Committing(u) /\ Committing(v) => u = v
  <2>1. UNCHANGED hashOf /\ Others(w) /\ Up
    BY TransactionMoves
  <2>2. CountersInv /\ HeadersTyped
    BY DEF Sound
  <2>3. WorkersOK
    BY <2>2 DEF CountersInv
  <2>. QED  BY <2>1, <2>2, <2>3, LogFacts DEF HeadersTyped, WorkersOK, HistoryInv, WorkersWrote
<1>1. PICK l : l = log'
  OBVIOUS
<1>2. \A y : KeepsItem(l, y)
  <2>1. ASSUME NEW h \in Hashes, Repair(w, h) PROVE UNCHANGED log
    BY <2>1 DEF Repair, logVars
  <2>2. UNCHANGED log
    BY <2>1 DEF QuietMoves, CountPage, Begin, Unlock, CommitLock, NewIndexPage, FlushCommit, FlushLogs, Log!Flush,
        WriteBackup, WriteHeader, logVars
  <2>. QED  BY <1>1, <2>2, KeepsSame
<1>3. maxTs' = maxTs \/ Unlock(w)
  <2>1. ASSUME NEW h \in Hashes, Repair(w, h) PROVE maxTs' = maxTs
    BY <2>1 DEF Repair, counters
  <2>. QED  BY <2>1 DEF QuietMoves, CountPage, Begin, WriteBackup, WriteHeader, CommitLock, NewIndexPage,
            FlushCommit, counters
<1>4. Unlock(w) => Committing(w)
  BY DEF Unlock, At, Sound, CountersInv, WorkersOK
<1>5. ASSUME NEW v \in Workers, v # w PROVE WrittenIn(v, l)'
  <2>1. maxTs' = maxTs \/ ~Committing(v)
    BY <1>0, <1>3, <1>4, <1>5
  <2>. QED  BY <1>0, <1>2, <1>5, <2>1, OthersWritten
<1>6. WrittenIn(w, l)'
  <2>1. CASE Begin(w)
    <3>1. items'[w] = <<>>
      BY <1>0, <2>1 DEF Begin, IdleEmpty
    <3>. QED  BY <3>1, NoItemsWritten
  <2>2. CASE Unlock(w)
    <3>1. items'[w] = <<>>
      BY <1>0, <2>2 DEF Unlock
    <3>. QED  BY <3>1, NoItemsWritten
  <2>3. CASE CommitLock(w)
    <3>1. /\ UNCHANGED <<items, tx, maxTs>> /\ ~Committing(w) /\ n'[w] = 1
          /\ wpc'[w] \in {"commit", "stamp"}
      BY <1>0, <2>3 DEF CommitLock, Goto, At, counters
    <3>2. \A i \in 1 .. Len(items[w]) : i >= n[w] /\ IsStamped(w, i)' = IsStamped(w, i)
      BY <1>0, <3>1 DEF IsStamped, Committing
    <3>. QED  BY <1>0, <1>2, <3>1, <3>2, WorkerKeeps
  <2>4. CASE NewIndexPage(w) \/ WriteBackup(w) \/ WriteHeader(w) \/ FlushCommit(w)
    <3>1. UNCHANGED <<items, tx, maxTs, n>>
      BY <2>4 DEF NewIndexPage, WriteBackup, WriteHeader, FlushCommit, counters
    <3>2. \A i : IsStamped(w, i)' = IsStamped(w, i)
      BY <1>0, <2>4 DEF NewIndexPage, WriteBackup, WriteHeader, FlushCommit, Goto, At, IsStamped, Committing
    <3>. QED  BY <1>0, <1>2, <3>1, <3>2, WorkerKeeps
  <2>5. ASSUME NEW h \in Hashes, Repair(w, h) PROVE WrittenIn(w, l)'
    <3>1. UNCHANGED <<items, tx, maxTs, n, wpc>>
      BY <2>5 DEF Repair, counters, workerVars
    <3>2. \A i : IsStamped(w, i)' = IsStamped(w, i)
      BY <3>1 DEF IsStamped, Committing
    <3>. QED  BY <1>0, <1>2, <3>1, <3>2, WorkerKeeps
  <2>. QED  BY <2>1, <2>2, <2>3, <2>4, <2>5 DEF QuietMoves, CountPage
<1>. QED  BY <1>1, <1>5, <1>6, WrittenNext

LEMMA MarkMisses == ASSUME NEW x, x.type \in NoChange, NEW y PROVE Misses(x, y)
BY TypesFacts DEF Misses

(* the end of a transaction,                                                 *)
LEMMA MarkItems ==
    ASSUME Sound, Sound', HistoryInv, NEW w \in Workers, Transaction(w), AddCommit(w) \/ Abort(w)
    PROVE  ItemsWritten'
<1>0. /\ ItemsWritten /\ UNCHANGED <<hashOf, maxTs>> /\ Others(w) /\ CountersInv /\ CountersInv'
      /\ wpc \in [Workers -> WorkerPlaces] /\ n \in [Workers -> Nat] /\ items = [v \in Workers |-> items[v]]
  <2>1. UNCHANGED hashOf /\ Others(w) /\ Up
    BY TransactionMoves
  <2>2. CountersInv /\ CountersInv' /\ HeadersTyped
    BY DEF Sound
  <2>3. UNCHANGED maxTs
    BY DEF AddCommit, Abort, counters
  <2>. QED  BY <2>1, <2>2, <2>3, LogFacts DEF HeadersTyped, HistoryInv, WorkersWrote
<1>1. PICK x : AddLog(x) /\ x.type \in NoChange
  <2>1. CASE AddCommit(w)
    <3>1. PICK x : x = [MarkItem("COMMIT_LOG", tx[w]) EXCEPT !.maxTs = maxTs + 1]
      OBVIOUS
    <3>2. AddLog(x) /\ x.type \in NoChange
      BY <2>1, <3>1 DEF AddCommit, MarkItem, Item, NoChange, Ends
    <3>. QED  BY <3>2
  <2>2. CASE Abort(w)
    <3>1. PICK x : x = MarkItem("ABORT_LOG", tx[w])
      OBVIOUS
    <3>2. AddLog(x) /\ x.type \in NoChange
      BY <2>2, <3>1 DEF Abort, MarkItem, Item, NoChange, Ends
    <3>. QED  BY <3>2
  <2>. QED  BY <2>1, <2>2
<1>2. PICK l : Adds(l, {x}) /\ IsGrown(log, l, x)
  BY <1>0, <1>1, AddsMark
<1>3. \A y : KeepsItem(l, y)
  BY <1>1, <1>2, MarkMisses, KeepsOne
<1>4. ASSUME NEW v \in Workers, v # w PROVE WrittenIn(v, l)'
  BY <1>0, <1>3, <1>4, OthersWritten
<1>5. WrittenIn(w, l)'
  <2>1. CASE Abort(w)
    <3>1. items'[w] = <<>>
      BY <1>0, <2>1 DEF Abort
    <3>. QED  BY <3>1, NoItemsWritten
  <2>2. CASE AddCommit(w)
    <3>1. UNCHANGED <<items, tx, n>> /\ wpc[w] = "commit" /\ wpc'[w] \in {"unlock", "flush"}
      BY <1>0, <2>2 DEF AddCommit, At, Goto
    <3>2. \A i : IsStamped(w, i)' = IsStamped(w, i)
      BY <3>1 DEF IsStamped
    <3>. QED  BY <1>0, <1>3, <3>1, <3>2, WorkerKeeps
  <2>. QED  BY <2>1, <2>2
<1>6. l = log'
  BY <1>2 DEF Adds
<1>. QED  BY <1>4, <1>5, <1>6, WrittenNext

LEMMA ItemTyped ==
    ASSUME HeadersTyped, NEW v \in Workers, NEW i \in 1 .. Len(items[v])
    PROVE  /\ items[v][i] \in WriteItem /\ items[v][i].key \in Keys
           /\ items[v][i].page \in 0 .. MaxPages - 1 /\ items[v][i].slot \in 1 .. Slots
           /\ Len(items[v]) \in Nat /\ items[v] # <<>>
<1>1. items[v] \in Seq(WriteItem)
  BY DEF HeadersTyped, WorkerTyped
<1>2. items[v][i] \in WriteItem
  BY <1>1
<1>. QED  BY <1>1, <1>2 DEF WriteItem

(* What a committing worker is at was written by nobody else.               *)
LEMMA PlaceMine ==
    ASSUME Sound, PartsInv, HistoryInv, NEW w \in Workers, Committing(w), AtItem(w),
           NEW v \in Workers, NEW i \in 1 .. Len(items[v]), i >= n[v], v # w \/ i # n[w],
           NEW x, x.page = PageOf(w), x.offset = SlotOf(w)
    PROVE  ~InCell(x, items[v][i].key, <<items[v][i].page, items[v][i].slot>>)
<1>0. /\ Up /\ Place(w) = n[w] /\ Current(w) = items[w][n[w]] /\ n[w] \in 1 .. Len(items[w])
      /\ ItemsWritten /\ ItemsApart
  BY ItemFacts DEF Place, HistoryInv, WorkersWrote
<1>. SUFFICES ASSUME InCell(x, items[v][i].key, <<items[v][i].page, items[v][i].slot>>)
              PROVE  FALSE
  OBVIOUS
<1>1. x.page = DataPage(hashOf[items[v][i].key], items[v][i].page) /\ x.offset = items[v][i].slot
  BY DEF InCell
<1>2. CASE v = w
  <2>1. PlaceOf(items[v][i]) = PlaceOf(Current(w))
    BY <1>1 DEF PlaceOf, PageOf, DataPage, HashAt, KeyOf, SlotOf
  <2>. QED  BY <1>0, <1>2, <2>1 DEF ItemsApart
<1>3. CASE v # w
  <2>1. PICK u \in 1 .. Len(log) : Written(log, items[v][i], tx[v], TypeNow(v, i), TsNow(v, i), u)
    BY <1>0 DEF ItemsWritten, ItemWritten
  <2>2. PICK s : StandsAt(w, s, IF At(w, "stamp") THEN Uncommitted ELSE maxTs + 1)
    BY CurrentWritten
  <2>3. Latest(log, u, Len(log)) /\ log[u].tx = tx[v] /\ SameCell(x, log[u])
    BY <1>1, <2>1 DEF Written, InCell, SameCell
  <2>4. Latest(log, s, Len(log)) /\ log[s].tx = tx[w] /\ SameCell(x, log[s])
    BY <2>2 DEF StandsAt, SameCell
  <2>5. SameCell(log[u], log[s])
    BY <2>3, <2>4 DEF SameCell
  <2>6. u = s
    <3>1. PICK l : l = log
      OBVIOUS
    <3>2. Len(l) \in Nat
      BY <3>1, LogFacts DEF Sound
    <3>. QED  BY <2>3, <2>4, <2>5, <3>1, <3>2, LatestOne
  <2>7. wpc[v] # "idle" /\ wpc[w] # "idle"
    <3>1. items[v] # <<>>
      BY ItemTyped DEF Sound
    <3>. QED  BY <3>1 DEF HistoryInv, IdleEmpty, At, AtItem
  <2>. QED  BY <1>3, <2>3, <2>4, <2>6, <2>7 DEF PartsInv, TxOfWorkers
<1>. QED  BY <1>2, <1>3

(* The item that has been stamped.                                          *)
LEMMA StampedWritten ==
    ASSUME Sound, HistoryInv, NEW w \in Workers, Committing(w), At(w, "stamp"), AtItem(w),
           NEW x, NEW l, IsGrown(log, l, x), StampIs(w, x), NEW y, y = Current(w)
    PROVE  ItemWritten(l, y, tx[w], "DATA_RECORD_UPDATE_LOG", maxTs + 1)
<1>1. PICK s : StandsAt(w, s, Uncommitted)
  BY CurrentWritten
<1>2. PICK prev : prev = log[s].new.prev
  OBVIOUS
<1>3. /\ mem[PageOf(w)][SlotOf(w)] = Record(tx[w], Uncommitted, prev)
      /\ Follows(log, KeyOf(w), Len(log), prev)
      /\ Current(w).first <=> NoLink(log, KeyOf(w), Len(log))
  BY <1>1, <1>2 DEF StandsAt
<1>4. /\ x.type = "DATA_RECORD_UPDATE_LOG" /\ x.tx = tx[w] /\ x.page = PageOf(w) /\ x.offset = SlotOf(w)
      /\ x.new = Record(tx[w], maxTs + 1, prev)
  BY <1>3 DEF StampIs, IsChange, Record
<1>5. x.new.prev = prev
  BY <1>4 DEF Record
<1>6. PICK k : k = KeyOf(w)
  OBVIOUS
<1>7. x.type \notin IndexItems /\ x.type \in ChangeTypes
  BY <1>4 DEF IndexItems, ChangeTypes, DataTypes
<1>8. NoLink(l, k, Len(l)) <=> NoLink(log, k, Len(log))
  BY <1>7, FollowsGrown
<1>9. Follows(l, k, Len(l), prev)
  BY <1>3, <1>6, <1>7, FollowsGrown
<1>10. PICK u : u = Len(l)
  OBVIOUS
<1>11. u \in 1 .. Len(l) /\ l[u] = x
  BY <1>10 DEF IsGrown
<1>12. Latest(l, u, Len(l))
  BY <1>7, <1>10, <1>11 DEF Latest, ChangesOf
<1>13. InCell(x, y.key, <<y.page, y.slot>>) /\ y.key = k /\ (y.first <=> Current(w).first)
  BY <1>4, <1>6 DEF InCell, PageOf, SlotOf, HashAt, KeyOf
<1>14. Written(l, y, tx[w], "DATA_RECORD_UPDATE_LOG", maxTs + 1, u)
  BY <1>4, <1>5, <1>9, <1>11, <1>12, <1>13 DEF Written
<1>. QED  BY <1>3, <1>6, <1>8, <1>11, <1>13, <1>14 DEF ItemWritten

(* update_record,                                                            *)
LEMMA StampWrites ==
    ASSUME Sound, Sound', PartsInv, HistoryInv, NEW w \in Workers, Stamp(w), Transaction(w)
    PROVE  ItemsWritten'
<1>0. /\ ItemsWritten /\ UNCHANGED <<hashOf, maxTs, items, tx, n>> /\ Others(w)
      /\ At(w, "stamp") /\ AtItem(w) /\ Committing(w) /\ wpc'[w] \in {"link", "index"}
  <2>1. UNCHANGED hashOf /\ Others(w) /\ Up
    BY TransactionMoves
  <2>2. CountersInv
    BY DEF Sound
  <2>3. UNCHANGED <<maxTs, items, tx, n>> /\ At(w, "stamp")
    BY DEF Stamp, counters
  <2>4. AtItem(w) /\ Committing(w)
    BY <2>2, <2>3 DEF AtItem, At, CountersInv, WorkersOK
  <2>5. wpc'[w] \in {"link", "index"}
    BY <2>2, LogFacts DEF Stamp, Goto
  <2>. QED  BY <2>1, <2>3, <2>4, <2>5 DEF HistoryInv, WorkersWrote
<1>1. PICK x, l : OneChange(x, l) /\ StampIs(w, x)
  BY <1>0, StampLogs
<1>2. IsGrown(log, l, x) /\ l = log'
  BY <1>1 DEF OneChange
<1>3. x.page = PageOf(w) /\ x.offset = SlotOf(w) /\ x.type \notin IndexItems
  BY <1>1 DEF StampIs, IsChange, IndexItems
<1>4. ASSUME NEW v \in Workers, NEW i \in 1 .. Len(items[v]), i >= n[v], v # w \/ i # n[w]
      PROVE  KeepsItem(l, items[v][i])
  <2>1. Misses(x, items[v][i])
    BY <1>0, <1>3, <1>4, PlaceMine DEF Misses
  <2>. QED  BY <1>2, <2>1, KeepsOne
<1>5. ASSUME NEW v \in Workers, v # w PROVE WrittenIn(v, l)'
  BY <1>0, <1>4, <1>5, OthersWritten
<1>6. WrittenIn(w, l)'
  <2>0. n[w] \in 1 .. Len(items[w]) /\ Current(w) = items[w][n[w]] /\ n[w] \in Nat /\ Len(items[w]) \in Nat
    BY <1>0, ItemFacts DEF Place
  <2>. SUFFICES ASSUME NEW i \in 1 .. Len(items[w]), i >= n[w]
                PROVE  ItemWritten(l, items[w][i], tx[w], TypeNow(w, i)', TsNow(w, i)')
    BY <1>0 DEF WrittenIn, ItemWritten, Written, InCell
  <2>1. CASE i = n[w]
    <3>1. IsStamped(w, i)'
      BY <1>0, <2>0, <2>1 DEF IsStamped, Committing
    <3>2. TypeNow(w, i)' = "DATA_RECORD_UPDATE_LOG" /\ TsNow(w, i)' = maxTs + 1
      BY <1>0, <3>1 DEF TypeNow, TsNow
    <3>3. ItemWritten(l, items[w][i], tx[w], "DATA_RECORD_UPDATE_LOG", maxTs + 1)
      BY <1>0, <1>1, <1>2, <2>0, <2>1, StampedWritten
    <3>. QED  BY <3>2, <3>3
  <2>2. CASE i # n[w]
    <3>1. ~IsStamped(w, i) /\ ~IsStamped(w, i)'
      BY <1>0, <2>2 DEF IsStamped
    <3>2. TypeNow(w, i)' = TypeNow(w, i) /\ TsNow(w, i)' = TsNow(w, i)
      BY <3>1 DEF TypeNow, TsNow
    <3>3. ItemWritten(log, items[w][i], tx[w], TypeNow(w, i), TsNow(w, i))
      BY <1>0 DEF ItemsWritten
    <3>4. KeepsItem(l, items[w][i])
      BY <1>4, <2>2
    <3>. QED  BY <3>2, <3>3, <3>4 DEF KeepsItem
  <2>. QED  BY <2>1, <2>2
<1>. QED  BY <1>2, <1>5, <1>6, WrittenNext

LEMMA KeysApart ==
    ASSUME ItemsApart, NEW v \in Workers, NEW w \in Workers, NEW i \in 1 .. Len(items[v]),
           NEW j \in 1 .. Len(items[w]), items[v][i].key = items[w][j].key
    PROVE  v = w /\ i = j
BY DEF ItemsApart

(* The write item is done: what is still to come stays written.             *)
LEMMA LinkedWrites ==
    ASSUME Sound, HistoryInv, NEW w \in Workers, Transaction(w), NextItem(w), UNCHANGED <<maxTs, items, tx>>,
           NEW l, l = log', Committing(w), AtItem(w),
           \A v \in Workers : \A i \in 1 .. Len(items[v]) :
               items[v][i].key # KeyOf(w) => KeepsItem(l, items[v][i])
    PROVE  ItemsWritten'
<1>0. /\ ItemsWritten /\ ItemsApart /\ UNCHANGED hashOf /\ Others(w)
      /\ n'[w] = n[w] + 1 /\ wpc'[w] \in {"stamp", "commit"} /\ n[w] \in Nat
  <2>1. UNCHANGED hashOf /\ Others(w) /\ Up
    BY TransactionMoves
  <2>2. wpc \in [Workers -> WorkerPlaces] /\ n \in [Workers -> Nat]
    BY LogFacts DEF Sound
  <2>3. n'[w] = n[w] + 1 /\ wpc'[w] \in {"stamp", "commit"} /\ n[w] \in Nat
    BY <2>2 DEF NextItem, Goto
  <2>. QED  BY <2>1, <2>3 DEF HistoryInv, WorkersWrote
<1>1. n[w] \in 1 .. Len(items[w]) /\ KeyOf(w) = items[w][n[w]].key /\ Len(items[w]) \in Nat
  BY ItemFacts DEF Place, KeyOf
<1>2. ASSUME NEW v \in Workers, NEW i \in 1 .. Len(items[v]), v # w \/ i # n[w]
      PROVE  KeepsItem(l, items[v][i])
  <2>1. items[v][i].key # KeyOf(w)
    <3>1. PICK j \in 1 .. Len(items[w]) : j = n[w]
      BY <1>1
    <3>2. items[v][i].key = items[w][j].key => v = w /\ i = j
      BY <1>0, KeysApart
    <3>. QED  BY <1>1, <1>2, <3>1, <3>2
  <2>. QED  BY <2>1
<1>3. ASSUME NEW v \in Workers, v # w PROVE WrittenIn(v, l)'
  BY <1>0, <1>2, <1>3, OthersWritten
<1>4. WrittenIn(w, l)'
  <2>1. ASSUME NEW i \in 1 .. Len(items[w]), i >= n'[w]
        PROVE  i >= n[w] /\ IsStamped(w, i)' = IsStamped(w, i) /\ KeepsItem(l, items[w][i])
    <3>1. i >= n[w] /\ i # n[w]
      BY <1>0, <1>1, <2>1
    <3>2. IsStamped(w, i)' = IsStamped(w, i)
      BY <1>0, <3>1 DEF IsStamped
    <3>3. KeepsItem(l, items[w][i])
      BY <1>2, <3>1
    <3>. QED  BY <3>1, <3>2, <3>3
  <2>. QED  BY <1>0, <2>1, WorkerKeeps
<1>. QED  BY <1>3, <1>4, WrittenNext

LEMMA IndexMisses ==
    ASSUME NEW x, NEW h, x.page = IndexPage(h), NEW y, x.type \in IndexItems => x.new.key # y.key
    PROVE  Misses(x, y)
<1>1. ~InCell(x, y.key, <<y.page, y.slot>>)
  BY DEF InCell, DataPage, IndexPage
<1>. QED  BY <1>1 DEF Misses

(* update_index,                                                             *)
LEMMA LinkWrites ==
    ASSUME Sound, Sound', PartsInv, HistoryInv, NEW w \in Workers, Link(w), Transaction(w)
    PROVE  ItemsWritten'
<1>0. /\ UNCHANGED <<hashOf, maxTs, items, tx>> /\ NextItem(w) /\ At(w, "link") /\ AtItem(w) /\ Committing(w)
  BY DEF Link, counters, AtItem, At, Sound, CountersInv, WorkersOK
<1>1. PICK x, l : OneChange(x, l) /\ LinkIs(w, x)
  BY <1>0, LinkLogs
<1>2. IsGrown(log, l, x) /\ l = log'
  BY <1>1 DEF OneChange
<1>3. x.page = IndexPage(HashAt(w)) /\ x.new.key = KeyOf(w)
  BY <1>1 DEF LinkIs, IsChange, Pointer
<1>4. ASSUME NEW v \in Workers, NEW i \in 1 .. Len(items[v]), items[v][i].key # KeyOf(w)
      PROVE  KeepsItem(l, items[v][i])
  <2>1. Misses(x, items[v][i])
    BY <1>3, <1>4, IndexMisses
  <2>. QED  BY <1>2, <2>1, KeepsOne
<1>. QED  BY <1>0, <1>2, <1>4, LinkedWrites

(* and insert_index leave all write items written.                           *)
LEMMA PutWrites ==
    ASSUME Sound, Sound', PartsInv, HistoryInv, NEW w \in Workers, PutIndexItem(w), Transaction(w)
    PROVE  ItemsWritten'
<1>0. /\ UNCHANGED <<hashOf, maxTs, items, tx>> /\ NextItem(w) /\ At(w, "index") /\ AtItem(w) /\ Committing(w)
  BY DEF PutIndexItem, counters, AtItem, At, Sound, CountersInv, WorkersOK
<1>1. PICK p, s, x, b, y, l : TwoChanges(x, b, y, l) /\ PutItems(w, p, s, x, y)
  BY <1>0, PutLogs
<1>2. IsGrown(log, b, x) /\ IsGrown(b, l, y) /\ l = log'
  BY <1>1 DEF TwoChanges
<1>3. /\ x.page = IndexPage(HashAt(w)) /\ x.type \notin IndexItems
      /\ y.page = IndexPage(HashAt(w)) /\ y.new.key = KeyOf(w)
  BY <1>1 DEF PutItems, IsChange, Pointer, IndexItems
<1>4. ASSUME NEW v \in Workers, NEW i \in 1 .. Len(items[v]), items[v][i].key # KeyOf(w)
      PROVE  KeepsItem(l, items[v][i])
  <2>1. Misses(x, items[v][i])
    BY <1>3, IndexMisses
  <2>2. Misses(y, items[v][i])
    BY <1>3, <1>4, IndexMisses
  <2>. QED  BY <1>2, <2>1, <2>2, KeepsTwo
<1>. QED  BY <1>0, <1>2, <1>4, LinkedWrites

(* The slot that a worker takes has nothing that a worker has written.       *)
LEMMA FreeOfItems ==
    ASSUME ItemsWritten, NEW p, NEW page, NEW s, TakeFree(p, page, s),
           NEW v \in Workers, NEW i \in 1 .. Len(items[v]), i >= n[v]
    PROVE  DataPage(hashOf[items[v][i].key], items[v][i].page) # p \/ items[v][i].slot # s
<1>1. PICK u \in 1 .. Len(log) : Written(log, items[v][i], tx[v], TypeNow(v, i), TsNow(v, i), u)
  BY DEF ItemsWritten, ItemWritten
<1>2. u \in ChangesOf(log)
  BY <1>1 DEF Written, Latest
<1>3. /\ log[u].page = DataPage(hashOf[items[v][i].key], items[v][i].page)
      /\ log[u].offset = items[v][i].slot
  BY <1>1 DEF Written, InCell
<1>. QED  BY <1>2, <1>3 DEF TakeFree

LEMMA WriteAppends ==
    ASSUME Sound, NEW w \in Workers, NEW k \in Keys, Write(w, k),
           NEW a, NEW p, NEW page, NEW s, WriteSlot(w, k, a, p, page, s), NEW z, z = NewItem(k, a, s)
    PROVE  /\ items'[w] = Append(items[w], z) /\ Len(items[w]) \in Nat /\ Len(items'[w]) = Len(items[w]) + 1
           /\ \A i \in 1 .. Len(items[w]) : items'[w][i] = items[w][i]
           /\ items'[w][Len(items[w]) + 1] = z
           /\ \A v \in Workers : v # w => items'[v] = items[v]
           /\ UNCHANGED <<hashOf, n, tx, maxTs>> /\ Up /\ n[w] = 0
<1>1. HeadersTyped /\ CountersInv
  BY DEF Sound
<1>2. items[w] \in Seq(WriteItem) /\ items = [v \in Workers |-> items[v]]
  BY <1>1 DEF HeadersTyped, WorkerTyped
<1>3. IsSeq(items[w])
  BY <1>2, SeqIs
<1>4. Len(items[w]) \in Nat /\ DOMAIN items[w] = 1 .. Len(items[w])
  BY <1>3, SeqFacts
<1>5. /\ items'[w] = Append(items[w], z)
      /\ \A v \in Workers : v # w => items'[v] = items[v]
  BY <1>2 DEF WriteSlot
<1>6. At(w, "run") /\ UNCHANGED <<hashOf, n, tx, maxTs>> /\ Up
  BY DEF Write, counters
<1>7. n[w] = 0
  <2>1. ~Committing(w) /\ n[w] \in Nat
    BY <1>1, <1>6, LogFacts DEF CountersInv, WorkersOK, At
  <2>. QED  BY <2>1 DEF Committing
<1>. QED  BY <1>3, <1>4, <1>5, <1>6, <1>7, AppendFacts

(* No two write items are of one key or one slot.                            *)
LEMMA WriteApart ==
    ASSUME Sound, HistoryInv, NEW w \in Workers, NEW k \in Keys, Write(w, k)
    PROVE  ItemsApart'
<1>1. PICK a, p, page, s : WriteSlot(w, k, a, p, page, s)
  BY WriteFinds
<1>2. PICK z : z = NewItem(k, a, s)
  OBVIOUS
<1>3. PICK m : m = Len(items[w]) + 1
  OBVIOUS
<1>4. /\ Len(items[w]) \in Nat /\ Len(items'[w]) = m /\ m \in Nat
      /\ \A i \in 1 .. Len(items[w]) : items'[w][i] = items[w][i]
      /\ items'[w][m] = z
      /\ \A v \in Workers : v # w => items'[v] = items[v]
      /\ UNCHANGED hashOf /\ Up /\ n[w] = 0
  BY <1>1, <1>2, <1>3, WriteAppends
<1>5. ItemsWritten /\ ItemsApart /\ HeadersTyped
  BY <1>4 DEF HistoryInv, WorkersWrote, Sound
<1>6. TakeFree(p, page, s) /\ p = DataPage(hashOf[k], a)
  BY <1>1 DEF WriteSlot
<1>7. z.key = k /\ z.page = a /\ z.slot = s
  BY <1>2 DEF NewItem
<1>8. ASSUME NEW i \in 1 .. Len(items[w]) PROVE PlaceOf(items[w][i]) # PlaceOf(z)
  <2>1. i >= n[w]
    BY <1>4
  <2>2. DataPage(hashOf[items[w][i].key], items[w][i].page) # p \/ items[w][i].slot # s
    BY <1>5, <1>6, <2>1, FreeOfItems
  <2>. QED  BY <1>6, <1>7, <2>2 DEF PlaceOf
<1>9. ASSUME NEW v \in Workers, NEW i \in 1 .. Len(items[v]) PROVE items[v][i].key # k
  <2>1. i \in DOMAIN items[v]
    <3>1. items[v] \in Seq(WriteItem)
      BY <1>5 DEF HeadersTyped, WorkerTyped
    <3>. QED  BY <3>1
  <2>2. k \notin KeysOf(v)
    BY DEF Write
  <2>. QED  BY <2>1, <2>2 DEF KeysOf
<1>10. \A i \in 1 .. m : (i \in 1 .. Len(items[w]) /\ items'[w][i] = items[w][i]) \/ (i = m /\ items'[w][i] = z)
  BY <1>3, <1>4
<1>11. ASSUME NEW v \in Workers, NEW i \in 1 .. Len(items'[v]), NEW j \in 1 .. Len(items'[v]), i # j
       PROVE  PlaceOf(items'[v][i]) # PlaceOf(items'[v][j])
  <2>1. CASE v # w
    BY <1>4, <1>5, <1>11, <2>1 DEF ItemsApart
  <2>2. CASE v = w
    <3>1. i \in 1 .. m /\ j \in 1 .. m
      BY <1>4, <2>2
    <3>2. CASE i \in 1 .. Len(items[w]) /\ j \in 1 .. Len(items[w])
      BY <1>4, <1>5, <1>11, <2>2, <3>2 DEF ItemsApart
    <3>3. CASE i = m
      <4>1. j \in 1 .. Len(items[w]) /\ items'[w][j] = items[w][j] /\ items'[w][i] = z
        BY <1>4, <1>10, <1>11, <3>1, <3>3
      <4>2. PlaceOf(items[w][j]) # PlaceOf(z)
        BY <1>8, <4>1
      <4>. QED  BY <2>2, <4>1, <4>2
    <3>4. CASE j = m
      <4>1. i \in 1 .. Len(items[w]) /\ items'[w][i] = items[w][i] /\ items'[w][j] = z
        BY <1>4, <1>10, <1>11, <3>1, <3>4
      <4>2. PlaceOf(items[w][i]) # PlaceOf(z)
        BY <1>8, <4>1
      <4>. QED  BY <2>2, <4>1, <4>2
    <3>. QED  BY <1>10, <3>1, <3>2, <3>3, <3>4
  <2>. QED  BY <2>1, <2>2
<1>12. ASSUME NEW u \in Workers, NEW v \in Workers, NEW i \in 1 .. Len(items'[u]), NEW j \in 1 .. Len(items'[v]),
              items'[u][i].key = items'[v][j].key
       PROVE  u = v /\ i = j
  <2>1. CASE u = w /\ i = m
    <3>1. items'[u][i].key = k
      BY <1>4, <1>7, <2>1
    <3>2. v = w
      <4>1. CASE v # w
        BY <1>4, <1>9, <1>12, <3>1, <4>1
      <4>. QED  BY <4>1
    <3>3. j = m
      <4>1. j \in 1 .. m
        BY <1>4, <3>2
      <4>2. CASE j \in 1 .. Len(items[w]) /\ items'[w][j] = items[w][j]
        <5>1. items[w][j].key # k
          BY <1>9, <4>2
        <5>. QED  BY <1>12, <3>1, <3>2, <4>2, <5>1
      <4>. QED  BY <1>10, <4>1, <4>2
    <3>. QED  BY <2>1, <3>2, <3>3
  <2>2. CASE v = w /\ j = m
    <3>1. items'[v][j].key = k
      BY <1>4, <1>7, <2>2
    <3>2. u = w
      <4>1. CASE u # w
        BY <1>4, <1>9, <1>12, <3>1, <4>1
      <4>. QED  BY <4>1
    <3>3. i = m
      <4>1. i \in 1 .. m
        BY <1>4, <3>2
      <4>2. CASE i \in 1 .. Len(items[w]) /\ items'[w][i] = items[w][i]
        <5>1. items[w][i].key # k
          BY <1>9, <4>2
        <5>. QED  BY <1>12, <3>1, <3>2, <4>2, <5>1
      <4>. QED  BY <1>10, <4>1, <4>2
    <3>. QED  BY <2>2, <3>2, <3>3
  <2>3. CASE ~(u = w /\ i = m) /\ ~(v = w /\ j = m)
    <3>1. i \in 1 .. Len(items[u]) /\ items'[u][i] = items[u][i]
      BY <1>4, <1>10, <2>3
    <3>2. j \in 1 .. Len(items[v]) /\ items'[v][j] = items[v][j]
      BY <1>4, <1>10, <2>3
    <3>. QED  BY <1>5, <1>12, <3>1, <3>2, KeysApart
  <2>. QED  BY <2>1, <2>2, <2>3
<1>13. \A x : PlaceOf(x)' = PlaceOf(x)
  BY <1>4 DEF PlaceOf
<1>. QED  BY <1>4, <1>11, <1>12 DEF ItemsApart, PlaceOf

(* The new write item,                                                       *)
LEMMA NewWritten ==
    ASSUME Sound, HistoryInv, Up, NEW w \in Workers, NEW k \in Keys, NEW a, NEW p, NEW page, NEW s,
           WriteSlot(w, k, a, p, page, s), NEW x, NEW b, NEW y, NEW l,
           IsGrown(log, b, x), IsGrown(b, l, y), WriteItems(w, k, p, page, s, x, y),
           NEW z, z = NewItem(k, a, s)
    PROVE  ItemWritten(l, z, tx[w], "DATA_RECORD_INSERT_LOG", Uncommitted)
<1>1. PICK c : GrowsTo(b, l, y, c)
  BY GrowFacts
<1>2. c = Len(l) /\ c \in Nat /\ l[c] = y /\ c \in 1 .. Len(l)
  BY <1>1 DEF GrowsTo
<1>3. y.type = "DATA_RECORD_INSERT_LOG" /\ y.tx = tx[w] /\ y.page = p /\ y.offset = s /\ y.new = FirstRecord(w, k)
  BY DEF WriteItems, IsChange
<1>4. c \in ChangesOf(l)
  BY <1>2, <1>3 DEF ChangesOf, ChangeTypes, DataTypes
<1>5. Latest(l, c, Len(l))
  <2>1. \A j \in ChangesOf(l) : j \in 1 .. Len(l)
    BY DEF ChangesOf
  <2>. QED  BY <1>2, <1>4, <2>1 DEF Latest
<1>6. z.key = k /\ z.page = a /\ z.slot = s /\ (z.first <=> Found(k) = {})
  BY DEF NewItem
<1>7. InCell(l[c], z.key, <<z.page, z.slot>>)
  BY <1>2, <1>3, <1>6 DEF InCell, WriteSlot
<1>8. (Found(k) = {} <=> NoLink(log, k, Len(log))) /\ Follows(log, k, Len(log), LastOf(k))
  <2>1. Len(log) \in Nat /\ ChangesOK(log) /\ Shown(log, mem)
    BY DiskFacts
  <2>2. hashOf[k] \in Hashes
    BY DEF Sound, StoreTyped
  <2>. QED  BY <2>1, <2>2, Lookup
<1>9. x.type \notin IndexItems /\ y.type \notin IndexItems
  BY DEF WriteItems, IsChange, IndexItems
<1>10. /\ NoLink(b, k, Len(b)) <=> NoLink(log, k, Len(log))
       /\ Follows(b, k, Len(b), LastOf(k))
  BY <1>8, <1>9, FollowsGrown
<1>11. /\ NoLink(l, k, Len(l)) <=> NoLink(b, k, Len(b))
       /\ Follows(l, k, Len(l), LastOf(k))
  BY <1>9, <1>10, FollowsGrown
<1>12. l[c].new.prev = LastOf(k) /\ l[c].new = Record(tx[w], Uncommitted, l[c].new.prev)
  BY <1>2, <1>3 DEF FirstRecord, Record
<1>13. Written(l, z, tx[w], "DATA_RECORD_INSERT_LOG", Uncommitted, c)
  BY <1>2, <1>3, <1>5, <1>6, <1>7, <1>11, <1>12 DEF Written
<1>. QED  BY <1>2, <1>6, <1>8, <1>10, <1>11, <1>13 DEF ItemWritten

(* and those before it.                                                      *)
LEMMA WriteWrites ==
    ASSUME Sound, HistoryInv, NEW w \in Workers, NEW k \in Keys, Write(w, k), Transaction(w)
    PROVE  ItemsWritten'
<1>0. UNCHANGED hashOf /\ Others(w) /\ Up
  BY TransactionMoves
<1>1. PICK a, p, page, s : WriteSlot(w, k, a, p, page, s) /\ WriteTakes(w, k, p, page, s)
  BY WriteFinds
<1>2. PICK z, m : z = NewItem(k, a, s) /\ m = Len(items[w]) + 1
  OBVIOUS
<1>3. /\ Len(items[w]) \in Nat /\ Len(items'[w]) = m /\ m \in Nat
      /\ \A i \in 1 .. Len(items[w]) : items'[w][i] = items[w][i]
      /\ items'[w][m] = z
      /\ UNCHANGED <<n, tx, maxTs>> /\ n[w] = 0
  BY <1>1, <1>2, WriteAppends
<1>4. PICK x, b, y, l : TwoChanges(x, b, y, l) /\ WriteItems(w, k, p, page, s, x, y)
  BY <1>0, <1>1, WriteLogs
<1>5. IsGrown(log, b, x) /\ IsGrown(b, l, y) /\ l = log'
  BY <1>4 DEF TwoChanges
<1>6. ItemsWritten /\ HeadersTyped
  BY <1>0 DEF HistoryInv, WorkersWrote, Sound
<1>7. ASSUME NEW v \in Workers, NEW i \in 1 .. Len(items[v]), i >= n[v]
      PROVE  KeepsItem(l, items[v][i])
  <2>1. items[v][i].slot \in 1 .. Slots
    BY <1>6, ItemTyped
  <2>2. x.offset = 0 /\ x.type \notin IndexItems /\ y.type \notin IndexItems /\ y.page = p /\ y.offset = s
    BY <1>4 DEF WriteItems, IsChange, IndexItems, Bitmap
  <2>3. Misses(x, items[v][i])
    BY <2>1, <2>2, SizesAssumption DEF Misses, InCell
  <2>4. DataPage(hashOf[items[v][i].key], items[v][i].page) # p \/ items[v][i].slot # s
    <3>1. TakeFree(p, page, s)
      BY <1>1 DEF WriteSlot
    <3>. QED  BY <1>6, <1>7, <3>1, FreeOfItems
  <2>5. Misses(y, items[v][i])
    BY <2>2, <2>4 DEF Misses, InCell
  <2>. QED  BY <1>5, <2>3, <2>5, KeepsTwo
<1>8. ASSUME NEW v \in Workers, v # w PROVE WrittenIn(v, l)'
  BY <1>0, <1>3, <1>6, <1>7, <1>8, OthersWritten
<1>9. ItemWritten(l, z, tx[w], "DATA_RECORD_INSERT_LOG", Uncommitted)
  BY <1>0, <1>1, <1>2, <1>4, <1>5, NewWritten
<1>10. \A i : /\ TypeNow(w, i) = "DATA_RECORD_INSERT_LOG" /\ TsNow(w, i) = Uncommitted
              /\ TypeNow(w, i)' = "DATA_RECORD_INSERT_LOG" /\ TsNow(w, i)' = Uncommitted
  <2>1. \A i : ~IsStamped(w, i) /\ ~IsStamped(w, i)'
    BY <1>3 DEF IsStamped, Committing
  <2>. QED  BY <2>1 DEF TypeNow, TsNow
<1>11. WrittenIn(w, l)'
  <2>. SUFFICES ASSUME NEW i \in 1 .. m
                PROVE  ItemWritten(l, items'[w][i], tx[w], "DATA_RECORD_INSERT_LOG", Uncommitted)
    BY <1>0, <1>3, <1>10 DEF WrittenIn, ItemWritten, Written, InCell
  <2>1. CASE i = m
    BY <1>3, <1>9, <2>1
  <2>2. CASE i # m
    <3>1. i \in 1 .. Len(items[w]) /\ items'[w][i] = items[w][i] /\ i >= n[w]
      BY <1>2, <1>3, <2>2
    <3>2. ItemWritten(log, items[w][i], tx[w], TypeNow(w, i), TsNow(w, i))
      BY <1>6, <3>1 DEF ItemsWritten
    <3>3. KeepsItem(l, items[w][i])
      BY <1>7, <3>1
    <3>. QED  BY <1>10, <3>1, <3>2, <3>3 DEF KeepsItem
  <2>. QED  BY <2>1, <2>2
<1>. QED  BY <1>5, <1>8, <1>11, WrittenNext

(* WorkersWrote is kept by transactions: what is written,                    *)
LEMMA TransactionItems ==
    ASSUME Sound, Sound', PartsInv, HistoryInv, NEW w \in Workers, Transaction(w)
    PROVE  ItemsWritten'
<1>1. ASSUME NEW k \in Keys, Write(w, k) PROVE ItemsWritten'
  BY <1>1, WriteWrites
<1>2. CASE Stamp(w)
  BY <1>2, StampWrites
<1>3. CASE Link(w)
  BY <1>3, LinkWrites
<1>4. CASE PutIndexItem(w)
  BY <1>4, PutWrites
<1>5. CASE AddCommit(w) \/ Abort(w)
  BY <1>5, MarkItems
<1>6. CASE QuietMoves(w)
  BY <1>6, QuietItems
<1>. QED  BY <1>1, <1>2, <1>3, <1>4, <1>5, <1>6 DEF Transaction, Commit, QuietMoves

LEMMA ApartStays ==
    ASSUME ItemsApart, UNCHANGED hashOf, \A v \in Workers : items'[v] = items[v] \/ items'[v] = <<>>
    PROVE  ItemsApart'
<1>1. \A x : PlaceOf(x)' = PlaceOf(x)
  BY DEF PlaceOf
<1>2. \A v \in Workers : \A i \in 1 .. Len(items'[v]) : items'[v] = items[v]
  <2>1. ASSUME NEW v \in Workers, items'[v] = <<>> PROVE 1 .. Len(items'[v]) = {}
    BY <2>1
  <2>. QED  BY <2>1
<1>3. ASSUME NEW v \in Workers, NEW i \in 1 .. Len(items'[v]), NEW j \in 1 .. Len(items'[v]), i # j
      PROVE  PlaceOf(items'[v][i]) # PlaceOf(items'[v][j])
  <2>1. items'[v] = items[v]
    BY <1>2
  <2>. QED  BY <1>3, <2>1 DEF ItemsApart
<1>4. ASSUME NEW u \in Workers, NEW v \in Workers, NEW i \in 1 .. Len(items'[u]), NEW j \in 1 .. Len(items'[v]),
             items'[u][i].key = items'[v][j].key
      PROVE  u = v /\ i = j
  <2>1. items'[u] = items[u] /\ items'[v] = items[v]
    BY <1>2
  <2>. QED  BY <1>4, <2>1, KeysApart
<1>. QED  BY <1>3, <1>4, <1>1 DEF ItemsApart, PlaceOf

(* what is apart,                                                            *)
LEMMA TransactionApart ==
    ASSUME Sound, HistoryInv, NEW w \in Workers, Transaction(w)
    PROVE  ItemsApart'
<1>1. UNCHANGED hashOf /\ Others(w) /\ Up
  BY TransactionMoves
<1>2. ItemsApart /\ items = [v \in Workers |-> items[v]]
  BY <1>1 DEF HistoryInv, WorkersWrote, Sound, HeadersTyped
<1>3. ASSUME NEW k \in Keys, Write(w, k) PROVE ItemsApart'
  BY <1>3, WriteApart
<1>4. CASE items'[w] = items[w] \/ items'[w] = <<>>
  BY <1>1, <1>2, <1>4, ApartStays DEF Others
<1>5. CASE Begin(w) \/ CountPage(w) \/ Commit(w) \/ Abort(w)
  BY <1>2, <1>4, <1>5 DEF Begin, CountPage, WriteBackup, WriteHeader, Commit, CommitLock, Stamp, Link,
     NewIndexPage, PutIndexItem, AddCommit, FlushCommit, Unlock, Abort
<1>6. ASSUME NEW h \in Hashes, Repair(w, h) PROVE ItemsApart'
  BY <1>4, <1>6 DEF Repair, workerVars
<1>. QED  BY <1>3, <1>5, <1>6 DEF Transaction

FirstKnown(w) ==
    /\ At(w, "link") => ~Current(w).first
    /\ At(w, "index") \/ (Growing(w) /\ Committing(w)) => Current(w).first

(* and who knows whether a key is new;                                       *)
LEMMA TransactionFirsts ==
    ASSUME Sound, HistoryInv, NEW w \in Workers, Transaction(w)
    PROVE  FirstsKnown'
<1>1. UNCHANGED hashOf /\ Others(w) /\ Up
  BY TransactionMoves
<1>2. \A v \in Workers : FirstKnown(v)
  BY <1>1 DEF HistoryInv, WorkersWrote, FirstsKnown, FirstKnown
<1>3. CountersInv
  BY DEF Sound
<1>4. wpc \in [Workers -> WorkerPlaces] /\ n \in [Workers -> Nat]
  BY <1>3, LogFacts
<1>5. ASSUME NEW v \in Workers, v # w PROVE FirstKnown(v)'
  <2>1. wpc'[v] = wpc[v] /\ n'[v] = n[v] /\ items'[v] = items[v]
    BY <1>1, <1>5 DEF Others
  <2>. QED  BY <1>2, <2>1 DEF FirstKnown, At, Growing, Committing, Current
<1>. SUFFICES FirstKnown(w)'
  <2>1. ASSUME FirstKnown(w)' PROVE \A v \in Workers : FirstKnown(v)'
    BY <1>5, <2>1
  <2>. QED  BY <2>1 DEF FirstsKnown, FirstKnown
<1>6. CASE wpc'[w] \notin {"link", "index", "backup", "header"}
  BY <1>6 DEF FirstKnown, At, Growing
<1>7. CASE n'[w] = 0 /\ wpc'[w] \notin {"link", "index"}
  BY <1>7 DEF FirstKnown, At, Committing
<1>8. CASE Stamp(w)
  <2>1. n' = n /\ items' = items /\ wpc'[w] = IF Current(w).first THEN "index" ELSE "link"
    BY <1>4, <1>8 DEF Stamp, Goto
  <2>2. Current(w)' = Current(w)
    BY <2>1 DEF Current, Committing
  <2>. QED  BY <2>1, <2>2 DEF FirstKnown, At, Growing
<1>9. CASE NewIndexPage(w) \/ WriteBackup(w) \/ WriteHeader(w)
  <2>1. n' = n /\ items' = items /\ (At(w, "index") \/ Growing(w))
    BY <1>9 DEF NewIndexPage, WriteBackup, WriteHeader, At, Growing
  <2>2. Current(w)' = Current(w) /\ Committing(w)' = Committing(w)
    BY <2>1 DEF Current, Committing
  <2>3. wpc'[w] # "link" /\ (wpc'[w] = "index" => Committing(w))
    BY <1>4, <1>9 DEF NewIndexPage, WriteBackup, WriteHeader, Goto
  <2>4. Committing(w) => Current(w).first
    BY <1>2, <2>1 DEF FirstKnown
  <2>. QED  BY <2>2, <2>3, <2>4 DEF FirstKnown, At
<1>10. CASE Begin(w) \/ CommitLock(w) \/ AddCommit(w) \/ FlushCommit(w) \/ Unlock(w) \/ Abort(w)
  <2>1. wpc'[w] \notin {"link", "index", "backup", "header"}
    BY <1>4, <1>10 DEF Begin, CommitLock, AddCommit, FlushCommit, Unlock, Abort, Goto
  <2>. QED  BY <1>6, <2>1
<1>11. CASE Link(w) \/ PutIndexItem(w)
  <2>1. wpc'[w] \notin {"link", "index", "backup", "header"}
    BY <1>4, <1>11 DEF Link, PutIndexItem, NextItem, Goto
  <2>. QED  BY <1>6, <2>1
<1>12. ASSUME NEW h \in Hashes, Repair(w, h) PROVE FirstKnown(w)'
  BY <1>6, <1>12 DEF Repair, workerVars, At
<1>13. ASSUME NEW k \in Keys, Write(w, k) PROVE FirstKnown(w)'
  <2>1. At(w, "run") /\ n' = n /\ n[w] \in Nat
    BY <1>4, <1>13 DEF Write
  <2>2. n[w] = 0
    BY <1>3, <2>1 DEF CountersInv, WorkersOK, At, Committing
  <2>3. PICK a, p, page, s : WriteSlot(w, k, a, p, page, s)
    BY <1>13, WriteFinds
  <2>4. wpc'[w] \in {"run", "backup"}
    BY <1>4, <2>1, <2>3 DEF WriteSlot, OldPage, NewPage, Goto, At
  <2>. QED  BY <1>7, <2>1, <2>2, <2>4
<1>. QED  BY <1>8, <1>9, <1>10, <1>11, <1>12, <1>13 DEF Transaction, Commit, CountPage

LEMMA IdleWrote ==
    ASSUME \A v \in Workers : items'[v] = <<>> /\ wpc'[v] = "idle"
    PROVE  WorkersWrote'
<1>1. PICK l : l = log'
  OBVIOUS
<1>2. \A v \in Workers : WrittenIn(v, l)'
  BY NoItemsWritten
<1>3. ItemsWritten'
  BY <1>1, <1>2, WrittenNext
<1>4. FirstsKnown'
  BY DEF FirstsKnown, At, Growing
<1>5. \A v \in Workers : 1 .. Len(items'[v]) = {}
  <2>1. ASSUME NEW v \in Workers PROVE 1 .. Len(items'[v]) = {}
    <3>1. items'[v] = <<>>
      OBVIOUS
    <3>. QED  BY <3>1
  <2>. QED  BY <2>1
<1>6. ItemsApart'
  BY <1>5 DEF ItemsApart
<1>. QED  BY <1>3, <1>4, <1>6 DEF WorkersWrote

LEMMA SameWrote ==
    ASSUME WorkersWrote, UNCHANGED <<hashOf, log, maxTs, wpc, tx, items, n, pc>>
    PROVE  WorkersWrote'
<1>1. SUFFICES ASSUME Up
               PROVE  (ItemsWritten /\ FirstsKnown /\ ItemsApart)'
  BY DEF WorkersWrote, Up
<1>2. ItemsWritten /\ FirstsKnown /\ ItemsApart
  BY <1>1 DEF WorkersWrote
<1>3. PICK l : l = log'
  OBVIOUS
<1>4. \A i : \A v \in Workers : IsStamped(v, i)' = IsStamped(v, i)
  BY DEF IsStamped, Committing
<1>5. \A y : KeepsItem(l, y)
  BY <1>3, KeepsSame
<1>6. ASSUME NEW v \in Workers PROVE WrittenIn(v, l)'
  <2>1. \A i \in 1 .. Len(items[v]) : i >= n'[v] =>
            i >= n[v] /\ IsStamped(v, i)' = IsStamped(v, i) /\ KeepsItem(l, items[v][i])
    BY <1>4, <1>5
  <2>. QED  BY <1>2, <2>1, WorkerKeeps
<1>7. ItemsWritten'
  BY <1>3, <1>6, WrittenNext
<1>8. FirstsKnown'
  BY <1>2 DEF FirstsKnown, At, Growing, Committing, Current
<1>9. ItemsApart'
  BY <1>2, ApartStays
<1>. QED  BY <1>7, <1>8, <1>9

(* and by all else.                                                          *)
LEMMA RestWrote ==
    ASSUME Sound, HistoryInv, Recover \/ CleanPool \/ Checkpoint \/ Fault \/ UNCHANGED vars
    PROVE  WorkersWrote'
<1>1. CASE (\A v \in Workers : wpc[v] = "idle") /\ UNCHANGED <<wpc, items>>
  <2>1. \A v \in Workers : items[v] = <<>>
    BY <1>1 DEF HistoryInv, IdleEmpty, At
  <2>. QED  BY <1>1, <2>1, IdleWrote
<1>2. WorkersOK
  BY DEF Sound, CountersInv
<1>3. CASE Recover
  <2>1. ~Up /\ UNCHANGED <<wpc, items>>
    BY <1>3 DEF Recover, Up, workerVars
  <2>. QED  BY <1>1, <1>2, <2>1 DEF WorkersOK
<1>4. CASE Checkpoint
  <2>1. UNCHANGED <<wpc, items>>
    BY <1>4 DEF Checkpoint, CheckpointBegin, CheckpointPages, CheckpointLog, CheckpointFlush, workerVars
  <2>2. \A v \in Workers : wpc[v] = "idle"
    BY <1>2, <1>4 DEF Checkpoint, CheckpointBegin, CheckpointPages, CheckpointLog, CheckpointFlush, WorkersOK, At
  <2>. QED  BY <1>1, <2>1, <2>2
<1>5. CASE Fault
  <2>1. pc' = "down"
    BY <1>5 DEF Fault, Crash, TornPage, TornHeader, Stop
  <2>. QED  BY <2>1 DEF WorkersWrote, Up
<1>6. CASE CleanPool \/ UNCHANGED vars
  <2>1. UNCHANGED <<hashOf, log, maxTs, wpc, tx, items, n, pc>>
    BY <1>6 DEF CleanPool, FlushLogs, Log!Flush, counters, workerVars, vars, logVars
  <2>. QED  BY <2>1, SameWrote DEF HistoryInv
<1>. QED  BY <1>3, <1>4, <1>5, <1>6

LEMMA MarkLogs ==
    ASSUME Sound, HistoryInv, UNCHANGED hashOf, NEW x, AddLog(x), ItemFits(log, x) /\ VersionFits(log, x)
    PROVE  LogHistory'
<1>1. PICK l : l = log' /\ IsGrown(log, l, x)
  BY OneGrown DEF Sound
<1>2. LogHistory
  BY DEF HistoryInv, LogHistory
<1>. QED  BY <1>1, <1>2, GrowLog

(* The log, pages and files, for all actions of transactions                 *)
LEMMA TransactionFiles ==
    ASSUME Sound, HistoryInv, NEW w \in Workers, Transaction(w)
    PROVE  LogHistory' /\ Files'
<1>1. UNCHANGED <<hashOf, pc, cpc>> /\ Up /\ cpc = "idle"
  BY TransactionMoves
<1>2. ASSUME NEW k \in Keys, Write(w, k) PROVE LogHistory' /\ Files'
  <2>1. PICK a, p, page, s : WriteSlot(w, k, a, p, page, s) /\ WriteTakes(w, k, p, page, s)
    BY <1>2, WriteFinds
  <2>2. PICK x, b, y, l : TwoChanges(x, b, y, l) /\ WriteItems(w, k, p, page, s, x, y)
    BY <1>1, <2>1, WriteLogs
  <2>3. Files'
    BY <1>1, <2>1, <2>2, WriteFiles
  <2>. QED  BY <2>2, <2>3 DEF TwoChanges
<1>3. CASE PutIndexItem(w)
  <2>1. PICK p, s, x, b, y, l : TwoChanges(x, b, y, l) /\ PutItems(w, p, s, x, y)
    BY <1>1, <1>3, PutLogs
  <2>2. Files'
    BY <1>1, <1>3, <2>1, PutFiles
  <2>. QED  BY <2>1, <2>2 DEF TwoChanges
<1>4. CASE Stamp(w) \/ Link(w)
  <2>1. UNCHANGED <<durable, disk>>
    BY <1>4 DEF Stamp, Link, Change, AddLog, Log!Add, fileVars
  <2>2. \E x, l : OneChange(x, l) /\ x.type \in {"DATA_RECORD_UPDATE_LOG", "INDEX_ITEM_UPDATE_LOG"}
    <3>1. CASE Stamp(w)
      BY <1>1, <3>1, StampLogs DEF StampIs, IsChange
    <3>2. CASE Link(w)
      BY <1>1, <3>2, LinkLogs DEF LinkIs, IsChange
    <3>. QED  BY <1>4, <3>1, <3>2
  <2>3. PICK x, l : OneChange(x, l) /\ x.type \in {"DATA_RECORD_UPDATE_LOG", "INDEX_ITEM_UPDATE_LOG"}
    BY <2>2
  <2>4. x.type \notin NoChange /\ x.type # "INDEX_SLOT_LOG"
    BY <2>3 DEF NoChange, Ends
  <2>5. Files'
    BY <1>1, <2>1, <2>3, <2>4, ChangeFiles
  <2>. QED  BY <2>3, <2>5 DEF OneChange
<1>5. CASE AddCommit(w)
  <2>1. PICK x : x = [MarkItem("COMMIT_LOG", tx[w]) EXCEPT !.maxTs = maxTs + 1]
    OBVIOUS
  <2>2. x.type = "COMMIT_LOG" /\ x.tx = tx[w] /\ x.maxTs = maxTs + 1 /\ x.type \in Ends
    BY <2>1 DEF MarkItem, Item, Ends
  <2>3. AddLog(x) /\ At(w, "commit") /\ UNCHANGED <<disk, mem>>
    BY <1>5, <2>1 DEF AddCommit, fileVars
  <2>4. ItemFits(log, x) /\ VersionFits(log, x)
    BY <2>2, <2>3, CommitFits
  <2>5. LogHistory'
    BY <1>1, <2>3, <2>4, MarkLogs
  <2>6. Files'
    BY <1>1, <2>2, <2>3, MarkFiles
  <2>. QED  BY <2>5, <2>6
<1>6. CASE Abort(w)
  <2>1. PICK x : x = MarkItem("ABORT_LOG", tx[w])
    OBVIOUS
  <2>2. x.type = "ABORT_LOG" /\ x.type \in Ends
    BY <2>1 DEF MarkItem, Item, Ends
  <2>3. AddLog(x) /\ UNCHANGED <<disk, mem>>
    BY <1>6, <2>1 DEF Abort, fileVars
  <2>4. ItemFits(log, x) /\ VersionFits(log, x)
    BY <1>1, <2>2, AbortFits
  <2>5. LogHistory'
    BY <1>1, <2>3, <2>4, MarkLogs
  <2>6. Files'
    BY <1>1, <2>2, <2>3, MarkFiles
  <2>. QED  BY <2>5, <2>6
<1>7. CASE NewIndexPage(w)
  <2>1. UNCHANGED log
    BY <1>7 DEF NewIndexPage, logVars
  <2>. QED  BY <1>1, <1>7, <2>1, SameLog, NewIndexFiles
<1>8. CASE FlushCommit(w)
  <2>1. UNCHANGED <<log, mem, disk>> /\ durable' = Len(log)
    BY <1>8 DEF FlushCommit, FlushLogs, Log!Flush, fileVars
  <2>. QED  BY <1>1, <2>1, SameLog, FlushFiles
<1>9. CASE UNCHANGED <<log, durable, mem, disk>>
  BY <1>1, <1>9, SameLog, SameFiles
<1>10. CASE Begin(w) \/ CountPage(w) \/ CommitLock(w) \/ Unlock(w)
  BY <1>9, <1>10 DEF Begin, CountPage, WriteBackup, WriteHeader, CommitLock, Unlock, logVars, fileVars
<1>11. ASSUME NEW h \in Hashes, Repair(w, h) PROVE LogHistory' /\ Files'
  BY <1>9, <1>11 DEF Repair, logVars
<1>. QED  BY <1>2, <1>3, <1>4, <1>5, <1>6, <1>7, <1>8, <1>10, <1>11 DEF Transaction, Commit

(* and for all else.                                                         *)
LEMMA RestFiles ==
    ASSUME Sound, HistoryInv, Recover \/ CleanPool \/ Checkpoint \/ Fault \/ UNCHANGED vars
    PROVE  LogHistory' /\ Files'
<1>1. CASE Recover
  <2>1. UNCHANGED <<hashOf, log>>
    BY <1>1 DEF Recover
  <2>. QED  BY <1>1, <2>1, SameLog, RecoverFiles
<1>2. CASE CleanPool
  <2>1. UNCHANGED <<hashOf, log, mem, pc>> /\ Up /\ cpc' # "log" /\ durable' = Len(log) /\ disk' = mem
    BY <1>2 DEF CleanPool, FlushLogs, Log!Flush
  <2>. QED  BY <2>1, SameLog, FlushFiles
<1>3. CASE CheckpointBegin
  <2>1. UNCHANGED <<hashOf, log, durable, mem, disk, pc>> /\ cpc' # "log"
    BY <1>3 DEF CheckpointBegin, logVars, fileVars
  <2>. QED  BY <2>1, SameLog, SameFiles
<1>4. CASE CheckpointPages
  <2>1. UNCHANGED <<hashOf, log>>
    BY <1>4 DEF CheckpointPages, logVars
  <2>. QED  BY <1>4, <2>1, SameLog, CheckpointPagesFiles
<1>5. CASE CheckpointLog
  <2>1. PICK x : x = CheckpointItem
    OBVIOUS
  <2>2. AddLog(x) /\ UNCHANGED hashOf /\ cpc # "idle"
    BY <1>5, <2>1 DEF CheckpointLog
  <2>3. x.type = "CHECKPOINT_LOG"
    BY <2>1 DEF CheckpointItem, MarkItem, Item
  <2>4. ItemFits(log, x) /\ VersionFits(log, x)
    BY <2>2, <2>3, CheckpointFits
  <2>. QED  BY <1>5, <2>2, <2>4, MarkLogs, CheckpointLogFiles
<1>6. CASE CheckpointFlush
  <2>1. UNCHANGED <<hashOf, log, mem, pc, disk>> /\ cpc = "flush log" /\ cpc' # "log" /\ durable' = Len(log)
    BY <1>6 DEF CheckpointFlush, FlushLogs, Log!Flush, fileVars
  <2>2. Up
    BY <2>1 DEF Sound, CountersInv, WorkersOK
  <2>. QED  BY <2>1, <2>2, SameLog, FlushFiles
<1>7. CASE Fault
  BY <1>7, FaultFiles
<1>8. CASE UNCHANGED vars
  <2>1. UNCHANGED <<hashOf, log, durable, mem, disk, pc, cpc>>
    BY <1>8 DEF vars, logVars, fileVars
  <2>. QED  BY <2>1, SameLog, SameFiles
<1>. QED  BY <1>1, <1>2, <1>3, <1>4, <1>5, <1>6, <1>7, <1>8 DEF Checkpoint

LEMMA ZeroBits == \A p \in Pages : Zero(p)[Bitmap] = {}
<1>1. ASSUME NEW p \in Pages PROVE Bitmap \in Offsets(p)
  BY OffsetsNat
<1>. QED  BY <1>1 DEF Zero, Bitmap

(* HistoryInv, at first                                                      *)
LEMMA HistoryInit == Init => HistoryInv
<1>. SUFFICES ASSUME Init PROVE HistoryInv
  OBVIOUS
<1>1. log = <<>> /\ durable = 0 /\ Len(log) = 0 /\ pc = "down" /\ ~Up /\ cpc = "idle" /\ mem = disk
  BY DEF Init, Log!Init, Up
<1>2. \A w \in Workers : wpc[w] = "idle" /\ items[w] = <<>>
  BY DEF Init
<1>3. 1 .. Len(log) = {} /\ DOMAIN log = {}
  BY <1>1
<1>4. ChangesOf(log) = {} /\ SlotsOf(log) = {} /\ LinksOf(log) = {}
  BY <1>3 DEF ChangesOf, SlotsOf, LinksOf
<1>5. ChangesOK(log) /\ VersionsOK(log)
  BY <1>4 DEF ChangesOK, BitmapsGrow, OneKey, VersionsOK
<1>6. \A p \in Pages : disk[p][Bitmap] = {}
  BY ZeroBits DEF Init
<1>7. \A h \in Hashes : IndexPage(h) \in Pages
  BY DEF Pages
<1>8. DiskShown(log, disk, durable)
  <2>1. BitsTyped(disk)
    BY <1>6 DEF BitsTyped
  <2>2. IndexShown(log, disk, durable)
    BY <1>6, <1>7 DEF IndexShown
  <2>. QED  BY <1>4, <2>1, <2>2 DEF DiskShown, DiskCells, DiskBits
<1>9. PagesUp /\ DiskOK
  BY <1>1, <1>8 DEF PagesUp, DiskOK
<1>10. PagesCounted
  BY <1>2, <1>4 DEF PagesCounted, DataCounted, IndexCounted, CountingOK, At, Growing
<1>11. Lasting
  BY <1>3 DEF Lasting
<1>12. WorkersWrote /\ CommittingNow /\ ChangesUnended /\ IdleEmpty
  BY <1>1, <1>2 DEF WorkersWrote, CommittingNow, ChangesUnended, IdleEmpty
<1>. QED  BY <1>5, <1>9, <1>10, <1>11, <1>12 DEF HistoryInv

(* and after every step.                                                     *)
LEMMA TransactionHistory ==
    ASSUME Sound, Sound', HistoryInv, NEW w \in Workers, Transaction(w)
    PROVE  HistoryInv'
<1>1. LogHistory' /\ Files'
  BY TransactionFiles
<1>2. Lasting' /\ PagesCounted'
  BY TransactionLasting, TransactionCounted
<1>3. WorkersWrote'
  BY TransactionItems, TransactionFirsts, TransactionApart DEF WorkersWrote, Sound
<1>4. IdleEmpty'
  BY IdleEmptyStays DEF Next
<1>5. CommittingNow' /\ ChangesUnended'
  BY TransactionCommitting, TransactionUnended DEF Sound
<1>. QED  BY <1>1, <1>2, <1>3, <1>4, <1>5 DEF HistoryInv, LogHistory, Files

LEMMA RestHistory ==
    ASSUME Sound, Sound', HistoryInv,
           Recover \/ CleanPool \/ Checkpoint \/ Fault \/ UNCHANGED vars
    PROVE  HistoryInv'
<1>1. LogHistory' /\ Files'
  BY RestFiles
<1>2. Lasting' /\ PagesCounted'
  BY RestLasting, RestCounted DEF Sound
<1>3. WorkersWrote'
  BY RestWrote
<1>4. IdleEmpty'
  BY IdleEmptyStays DEF Next
<1>5. CommittingNow' /\ ChangesUnended'
  BY RestCommitting, RestUnended
<1>. QED  BY <1>1, <1>2, <1>3, <1>4, <1>5 DEF HistoryInv, LogHistory, Files

(* The inductive invariant.  CountersInv, PartsInv, StoreTyped and HeadersTyped*)
(* of RecoveryProofs hold beside it.                                         *)
THEOREM HistoryInvariant == Spec => []HistoryInv
<1>1. Init => HistoryInv
  BY HistoryInit
<1>2. Sound /\ Sound' /\ HistoryInv /\ [Next]_vars => HistoryInv'
  <2>1. SUFFICES ASSUME Sound, Sound', HistoryInv, [Next]_vars PROVE HistoryInv'
    OBVIOUS
  <2>2. ASSUME NEW w \in Workers, Transaction(w) PROVE HistoryInv'
    BY <2>1, <2>2, TransactionHistory
  <2>3. CASE Recover \/ CleanPool \/ Checkpoint \/ Fault \/ UNCHANGED vars
    BY <2>1, <2>3, RestHistory
  <2>. QED  BY <2>1, <2>2, <2>3 DEF Next
<1>3. CountersInv /\ PartsInv /\ StoreTyped /\ HeadersTyped => Sound
  BY DEF Sound
<1>. QED  BY <1>1, <1>2, <1>3, CountersInvariant, PartsInvariant, StoreInvariant, HeadersInvariant, PTL DEF Spec

(* After any crashes a program that is up finds for every key the versions    *)
(* that the log tells of, and no others: one index item that points at the   *)
(* newest, each in a taken slot of a page that is counted, with the timestamp*)
(* of its commit, and pointing at the one before.                            *)
THEOREM HistoryAlwaysRestored == Spec => []HistoryRestored
<1>1. CountersInv /\ PartsInv /\ StoreTyped /\ HistoryInv => HistoryRestored
  BY HistoryHolds
<1>. QED  BY <1>1, CountersInvariant, PartsInvariant, StoreInvariant, HistoryInvariant, PTL

===============================================================================
