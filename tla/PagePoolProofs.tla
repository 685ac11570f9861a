----------------------------- MODULE PagePoolProofs ----------------------------
(***************************************************************************)
(* The data pool for any number of threads, pages, files and frames: what   *)
(* is in it stays where its users have it, is counted right, and loses no    *)
(* change; the log comes before the data; and no assertion of get_page or    *)
(* clean_pool fails as long as the pool has room.                           *)
(***************************************************************************)
EXTENDS PagePool, FiniteSetTheorems, FunctionTheorems, SequenceTheorems, TLAPS

PinnedPages(t) == {p \in Pages : pin[t][p] # 0}
ReadersOf(i) == {t \in Threads : pin[t][frames[i]] = i}
Changing(p) == {t \in Threads : work[t][p] = "changed"}
AllDone(p) == \A t \in Threads : work[t][p] = "done"

Cleaning == {"clean", "flush log", "sweep"}

Listed(s, i) == \E k \in DOMAIN s : s[k] = i
Once(s) == \A k, m \in DOMAIN s : s[k] = s[m] => k = m

(* The mutex is held as long as get_page is under way, for a page that is    *)
(* not in the pool.                                                         *)
HolderOK ==
    /\ mutex = Nobody => job = NoJob
    /\ mutex # Nobody => /\ ~At("none")
                         /\ job.page \in Pages /\ ~Resident(job.page)
    /\ job.at \in Cleaning => job.back \in {"file", "frame"}
    /\ At("file") => job.back # "frame"
    /\ At("sweep") => job.cleaned < job.next

PinsBounded ==
    \A t \in Threads :
        /\ Cardinality(PinnedPages(t)) <= MaxPins
        /\ mutex = t => Cardinality(PinnedPages(t)) < MaxPins

ReadersCounted ==
    \A i \in Frames : frames[i] # Free => readers[i] = Cardinality(ReadersOf(i))

FramesDistinct ==
    \A i, j \in Frames : frames[i] # Free /\ frames[j] = frames[i] => j = i

ListOK ==
    /\ \A i \in Frames : frames[i] # Free <=> Listed(lru, i)
    /\ Once(lru)

FilesOK ==
    /\ \A f \in Files : nPages[f] = Cardinality(PagesOf(f)) + OnItsWay(f)
    /\ open = {f \in Files : nPages[f] > 0}
    /\ Cardinality(open) <= MaxFds

(* A change is finished, its log item added and its page marked, before the  *)
(* page is released.                                                        *)
WorkOK ==
    /\ \A t \in Threads, p \in Pages : work[t][p] # "done" => pin[t][p] # 0
    /\ \A t \in Threads, p \in Headers : work[t][p] # "logged"

(* A frame is ahead of the log by the changes under way; the file is behind  *)
(* only while the page is dirty or soon will be.                            *)
ContentsOK ==
    /\ \A i \in Frames, p \in Pages \ Headers : frames[i] = p =>
          /\ buf[i] = logged[p] + Cardinality(Changing(p))
          /\ ~dirty[i] /\ AllDone(p) => disk[p] = logged[p]
    /\ \A p \in Pages \ Headers : ~Resident(p) => disk[p] = logged[p]
    /\ \A i \in Frames, p \in Headers : frames[i] = p /\ AllDone(p) => buf[i] = disk[p]

(* The sweep leaves behind only pages in use, and meets no page whose log    *)
(* items are not flushed.                                                   *)
SweepOK ==
    At("sweep") => \A i \in Frames : frames[i] # Free /\ readers[i] = 0 =>
        /\ job.next <= i
        /\ frames[i] \notin Headers => durable[frames[i]] = logged[frames[i]]

(* Why the pool is cleaned, until a page has gone.                          *)
WhyCleaned ==
    \/ Cardinality(open) >= MaxFds
    \/ job.back = "frame" /\ FreeFrames = {}

CauseOK ==
    \/ At("clean") \/ At("flush log")
    \/ At("sweep") /\ job.cleaned = 0
    => WhyCleaned

PoolInv ==
    /\ TypeOK
    /\ HolderOK
    /\ PinsStay /\ PinsBounded
    /\ ReadersCounted /\ FramesDistinct /\ ListOK /\ FilesOK
    /\ WorkOK /\ ContentsOK
    /\ SweepOK /\ CauseOK
    /\ NeverExhausted

-------------------------------------------------------------------------------
(* The LRU list: a frame is put at its end, or taken out.                    *)
LEMMA AppendOnce ==
    ASSUME NEW s \in Seq(Frames), Once(s), NEW i \in Frames, ~Listed(s, i)
    PROVE  /\ Append(s, i) \in Seq(Frames) /\ Once(Append(s, i))
           /\ \A j \in Frames : Listed(Append(s, i), j) <=> j = i \/ Listed(s, j)
<1>. DEFINE a == Append(s, i)
<1>1. /\ Len(s) \in Nat /\ DOMAIN s = 1 .. Len(s)
      /\ a \in Seq(Frames) /\ DOMAIN a = 1 .. Len(s) + 1
      /\ \A k \in 1 .. Len(s) : a[k] = s[k]
      /\ a[Len(s) + 1] = i
  OBVIOUS
<1>. HIDE DEF a
<1>2. Once(a)
  BY <1>1 DEF Once, Listed
<1>3. ASSUME NEW j \in Frames PROVE Listed(a, j) <=> j = i \/ Listed(s, j)
  <2>1. Listed(a, j) => j = i \/ Listed(s, j)
    BY <1>1 DEF Listed
  <2>2. ASSUME Listed(s, j) PROVE Listed(a, j)
    <3>1. PICK k \in DOMAIN s : s[k] = j
      BY <2>2 DEF Listed
    <3>2. k \in DOMAIN a /\ a[k] = j
      BY <1>1, <3>1
    <3>. QED  BY <3>2 DEF Listed
  <2>3. Listed(a, i)
    <3>1. Len(s) + 1 \in DOMAIN a
      BY <1>1
    <3>. QED  BY <1>1, <3>1 DEF Listed
  <2>. QED  BY <2>1, <2>2, <2>3
<1>. QED  BY <1>1, <1>2, <1>3 DEF a

LEMMA ConcatAt ==
    ASSUME NEW S, NEW s \in Seq(S), NEW t \in Seq(S), NEW m \in 1 .. Len(s) + Len(t)
    PROVE  (s \o t)[m] = IF m <= Len(s) THEN s[m] ELSE t[m - Len(s)]
OBVIOUS

LEMMA RemoveOnce ==
    ASSUME NEW s \in Seq(Frames), Once(s), NEW k \in DOMAIN s
    PROVE  /\ RemoveAt(s, k) \in Seq(Frames) /\ Once(RemoveAt(s, k))
           /\ \A j \in Frames : Listed(RemoveAt(s, k), j) <=> j # s[k] /\ Listed(s, j)
<1>. DEFINE r == RemoveAt(s, k)
<1>1. /\ Len(s) \in Nat /\ DOMAIN s = 1 .. Len(s)
      /\ \A m \in 1 .. Len(s) : s[m] \in Frames
  OBVIOUS
<1>2. /\ SubSeq(s, 1, k - 1) \in Seq(Frames) /\ Len(SubSeq(s, 1, k - 1)) = k - 1
      /\ \A m \in 1 .. k - 1 : SubSeq(s, 1, k - 1)[m] = s[m]
      /\ SubSeq(s, k + 1, Len(s)) \in Seq(Frames)
      /\ Len(SubSeq(s, k + 1, Len(s))) = Len(s) - k
      /\ \A m \in 1 .. Len(s) - k : SubSeq(s, k + 1, Len(s))[m] = s[m + k]
  BY <1>1, SMTT(60)
<1>3. /\ r \in Seq(Frames) /\ DOMAIN r = 1 .. Len(s) - 1
      /\ \A m \in 1 .. Len(s) - 1 : r[m] = IF m < k THEN s[m] ELSE s[m + 1]
  <2>. DEFINE s1 == SubSeq(s, 1, k - 1)
              s2 == SubSeq(s, k + 1, Len(s))
  <2>1. r = s1 \o s2
    BY DEF RemoveAt
  <2>2. /\ s1 \in Seq(Frames) /\ Len(s1) = k - 1
        /\ s2 \in Seq(Frames) /\ Len(s2) = Len(s) - k
        /\ \A m \in 1 .. k - 1 : s1[m] = s[m]
        /\ \A m \in 1 .. Len(s) - k : s2[m] = s[m + k]
    BY <1>2
  <2>. HIDE DEF s1, s2, r
  <2>3. /\ Len(s) \in Nat /\ k \in 1 .. Len(s)
        /\ Len(s1) = k - 1 /\ Len(s1) + Len(s2) = Len(s) - 1
    BY <1>1, <2>2
  <2>4. r \in Seq(Frames) /\ Len(r) = Len(s) - 1 /\ DOMAIN r = 1 .. Len(s) - 1
    BY <2>1, <2>2, <2>3, ConcatProperties, SMTT(60)
  <2>5. ASSUME NEW m \in 1 .. Len(s) - 1
        PROVE  r[m] = IF m < k THEN s[m] ELSE s[m + 1]
    <3>1. r[m] = IF m <= Len(s1) THEN s1[m] ELSE s2[m - Len(s1)]
      <4>1. m \in 1 .. Len(s1) + Len(s2)
        BY <2>3
      <4>2. (s1 \o s2)[m] = IF m <= Len(s1) THEN s1[m] ELSE s2[m - Len(s1)]
        BY <2>2, <4>1, ConcatAt
      <4>. QED  BY <2>1, <4>2
    <3>2. CASE m < k
      <4>1. m \in 1 .. k - 1 /\ m <= Len(s1)
        BY <2>2, <2>3, <3>2
      <4>. QED  BY <2>2, <3>1, <3>2, <4>1
    <3>3. CASE ~(m < k)
      <4>. DEFINE q == m - Len(s1)
      <4>1. q \in 1 .. Len(s) - k /\ q + k = m + 1 /\ ~(m <= Len(s1))
        BY <2>3, <3>3, SMTT(60)
      <4>. HIDE DEF q
      <4>2. s2[q] = s[q + k]
        BY <2>2, <4>1
      <4>3. r[m] = s2[q]
        BY <3>1, <4>1 DEF q
      <4>. QED  BY <3>3, <4>1, <4>2, <4>3
    <3>. QED  BY <3>2, <3>3
  <2>. QED  BY <2>4, <2>5
<1>. HIDE DEF r
<1>4. Once(r)
  <2>. SUFFICES ASSUME NEW m \in DOMAIN r, NEW l \in DOMAIN r, r[m] = r[l] PROVE m = l
    BY DEF Once
  <2>1. PICK m1 \in DOMAIN s : m1 = (IF m < k THEN m ELSE m + 1) /\ r[m] = s[m1]
    BY <1>1, <1>3
  <2>2. PICK l1 \in DOMAIN s : l1 = (IF l < k THEN l ELSE l + 1) /\ r[l] = s[l1]
    BY <1>1, <1>3
  <2>3. m1 = l1
    BY <2>1, <2>2 DEF Once
  <2>. QED  BY <1>1, <1>3, <2>1, <2>2, <2>3
<1>5. ASSUME NEW j \in Frames PROVE Listed(r, j) <=> j # s[k] /\ Listed(s, j)
  <2>1. ASSUME Listed(r, j) PROVE j # s[k] /\ Listed(s, j)
    <3>1. PICK m \in DOMAIN r : r[m] = j
      BY <2>1 DEF Listed
    <3>2. PICK l \in DOMAIN s : l # k /\ s[l] = j
      BY <1>1, <1>3, <3>1
    <3>. QED  BY <3>2 DEF Listed, Once
  <2>2. ASSUME j # s[k], Listed(s, j) PROVE Listed(r, j)
    <3>1. PICK l \in DOMAIN s : l # k /\ s[l] = j
      BY <2>2 DEF Listed
    <3>2. PICK m \in DOMAIN r : r[m] = s[l]
      <4>1. CASE l < k
        BY <1>1, <1>3, <4>1
      <4>2. CASE ~(l < k)
        <5>1. l - 1 \in DOMAIN r /\ r[l - 1] = s[l]
          BY <1>1, <1>3, <3>1, <4>2
        <5>. QED  BY <5>1
      <4>. QED  BY <4>1, <4>2
    <3>. QED  BY <3>1, <3>2 DEF Listed
  <2>. QED  BY <2>1, <2>2
<1>. QED  BY <1>3, <1>4, <1>5 DEF r

(* it_LRU finds the frame.                                                  *)
LEMMA ErasedFacts ==
    ASSUME lru \in Seq(Frames), Once(lru), NEW i \in Frames, Listed(lru, i)
    PROVE  /\ Erased(i) \in Seq(Frames) /\ Once(Erased(i))
           /\ \A j \in Frames : Listed(Erased(i), j) <=> j # i /\ Listed(lru, j)
<1>1. it_LRU(i) \in DOMAIN lru /\ lru[it_LRU(i)] = i
  BY DEF it_LRU, Listed
<1>. QED  BY <1>1, RemoveOnce DEF Erased

-------------------------------------------------------------------------------
(* Counting frames and threads.                                             *)
LEMMA FramesFacts ==
    /\ NFrames \in Nat /\ IsFiniteSet(Frames) /\ Cardinality(Frames) = NFrames
    /\ \A S \in SUBSET Frames : IsFiniteSet(S) /\ Cardinality(S) \in Nat
<1>1. NFrames \in Nat /\ IsFiniteSet(Frames) /\ Cardinality(Frames) = NFrames
  BY SizesAssumption, FS_Interval DEF Frames
<1>2. ASSUME NEW S \in SUBSET Frames PROVE IsFiniteSet(S) /\ Cardinality(S) \in Nat
  BY <1>1, FS_Subset, FS_CardinalityType
<1>. QED  BY <1>1, <1>2

LEMMA ThreadsFacts ==
    ASSUME NEW S \in SUBSET Threads
    PROVE  IsFiniteSet(S) /\ Cardinality(S) \in Nat /\ (Cardinality(S) = 0 <=> S = {})
BY ThreadsAssumption, FS_Subset, FS_CardinalityType, FS_EmptySet

LEMMA LeastFrame ==
    ASSUME NEW S \in SUBSET Frames, S # {}
    PROVE  Min(S) \in S
<1>1. IsWellFoundedOn(OpToRel(<, Nat), Nat)
  BY NatLessThanWellFounded
<1>2. S \subseteq Nat
  BY FramesFacts DEF Frames
<1>3. PICK m \in S : \A k \in S : ~(<<k, m>> \in OpToRel(<, Nat))
  BY <1>1, <1>2, WFMin
<1>4. \A k \in S : ~(k < m)
  BY <1>2, <1>3, Zenon DEF OpToRel
<1>5. \A k \in S : m <= k
  BY <1>2, <1>4
<1>. QED  BY <1>5 DEF Min

LEMMA NobodyHas ==
    ASSUME TypeOK, PinsStay, ReadersCounted, NEW i \in Frames, Evictable(i)
    PROVE  \A t \in Threads, p \in Pages : pin[t][p] # i
<1>1. ReadersOf(i) = {}
  BY ThreadsFacts DEF ReadersCounted, Evictable, ReadersOf
<1>2. ASSUME NEW t \in Threads, NEW p \in Pages, pin[t][p] = i PROVE FALSE
  <2>1. frames[i] = p
    BY <1>2, FramesFacts DEF PinsStay, Frames
  <2>2. t \in ReadersOf(i)
    BY <1>2, <2>1 DEF ReadersOf
  <2>. QED  BY <1>1, <2>2
<1>. QED  BY <1>2

LEMMA SomebodyHas ==
    ASSUME TypeOK, PinsStay, ReadersCounted, NEW t \in Threads, NEW p \in Pages,
           pin[t][p] # 0
    PROVE  /\ pin[t][p] \in Frames /\ frames[pin[t][p]] = p
           /\ readers[pin[t][p]] \in Nat \ {0}
<1>1. pin[t][p] \in Frames /\ frames[pin[t][p]] = p
  BY FramesFacts, SMTT(60) DEF TypeOK, PinsStay, Frames
<1>2. t \in ReadersOf(pin[t][p]) /\ p # Free
  BY <1>1, NonesAssumption DEF ReadersOf
<1>3. readers[pin[t][p]] = Cardinality(ReadersOf(pin[t][p]))
  BY <1>1, <1>2 DEF ReadersCounted
<1>. QED  BY <1>1, <1>2, <1>3, ThreadsFacts DEF ReadersOf

-------------------------------------------------------------------------------
(* A part of the invariant is left alone with the variables it is about.     *)
LEMMA SamePins == UNCHANGED <<frames, pin>> /\ PinsStay => PinsStay'
BY DEF PinsStay

LEMMA SameBounds == UNCHANGED <<pin, mutex>> /\ PinsBounded => PinsBounded'
BY DEF PinsBounded, PinnedPages

LEMMA SameReaders == UNCHANGED <<frames, readers, pin>> /\ ReadersCounted => ReadersCounted'
BY DEF ReadersCounted, ReadersOf

LEMMA SameFrames == UNCHANGED frames /\ FramesDistinct => FramesDistinct'
BY DEF FramesDistinct

LEMMA SameList == UNCHANGED <<frames, lru>> /\ ListOK => ListOK'
BY DEF ListOK

LEMMA SameFiles ==
    UNCHANGED <<frames, nPages, open>> /\ (\A f \in Files : OnItsWay(f)' = OnItsWay(f)) /\ FilesOK
    => FilesOK'
BY DEF FilesOK, PagesOf

LEMMA SameWay ==
    UNCHANGED <<mutex, job>> => \A f \in Files : OnItsWay(f)' = OnItsWay(f)
BY DEF OnItsWay, At

LEMMA SameWork == UNCHANGED <<pin, work>> /\ WorkOK => WorkOK'
BY DEF WorkOK

LEMMA SameContents ==
    UNCHANGED <<frames, dirty, buf, disk, logged, work>> /\ ContentsOK => ContentsOK'
BY DEF ContentsOK, Resident, AllDone, Changing

LEMMA SameHolder == UNCHANGED <<frames, mutex, job>> /\ HolderOK => HolderOK'
BY DEF HolderOK, Resident, At

LEMMA SameCause ==
    UNCHANGED <<frames, open, job>> /\ CauseOK => CauseOK'
BY DEF CauseOK, WhyCleaned, FreeFrames, At

LEMMA SameFailure == UNCHANGED job /\ NeverExhausted => NeverExhausted'
BY DEF NeverExhausted, Roomy, At

LEMMA NotSweeping == ~At("sweep")' => SweepOK'
BY DEF SweepOK, At

LEMMA NotCleaning == job'.at \notin Cleaning => CauseOK' /\ SweepOK'
BY DEF CauseOK, SweepOK, Cleaning, At

LEMMA IdleJob ==
    HolderOK /\ mutex = Nobody => job.at = "none" /\ job.at \notin Cleaning
<1>. NoJob.at = "none"
  BY DEF NoJob
<1>. QED  BY DEF HolderOK, Cleaning

LEMMA NotFailed == ~At("failed")' => NeverExhausted'
BY DEF NeverExhausted, At

-------------------------------------------------------------------------------
(* What threads do with the pool when nobody is inside get_page.             *)
LEMMA PinnedFinite ==
    ASSUME TypeOK, PinsStay, NEW t \in Threads
    PROVE  IsFiniteSet(PinnedPages(t)) /\ Cardinality(PinnedPages(t)) \in Nat
<1>. DEFINE f == [p \in PinnedPages(t) |-> pin[t][p]]
<1>1. \A p \in PinnedPages(t) : pin[t][p] \in Frames /\ frames[pin[t][p]] = p
  BY FramesFacts, SMTT(60) DEF TypeOK, PinsStay, PinnedPages, Frames
<1>2. f \in Injection(PinnedPages(t), Frames)
  BY <1>1 DEF Injection, IsInjective
<1>. QED  BY <1>2, FramesFacts, FS_Injection, FS_CardinalityType

(* A thread gets one page more; one page less.                               *)
LEMMA OnePinMore ==
    ASSUME TypeOK, PinsStay, NEW t \in Threads, NEW p \in Pages, NEW i \in Frames,
           pin[t][p] = 0, pin' = [pin EXCEPT ![t][p] = i]
    PROVE  /\ \A u \in Threads \ {t} : PinnedPages(u)' = PinnedPages(u)
           /\ Cardinality(PinnedPages(t)') = Cardinality(PinnedPages(t)) + 1
<1>1. \A u \in Threads \ {t} : PinnedPages(u)' = PinnedPages(u)
  BY DEF TypeOK, PinnedPages
<1>2. PinnedPages(t)' = PinnedPages(t) \cup {p}
  <2>1. i # 0
    BY FramesFacts DEF Frames
  <2>2. pin'[t] = [pin[t] EXCEPT ![p] = i] /\ DOMAIN pin[t] = Pages
    BY DEF TypeOK
  <2>. QED  BY <2>1, <2>2 DEF PinnedPages
<1>3. p \notin PinnedPages(t)
  BY DEF PinnedPages
<1>. QED  BY <1>1, <1>2, <1>3, PinnedFinite, FS_AddElement

LEMMA HitKeeps ==
    ASSUME PoolInv, NEW t \in Threads, NEW p \in Pages, Hit(t, p)
    PROVE  PoolInv'
<1>. USE DEF PoolInv
<1>1. /\ mutex = Nobody /\ pin[t][p] = 0 /\ Cardinality(PinnedPages(t)) < MaxPins
      /\ UNCHANGED <<frames, dirty, nPages, open, buf, disk, logged, durable, mutex, job, work>>
  BY DEF Hit, MayGet, storeVars, PinnedPages
<1>2. PICK i \in Frames :
        /\ frames[i] = p
        /\ readers' = [readers EXCEPT ![i] = @ + 1]
        /\ lru' = Append(Erased(i), i)
        /\ pin' = [pin EXCEPT ![t][p] = i]
  BY DEF Hit
<1>3. frames[i] # Free /\ i \in 1 .. NFrames /\ NFrames \in Nat
  BY <1>2, NonesAssumption, FramesFacts DEF Frames
<1>4. ListOK' /\ lru' \in Seq(Frames)
  <2>1. lru \in Seq(Frames) /\ Once(lru) /\ Listed(lru, i)
    BY <1>2, <1>3 DEF ListOK, TypeOK
  <2>2. /\ Erased(i) \in Seq(Frames) /\ Once(Erased(i)) /\ ~Listed(Erased(i), i)
        /\ \A j \in Frames : Listed(Erased(i), j) <=> j # i /\ Listed(lru, j)
    BY <2>1, ErasedFacts
  <2>3. /\ lru' \in Seq(Frames) /\ Once(lru')
        /\ \A j \in Frames : Listed(lru', j) <=> j = i \/ Listed(Erased(i), j)
    BY <1>2, <2>2, AppendOnce
  <2>. QED  BY <1>1, <2>1, <2>2, <2>3 DEF ListOK
<1>5. TypeOK'
  <2>1. readers' \in [Frames -> Nat]
    <3>1. readers[i] + 1 \in Nat /\ readers \in [Frames -> Nat]
      BY SMTT(60) DEF TypeOK
    <3>2. readers' = [readers EXCEPT ![i] = readers[i] + 1]
      BY <1>2
    <3>. QED  BY <3>1, <3>2
  <2>2. i \in 0 .. NFrames /\ pin \in [Threads -> [Pages -> 0..NFrames]]
    BY <1>3 DEF TypeOK
  <2>3. pin' \in [Threads -> [Pages -> 0..NFrames]]
    BY <1>2, <2>2
  <2>. QED  BY <1>1, <1>4, <2>1, <2>3 DEF TypeOK
<1>6. PinsStay'
  BY <1>1, <1>2 DEF PinsStay, TypeOK
<1>7. PinsBounded'
  <2>1. /\ \A u \in Threads \ {t} : PinnedPages(u)' = PinnedPages(u)
        /\ Cardinality(PinnedPages(t)') = Cardinality(PinnedPages(t)) + 1
    BY <1>1, <1>2, OnePinMore
  <2>2. Cardinality(PinnedPages(t)') <= MaxPins
    BY <1>1, <2>1, PinnedFinite, SizesAssumption
  <2>3. \A u \in Threads : mutex' # u
    BY <1>1, NonesAssumption
  <2>. QED  BY <2>1, <2>2, <2>3 DEF PinsBounded
<1>8. ReadersCounted'
  <2>1. ReadersOf(i)' = ReadersOf(i) \cup {t}
    BY <1>1, <1>2 DEF ReadersOf, TypeOK
  <2>2. t \notin ReadersOf(i)
    BY <1>1, <1>2, <1>3 DEF ReadersOf
  <2>3. readers'[i] = Cardinality(ReadersOf(i)')
    <3>1. IsFiniteSet(ReadersOf(i))
      BY ThreadsFacts DEF ReadersOf
    <3>2. Cardinality(ReadersOf(i)') = Cardinality(ReadersOf(i)) + 1
      BY <2>1, <2>2, <3>1, FS_AddElement
    <3>. QED  BY <1>2, <1>3, <3>2 DEF ReadersCounted, TypeOK
  <2>4. ASSUME NEW j \in Frames \ {i}, frames[j] # Free
        PROVE  readers'[j] = Cardinality(ReadersOf(j)')
    <3>1. frames[j] # p
      BY <1>2, <1>3, <2>4 DEF FramesDistinct
    <3>2. ReadersOf(j)' = ReadersOf(j)
      BY <1>1, <1>2, <3>1, SMTT(60) DEF ReadersOf, TypeOK
    <3>. QED  BY <1>2, <2>4, <3>2 DEF ReadersCounted, TypeOK
  <2>. QED  BY <1>1, <2>3, <2>4 DEF ReadersCounted
<1>9. WorkOK'
  BY <1>1, <1>2, <1>3 DEF WorkOK, TypeOK
<1>10. CauseOK' /\ SweepOK'
  BY <1>1, IdleJob, NotCleaning
<1>. QED  BY <1>1, <1>4, <1>5, <1>6, <1>7, <1>8, <1>9, <1>10, SameHolder, SameFrames,
             SameFiles, SameWay, SameContents, SameFailure

LEMMA MissKeeps ==
    ASSUME PoolInv, NEW t \in Threads, NEW p \in Pages, Miss(t, p)
    PROVE  PoolInv'
<1>. USE DEF PoolInv
<1>1. /\ mutex = Nobody /\ Cardinality(PinnedPages(t)) < MaxPins /\ ~Resident(p)
      /\ mutex' = t
      /\ UNCHANGED <<frames, dirty, readers, lru, nPages, open, buf, disk, logged, durable, pin, work>>
  BY DEF Miss, MayGet, storeVars, poolVars, threadVars, PinnedPages
<1>2. job' = [at |-> "file", page |-> p, back |-> "none", next |-> 1, cleaned |-> 0]
  BY DEF Miss, NoJob
<1>3. TypeOK'
  <2>1. job' \in [at : Places, page : Pages \cup {Free}, back : {"none", "file", "frame"},
                  next : 1..(NFrames + 1), cleaned : 0..NFrames]
    BY <1>2, FramesFacts DEF Places
  <2>2. mutex' \in Threads \cup {Nobody}
    BY <1>1
  <2>. QED  BY <1>1, <2>1, <2>2 DEF TypeOK
<1>4. HolderOK'
  <2>1. job'.at = "file" /\ job'.page = p /\ job'.back = "none"
    BY <1>2
  <2>2. mutex' # Nobody /\ ~Resident(p)'
    BY <1>1, NonesAssumption DEF Resident
  <2>. QED  BY <2>1, <2>2 DEF HolderOK, At, Resident, Cleaning
<1>5. PinsBounded'
  BY <1>1 DEF PinsBounded, PinnedPages
<1>6. FilesOK'
  <2>1. \A f \in Files : OnItsWay(f) = 0 /\ OnItsWay(f)' = 0
    BY <1>1, <1>2 DEF OnItsWay, At
  <2>. QED  BY <1>1, <2>1, SameFiles
<1>7. CauseOK' /\ SweepOK' /\ NeverExhausted'
  BY <1>2, NotCleaning, NotFailed DEF Cleaning, At
<1>. QED  BY <1>1, <1>3, <1>4, <1>5, <1>6, <1>7, SamePins, SameReaders, SameFrames,
             SameList, SameWork, SameContents

LEMMA ReleaseKeeps ==
    ASSUME PoolInv, NEW t \in Threads, NEW p \in Pages, Release(t, p)
    PROVE  PoolInv'
<1>. USE DEF PoolInv
<1>1. PICK i \in Frames :
      /\ i = pin[t][p]
      /\ mutex = Nobody /\ i # 0 /\ work[t][p] = "done"
      /\ readers' = [readers EXCEPT ![i] = @ - 1]
      /\ pin' = [pin EXCEPT ![t][p] = 0]
      /\ UNCHANGED <<frames, dirty, lru, nPages, open, buf, disk, logged, durable, mutex, job, work>>
  <2>1. pin[t][p] \in Frames
    BY SomebodyHas DEF Release
  <2>. QED  BY <2>1 DEF Release, storeVars
<1>2. frames[i] = p /\ frames[i] # Free /\ readers[i] \in Nat \ {0}
  BY <1>1, SomebodyHas, NonesAssumption
<1>3. TypeOK'
  <2>1. readers[i] - 1 \in Nat /\ readers \in [Frames -> Nat]
    BY <1>2, SMTT(60) DEF TypeOK
  <2>2. readers' \in [Frames -> Nat]
    BY <1>1, <2>1
  <2>3. pin' \in [Threads -> [Pages -> 0..NFrames]]
    BY <1>1, FramesFacts DEF TypeOK
  <2>. QED  BY <1>1, <2>2, <2>3 DEF TypeOK
<1>4. PinsStay'
  BY <1>1 DEF PinsStay, TypeOK
<1>5. PinsBounded'
  <2>1. ASSUME NEW u \in Threads
        PROVE  Cardinality(PinnedPages(u)') <= Cardinality(PinnedPages(u))
               /\ Cardinality(PinnedPages(u)') \in Nat
    <3>1. PinnedPages(u)' \subseteq PinnedPages(u)
      BY <1>1 DEF PinnedPages, TypeOK
    <3>. QED  BY <3>1, PinnedFinite, FS_Subset, FS_CardinalityType
  <2>2. \A u \in Threads : mutex' # u
    BY <1>1, NonesAssumption
  <2>. QED  BY <2>1, <2>2, PinnedFinite, SizesAssumption DEF PinsBounded
<1>6. ReadersCounted'
  <2>1. ReadersOf(i)' = ReadersOf(i) \ {t} /\ t \in ReadersOf(i)
    <3>1. \A u \in Threads : pin'[u][p] = IF u = t THEN 0 ELSE pin[u][p]
      BY <1>1 DEF TypeOK
    <3>2. i # 0 /\ pin[t][p] = i
      BY <1>1
    <3>. QED  BY <1>1, <1>2, <3>1, <3>2 DEF ReadersOf
  <2>2. readers'[i] = Cardinality(ReadersOf(i)')
    <3>1. IsFiniteSet(ReadersOf(i))
      BY ThreadsFacts DEF ReadersOf
    <3>2. Cardinality(ReadersOf(i)') = Cardinality(ReadersOf(i)) - 1
      BY <2>1, <3>1, FS_RemoveElement
    <3>. QED  BY <1>1, <1>2, <3>2 DEF ReadersCounted, TypeOK
  <2>3. ASSUME NEW j \in Frames \ {i}, frames[j] # Free
        PROVE  readers'[j] = Cardinality(ReadersOf(j)')
    <3>1. frames[j] # p
      BY <1>2, <2>3 DEF FramesDistinct
    <3>2. ReadersOf(j)' = ReadersOf(j)
      BY <1>1, <3>1, SMTT(60) DEF ReadersOf, TypeOK
    <3>. QED  BY <1>1, <2>3, <3>2 DEF ReadersCounted, TypeOK
  <2>. QED  BY <1>1, <2>2, <2>3 DEF ReadersCounted
<1>7. WorkOK'
  BY <1>1 DEF WorkOK, TypeOK
<1>8. CauseOK' /\ SweepOK'
  BY <1>1, IdleJob, NotCleaning
<1>. QED  BY <1>1, <1>3, <1>4, <1>5, <1>6, <1>7, <1>8, SameHolder, SameFrames, SameList,
             SameFiles, SameWay, SameContents, SameFailure

LEMMA ChangeKeeps ==
    ASSUME PoolInv, NEW t \in Threads, NEW p \in Pages, Change(t, p)
    PROVE  PoolInv'
<1>. USE DEF PoolInv
<1>1. PICK i \in Frames :
      /\ i = pin[t][p] /\ frames[i] = p /\ work[t][p] = "done"
      /\ buf' = [buf EXCEPT ![i] = @ + 1]
      /\ work' = [work EXCEPT ![t][p] = "changed"]
      /\ UNCHANGED <<frames, dirty, readers, lru, nPages, open, disk, logged, durable, mutex, job, pin>>
  <2>1. pin[t][p] \in Frames /\ frames[pin[t][p]] = p
    BY SomebodyHas DEF Change
  <2>. QED  BY <2>1 DEF Change, poolVars
<1>2. TypeOK'
  <2>1. buf' \in [Frames -> Nat]
    BY <1>1, SMTT(60) DEF TypeOK
  <2>2. work' \in [Threads -> [Pages -> {"done", "changed", "logged"}]]
    BY <1>1 DEF TypeOK
  <2>. QED  BY <1>1, <2>1, <2>2 DEF TypeOK
<1>3. \A u \in Threads, q \in Pages :
        work'[u][q] = IF u = t /\ q = p THEN "changed" ELSE work[u][q]
  BY <1>1 DEF TypeOK
<1>4. WorkOK'
  BY <1>1, <1>3, FramesFacts DEF WorkOK, Frames
<1>5. ContentsOK'
  <2>1. /\ \A q \in Pages \ {p} : Changing(q)' = Changing(q) /\ (AllDone(q)' <=> AllDone(q))
        /\ ~AllDone(p)'
        /\ Changing(p)' = Changing(p) \cup {t} /\ t \notin Changing(p)
    BY <1>1, <1>3 DEF Changing, AllDone
  <2>2. \A q \in Pages : q = p =>
          Cardinality(Changing(q)') = Cardinality(Changing(p)) + 1 /\ Cardinality(Changing(p)) \in Nat
    <3>1. IsFiniteSet(Changing(p)) /\ Cardinality(Changing(p)) \in Nat
      BY ThreadsFacts DEF Changing
    <3>2. Cardinality(Changing(p)') = Cardinality(Changing(p)) + 1
      BY <2>1, <3>1, FS_AddElement
    <3>. QED  BY <3>1, <3>2 DEF Changing
  <2>3. ASSUME NEW j \in Frames, NEW q \in Pages \ Headers, frames[j] = q
        PROVE  /\ buf'[j] = logged[q] + Cardinality(Changing(q)')
               /\ ~dirty[j] /\ AllDone(q)' => disk[q] = logged[q]
    <3>1. CASE q = p
      <4>1. j = i
        BY <1>1, <2>3, <3>1, NonesAssumption DEF FramesDistinct
      <4>2. buf'[j] = buf[j] + 1 /\ logged[p] \in Nat
        BY <1>1, <4>1 DEF TypeOK
      <4>3. buf[j] = logged[p] + Cardinality(Changing(p))
        BY <2>3, <3>1 DEF ContentsOK
      <4>. QED  BY <2>1, <2>2, <3>1, <4>2, <4>3
    <3>2. CASE q # p
      <4>1. buf'[j] = buf[j]
        BY <1>1, <2>3, <3>2 DEF TypeOK
      <4>. QED  BY <2>1, <2>3, <3>2, <4>1 DEF ContentsOK
    <3>. QED  BY <3>1, <3>2
  <2>4. ASSUME NEW j \in Frames, NEW q \in Headers, frames[j] = q, AllDone(q)'
        PROVE  buf'[j] = disk[q]
    <3>1. q # p /\ q \in Pages
      BY <2>1, <2>4, FilesAssumption
    <3>2. buf'[j] = buf[j]
      BY <1>1, <2>4, <3>1 DEF TypeOK
    <3>. QED  BY <2>1, <2>4, <3>1, <3>2 DEF ContentsOK
  <2>. QED  BY <1>1, <2>3, <2>4 DEF ContentsOK, Resident
<1>6. SweepOK'
  BY <1>1 DEF SweepOK, At
<1>. QED  BY <1>1, <1>2, <1>4, <1>5, <1>6, SameHolder, SamePins, SameBounds, SameReaders,
             SameFrames, SameList, SameFiles, SameWay, SameCause, SameFailure

LEMMA AddLogKeeps ==
    ASSUME PoolInv, NEW t \in Threads, NEW p \in Pages, AddLog(t, p)
    PROVE  PoolInv'
<1>. USE DEF PoolInv
<1>1. PICK i \in Frames :
      /\ p \notin Headers /\ pin[t][p] # 0 /\ frames[i] = p /\ work[t][p] = "changed"
      /\ readers[i] # 0
      /\ logged' = [logged EXCEPT ![p] = @ + 1]
      /\ work' = [work EXCEPT ![t][p] = "logged"]
      /\ UNCHANGED <<frames, dirty, readers, lru, nPages, open, buf, disk, durable, mutex, job, pin>>
  <2>1. pin[t][p] # 0
    BY DEF AddLog, WorkOK
  <2>2. pin[t][p] \in Frames /\ frames[pin[t][p]] = p /\ readers[pin[t][p]] # 0
    BY <2>1, SomebodyHas
  <2>. QED  BY <2>1, <2>2 DEF AddLog, poolVars
<1>2. TypeOK'
  <2>1. logged' \in [Pages -> Nat]
    BY <1>1, SMTT(60) DEF TypeOK
  <2>2. work' \in [Threads -> [Pages -> {"done", "changed", "logged"}]]
    BY <1>1 DEF TypeOK
  <2>. QED  BY <1>1, <2>1, <2>2 DEF TypeOK
<1>3. \A u \in Threads, q \in Pages :
        work'[u][q] = IF u = t /\ q = p THEN "logged" ELSE work[u][q]
  BY <1>1 DEF TypeOK
<1>4. WorkOK'
  BY <1>1, <1>3 DEF WorkOK
<1>5. ContentsOK'
  <2>1. /\ \A q \in Pages \ {p} : Changing(q)' = Changing(q) /\ (AllDone(q)' <=> AllDone(q))
        /\ ~AllDone(p)'
        /\ Changing(p)' = Changing(p) \ {t} /\ t \in Changing(p)
    BY <1>1, <1>3 DEF Changing, AllDone
  <2>2. \A q \in Pages : q = p =>
          Cardinality(Changing(q)') = Cardinality(Changing(p)) - 1 /\ Cardinality(Changing(p)) \in Nat
    <3>1. IsFiniteSet(Changing(p)) /\ Cardinality(Changing(p)) \in Nat
      BY ThreadsFacts DEF Changing
    <3>2. Cardinality(Changing(p)') = Cardinality(Changing(p)) - 1
      BY <2>1, <3>1, FS_RemoveElement
    <3>. QED  BY <3>1, <3>2 DEF Changing
  <2>3. ASSUME NEW j \in Frames, NEW q \in Pages \ Headers, frames[j] = q
        PROVE  /\ buf[j] = logged'[q] + Cardinality(Changing(q)')
               /\ ~dirty[j] /\ AllDone(q)' => disk[q] = logged'[q]
    <3>1. CASE q = p
      <4>1. logged'[q] = logged[p] + 1 /\ logged[p] \in Nat
        BY <1>1, <3>1 DEF TypeOK
      <4>2. buf[j] = logged[p] + Cardinality(Changing(p))
        BY <2>3, <3>1 DEF ContentsOK
      <4>. QED  BY <2>1, <2>2, <3>1, <4>1, <4>2
    <3>2. CASE q # p
      <4>1. logged'[q] = logged[q]
        BY <1>1, <3>2 DEF TypeOK
      <4>. QED  BY <2>1, <2>3, <3>2, <4>1 DEF ContentsOK
    <3>. QED  BY <3>1, <3>2
  <2>4. ASSUME NEW q \in Pages \ Headers, ~Resident(q) PROVE disk[q] = logged'[q]
    <3>1. q # p
      BY <1>1, <2>4 DEF Resident
    <3>2. logged'[q] = logged[q]
      BY <1>1, <3>1 DEF TypeOK
    <3>. QED  BY <2>4, <3>2 DEF ContentsOK
  <2>5. \A q \in Headers : AllDone(q)' <=> AllDone(q)
    BY <1>1, <2>1, FilesAssumption
  <2>6. \A j \in Frames, q \in Headers : frames[j] = q /\ AllDone(q) => buf[j] = disk[q]
    BY DEF ContentsOK
  <2>. QED  BY <1>1, <2>3, <2>4, <2>5, <2>6 DEF ContentsOK, Resident
<1>6. SweepOK'
  <2>1. \A j \in Frames : frames[j] # Free /\ readers[j] = 0 => frames[j] # p
    BY <1>1, NonesAssumption DEF FramesDistinct
  <2>2. \A q \in Pages \ {p} : logged'[q] = logged[q]
    BY <1>1 DEF TypeOK
  <2>3. \A j \in Frames : frames[j] # Free => frames[j] \in Pages
    BY DEF TypeOK
  <2>. QED  BY <1>1, <2>1, <2>2, <2>3 DEF SweepOK, At
<1>. QED  BY <1>1, <1>2, <1>4, <1>5, <1>6, SameHolder, SamePins, SameBounds, SameReaders,
             SameFrames, SameList, SameFiles, SameWay, SameCause, SameFailure

LEMMA MarkDirtyKeeps ==
    ASSUME PoolInv, NEW t \in Threads, NEW p \in Pages, MarkDirty(t, p)
    PROVE  PoolInv'
<1>. USE DEF PoolInv
<1>1. PICK i \in Frames :
      /\ mutex = Nobody /\ frames[i] = p /\ work[t][p] = "logged"
      /\ dirty' = [dirty EXCEPT ![i] = TRUE]
      /\ work' = [work EXCEPT ![t][p] = "done"]
      /\ UNCHANGED <<frames, readers, lru, nPages, open, buf, disk, logged, durable, mutex, job, pin>>
  <2>1. pin[t][p] # 0
    BY DEF MarkDirty, WorkOK
  <2>2. pin[t][p] \in Frames /\ frames[pin[t][p]] = p
    BY <2>1, SomebodyHas
  <2>. QED  BY <2>2 DEF MarkDirty, storeVars
<1>2. TypeOK'
  <2>1. dirty' \in [Frames -> BOOLEAN]
    BY <1>1 DEF TypeOK
  <2>2. work' \in [Threads -> [Pages -> {"done", "changed", "logged"}]]
    BY <1>1 DEF TypeOK
  <2>. QED  BY <1>1, <2>1, <2>2 DEF TypeOK
<1>3. \A u \in Threads, q \in Pages :
        work'[u][q] = IF u = t /\ q = p THEN "done" ELSE work[u][q]
  BY <1>1 DEF TypeOK
<1>4. WorkOK'
  BY <1>1, <1>3 DEF WorkOK
<1>5. ContentsOK'
  <2>1. /\ p \notin Headers
        /\ \A q \in Pages \ {p} : AllDone(q)' <=> AllDone(q)
        /\ \A q \in Pages : Changing(q)' = Changing(q)
    BY <1>1, <1>3 DEF Changing, AllDone, WorkOK
  <2>2. \A j \in Frames : dirty'[j] <=> j = i \/ dirty[j]
    BY <1>1 DEF TypeOK
  <2>3. ASSUME NEW j \in Frames, NEW q \in Pages \ Headers, frames[j] = q
        PROVE  /\ buf[j] = logged[q] + Cardinality(Changing(q)')
               /\ ~dirty'[j] /\ AllDone(q)' => disk[q] = logged[q]
    <3>1. q = p => j = i
      BY <1>1, <2>3, NonesAssumption DEF FramesDistinct
    <3>2. /\ buf[j] = logged[q] + Cardinality(Changing(q))
          /\ ~dirty[j] /\ AllDone(q) => disk[q] = logged[q]
      BY <2>3 DEF ContentsOK
    <3>. QED  BY <2>1, <2>2, <3>1, <3>2
  <2>4. \A q \in Headers : AllDone(q)' <=> AllDone(q)
    BY <2>1, FilesAssumption
  <2>. QED  BY <1>1, <2>3, <2>4 DEF ContentsOK, Resident
<1>6. CauseOK' /\ SweepOK'
  BY <1>1, IdleJob, NotCleaning
<1>. QED  BY <1>1, <1>2, <1>4, <1>5, <1>6, SameHolder, SamePins, SameBounds, SameReaders,
             SameFrames, SameList, SameFiles, SameWay, SameFailure

LEMMA FlushPageKeeps ==
    ASSUME PoolInv, NEW t \in Threads, NEW p \in Pages, FlushPage(t, p)
    PROVE  PoolInv'
<1>. USE DEF PoolInv
<1>1. PICK i \in Frames :
      /\ mutex = Nobody /\ p \in Headers /\ frames[i] = p /\ work[t][p] = "changed"
      /\ disk' = [disk EXCEPT ![p] = buf[i]]
      /\ dirty' = [dirty EXCEPT ![i] = FALSE]
      /\ work' = [work EXCEPT ![t][p] = "done"]
      /\ UNCHANGED <<frames, readers, lru, nPages, open, buf, logged, durable, mutex, job, pin>>
  <2>1. pin[t][p] # 0
    BY DEF FlushPage, WorkOK
  <2>2. pin[t][p] \in Frames /\ frames[pin[t][p]] = p
    BY <2>1, SomebodyHas
  <2>. QED  BY <2>2 DEF FlushPage
<1>2. TypeOK'
  <2>1. dirty' \in [Frames -> BOOLEAN]
    BY <1>1 DEF TypeOK
  <2>2. work' \in [Threads -> [Pages -> {"done", "changed", "logged"}]]
    BY <1>1 DEF TypeOK
  <2>3. disk' \in [Pages -> Nat]
    BY <1>1 DEF TypeOK
  <2>. QED  BY <1>1, <2>1, <2>2, <2>3 DEF TypeOK
<1>3. \A u \in Threads, q \in Pages :
        work'[u][q] = IF u = t /\ q = p THEN "done" ELSE work[u][q]
  BY <1>1 DEF TypeOK
<1>4. WorkOK'
  BY <1>1, <1>3, FilesAssumption DEF WorkOK
<1>5. ContentsOK'
  <2>1. \A q \in Pages \ {p} :
          /\ AllDone(q)' <=> AllDone(q)
          /\ Changing(q)' = Changing(q)
          /\ disk'[q] = disk[q]
    BY <1>1, <1>3, SMTT(60) DEF Changing, AllDone, TypeOK
  <2>2. \A j \in Frames : frames[j] # p => dirty'[j] = dirty[j]
    BY <1>1 DEF TypeOK
  <2>3. ASSUME NEW j \in Frames, NEW q \in Pages \ Headers, frames[j] = q
        PROVE  /\ buf[j] = logged[q] + Cardinality(Changing(q)')
               /\ ~dirty'[j] /\ AllDone(q)' => disk'[q] = logged[q]
    <3>1. q # p
      BY <1>1, <2>3
    <3>2. /\ buf[j] = logged[q] + Cardinality(Changing(q))
          /\ ~dirty[j] /\ AllDone(q) => disk[q] = logged[q]
      BY <2>3 DEF ContentsOK
    <3>. QED  BY <2>1, <2>2, <2>3, <3>1, <3>2
  <2>4. ASSUME NEW q \in Pages \ Headers, ~Resident(q) PROVE disk'[q] = logged[q]
    BY <1>1, <2>1, <2>4 DEF ContentsOK
  <2>5. ASSUME NEW j \in Frames, NEW q \in Headers, frames[j] = q, AllDone(q)'
        PROVE  buf[j] = disk'[q]
    <3>1. CASE q = p
      <4>1. j = i
        BY <1>1, <2>5, <3>1, NonesAssumption, FilesAssumption DEF FramesDistinct
      <4>. QED  BY <1>1, <3>1, <4>1 DEF TypeOK
    <3>2. CASE q # p
      BY <2>1, <2>5, <3>2, FilesAssumption DEF ContentsOK
    <3>. QED  BY <3>1, <3>2
  <2>. QED  BY <1>1, <2>3, <2>4, <2>5 DEF ContentsOK, Resident
<1>6. CauseOK' /\ SweepOK'
  BY <1>1, IdleJob, NotCleaning
<1>. QED  BY <1>1, <1>2, <1>4, <1>5, <1>6, SameHolder, SamePins, SameBounds, SameReaders,
             SameFrames, SameList, SameFiles, SameWay, SameFailure

LEMMA FlushLogsKeeps ==
    ASSUME PoolInv, FlushLogs
    PROVE  PoolInv'
<1>. USE DEF PoolInv
<1>1. /\ durable' = logged
      /\ UNCHANGED <<frames, dirty, readers, lru, nPages, open, buf, disk, logged, mutex, job, pin, work>>
  BY DEF FlushLogs, poolVars, threadVars
<1>2. TypeOK'
  BY <1>1 DEF TypeOK
<1>3. SweepOK'
  BY <1>1 DEF SweepOK, At
<1>. QED  BY <1>1, <1>2, <1>3, SameHolder, SamePins, SameBounds, SameReaders, SameFrames,
             SameList, SameFiles, SameWay, SameWork, SameContents, SameCause, SameFailure

LEMMA FlushAllPagesKeeps ==
    ASSUME PoolInv, FlushAllPages
    PROVE  PoolInv'
<1>. USE DEF PoolInv
<1>. DEFINE At1(p) == CHOOSE i \in Frames : frames[i] = p
            NewDisk == [p \in Pages |-> IF \E i \in Frames : frames[i] = p /\ dirty[i]
                                        THEN buf[At1(p)] ELSE disk[p]]
            NewDirty == [i \in Frames |-> dirty[i] /\ frames[i] = Free]
<1>1. /\ mutex = Nobody
      /\ \A t \in Threads, p \in Pages : work[t][p] = "done"
      /\ disk' = NewDisk /\ dirty' = NewDirty
      /\ UNCHANGED <<frames, readers, lru, nPages, open, buf, logged, durable, mutex, job, pin, work>>
  BY DEF FlushAllPages, threadVars
<1>2. \A i \in Frames, p \in Pages : frames[i] = p => At1(p) = i
  BY NonesAssumption DEF FramesDistinct
<1>3. \A i \in Frames, p \in Pages : frames[i] = p =>
        /\ NewDisk[p] = IF dirty[i] THEN buf[i] ELSE disk[p]
        /\ ~NewDirty[i]
  <2>. SUFFICES ASSUME NEW i \in Frames, NEW p \in Pages, frames[i] = p
                PROVE  /\ NewDisk[p] = IF dirty[i] THEN buf[i] ELSE disk[p]
                       /\ ~NewDirty[i]
    OBVIOUS
  <2>1. NewDisk[p] = IF \E j \in Frames : frames[j] = p /\ dirty[j] THEN buf[At1(p)] ELSE disk[p]
    OBVIOUS
  <2>2. At1(p) = i
    BY <1>2
  <2>3. (\E j \in Frames : frames[j] = p /\ dirty[j]) <=> dirty[i]
    BY NonesAssumption DEF FramesDistinct
  <2>4. ~NewDirty[i]
    BY NonesAssumption
  <2>. HIDE DEF At1, NewDisk, NewDirty
  <2>. QED  BY <2>1, <2>2, <2>3, <2>4
<1>4. \A p \in Pages : ~Resident(p) => NewDisk[p] = disk[p]
  BY DEF Resident
<1>5. NewDisk \in [Pages -> Nat] /\ NewDirty \in [Frames -> BOOLEAN]
  <2>1. \A p \in Pages : (\E i \in Frames : frames[i] = p /\ dirty[i]) => At1(p) \in Frames
    OBVIOUS
  <2>2. \A p \in Pages : NewDisk[p] \in Nat
    BY <2>1 DEF TypeOK
  <2>3. NewDirty \in [Frames -> BOOLEAN]
    BY DEF TypeOK
  <2>. HIDE DEF At1
  <2>4. NewDisk \in [Pages -> Nat]
    BY <2>2
  <2>. QED  BY <2>3, <2>4
<1>. HIDE DEF At1, NewDisk, NewDirty
<1>6. TypeOK'
  BY <1>1, <1>5 DEF TypeOK
<1>7. ContentsOK'
  <2>1. \A p \in Pages : AllDone(p) /\ Changing(p) = {} /\ Changing(p)' = {}
    BY <1>1 DEF AllDone, Changing
  <2>2. ASSUME NEW j \in Frames, NEW q \in Pages \ Headers, frames[j] = q
        PROVE  /\ buf[j] = logged[q] + Cardinality(Changing(q)')
               /\ NewDisk[q] = logged[q]
    <3>1. /\ buf[j] = logged[q] + Cardinality(Changing(q))
          /\ ~dirty[j] => disk[q] = logged[q]
      BY <2>1, <2>2 DEF ContentsOK
    <3>2. logged[q] + Cardinality({}) = logged[q]
      BY FS_EmptySet DEF TypeOK
    <3>. QED  BY <1>3, <2>1, <2>2, <3>1, <3>2
  <2>3. ASSUME NEW q \in Pages \ Headers, ~Resident(q) PROVE NewDisk[q] = logged[q]
    BY <1>4, <2>3 DEF ContentsOK
  <2>4. ASSUME NEW j \in Frames, NEW q \in Headers, frames[j] = q
        PROVE  buf[j] = NewDisk[q]
    BY <1>3, <2>1, <2>4, FilesAssumption DEF ContentsOK
  <2>. QED  BY <1>1, <2>2, <2>3, <2>4 DEF ContentsOK, Resident
<1>8. CauseOK' /\ SweepOK'
  BY <1>1, IdleJob, NotCleaning
<1>. QED  BY <1>1, <1>6, <1>7, <1>8, SameHolder, SamePins, SameBounds, SameReaders,
             SameFrames, SameList, SameFiles, SameWay, SameWork, SameFailure

-------------------------------------------------------------------------------
(* Inside get_page.                                                          *)
Jobs == [at : Places, page : Pages \cup {Free}, back : {"none", "file", "frame"},
         next : 1..(NFrames + 1), cleaned : 0..NFrames]

LEMMA HolderFacts ==
    ASSUME TypeOK, HolderOK, NEW place, At(place), place # "none"
    PROVE  /\ mutex \in Threads /\ job.page \in Pages /\ ~Resident(job.page)
           /\ FileOf[job.page] \in Files
<1>1. NoJob.at = "none"
  BY DEF NoJob
<1>2. mutex # Nobody
  BY <1>1 DEF HolderOK, At
<1>. QED  BY <1>2, FilesAssumption DEF HolderOK, TypeOK

(* The holder goes elsewhere.                                               *)
LEMMA GoFacts ==
    ASSUME TypeOK, NEW place \in Places, NEW from \in {"none", "file", "frame"},
           \/ job' = [job EXCEPT !.at = place] /\ from = job.back
           \/ job' = [job EXCEPT !.at = place, !.back = from]
    PROVE  /\ job' \in Jobs /\ job'.at = place /\ job'.page = job.page /\ job'.back = from
           /\ job'.next = job.next /\ job'.cleaned = job.cleaned
BY DEF TypeOK, Jobs

(* A file is open for a page in the pool or for the one on its way.          *)
InUse == {i \in Frames : frames[i] # Free}

LEMMA OpenFinite ==
    ASSUME TypeOK, FilesOK
    PROVE  /\ IsFiniteSet(open) /\ Cardinality(open) \in Nat
           /\ Cardinality(InUse) \in Nat /\ Cardinality(open) <= Cardinality(InUse) + 1
<1>. DEFINE I == {FileOf[frames[i]] : i \in InUse}
            J == I \cup {FileOf[job.page]}
<1>1. IsFiniteSet(InUse) /\ Cardinality(InUse) \in Nat
  BY FramesFacts DEF InUse
<1>2. IsFiniteSet(I) /\ Cardinality(I) \in Nat /\ Cardinality(I) <= Cardinality(InUse)
  <2>. DEFINE g == [i \in InUse |-> FileOf[frames[i]]]
  <2>1. g \in Surjection(InUse, I)
    BY DEF Surjection
  <2>. QED  BY <1>1, <2>1, FS_Surjection, FS_CardinalityType
<1>3. IsFiniteSet(J) /\ Cardinality(J) \in Nat /\ Cardinality(J) <= Cardinality(I) + 1
  <2>. DEFINE f == FileOf[job.page]
  <2>. HIDE DEF I, f
  <2>1. /\ IsFiniteSet(J)
        /\ Cardinality(J) = IF f \in I THEN Cardinality(I) ELSE Cardinality(I) + 1
    BY <1>2, FS_AddElement DEF f
  <2>. HIDE DEF J
  <2>. QED  BY <1>2, <2>1
<1>4. ASSUME NEW f \in open PROVE f \in J
  <2>1. f \in Files /\ nPages[f] > 0 /\ nPages[f] = Cardinality(PagesOf(f)) + OnItsWay(f)
    BY DEF FilesOK
  <2>2. CASE PagesOf(f) = {}
    <3>1. OnItsWay(f) # 0
      BY <2>1, <2>2, FS_EmptySet
    <3>. QED  BY <3>1 DEF OnItsWay
  <2>3. CASE PagesOf(f) # {}
    BY <2>3 DEF PagesOf, InUse
  <2>. QED  BY <2>2, <2>3
<1>5. IsFiniteSet(open) /\ Cardinality(open) <= Cardinality(J) /\ Cardinality(open) \in Nat
  <2>. HIDE DEF J
  <2>1. open \in SUBSET J
    BY <1>4
  <2>. QED  BY <1>3, <2>1, FS_Subset, FS_CardinalityType
<1>. HIDE DEF I, J
<1>. QED  BY <1>1, <1>2, <1>3, <1>5

LEMMA OpenFileKeeps ==
    ASSUME PoolInv, OpenFile
    PROVE  PoolInv'
<1>. USE DEF PoolInv
<1>. DEFINE f == FileOf[job.page]
<1>1. /\ At("file") /\ job.back # "frame"
      /\ mutex \in Threads /\ job.page \in Pages /\ ~Resident(job.page) /\ f \in Files
      /\ UNCHANGED <<frames, dirty, readers, lru, buf, disk, logged, durable, mutex, pin, work>>
  BY HolderFacts DEF OpenFile, HolderOK, storeVars, threadVars
<1>2. \A g \in Files : OnItsWay(g) = 0
  BY <1>1 DEF OnItsWay, At
<1>3. CASE /\ f \in open \/ Cardinality(open) < MaxFds
           /\ open' = open \cup {f}
           /\ nPages' = [nPages EXCEPT ![f] = @ + 1]
           /\ Go("frame")
  <2>1. /\ job' \in Jobs /\ job'.at = "frame" /\ job'.page = job.page
    BY <1>3, GoFacts DEF Go, Places, TypeOK
  <2>2. TypeOK'
    <3>1. nPages' \in [Files -> Nat]
      BY <1>1, <1>3 DEF TypeOK
    <3>2. open' \subseteq Files
      BY <1>1, <1>3 DEF TypeOK
    <3>. QED  BY <1>1, <2>1, <3>1, <3>2 DEF TypeOK, Jobs
  <2>3. HolderOK'
    BY <1>1, <2>1, NonesAssumption DEF HolderOK, At, Resident, Cleaning
  <2>4. FilesOK'
    <3>1. \A g \in Files : OnItsWay(g)' = IF g = f THEN 1 ELSE 0
      BY <1>1, <2>1, NonesAssumption DEF OnItsWay, At
    <3>2. \A g \in Files : PagesOf(g)' = PagesOf(g) /\ Cardinality(PagesOf(g)) \in Nat
      BY <1>1, FramesFacts DEF PagesOf
    <3>3. \A g \in Files : nPages'[g] = IF g = f THEN nPages[g] + 1 ELSE nPages[g]
      BY <1>1, <1>3 DEF TypeOK
    <3>4. \A g \in Files : nPages'[g] = Cardinality(PagesOf(g)') + OnItsWay(g)'
      BY <1>2, <3>1, <3>2, <3>3 DEF FilesOK
    <3>5. open' = {g \in Files : nPages'[g] > 0}
      <4>1. \A g \in Files : nPages[g] \in Nat
        BY DEF TypeOK
      <4>2. \A g \in Files : nPages'[g] > 0 <=> g = f \/ nPages[g] > 0
        BY <3>3, <4>1
      <4>3. open = {g \in Files : nPages[g] > 0}
        BY DEF FilesOK
      <4>. QED  BY <1>1, <1>3, <4>2, <4>3
    <3>6. Cardinality(open') <= MaxFds
      <4>1. CASE f \in open
        <5>1. open' = open
          BY <1>3, <4>1
        <5>. QED  BY <5>1 DEF FilesOK
      <4>2. CASE f \notin open
        <5>1. Cardinality(open') = Cardinality(open) + 1
          BY <1>3, <4>2, OpenFinite, FS_AddElement
        <5>. QED  BY <1>3, <4>2, <5>1, OpenFinite, SizesAssumption
      <4>. QED  BY <4>1, <4>2
    <3>. QED  BY <3>4, <3>5, <3>6 DEF FilesOK
  <2>5. CauseOK' /\ SweepOK' /\ NeverExhausted'
    BY <2>1, NotCleaning, NotFailed DEF Cleaning, At
  <2>. QED  BY <1>1, <2>2, <2>3, <2>4, <2>5, SamePins, SameBounds, SameReaders, SameFrames,
               SameList, SameWork, SameContents
<1>4. CASE /\ f \notin open /\ Cardinality(open) >= MaxFds
           /\ Clean("file")
           /\ UNCHANGED <<open, nPages>>
  <2>1. /\ job' \in Jobs /\ job'.at = "clean" /\ job'.page = job.page /\ job'.back = "file"
    BY <1>4, GoFacts DEF Clean, Places
  <2>2. TypeOK'
    BY <1>1, <1>4, <2>1 DEF TypeOK, Jobs
  <2>3. HolderOK'
    BY <1>1, <2>1, NonesAssumption DEF HolderOK, At, Resident, Cleaning
  <2>4. \A g \in Files : OnItsWay(g)' = 0
    BY <2>1 DEF OnItsWay, At
  <2>5. CauseOK' /\ SweepOK' /\ NeverExhausted'
    BY <1>4, <2>1, NotSweeping, NotFailed DEF At, CauseOK, WhyCleaned
  <2>. QED  BY <1>1, <1>2, <1>4, <2>2, <2>3, <2>4, <2>5, SamePins, SameBounds, SameReaders,
               SameFrames, SameList, SameFiles, SameWork, SameContents
<1>. QED  BY <1>3, <1>4 DEF OpenFile

LEMMA NoFrameKeeps ==
    ASSUME PoolInv, NoFrame
    PROVE  PoolInv'
<1>. USE DEF PoolInv
<1>1. /\ At("frame") /\ FreeFrames = {}
      /\ mutex \in Threads /\ job.page \in Pages /\ ~Resident(job.page)
      /\ UNCHANGED <<frames, dirty, readers, lru, nPages, open, buf, disk, logged, durable, mutex, pin, work>>
  BY HolderFacts DEF NoFrame, poolVars, storeVars, threadVars
<1>2. /\ job' \in Jobs /\ job'.at = "clean" /\ job'.page = job.page /\ job'.back = "frame"
  BY GoFacts DEF NoFrame, Clean, Places
<1>3. TypeOK'
  BY <1>1, <1>2 DEF TypeOK, Jobs
<1>4. HolderOK'
  BY <1>1, <1>2, NonesAssumption DEF HolderOK, At, Resident, Cleaning
<1>5. \A g \in Files : OnItsWay(g)' = OnItsWay(g)
  BY <1>1, <1>2 DEF OnItsWay, At
<1>6. CauseOK' /\ SweepOK' /\ NeverExhausted'
  BY <1>1, <1>2, NotSweeping, NotFailed DEF At, CauseOK, WhyCleaned, FreeFrames
<1>. QED  BY <1>1, <1>3, <1>4, <1>5, <1>6, SamePins, SameBounds, SameReaders, SameFrames,
             SameList, SameFiles, SameWork, SameContents

LEMMA LoadPageKeeps ==
    ASSUME PoolInv, LoadPage
    PROVE  PoolInv'
<1>. USE DEF PoolInv
<1>1. PICK i \in Frames, t \in Threads, p \in Pages :
      /\ At("frame") /\ t = mutex /\ p = job.page /\ ~Resident(p) /\ FileOf[p] \in Files
      /\ frames[i] = Free
      /\ frames' = [frames EXCEPT ![i] = p]
      /\ dirty' = [dirty EXCEPT ![i] = FALSE]
      /\ readers' = [readers EXCEPT ![i] = 1]
      /\ buf' = [buf EXCEPT ![i] = disk[p]]
      /\ lru' = Append(lru, i)
      /\ pin' = [pin EXCEPT ![t][p] = i]
      /\ mutex' = Nobody
      /\ job' = NoJob
      /\ UNCHANGED <<nPages, open, disk, logged, durable, work>>
  <2>1. FreeFrames # {} /\ FreeFrames \in SUBSET Frames
    BY DEF LoadPage, FreeFrames
  <2>2. Min(FreeFrames) \in Frames /\ frames[Min(FreeFrames)] = Free
    BY <2>1, LeastFrame DEF FreeFrames
  <2>3. mutex \in Threads /\ job.page \in Pages /\ ~Resident(job.page) /\ FileOf[job.page] \in Files
    BY HolderFacts DEF LoadPage
  <2>. QED  BY <2>2, <2>3 DEF LoadPage
<1>2. /\ i \in 1 .. NFrames /\ i # 0 /\ p # Free
      /\ \A u \in Threads : pin[u][p] = 0 /\ work[u][p] = "done"
      /\ \A u \in Threads, q \in Pages : pin[u][q] # i
  <2>1. i \in 1 .. NFrames /\ i # 0 /\ p # Free
    BY NonesAssumption, FramesFacts DEF Frames
  <2>2. ASSUME NEW u \in Threads PROVE pin[u][p] = 0 /\ work[u][p] = "done"
    BY <1>1, SomebodyHas DEF Resident, WorkOK
  <2>3. ASSUME NEW u \in Threads, NEW q \in Pages PROVE pin[u][q] # i
    BY <1>1, <2>1, NonesAssumption DEF PinsStay
  <2>. QED  BY <2>1, <2>2, <2>3
<1>3. /\ \A j \in Frames : frames'[j] = IF j = i THEN p ELSE frames[j]
      /\ \A j \in Frames : dirty'[j] = IF j = i THEN FALSE ELSE dirty[j]
      /\ \A j \in Frames : readers'[j] = IF j = i THEN 1 ELSE readers[j]
      /\ \A j \in Frames : buf'[j] = IF j = i THEN disk[p] ELSE buf[j]
      /\ \A u \in Threads, q \in Pages : pin'[u][q] = IF u = t /\ q = p THEN i ELSE pin[u][q]
  BY <1>1 DEF TypeOK
<1>4. ListOK' /\ lru' \in Seq(Frames)
  <2>1. lru \in Seq(Frames) /\ Once(lru) /\ ~Listed(lru, i)
    BY <1>1 DEF ListOK, TypeOK
  <2>2. /\ lru' \in Seq(Frames) /\ Once(lru')
        /\ \A j \in Frames : Listed(lru', j) <=> j = i \/ Listed(lru, j)
    BY <1>1, <2>1, AppendOnce
  <2>. QED  BY <1>2, <1>3, <2>2 DEF ListOK
<1>5. TypeOK'
  <2>1. frames' \in [Frames -> Pages \cup {Free}] /\ dirty' \in [Frames -> BOOLEAN]
    BY <1>1 DEF TypeOK
  <2>2. readers' \in [Frames -> Nat] /\ buf' \in [Frames -> Nat]
    BY <1>1 DEF TypeOK
  <2>3. pin' \in [Threads -> [Pages -> 0..NFrames]]
    <3>1. i \in 0 .. NFrames /\ pin \in [Threads -> [Pages -> 0..NFrames]]
      BY <1>2 DEF TypeOK
    <3>. QED  BY <1>1, <3>1
  <2>4. job' \in Jobs
    BY <1>1, FramesFacts DEF NoJob, Jobs, Places
  <2>. QED  BY <1>1, <1>4, <2>1, <2>2, <2>3, <2>4 DEF TypeOK, Jobs
<1>6. HolderOK'
  <2>1. job'.at = "none"
    BY <1>1 DEF NoJob
  <2>. QED  BY <1>1, <2>1 DEF HolderOK, At, Cleaning
<1>7. PinsStay'
  <2>. SUFFICES ASSUME NEW u \in Threads, NEW q \in Pages, pin'[u][q] # 0
                PROVE  frames'[pin'[u][q]] = q
    BY DEF PinsStay
  <2>1. CASE u = t /\ q = p
    BY <1>3, <2>1
  <2>2. CASE ~(u = t /\ q = p)
    <3>1. pin'[u][q] = pin[u][q] /\ pin[u][q] # i
      BY <1>2, <1>3, <2>2
    <3>2. pin[u][q] \in Frames /\ frames[pin[u][q]] = q
      BY <3>1, SomebodyHas
    <3>. QED  BY <1>3, <3>1, <3>2
  <2>. QED  BY <2>1, <2>2
<1>8. PinsBounded'
  <2>1. /\ \A u \in Threads \ {t} : PinnedPages(u)' = PinnedPages(u)
        /\ Cardinality(PinnedPages(t)') = Cardinality(PinnedPages(t)) + 1
    BY <1>1, <1>2, OnePinMore
  <2>2. Cardinality(PinnedPages(t)') <= MaxPins
    BY <1>1, <2>1, PinnedFinite, SizesAssumption DEF PinsBounded
  <2>3. \A u \in Threads : mutex' # u
    BY <1>1, NonesAssumption
  <2>. QED  BY <2>1, <2>2, <2>3 DEF PinsBounded
<1>9. ReadersCounted'
  <2>1. ReadersOf(i)' = {t}
    BY <1>2, <1>3 DEF ReadersOf
  <2>2. readers'[i] = Cardinality(ReadersOf(i)')
    BY <1>3, <2>1, FS_Singleton
  <2>3. ASSUME NEW j \in Frames \ {i}, frames[j] # Free
        PROVE  readers'[j] = Cardinality(ReadersOf(j)')
    <3>1. frames[j] # p /\ frames[j] \in Pages
      BY <1>1, <2>3 DEF Resident, TypeOK
    <3>2. ReadersOf(j)' = ReadersOf(j)
      BY <1>3, <3>1 DEF ReadersOf
    <3>. QED  BY <1>3, <2>3, <3>2 DEF ReadersCounted
  <2>. QED  BY <1>3, <2>2, <2>3 DEF ReadersCounted
<1>10. FramesDistinct'
  BY <1>1, <1>2, <1>3 DEF FramesDistinct, Resident
<1>11. FilesOK'
  <2>1. \A g \in Files : OnItsWay(g) = (IF g = FileOf[p] THEN 1 ELSE 0) /\ OnItsWay(g)' = 0
    BY <1>1, NonesAssumption DEF OnItsWay, At
  <2>2. ASSUME NEW g \in Files
        PROVE  Cardinality(PagesOf(g)') = Cardinality(PagesOf(g)) + OnItsWay(g)
    <3>1. IsFiniteSet(PagesOf(g)) /\ Cardinality(PagesOf(g)) \in Nat /\ i \notin PagesOf(g)
      BY <1>1, FramesFacts DEF PagesOf
    <3>2. CASE g = FileOf[p]
      <4>1. PagesOf(g)' = PagesOf(g) \cup {i}
        BY <1>2, <1>3, <3>2, ZenonT(60) DEF PagesOf
      <4>. QED  BY <2>1, <3>1, <3>2, <4>1, FS_AddElement
    <3>3. CASE g # FileOf[p]
      <4>1. PagesOf(g)' = PagesOf(g)
        BY <1>1, <1>3, <3>3 DEF PagesOf
      <4>. QED  BY <2>1, <3>1, <3>3, <4>1
    <3>. QED  BY <3>2, <3>3
  <2>3. \A g \in Files : nPages'[g] = Cardinality(PagesOf(g)') + OnItsWay(g)'
    <3>. SUFFICES ASSUME NEW g \in Files
                  PROVE  nPages[g] = Cardinality(PagesOf(g)') + OnItsWay(g)'
      BY <1>1
    <3>1. Cardinality(PagesOf(g)) \in Nat
      BY FramesFacts DEF PagesOf
    <3>2. nPages[g] = Cardinality(PagesOf(g)) + OnItsWay(g)
      BY DEF FilesOK
    <3>. QED  BY <2>1, <2>2, <3>1, <3>2
  <2>. QED  BY <1>1, <2>3 DEF FilesOK
<1>12. WorkOK'
  BY <1>1, <1>2, <1>3 DEF WorkOK
<1>13. ContentsOK'
  <2>1. Changing(p) = {} /\ \A q \in Pages : Changing(q)' = Changing(q) /\ (AllDone(q)' <=> AllDone(q))
    BY <1>1, <1>2 DEF Changing, AllDone
  <2>2. ASSUME NEW j \in Frames, NEW q \in Pages \ Headers, frames'[j] = q
        PROVE  /\ buf'[j] = logged[q] + Cardinality(Changing(q)')
               /\ ~dirty'[j] /\ AllDone(q)' => disk[q] = logged[q]
    <3>1. CASE j = i
      <4>1. q = p /\ buf'[j] = disk[p]
        BY <1>3, <2>2, <3>1
      <4>2. disk[p] = logged[p] /\ logged[p] \in Nat
        BY <1>1, <2>2, <4>1 DEF ContentsOK, TypeOK
      <4>3. logged[p] + Cardinality(Changing(p)) = logged[p]
        BY <2>1, <4>2, FS_EmptySet
      <4>. QED  BY <2>1, <4>1, <4>2, <4>3
    <3>2. CASE j # i
      <4>1. frames[j] = q /\ buf'[j] = buf[j] /\ dirty'[j] = dirty[j]
        BY <1>3, <2>2, <3>2
      <4>. QED  BY <2>1, <4>1 DEF ContentsOK
    <3>. QED  BY <3>1, <3>2
  <2>3. ASSUME NEW q \in Pages \ Headers, ~Resident(q)' PROVE disk[q] = logged[q]
    <3>1. ~Resident(q)
      BY <1>1, <1>2, <1>3, <2>3, NonesAssumption DEF Resident
    <3>. QED  BY <3>1 DEF ContentsOK
  <2>4. ASSUME NEW j \in Frames, NEW q \in Headers, frames'[j] = q, AllDone(q)'
        PROVE  buf'[j] = disk[q]
    BY <1>3, <2>1, <2>4, FilesAssumption DEF ContentsOK
  <2>. QED  BY <1>1, <2>2, <2>3, <2>4 DEF ContentsOK
<1>14. CauseOK' /\ SweepOK' /\ NeverExhausted'
  <2>1. job'.at = "none"
    BY <1>1 DEF NoJob
  <2>. QED  BY <2>1, NotCleaning, NotFailed DEF Cleaning, At
<1>. QED  BY <1>4, <1>5, <1>6, <1>7, <1>8, <1>9, <1>10, <1>11, <1>12, <1>13, <1>14

-------------------------------------------------------------------------------
(* clean_pool gives a frame up whose page nobody has, after the page has     *)
(* been written if it was dirty.                                            *)
GivenUp(i) ==
    /\ i \in Frames /\ Evictable(i) /\ CleanPos(i)
    /\ disk' \in [Pages -> Nat]
    /\ disk'[frames[i]] = IF dirty[i] THEN buf[i] ELSE disk[frames[i]]
    /\ \A q \in Pages \ {frames[i]} : disk'[q] = disk[q]
    /\ \A f \in Files : OnItsWay(f)' = OnItsWay(f)
    /\ UNCHANGED <<buf, logged, durable, mutex, pin, work>>

LEMMA GivenUpFacts ==
    ASSUME TypeOK, FramesDistinct, NEW i, GivenUp(i)
    PROVE  /\ i \in Frames /\ frames[i] \in Pages /\ FileOf[frames[i]] \in Files
           /\ \A j \in Frames : frames'[j] = IF j = i THEN Free ELSE frames[j]
           /\ frames' \in [Frames -> Pages \cup {Free}]
           /\ \A q \in Pages : Resident(q)' <=> Resident(q) /\ q # frames[i]
<1>1. i \in Frames /\ frames[i] \in Pages /\ FileOf[frames[i]] \in Files
  BY FilesAssumption DEF GivenUp, Evictable, TypeOK
<1>2. frames' = [frames EXCEPT ![i] = Free] /\ frames \in [Frames -> Pages \cup {Free}]
  BY DEF GivenUp, CleanPos, TypeOK
<1>3. \A j \in Frames : frames'[j] = IF j = i THEN Free ELSE frames[j]
  BY <1>2
<1>4. \A q \in Pages : Resident(q)' <=> Resident(q) /\ q # frames[i]
  BY <1>1, <1>3, NonesAssumption DEF FramesDistinct, Resident
<1>. QED  BY <1>1, <1>2, <1>3, <1>4

LEMMA GivenUpFiles ==
    ASSUME TypeOK, FramesDistinct, FilesOK, NEW i, GivenUp(i)
    PROVE  FilesOK' /\ nPages' \in [Files -> Nat] /\ open' \subseteq Files
<1>1. PICK f \in Files : f = FileOf[frames[i]]
  BY GivenUpFacts
<1>2. /\ nPages' = [nPages EXCEPT ![f] = @ - 1]
      /\ open' = IF nPages'[f] = 0 THEN open \ {f} ELSE open
      /\ i \in Frames /\ frames[i] # Free
  BY <1>1 DEF GivenUp, CleanPos, Evictable
<1>3. ASSUME NEW g \in Files
      PROVE  /\ Cardinality(PagesOf(g)) \in Nat
             /\ Cardinality(PagesOf(g)') =
                  IF g = f THEN Cardinality(PagesOf(g)) - 1 ELSE Cardinality(PagesOf(g))
             /\ g = f => Cardinality(PagesOf(g)) # 0
  <2>1. IsFiniteSet(PagesOf(g)) /\ Cardinality(PagesOf(g)) \in Nat
    BY FramesFacts DEF PagesOf
  <2>2. CASE g = f
    <3>1. i \in PagesOf(g) /\ PagesOf(g)' = PagesOf(g) \ {i}
      BY <1>1, <1>2, <2>2, GivenUpFacts DEF PagesOf
    <3>2. Cardinality(PagesOf(g)) # 0
      BY <2>1, <3>1, FS_EmptySet
    <3>. QED  BY <2>1, <2>2, <3>1, <3>2, FS_RemoveElement
  <2>3. CASE g # f
    <3>1. PagesOf(g)' = PagesOf(g)
      BY <1>1, <2>3, GivenUpFacts DEF PagesOf
    <3>. QED  BY <2>1, <2>3, <3>1
  <2>. QED  BY <2>2, <2>3
<1>4. \A g \in Files : nPages'[g] = IF g = f THEN nPages[g] - 1 ELSE nPages[g]
  BY <1>2 DEF TypeOK
<1>5. \A g \in Files : OnItsWay(g) \in Nat /\ OnItsWay(g)' = OnItsWay(g)
  BY DEF OnItsWay, GivenUp
<1>6. \A g \in Files :
        /\ nPages'[g] = Cardinality(PagesOf(g)') + OnItsWay(g)'
        /\ nPages'[g] \in Nat
        /\ nPages[g] \in Nat
        /\ g = f => nPages[g] # 0
  <2>. SUFFICES ASSUME NEW g \in Files
                PROVE  /\ nPages'[g] = Cardinality(PagesOf(g)') + OnItsWay(g)'
                       /\ nPages'[g] \in Nat
                       /\ nPages[g] \in Nat
                       /\ g = f => nPages[g] # 0
    OBVIOUS
  <2>1. nPages[g] = Cardinality(PagesOf(g)) + OnItsWay(g)
    BY DEF FilesOK
  <2>. QED  BY <1>3, <1>4, <1>5, <2>1
<1>7. nPages' \in [Files -> Nat]
  <2>1. nPages[f] - 1 \in Nat
    BY <1>6
  <2>. QED  BY <1>2, <2>1 DEF TypeOK
<1>8. open = {g \in Files : nPages[g] > 0}
  BY DEF FilesOK
<1>9. open' = {g \in Files : nPages'[g] > 0}
  <2>1. \A g \in Files : nPages'[g] > 0 <=> nPages[g] > 0 /\ ~(g = f /\ nPages'[f] = 0)
    BY <1>4, <1>6
  <2>. QED  BY <1>2, <1>6, <1>8, <2>1
<1>10. Cardinality(open') <= MaxFds
  <2>1. open' \in SUBSET open
    BY <1>2
  <2>2. Cardinality(open') <= Cardinality(open) /\ Cardinality(open') \in Nat
    BY <2>1, OpenFinite, FS_Subset, FS_CardinalityType
  <2>3. Cardinality(open) <= MaxFds
    BY DEF FilesOK
  <2>. QED  BY <2>2, <2>3, OpenFinite, SizesAssumption
<1>11. open' \subseteq Files
  BY <1>9
<1>. QED  BY <1>6, <1>7, <1>9, <1>10, <1>11 DEF FilesOK

(* Nobody is at a change of a page that nobody has.                          *)
LEMMA NobodyChanges ==
    ASSUME PoolInv, NEW i \in Frames, Evictable(i), NEW p \in Pages, frames[i] = p
    PROVE  /\ AllDone(p) /\ Changing(p) = {}
           /\ p \notin Headers => buf[i] = logged[p]
<1>. USE DEF PoolInv
<1>1. AllDone(p) /\ Changing(p) = {}
  <2>1. ASSUME NEW t \in Threads PROVE work[t][p] = "done"
    <3>1. pin[t][p] # i
      BY NobodyHas
    <3>2. CASE pin[t][p] # 0
      BY <3>1, <3>2, SomebodyHas, NonesAssumption DEF FramesDistinct
    <3>3. CASE pin[t][p] = 0
      BY <3>3 DEF WorkOK
    <3>. QED  BY <3>2, <3>3
  <2>. QED  BY <2>1 DEF AllDone, Changing
<1>2. ASSUME p \notin Headers PROVE buf[i] = logged[p]
  <2>1. buf[i] = logged[p] + Cardinality(Changing(p)) /\ logged[p] \in Nat
    BY <1>2 DEF ContentsOK, TypeOK
  <2>. QED  BY <1>1, <2>1, FS_EmptySet
<1>. QED  BY <1>1, <1>2

LEMMA GivenUpContents ==
    ASSUME PoolInv, NEW i, GivenUp(i)
    PROVE  ContentsOK'
<1>. USE DEF PoolInv
<1>1. PICK p \in Pages : p = frames[i]
  BY GivenUpFacts
<1>2. /\ i \in Frames /\ Evictable(i) /\ UNCHANGED <<buf, logged, work>>
      /\ disk'[p] = IF dirty[i] THEN buf[i] ELSE disk[p]
      /\ \A q \in Pages \ {p} : disk'[q] = disk[q]
      /\ dirty' = dirty
  BY <1>1 DEF GivenUp, CleanPos
<1>3. AllDone(p) /\ (p \notin Headers => buf[i] = logged[p])
  BY <1>1, <1>2, NobodyChanges
<1>4. \A q \in Pages : Changing(q)' = Changing(q) /\ (AllDone(q)' <=> AllDone(q))
  BY <1>2 DEF Changing, AllDone
<1>5. p \notin Headers => disk'[p] = logged[p]
  <2>. SUFFICES ASSUME p \notin Headers PROVE disk'[p] = logged[p]
    OBVIOUS
  <2>1. ~dirty[i] => disk[p] = logged[p]
    BY <1>1, <1>2, <1>3 DEF ContentsOK
  <2>. QED  BY <1>2, <1>3, <2>1
<1>6. \A j \in Frames : frames'[j] # Free => frames'[j] = frames[j] /\ frames[j] # p
  BY <1>1, <1>2, GivenUpFacts, NonesAssumption DEF FramesDistinct
<1>7. ASSUME NEW j \in Frames, NEW q \in Pages \ Headers, frames'[j] = q
      PROVE  /\ buf'[j] = logged'[q] + Cardinality(Changing(q)')
             /\ ~dirty'[j] /\ AllDone(q)' => disk'[q] = logged'[q]
  <2>1. frames[j] = q /\ q # p
    BY <1>6, <1>7, NonesAssumption
  <2>2. /\ buf[j] = logged[q] + Cardinality(Changing(q))
        /\ ~dirty[j] /\ AllDone(q) => disk[q] = logged[q]
    BY <2>1 DEF ContentsOK
  <2>. QED  BY <1>2, <1>4, <2>1, <2>2
<1>8. ASSUME NEW q \in Pages \ Headers, ~Resident(q)' PROVE disk'[q] = logged'[q]
  <2>1. CASE q = p
    BY <1>2, <1>5, <2>1
  <2>2. CASE q # p
    <3>1. ~Resident(q)
      BY <1>1, <1>8, <2>2, GivenUpFacts
    <3>. QED  BY <1>2, <2>2, <3>1 DEF ContentsOK
  <2>. QED  BY <2>1, <2>2
<1>9. ASSUME NEW j \in Frames, NEW q \in Headers, frames'[j] = q, AllDone(q)'
      PROVE  buf'[j] = disk'[q]
  <2>1. frames[j] = q /\ q # p /\ q \in Pages
    BY <1>6, <1>9, NonesAssumption, FilesAssumption
  <2>. QED  BY <1>2, <1>4, <1>9, <2>1 DEF ContentsOK
<1>. QED  BY <1>7, <1>8, <1>9 DEF ContentsOK

LEMMA GivenUpKeeps ==
    ASSUME PoolInv, NEW i, GivenUp(i), job' \in Jobs
    PROVE  /\ TypeOK' /\ PinsStay' /\ PinsBounded' /\ ReadersCounted' /\ FramesDistinct'
           /\ ListOK' /\ FilesOK' /\ WorkOK' /\ ContentsOK'
<1>. USE DEF PoolInv
<1>1. /\ i \in Frames /\ Evictable(i) /\ lru' = Erased(i)
      /\ UNCHANGED <<dirty, readers, buf, logged, durable, mutex, pin, work>>
  BY DEF GivenUp, CleanPos
<1>2. \A j \in Frames : frames'[j] = IF j = i THEN Free ELSE frames[j]
  BY GivenUpFacts
<1>3. ListOK' /\ lru' \in Seq(Frames)
  <2>1. lru \in Seq(Frames) /\ Once(lru) /\ Listed(lru, i)
    BY <1>1 DEF ListOK, TypeOK, Evictable
  <2>2. /\ lru' \in Seq(Frames) /\ Once(lru')
        /\ \A j \in Frames : Listed(lru', j) <=> j # i /\ Listed(lru, j)
    BY <1>1, <2>1, ErasedFacts
  <2>. QED  BY <1>2, <2>2 DEF ListOK
<1>4. TypeOK'
  <2>1. disk' \in [Pages -> Nat]
    BY DEF GivenUp
  <2>. QED  BY <1>1, <1>3, <2>1, GivenUpFacts, GivenUpFiles DEF TypeOK, Jobs
<1>5. PinsStay'
  <2>1. \A t \in Threads, p \in Pages : pin[t][p] # i
    BY <1>1, NobodyHas
  <2>2. \A t \in Threads, p \in Pages : pin[t][p] # 0 => pin[t][p] \in Frames
    BY SomebodyHas
  <2>. QED  BY <1>1, <1>2, <2>1, <2>2 DEF PinsStay
<1>6. ReadersCounted' /\ FramesDistinct'
  <2>1. \A j \in Frames : frames'[j] # Free => j # i /\ frames'[j] = frames[j]
    BY <1>2
  <2>2. ReadersCounted'
    BY <1>1, <2>1 DEF ReadersCounted, ReadersOf
  <2>. QED  BY <2>1, <2>2 DEF FramesDistinct
<1>7. PinsBounded' /\ WorkOK'
  BY <1>1, SameBounds, SameWork
<1>. QED  BY <1>3, <1>4, <1>5, <1>6, <1>7, GivenUpFiles, GivenUpContents

(* The thread inside get_page can pin one page more, so the pages in use are  *)
(* fewer than all threads may pin.                                          *)
AllPinned == \A i \in Frames : frames[i] # Free => readers[i] # 0

LEMMA PinnedFew ==
    ASSUME PoolInv, mutex \in Threads, AllPinned
    PROVE  Cardinality(InUse) < Cardinality(Threads) * MaxPins
<1>. USE DEF PoolInv
<1>. DEFINE Slots == Threads \X (1 .. MaxPins)
            Taken == Slots \ {<<mutex, MaxPins>>}
<1>1. /\ MaxPins \in Nat \ {0} /\ Cardinality(Threads) \in Nat
      /\ IsFiniteSet(1 .. MaxPins) /\ Cardinality(1 .. MaxPins) = MaxPins
  BY SizesAssumption, ThreadsFacts, FS_Interval
<1>2. /\ IsFiniteSet(Taken) /\ Cardinality(Taken) = Cardinality(Threads) * MaxPins - 1
      /\ Cardinality(Threads) * MaxPins \in Nat
  <2>1. IsFiniteSet(Slots) /\ Cardinality(Slots) = Cardinality(Threads) * MaxPins
    BY <1>1, ThreadsAssumption, FS_Product
  <2>2. <<mutex, MaxPins>> \in Slots
    BY <1>1
  <2>3. Cardinality(Slots) \in Nat
    BY <2>1, FS_CardinalityType
  <2>. HIDE DEF Slots
  <2>. QED  BY <2>1, <2>2, <2>3, FS_RemoveElement
<1>3. ASSUME NEW t \in Threads
      PROVE  \E g \in Injection(PinnedPages(t), 1 .. MaxPins) :
                t = mutex => \A p \in PinnedPages(t) : g[p] # MaxPins
  <2>. DEFINE n == Cardinality(PinnedPages(t))
  <2>1. /\ IsFiniteSet(PinnedPages(t)) /\ n \in Nat /\ n <= MaxPins
        /\ t = mutex => n < MaxPins
    BY PinnedFinite DEF PinsBounded
  <2>2. ExistsBijection(1 .. n, PinnedPages(t))
    BY <2>1, FS_CardinalityType
  <2>3. PICK g \in Bijection(PinnedPages(t), 1 .. n) : TRUE
    BY <2>2, Fun_ExistsBijSymmetric DEF ExistsBijection
  <2>4. g \in Injection(PinnedPages(t), 1 .. n)
    BY <2>3 DEF Bijection
  <2>5. \A p \in PinnedPages(t) : g[p] \in 1 .. n /\ g[p] \in 1 .. MaxPins
    BY <1>1, <2>1, <2>4 DEF Injection
  <2>6. g \in Injection(PinnedPages(t), 1 .. MaxPins)
    BY <2>4, <2>5 DEF Injection, IsInjective
  <2>7. t = mutex => \A p \in PinnedPages(t) : g[p] # MaxPins
    BY <1>1, <2>1, <2>5
  <2>. QED  BY <2>6, <2>7
<1>4. ASSUME NEW i \in InUse
      PROVE  \E t \in Threads : frames[i] \in PinnedPages(t) /\ pin[t][frames[i]] = i
  <2>1. i \in Frames /\ frames[i] \in Pages /\ readers[i] # 0 /\ i # 0
    BY FramesFacts DEF InUse, AllPinned, TypeOK, Frames
  <2>2. ReadersOf(i) # {}
    BY <2>1, ThreadsFacts DEF ReadersCounted, InUse, ReadersOf
  <2>. QED  BY <2>1, <2>2 DEF ReadersOf, PinnedPages
<1>. DEFINE Place(t) == CHOOSE g \in Injection(PinnedPages(t), 1 .. MaxPins) :
                           t = mutex => \A p \in PinnedPages(t) : g[p] # MaxPins
            Reader(i) == CHOOSE t \in Threads :
                           frames[i] \in PinnedPages(t) /\ pin[t][frames[i]] = i
            slot == [i \in InUse |-> <<Reader(i), Place(Reader(i))[frames[i]]>>]
<1>5. \A t \in Threads :
        /\ Place(t) \in Injection(PinnedPages(t), 1 .. MaxPins)
        /\ t = mutex => \A p \in PinnedPages(t) : Place(t)[p] # MaxPins
  BY <1>3
<1>6. \A i \in InUse :
        /\ Reader(i) \in Threads /\ frames[i] \in PinnedPages(Reader(i))
        /\ pin[Reader(i)][frames[i]] = i
  BY <1>4
<1>. HIDE DEF Place, Reader
<1>7. ASSUME NEW i \in InUse PROVE slot[i] \in Taken
  <2>. DEFINE t == Reader(i)
  <2>1. t \in Threads /\ frames[i] \in PinnedPages(t)
    BY <1>6
  <2>2. /\ Place(t)[frames[i]] \in 1 .. MaxPins
        /\ t = mutex => Place(t)[frames[i]] # MaxPins
    BY <1>5, <2>1 DEF Injection
  <2>. QED  BY <2>1, <2>2
<1>8. ASSUME NEW i \in InUse, NEW j \in InUse, slot[i] = slot[j] PROVE i = j
  <2>1. Reader(i) = Reader(j) /\ Place(Reader(i))[frames[i]] = Place(Reader(i))[frames[j]]
    BY <1>8
  <2>2. frames[i] = frames[j]
    BY <1>5, <1>6, <2>1 DEF Injection, IsInjective
  <2>. QED  BY <1>6, <2>1, <2>2
<1>9. slot \in Injection(InUse, Taken)
  <2>. HIDE DEF Taken
  <2>1. slot \in [InUse -> Taken]
    BY <1>7
  <2>. QED  BY <1>8, <2>1 DEF Injection, IsInjective
<1>10. Cardinality(InUse) <= Cardinality(Taken) /\ Cardinality(InUse) \in Nat
  BY <1>2, <1>9, FS_Injection, FS_CardinalityType
<1>. QED  BY <1>2, <1>10

-------------------------------------------------------------------------------
LEMMA CleanOldestKeeps ==
    ASSUME PoolInv, CleanOldest
    PROVE  PoolInv'
<1>. USE DEF PoolInv
<1>1. /\ At("clean") /\ mutex \in Threads /\ job.page \in Pages /\ ~Resident(job.page)
      /\ job.back \in {"file", "frame"} /\ WhyCleaned
      /\ UNCHANGED <<buf, disk, logged, durable, mutex, pin, work>>
  <2>1. At("clean")
    BY DEF CleanOldest
  <2>2. job.back \in {"file", "frame"} /\ WhyCleaned
    BY <2>1 DEF HolderOK, CauseOK, Cleaning, At
  <2>. QED  BY <2>1, <2>2, HolderFacts DEF CleanOldest, storeVars, threadVars
<1>2. CASE lru = <<>> /\ Go("failed") /\ UNCHANGED poolVars
  <2>1. job' \in Jobs /\ job'.at = "failed" /\ job'.page = job.page /\ job'.back = job.back
    BY <1>2, GoFacts DEF Go, Places, TypeOK
  <2>2. UNCHANGED <<frames, dirty, readers, lru, nPages, open>>
    BY <1>2 DEF poolVars
  <2>3. TypeOK'
    BY <1>1, <2>1, <2>2 DEF TypeOK, Jobs
  <2>4. HolderOK'
    BY <1>1, <2>1, <2>2, NonesAssumption DEF HolderOK, At, Resident, Cleaning
  <2>5. \A g \in Files : OnItsWay(g)' = OnItsWay(g)
    BY <1>1, <2>1 DEF OnItsWay, At
  <2>6. CauseOK' /\ SweepOK'
    BY <2>1, NotCleaning DEF Cleaning
  <2>7. NeverExhausted'
    <3>1. \A i \in Frames : frames[i] = Free
      BY <1>2 DEF ListOK, Listed
    <3>2. InUse = {} /\ FreeFrames = Frames
      BY <3>1 DEF InUse, FreeFrames
    <3>3. Cardinality(open) \in Nat /\ Cardinality(open) <= 1
      <4>1. Cardinality(InUse) = 0
        BY <3>2, FS_EmptySet
      <4>. QED  BY <4>1, OpenFinite
    <3>4. FreeFrames # {}
      <4>1. 1 \in Frames
        BY SizesAssumption DEF Frames
      <4>. QED  BY <3>2, <4>1
    <3>5. Cardinality(Threads) * MaxPins \in Nat \ {0}
      <4>1. Cardinality(Threads) \in Nat \ {0}
        BY <1>1, ThreadsFacts
      <4>. QED  BY <4>1, SizesAssumption
    <3>6. ~Roomy
      <4>. DEFINE most == Cardinality(Threads) * MaxPins
      <4>. HIDE DEF most
      <4>1. Cardinality(open) >= MaxFds
        BY <1>1, <3>4 DEF WhyCleaned
      <4>2. MaxFds \in Nat /\ most \in Nat \ {0} /\ (Roomy => MaxFds > most)
        BY <3>5, SizesAssumption DEF Roomy, most
      <4>. QED  BY <3>3, <4>1, <4>2
    <3>. QED  BY <3>6 DEF NeverExhausted, Roomy
  <2>. QED  BY <1>1, <2>2, <2>3, <2>4, <2>5, <2>6, <2>7, SamePins, SameBounds, SameReaders,
               SameFrames, SameList, SameFiles, SameWork, SameContents
<1>3. CASE Go("flush log") /\ UNCHANGED poolVars
  <2>1. job' \in Jobs /\ job'.at = "flush log" /\ job'.page = job.page /\ job'.back = job.back
    BY <1>3, GoFacts DEF Go, Places, TypeOK
  <2>2. UNCHANGED <<frames, dirty, readers, lru, nPages, open>>
    BY <1>3 DEF poolVars
  <2>3. TypeOK'
    BY <1>1, <2>1, <2>2 DEF TypeOK, Jobs
  <2>4. HolderOK'
    BY <1>1, <2>1, <2>2, NonesAssumption DEF HolderOK, At, Resident, Cleaning
  <2>5. \A g \in Files : OnItsWay(g)' = OnItsWay(g)
    BY <1>1, <2>1 DEF OnItsWay, At
  <2>6. CauseOK' /\ SweepOK' /\ NeverExhausted'
    <3>1. WhyCleaned'
      BY <1>1, <2>1, <2>2 DEF WhyCleaned, FreeFrames
    <3>. QED  BY <2>1, <3>1, NotSweeping, NotFailed DEF CauseOK, At
  <2>. QED  BY <1>1, <2>2, <2>3, <2>4, <2>5, <2>6, SamePins, SameBounds, SameReaders,
               SameFrames, SameList, SameFiles, SameWork, SameContents
<1>4. CASE /\ lru # <<>> /\ readers[Head(lru)] = 0 /\ ~dirty[Head(lru)]
           /\ CleanPos(Head(lru))
           /\ IF Cardinality(open') < MaxFds THEN Go(job.back) ELSE UNCHANGED job
  <2>1. PICK i \in Frames : i = Head(lru) /\ frames[i] # Free
    <3>1. Head(lru) \in Frames /\ Listed(lru, Head(lru))
      <4>1. Len(lru) \in Nat \ {0} /\ Head(lru) = lru[1] /\ DOMAIN lru = 1 .. Len(lru)
        BY <1>4 DEF TypeOK
      <4>2. 1 \in DOMAIN lru /\ lru[1] \in Frames
        BY <4>1 DEF TypeOK
      <4>. QED  BY <4>1, <4>2 DEF Listed
    <3>. QED  BY <3>1 DEF ListOK
  <2>2. /\ job' \in Jobs /\ job'.page = job.page /\ job'.back = job.back
        /\ \/ job'.at = job.back
           \/ job'.at = "clean" /\ ~(Cardinality(open') < MaxFds)
    <3>1. CASE Cardinality(open') < MaxFds
      <4>1. job' = [job EXCEPT !.at = job.back] /\ job.back \in Places
        BY <1>1, <1>4, <3>1 DEF Go, Places
      <4>2. job.back \in {"none", "file", "frame"}
        BY <1>1
      <4>. QED  BY <4>1, <4>2, GoFacts
    <3>2. CASE ~(Cardinality(open') < MaxFds)
      BY <1>1, <1>4, <3>2 DEF TypeOK, Jobs, At
    <3>. QED  BY <3>1, <3>2
  <2>3. \A g \in Files : OnItsWay(g)' = OnItsWay(g)
    BY <1>1, <2>2 DEF OnItsWay, At
  <2>4. GivenUp(i)
    BY <1>1, <1>4, <2>1, <2>3 DEF GivenUp, Evictable, TypeOK
  <2>5. HolderOK'
    <3>1. ~Resident(job.page)'
      BY <1>1, <2>2, <2>4, GivenUpFacts
    <3>2. ~(\E j \in Frames : frames'[j] = job'.page)
      BY <3>1 DEF Resident
    <3>. QED  BY <1>1, <2>2, <3>2, NonesAssumption DEF HolderOK, At, Resident, Cleaning
  <2>6. CauseOK' /\ SweepOK' /\ NeverExhausted'
    <3>1. At("clean")' => WhyCleaned'
      <4>1. Cardinality(open') \in Nat
        <5>1. open' \in SUBSET open
          BY <1>4 DEF CleanPos
        <5>. QED  BY <5>1, OpenFinite, FS_Subset, FS_CardinalityType
      <4>. QED  BY <1>1, <2>2, <4>1, SizesAssumption DEF WhyCleaned, At
    <3>2. job'.at \in {"file", "frame", "clean"}
      BY <1>1, <2>2
    <3>. QED  BY <3>1, <3>2, NotSweeping, NotFailed DEF CauseOK, At
  <2>. QED  BY <2>2, <2>4, <2>5, <2>6, GivenUpKeeps
<1>. QED  BY <1>2, <1>3, <1>4 DEF CleanOldest

LEMMA FlushLogKeeps ==
    ASSUME PoolInv, FlushLog
    PROVE  PoolInv'
<1>. USE DEF PoolInv
<1>1. /\ At("flush log") /\ mutex \in Threads /\ job.page \in Pages /\ ~Resident(job.page)
      /\ job.back \in {"file", "frame"} /\ WhyCleaned
      /\ durable' = logged
      /\ UNCHANGED <<frames, dirty, readers, lru, nPages, open, buf, disk, logged, mutex, pin, work>>
  <2>1. At("flush log")
    BY DEF FlushLog
  <2>2. job.back \in {"file", "frame"} /\ WhyCleaned
    BY <2>1 DEF HolderOK, CauseOK, Cleaning, At
  <2>. QED  BY <2>1, <2>2, HolderFacts DEF FlushLog, poolVars, threadVars
<1>2. /\ job' \in Jobs /\ job'.at = "sweep" /\ job'.page = job.page /\ job'.back = job.back
      /\ job'.next = 1 /\ job'.cleaned = 0
  <2>1. job \in Jobs
    BY DEF TypeOK, Jobs
  <2>2. 1 \in 1 .. (NFrames + 1) /\ 0 \in 0 .. NFrames
    BY FramesFacts
  <2>3. "sweep" \in Places
    BY DEF Places
  <2>4. job' = [at |-> "sweep", page |-> job.page, back |-> job.back, next |-> 1, cleaned |-> 0]
    BY <2>1 DEF FlushLog, Jobs
  <2>5. job.page \in Pages \cup {Free} /\ job.back \in {"none", "file", "frame"}
    BY <2>1 DEF Jobs
  <2>. QED  BY <2>2, <2>3, <2>4, <2>5 DEF Jobs
<1>3. TypeOK'
  BY <1>1, <1>2 DEF TypeOK, Jobs
<1>4. HolderOK'
  <2>1. job'.cleaned < job'.next /\ job'.at = "sweep"
    BY <1>2
  <2>2. job'.page \in Pages /\ ~Resident(job.page)' /\ job'.page = job.page
    BY <1>1, <1>2 DEF Resident
  <2>3. mutex' # Nobody /\ job'.back \in {"file", "frame"}
    BY <1>1, <1>2, NonesAssumption
  <2>. QED  BY <2>1, <2>2, <2>3 DEF HolderOK, At, Resident, Cleaning
<1>5. \A g \in Files : OnItsWay(g)' = OnItsWay(g)
  BY <1>1, <1>2 DEF OnItsWay, At
<1>6. CauseOK' /\ NeverExhausted'
  <2>1. WhyCleaned'
    BY <1>1, <1>2 DEF WhyCleaned, FreeFrames
  <2>. QED  BY <1>2, <2>1, NotFailed DEF CauseOK, At
<1>7. SweepOK'
  <2>1. \A i \in Frames : 1 <= i
    BY FramesFacts DEF Frames
  <2>2. \A i \in Frames : frames'[i] # Free /\ frames'[i] \notin Headers =>
          durable'[frames'[i]] = logged'[frames'[i]]
    BY <1>1
  <2>. QED  BY <1>2, <2>1, <2>2 DEF SweepOK
<1>. QED  BY <1>1, <1>3, <1>4, <1>5, <1>6, <1>7, SamePins, SameBounds, SameReaders,
             SameFrames, SameList, SameFiles, SameWork, SameContents

LEMMA SweepKeeps ==
    ASSUME PoolInv, Sweep
    PROVE  PoolInv'
<1>. USE DEF PoolInv
<1>1. PICK i \in Frames :
      /\ i = job.next /\ At("sweep")
      /\ mutex \in Threads /\ job.page \in Pages /\ ~Resident(job.page)
      /\ job.back \in {"file", "frame"} /\ job.cleaned < i
      /\ UNCHANGED <<buf, logged, durable, mutex, pin, work>>
  <2>1. At("sweep") /\ job.next \in Frames
    BY DEF Sweep
  <2>2. job.back \in {"file", "frame"} /\ job.cleaned < job.next
    BY <2>1 DEF HolderOK, Cleaning, At
  <2>. QED  BY <2>1, <2>2, HolderFacts DEF Sweep, threadVars
<1>2. /\ job \in Jobs /\ i \in 1 .. NFrames /\ NFrames \in Nat
      /\ i + 1 \in 1 .. (NFrames + 1) /\ job.cleaned \in 0 .. NFrames
      /\ job.cleaned + 1 \in 0 .. NFrames
  <2>1. job \in Jobs /\ i \in 1 .. NFrames /\ NFrames \in Nat
    BY <1>1, FramesFacts DEF TypeOK, Jobs, Frames
  <2>2. job.cleaned \in 0 .. NFrames
    BY <2>1 DEF Jobs
  <2>. QED  BY <1>1, <2>1, <2>2
<1>3. \A j \in Frames : frames[j] # Free /\ readers[j] = 0 =>
        /\ i <= j
        /\ frames[j] \notin Headers => durable[frames[j]] = logged[frames[j]]
  BY <1>1 DEF SweepOK
<1>4. CASE /\ Evictable(i)
           /\ disk' = IF dirty[i] THEN [disk EXCEPT ![frames[i]] = buf[i]] ELSE disk
           /\ CleanPos(i)
           /\ job' = [job EXCEPT !.next = @ + 1, !.cleaned = @ + 1]
  <2>1. /\ job' \in Jobs /\ job'.at = "sweep" /\ job'.page = job.page /\ job'.back = job.back
        /\ job'.next = i + 1 /\ job'.cleaned = job.cleaned + 1
    <3>1. job' = [job EXCEPT !.next = i + 1, !.cleaned = job.cleaned + 1]
      BY <1>1, <1>4
    <3>. QED  BY <1>1, <1>2, <3>1 DEF Jobs, At
  <2>2. \A g \in Files : OnItsWay(g)' = OnItsWay(g)
    BY <1>1, <2>1 DEF OnItsWay, At
  <2>3. GivenUp(i)
    <3>1. frames[i] \in Pages /\ disk \in [Pages -> Nat] /\ buf[i] \in Nat
      BY <1>4 DEF Evictable, TypeOK
    <3>2. CASE dirty[i]
      BY <1>1, <1>4, <2>2, <3>1, <3>2 DEF GivenUp
    <3>3. CASE ~dirty[i]
      BY <1>1, <1>4, <2>2, <3>1, <3>3 DEF GivenUp
    <3>. QED  BY <3>2, <3>3
  <2>4. HolderOK'
    <3>1. ~Resident(job.page)'
      BY <1>1, <2>1, <2>3, GivenUpFacts
    <3>2. ~(\E j \in Frames : frames'[j] = job'.page)
      BY <3>1 DEF Resident
    <3>3. job'.cleaned < job'.next
      BY <1>1, <1>2, <2>1
    <3>. QED  BY <1>1, <2>1, <3>2, <3>3, NonesAssumption DEF HolderOK, At, Resident, Cleaning
  <2>5. SweepOK'
    <3>1. \A j \in Frames : frames'[j] # Free => j # i /\ frames'[j] = frames[j]
      BY <2>3, GivenUpFacts
    <3>2. \A j \in Frames : j # i /\ i <= j => i + 1 <= j
      BY <1>2 DEF Frames
    <3>3. readers' = readers
      BY <1>4 DEF CleanPos
    <3>4. \A j \in Frames : frames'[j] # Free /\ readers'[j] = 0 =>
            /\ job'.next <= j
            /\ frames'[j] \notin Headers => durable'[frames'[j]] = logged'[frames'[j]]
      BY <1>1, <1>3, <2>1, <3>1, <3>2, <3>3
    <3>. QED  BY <3>4 DEF SweepOK
  <2>6. CauseOK' /\ NeverExhausted'
    <3>1. job'.cleaned # 0
      BY <1>2, <2>1
    <3>. QED  BY <2>1, <3>1, NotFailed DEF CauseOK, At
  <2>. QED  BY <2>1, <2>3, <2>4, <2>5, <2>6, GivenUpKeeps
<1>5. CASE /\ ~Evictable(i)
           /\ job' = [job EXCEPT !.next = @ + 1]
           /\ UNCHANGED <<disk, poolVars>>
  <2>1. /\ job' \in Jobs /\ job'.at = "sweep" /\ job'.page = job.page /\ job'.back = job.back
        /\ job'.next = i + 1 /\ job'.cleaned = job.cleaned
    <3>1. job' = [job EXCEPT !.next = i + 1]
      BY <1>1, <1>5
    <3>. QED  BY <1>1, <1>2, <3>1 DEF Jobs, At
  <2>2. UNCHANGED <<frames, dirty, readers, lru, nPages, open, disk>>
    BY <1>5 DEF poolVars
  <2>3. TypeOK'
    BY <1>1, <2>1, <2>2 DEF TypeOK, Jobs
  <2>4. HolderOK'
    <3>1. job'.cleaned < job'.next
      BY <1>1, <1>2, <2>1
    <3>. QED  BY <1>1, <2>1, <2>2, <3>1, NonesAssumption DEF HolderOK, At, Resident, Cleaning
  <2>5. \A g \in Files : OnItsWay(g)' = OnItsWay(g)
    BY <1>1, <2>1 DEF OnItsWay, At
  <2>6. SweepOK'
    <3>1. \A j \in Frames : j # i /\ i <= j => i + 1 <= j
      BY <1>2 DEF Frames
    <3>2. \A j \in Frames : frames[j] # Free /\ readers[j] = 0 => j # i
      BY <1>5 DEF Evictable
    <3>. QED  BY <1>1, <1>3, <2>1, <2>2, <3>1, <3>2 DEF SweepOK
  <2>7. CauseOK' /\ NeverExhausted'
    <3>1. At("sweep")' /\ job'.cleaned = 0 => WhyCleaned'
      BY <1>1, <2>1, <2>2 DEF CauseOK, WhyCleaned, FreeFrames, At
    <3>. QED  BY <2>1, <3>1, NotFailed DEF CauseOK, At
  <2>. QED  BY <1>1, <2>2, <2>3, <2>4, <2>5, <2>6, <2>7, SamePins, SameBounds, SameReaders,
               SameFrames, SameList, SameFiles, SameWork, SameContents
<1>. QED  BY <1>1, <1>4, <1>5 DEF Sweep

(* After the sweep only pages in use are left, and they are fewer than the   *)
(* frames and the files of a roomy pool.                                    *)
LEMMA SweepDoneKeeps ==
    ASSUME PoolInv, SweepDone
    PROVE  PoolInv'
<1>. USE DEF PoolInv
<1>1. /\ At("sweep") /\ job.next \notin Frames
      /\ mutex \in Threads /\ job.page \in Pages /\ ~Resident(job.page)
      /\ job.back \in {"file", "frame"}
      /\ UNCHANGED <<frames, dirty, readers, lru, nPages, open, buf, disk, logged, durable, mutex, pin, work>>
  <2>1. At("sweep")
    BY DEF SweepDone
  <2>2. job.back \in {"file", "frame"}
    BY <2>1 DEF HolderOK, Cleaning, At
  <2>. QED  BY <2>1, <2>2, HolderFacts DEF SweepDone, poolVars, storeVars, threadVars
<1>2. /\ job' \in Jobs /\ job'.page = job.page /\ job'.back = job.back
      /\ \/ job'.at = job.back
         \/ job'.at = "failed" /\ ~(job.cleaned > 0 /\ Cardinality(open) < MaxFds)
  <2>1. CASE job.cleaned > 0 /\ Cardinality(open) < MaxFds
    <3>1. job' = [job EXCEPT !.at = job.back] /\ job.back \in Places
      BY <1>1, <2>1 DEF SweepDone, Go, Places
    <3>2. job.back \in {"none", "file", "frame"}
      BY <1>1
    <3>. QED  BY <3>1, <3>2, GoFacts
  <2>2. CASE ~(job.cleaned > 0 /\ Cardinality(open) < MaxFds)
    <3>1. job' = [job EXCEPT !.at = "failed"] /\ "failed" \in Places
      BY <2>2 DEF SweepDone, Go, Places
    <3>2. job.back \in {"none", "file", "frame"}
      BY <1>1
    <3>. QED  BY <2>2, <3>1, <3>2, GoFacts
  <2>. QED  BY <2>1, <2>2
<1>3. TypeOK'
  BY <1>1, <1>2 DEF TypeOK, Jobs
<1>4. HolderOK'
  BY <1>1, <1>2, NonesAssumption DEF HolderOK, At, Resident, Cleaning
<1>5. \A g \in Files : OnItsWay(g)' = OnItsWay(g)
  BY <1>1, <1>2 DEF OnItsWay, At
<1>6. CauseOK' /\ SweepOK'
  <2>1. job'.at \notin Cleaning
    BY <1>1, <1>2 DEF Cleaning
  <2>. QED  BY <2>1, NotCleaning
<1>7. NeverExhausted'
  <2>. SUFFICES ASSUME ~(job.cleaned > 0 /\ Cardinality(open) < MaxFds), Roomy PROVE FALSE
    BY <1>1, <1>2 DEF NeverExhausted, Roomy, At
  <2>. DEFINE most == Cardinality(Threads) * MaxPins
  <2>1. AllPinned
    <3>1. job.next \in 1 .. (NFrames + 1) /\ NFrames \in Nat
      BY FramesFacts DEF TypeOK
    <3>2. \A i \in Frames : ~(job.next <= i)
      BY <1>1, <3>1 DEF Frames
    <3>. QED  BY <1>1, <3>2 DEF SweepOK, AllPinned
  <2>2. Cardinality(InUse) < most
    BY <1>1, <2>1, PinnedFew
  <2>3. most \in Nat /\ NFrames >= most /\ MaxFds > most /\ MaxFds \in Nat
    <3>1. Cardinality(Threads) \in Nat
      BY ThreadsFacts
    <3>. QED  BY <3>1, SizesAssumption DEF Roomy
  <2>. HIDE DEF most
  <2>4. Cardinality(InUse) \in Nat /\ Cardinality(open) \in Nat
        /\ Cardinality(open) <= Cardinality(InUse) + 1
    BY OpenFinite
  <2>5. Cardinality(open) < MaxFds
    BY <2>2, <2>3, <2>4
  <2>6. job.cleaned = 0
    <3>1. job.cleaned \in Nat
      BY FramesFacts DEF TypeOK
    <3>. QED  BY <2>5, <3>1
  <2>7. FreeFrames = {}
    <3>1. ~(Cardinality(open) >= MaxFds)
      BY <2>3, <2>4, <2>5
    <3>. QED  BY <1>1, <2>6, <3>1 DEF CauseOK, WhyCleaned
  <2>8. InUse = Frames
    BY <2>7 DEF InUse, FreeFrames
  <2>. QED  BY <2>2, <2>3, <2>8, FramesFacts
<1>. QED  BY <1>1, <1>3, <1>4, <1>5, <1>6, <1>7, SamePins, SameBounds, SameReaders,
             SameFrames, SameList, SameFiles, SameWork, SameContents

-------------------------------------------------------------------------------
LEMMA PoolInvInit == Init => PoolInv
<1>. SUFFICES ASSUME Init PROVE PoolInv
  OBVIOUS
<1>. USE DEF Init
<1>1. \A i \in Frames : frames[i] = Free
  OBVIOUS
<1>2. TypeOK
  <2>1. job \in Jobs
    BY FramesFacts DEF NoJob, Jobs, Places
  <2>2. lru \in Seq(Frames)
    OBVIOUS
  <2>3. pin \in [Threads -> [Pages -> 0..NFrames]]
    BY FramesFacts
  <2>. QED  BY <2>1, <2>2, <2>3 DEF TypeOK, Jobs
<1>3. HolderOK /\ CauseOK /\ SweepOK /\ NeverExhausted
  <2>1. job.at = "none"
    BY DEF NoJob
  <2>. QED  BY <2>1 DEF HolderOK, CauseOK, SweepOK, NeverExhausted, Cleaning, At
<1>4. PinsStay /\ WorkOK
  BY FilesAssumption DEF PinsStay, WorkOK
<1>5. PinsBounded
  <2>1. \A t \in Threads : PinnedPages(t) = {}
    BY DEF PinnedPages
  <2>2. Cardinality({}) = 0 /\ MaxPins \in Nat \ {0}
    BY FS_EmptySet, SizesAssumption
  <2>3. ASSUME NEW t \in Threads
        PROVE  Cardinality(PinnedPages(t)) = 0 /\ 0 <= MaxPins /\ mutex # t
    <3>1. PinnedPages(t) = {}
      BY <2>1
    <3>. QED  BY <2>2, <3>1, NonesAssumption
  <2>. QED  BY <2>3 DEF PinsBounded
<1>6. ReadersCounted /\ FramesDistinct
  BY <1>1 DEF ReadersCounted, FramesDistinct
<1>7. ListOK
  BY <1>1 DEF ListOK, Listed, Once
<1>8. FilesOK
  <2>1. \A f \in Files : PagesOf(f) = {} /\ OnItsWay(f) = 0
    BY <1>1 DEF PagesOf, OnItsWay
  <2>2. \A f \in Files : nPages[f] = Cardinality(PagesOf(f)) + OnItsWay(f)
    <3>. SUFFICES ASSUME NEW f \in Files PROVE nPages[f] = Cardinality(PagesOf(f)) + OnItsWay(f)
      OBVIOUS
    <3>1. Cardinality(PagesOf(f)) = 0
      <4>1. PagesOf(f) = {}
        BY <2>1
      <4>. QED  BY <4>1, FS_EmptySet
    <3>. QED  BY <2>1, <3>1
  <2>3. Cardinality(open) <= MaxFds
    BY FS_EmptySet, SizesAssumption
  <2>. QED  BY <2>2, <2>3 DEF FilesOK
<1>9. ContentsOK
  BY <1>1, NonesAssumption, FilesAssumption DEF ContentsOK
<1>. QED  BY <1>2, <1>3, <1>4, <1>5, <1>6, <1>7, <1>8, <1>9 DEF PoolInv

LEMMA PoolInvNext == PoolInv /\ [Next]_vars => PoolInv'
<1>. SUFFICES ASSUME PoolInv, [Next]_vars PROVE PoolInv'
  OBVIOUS
<1>1. CASE UNCHANGED vars
  <2>1. UNCHANGED <<frames, dirty, readers, buf, lru, nPages, open, mutex, job, disk, logged,
                    durable, pin, work>>
    BY <1>1 DEF vars, poolVars, storeVars, threadVars
  <2>2. TypeOK' /\ SweepOK'
    BY <2>1 DEF PoolInv, TypeOK, SweepOK, At
  <2>. QED  BY <2>1, <2>2, SameHolder, SamePins, SameBounds, SameReaders, SameFrames, SameList,
               SameFiles, SameWay, SameWork, SameContents, SameCause, SameFailure DEF PoolInv
<1>2. CASE GoOn
  BY <1>2, OpenFileKeeps, LoadPageKeeps, NoFrameKeeps, CleanOldestKeeps, FlushLogKeeps,
     SweepKeeps, SweepDoneKeeps DEF GoOn, CleanPool
<1>3. ASSUME NEW t \in Threads, NEW p \in Pages,
             Hit(t, p) \/ Miss(t, p) \/ Change(t, p) \/ Use(t, p)
      PROVE  PoolInv'
  BY <1>3, HitKeeps, MissKeeps, ChangeKeeps, AddLogKeeps, MarkDirtyKeeps, FlushPageKeeps,
     ReleaseKeeps DEF Use
<1>4. CASE FlushLogs \/ FlushAllPages
  BY <1>4, FlushLogsKeeps, FlushAllPagesKeeps
<1>. QED  BY <1>1, <1>2, <1>3, <1>4 DEF Next

(* The inductive invariant holds in every reachable state.                   *)
THEOREM PoolInvHolds == Spec => []PoolInv
<1>1. Init => PoolInv
  BY PoolInvInit
<1>2. PoolInv /\ [Next]_vars => PoolInv'
  BY PoolInvNext
<1>. QED  BY <1>1, <1>2, PTL DEF Spec

(* Each variable of the pool, its files and its users keeps to its type.     *)
THEOREM PoolTypes == Spec => []TypeOK
<1>1. PoolInv => TypeOK
  BY DEF PoolInv
<1>. QED  BY <1>1, PoolInvHolds, PTL

(* A page that a thread has got stays in its frame until the thread releases *)
(* it (n_readers keeps clean_pool away).                                    *)
THEOREM PagesStayWithTheirUsers == Spec => []PinsStay
<1>1. PoolInv => PinsStay
  BY DEF PoolInv
<1>. QED  BY <1>1, PoolInvHolds, PTL

(* No assertion of get_page or clean_pool fails in a roomy pool.             *)
THEOREM RoomyPoolNeverFails == Spec => []NeverExhausted
<1>1. PoolInv => NeverExhausted
  BY DEF PoolInv
<1>. QED  BY <1>1, PoolInvHolds, PTL

(* A page is never read back without changes that were made to it in the     *)
(* pool.                                                                    *)
THEOREM NoChangeIsLost == Spec => []NothingLost
<1>1. ASSUME PoolInv PROVE NothingLost
  <2>1. ASSUME NEW i \in Frames, NEW p \in Pages \ Headers, frames[i] = p, readers[i] = 0
        PROVE  buf[i] = logged[p] /\ (~dirty[i] => disk[p] = logged[p])
    <3>1. AllDone(p) /\ buf[i] = logged[p]
      BY <1>1, <2>1, NobodyChanges, NonesAssumption DEF Evictable
    <3>. QED  BY <1>1, <2>1, <3>1 DEF PoolInv, ContentsOK
  <2>2. ASSUME NEW i \in Frames, NEW p \in Headers, frames[i] = p, readers[i] = 0
        PROVE  buf[i] = disk[p]
    <3>1. AllDone(p)
      BY <1>1, <2>2, NobodyChanges, NonesAssumption, FilesAssumption DEF Evictable
    <3>. QED  BY <1>1, <2>2, <3>1 DEF PoolInv, ContentsOK
  <2>. QED  BY <1>1, <2>1, <2>2 DEF NothingLost, PoolInv, ContentsOK
<1>. QED  BY <1>1, PoolInvHolds, PTL

LEMMA OnceCounted ==
    ASSUME NEW s \in Seq(Frames), Once(s)
    PROVE  Len(s) = Cardinality(ToSet(s))
<1>. DEFINE g == [k \in 1 .. Len(s) |-> s[k]]
<1>1. Len(s) \in Nat /\ DOMAIN s = 1 .. Len(s)
  OBVIOUS
<1>2. g \in Bijection(1 .. Len(s), ToSet(s))
  BY <1>1 DEF ToSet, Once, Bijection, Injection, IsInjective, Surjection
<1>. QED  BY <1>1, <1>2, FS_CountingElements DEF ExistsBijection

(* n_readers, the page table, the LRU list and the file table agree with     *)
(* each other and with what the threads have.                               *)
THEOREM BooksAreRight == Spec => []Bookkeeping
<1>1. ASSUME PoolInv PROVE Bookkeeping
  <2>1. \A i \in Frames : frames[i] # Free =>
          /\ readers[i] = Cardinality({t \in Threads : pin[t][frames[i]] = i})
          /\ \A j \in Frames : frames[j] = frames[i] => j = i
    BY <1>1 DEF PoolInv, ReadersCounted, ReadersOf, FramesDistinct
  <2>2. /\ \A i \in Frames : frames[i] # Free <=> i \in ToSet(lru)
        /\ Len(lru) = Cardinality(ToSet(lru))
    <3>1. Once(lru) /\ lru \in Seq(Frames) /\ \A i \in Frames : frames[i] # Free <=> Listed(lru, i)
      BY <1>1 DEF PoolInv, ListOK, TypeOK
    <3>2. \A i \in Frames : Listed(lru, i) <=> i \in ToSet(lru)
      BY DEF Listed, ToSet
    <3>. QED  BY <3>1, <3>2, OnceCounted
  <2>3. FilesOK
    BY <1>1 DEF PoolInv
  <2>. QED  BY <2>1, <2>2, <2>3 DEF Bookkeeping, FilesOK
<1>. QED  BY <1>1, PoolInvHolds, PTL

(* What clean_pool writes when it evicts pages has its log items in the log  *)
(* file.  (flush_all_pages of a checkpoint is not meant: it writes the pages *)
(* and then the log, while no transaction runs.)                            *)
THEOREM LogGoesFirst == Spec => LogBeforeData
<1>. DEFINE P == At("sweep") => \A p \in Pages \ Headers :
                   disk'[p] # disk[p] => disk'[p] <= durable[p]
<1>1. ASSUME PoolInv, [Next]_vars PROVE P
  <2>. SUFFICES ASSUME At("sweep"), NEW p \in Pages \ Headers, disk'[p] # disk[p]
                PROVE  disk'[p] <= durable[p]
    OBVIOUS
  <2>1. mutex # Nobody
    BY <1>1, HolderFacts, NonesAssumption DEF PoolInv
  <2>2. CASE Sweep
    <3>1. PICK i \in Frames :
            /\ Evictable(i) /\ i = job.next
            /\ disk' = IF dirty[i] THEN [disk EXCEPT ![frames[i]] = buf[i]] ELSE disk
      BY <2>2 DEF Sweep
    <3>2. frames[i] = p /\ disk'[p] = buf[i]
      BY <1>1, <3>1 DEF PoolInv, TypeOK
    <3>3. buf[i] = logged[p]
      BY <1>1, <3>1, <3>2, NobodyChanges
    <3>4. durable[p] = logged[p]
      BY <1>1, <3>1, <3>2 DEF PoolInv, SweepOK, Evictable
    <3>5. logged[p] \in Nat
      BY <1>1 DEF PoolInv, TypeOK
    <3>. QED  BY <3>2, <3>3, <3>4, <3>5
  <2>3. CASE ~Sweep
    <3>1. disk' = disk
      BY <1>1, <2>1, <2>3, ZenonT(60) DEF Next, vars, GoOn, CleanPool, Use, storeVars, threadVars,
         OpenFile, LoadPage, NoFrame, CleanOldest, FlushLog, SweepDone, Hit, Miss, Change,
         AddLog, MarkDirty, FlushPage, Release, FlushLogs, FlushAllPages
    <3>. QED  BY <3>1
  <2>. QED  BY <2>2, <2>3
<1>. QED  BY <1>1, PoolInvHolds, PTL DEF Spec, LogBeforeData

===============================================================================
