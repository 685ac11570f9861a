----------------------------- MODULE LogStoreProofs ----------------------------
(***************************************************************************)
(* The log on disk for any page size and any number of items and torn page  *)
(* writes: as long as no crash tears the backup while it is the only good   *)
(* copy of the last page (SparingSpec), the constructor opens the log again, *)
(* and the pages, the header and the backup implement a log that loses       *)
(* nothing flushed.                                                        *)
(***************************************************************************)
EXTENDS LogStore, SequenceTheorems, WellFoundedInduction, TLAPS

Short(s) == Len(s) <= SlotsPerPage
LastGood(n) == n > 0 => Valid(pages[n - 1])
StartsWith(s, t) == \E m \in 0..Len(s) : t = SubSeq(s, 1, m)

(* The pages there can be after a items were added, and what they may hold. *)
Few(n, a) == n <= 1 \/ n <= a

Fits(i, a) ==
    /\ Short(ItemsOf(i))
    /\ a = 0 => ItemsOf(i) = <<>>
    /\ Valid(i) => Few(i.n, a)

ImagesOK ==
    /\ Fits(header, added) /\ Fits(backup, added)
    /\ \A p \in PageIds : Fits(pages[p], added)

(* Memory, while the log is open.                                           *)
MemoryOK ==
    IF Up THEN /\ headerPage = logPageId + (IF everFlushed THEN 1 ELSE 0)
               /\ Few(logPageId + 1, added)
               /\ logPage # <<>> => added > 0
               /\ pending # <<>> => /\ Len(pending) = 1 /\ logPageId + 2 <= added
                                    /\ pc # "idle"
    ELSE logPage = <<>> /\ logPageId = 0 /\ ~everFlushed /\ pending = <<>>

(* The files, while the log is open: the log page, or its backup, is what    *)
(* was in memory some time ago, or is in it now.                            *)
FilesOK ==
    Up => /\ Valid(header)
          /\ header.n = IF pc \in {"headerBackup", "header"} THEN logPageId ELSE headerPage
          /\ pc = "logPage" => backup = LogImage(logPage)
          /\ pc = "header" => backup = HeaderImage(headerPage)
          /\ IF pc \in {"headerBackup", "header", "flushed"}
             THEN everFlushed /\ pages[logPageId] = LogImage(logPage)
             ELSE everFlushed => IF Valid(pages[logPageId])
                                 THEN StartsWith(logPage, pages[logPageId].items)
                                 ELSE Valid(backup) /\ StartsWith(logPage, backup.items)
          /\ header.n = logPageId => LastGood(logPageId)

(* The files, while the log is closed or being opened.                      *)
OpeningOK ==
    /\ pc = "down" => IF Valid(header) THEN LastGood(header.n) \/ Valid(backup)
                      ELSE Valid(backup) => LastGood(backup.n)
    /\ pc = "restoreHeader" => /\ ~Valid(header) /\ Valid(backup)
                               /\ headerPage = backup.n /\ LastGood(headerPage)
    /\ pc = "newBackup" => ~Valid(header) /\ ~Valid(backup) /\ headerPage = 0
    /\ pc = "newHeader" => ~Valid(header) /\ backup = HeaderImage(0) /\ headerPage = 0
    /\ pc = "openPage" => /\ Valid(header) /\ headerPage = header.n
                          /\ LastGood(headerPage) \/ (headerValid /\ Valid(backup))

AckedOK ==
    /\ IF Up THEN acked <= Len(LogOnDisk) ELSE acked = Len(LogOnDisk)
    /\ Len(Log) + Len(pending) <= added

LogInv ==
    /\ TypeOK /\ OpensAgain
    /\ ImagesOK /\ MemoryOK /\ FilesOK /\ OpeningOK /\ AckedOK

-------------------------------------------------------------------------------
(* Induction over the natural numbers, for what FlattenSeq computes.         *)
LEMMA LeastNat ==
    ASSUME NEW S \in SUBSET Nat, S # {}
    PROVE  \E m \in S : \A n \in S : m <= n
<1>1. IsWellFoundedOn(OpToRel(<, Nat), Nat)
  BY NatLessThanWellFounded
<1>2. PICK m \in S : \A n \in S : ~(<<n, m>> \in OpToRel(<, Nat))
  BY <1>1, WFMin
<1>3. \A n \in S : ~(n < m)
  BY <1>2, Zenon DEF OpToRel
<1>. QED  BY <1>3

LEMMA Induct ==
    ASSUME NEW T, 0 \in T, \A n \in Nat : n \in T => n + 1 \in T
    PROVE  Nat \subseteq T
<1>. SUFFICES ASSUME Nat \ T # {} PROVE FALSE
  OBVIOUS
<1>1. PICK m \in Nat \ T : \A n \in Nat \ T : m <= n
  BY LeastNat
<1>2. m # 0 /\ m - 1 \in Nat
  BY <1>1
<1>3. m - 1 \in T
  BY <1>1, <1>2
<1>. QED  BY <1>1, <1>2, <1>3

(* f flattens the first n of s.                                             *)
Flattens(f, s, n) == f = [i \in 1 .. n |-> IF i = 1 THEN s[i] ELSE f[i - 1] \o s[i]]

LEMMA FlattensAt ==
    ASSUME NEW n \in Nat, NEW s, NEW f, Flattens(f, s, n), NEW i \in 1 .. n
    PROVE  f[i] = IF i = 1 THEN s[i] ELSE f[i - 1] \o s[i]
BY DEF Flattens

LEMMA FlattensExists ==
    ASSUME NEW s, NEW n \in Nat
    PROVE  \E f : Flattens(f, s, n)
<1>. DEFINE T == {k \in Nat : \E f : Flattens(f, s, k)}
<1>1. 0 \in T
  <2>. DEFINE f == [i \in 1 .. 0 |-> s[i]]
  <2>1. Flattens(f, s, 0)
    BY DEF Flattens
  <2>. QED  BY <2>1
<1>2. ASSUME NEW k \in Nat, k \in T PROVE k + 1 \in T
  <2>1. PICK f : Flattens(f, s, k)
    BY <1>2
  <2>. DEFINE g == [i \in 1 .. k + 1 |->
                      IF i = k + 1 THEN IF i = 1 THEN s[i] ELSE f[i - 1] \o s[i] ELSE f[i]]
  <2>2. \A i \in 1 .. k : g[i] = f[i] /\ f[i] = IF i = 1 THEN s[i] ELSE f[i - 1] \o s[i]
    <3>1. \A i \in 1 .. k : i # k + 1 /\ i \in 1 .. k + 1
      OBVIOUS
    <3>2. \A i \in 1 .. k : g[i] = f[i]
      BY <3>1
    <3>. HIDE DEF g
    <3>. QED  BY <2>1, <3>2, FlattensAt
  <2>3. \A i \in 1 .. k + 1 : i = 1 \/ i - 1 \in 1 .. k
    OBVIOUS
  <2>4. \A i \in 1 .. k + 1 : g[i] = IF i = 1 THEN s[i] ELSE g[i - 1] \o s[i]
    <3>. SUFFICES ASSUME NEW i \in 1 .. k + 1
                  PROVE  g[i] = IF i = 1 THEN s[i] ELSE g[i - 1] \o s[i]
      OBVIOUS
    <3>1. CASE i = k + 1
      <4>1. g[i] = IF i = 1 THEN s[i] ELSE f[i - 1] \o s[i]
        BY <3>1
      <4>. HIDE DEF g
      <4>. QED  BY <2>2, <2>3, <4>1
    <3>2. CASE i # k + 1
      <4>1. i \in 1 .. k
        BY <3>2
      <4>. HIDE DEF g
      <4>. QED  BY <2>2, <2>3, <4>1
    <3>. QED  BY <3>1, <3>2
  <2>5. Flattens(g, s, k + 1)
    <3>1. g = [i \in 1 .. k + 1 |-> g[i]]
      OBVIOUS
    <3>. HIDE DEF g
    <3>. QED  BY <2>4, <3>1 DEF Flattens
  <2>. QED  BY <2>5
<1>. QED
  <2>. HIDE DEF T
  <2>1. Nat \subseteq T
    BY <1>1, <1>2, Induct
  <2>. QED  BY <2>1 DEF T

LEMMA FlattensType ==
    ASSUME NEW S, NEW n \in Nat, NEW s, \A i \in 1 .. n : s[i] \in Seq(S),
           NEW f, Flattens(f, s, n)
    PROVE  \A i \in 1 .. n : f[i] \in Seq(S)
<1>. DEFINE D == {i \in 1 .. n : f[i] \notin Seq(S)}
<1>. SUFFICES ASSUME D # {} PROVE FALSE
  OBVIOUS
<1>1. PICK i \in D : \A j \in D : i <= j
  <2>1. D \in SUBSET Nat
    OBVIOUS
  <2>. HIDE DEF D
  <2>. QED  BY <2>1, LeastNat
<1>2. i \in 1 .. n /\ f[i] \notin Seq(S)
  BY <1>1
<1>3. f[i] = IF i = 1 THEN s[i] ELSE f[i - 1] \o s[i]
  BY <1>2 DEF Flattens
<1>4. CASE i # 1
  <2>1. i - 1 \in 1 .. n /\ ~(i <= i - 1)
    BY <1>2, <1>4
  <2>2. f[i - 1] \in Seq(S)
    BY <1>1, <2>1
  <2>3. f[i - 1] \o s[i] \in Seq(S)
    BY <1>2, <2>2, ConcatProperties
  <2>. QED  BY <1>2, <1>3, <1>4, <2>3
<1>. QED  BY <1>2, <1>3, <1>4

(* FlattenSeq(s) is the last of them.                                       *)
LEMMA FlattenSeqIs ==
    ASSUME NEW s, Len(s) \in Nat \ {0}
    PROVE  \E f : Flattens(f, s, Len(s)) /\ FlattenSeq(s) = f[Len(s)]
<1>. DEFINE f == CHOOSE f : Flattens(f, s, Len(s))
<1>1. Flattens(f, s, Len(s))
  BY FlattensExists
<1>2. FlattenSeq(s) = f[Len(s)]
  BY DEF FlattenSeq, Flattens
<1>. QED  BY <1>1, <1>2

LEMMA FlattenAppend ==
    ASSUME NEW S, NEW s \in Seq(Seq(S)), NEW t \in Seq(S)
    PROVE  /\ FlattenSeq(s) \in Seq(S)
           /\ FlattenSeq(Append(s, t)) = FlattenSeq(s) \o t
<1>. DEFINE a == Append(s, t)
<1>1. PICK n \in Nat :
      /\ n = Len(s) /\ Len(a) = n + 1 /\ a[n + 1] = t
      /\ \A i \in 1 .. n : a[i] = s[i] /\ s[i] \in Seq(S)
  OBVIOUS
<1>. HIDE DEF a
<1>2. PICK g : Flattens(g, a, n + 1) /\ FlattenSeq(a) = g[n + 1]
  BY <1>1, FlattenSeqIs
<1>3. g[n + 1] = IF n = 0 THEN t ELSE g[n] \o t
  <2>1. n + 1 \in 1 .. n + 1 /\ (n + 1 = 1 <=> n = 0) /\ n + 1 - 1 = n
    BY <1>1
  <2>2. g[n + 1] = IF n + 1 = 1 THEN a[n + 1] ELSE g[n + 1 - 1] \o a[n + 1]
    BY <1>1, <1>2, <2>1, FlattensAt
  <2>. QED  BY <1>1, <2>1, <2>2
<1>4. CASE n = 0
  <2>1. s = <<>> /\ FlattenSeq(s) = <<>>
    BY <1>1, <1>4, EmptySeq DEF FlattenSeq
  <2>2. <<>> \o t = t /\ <<>> \in Seq(S)
    BY ConcatEmptySeq
  <2>3. FlattenSeq(a) = t
    BY <1>2, <1>3, <1>4
  <2>. QED  BY <2>1, <2>2, <2>3 DEF a
<1>5. CASE n # 0
  <2>1. PICK f : Flattens(f, s, n) /\ FlattenSeq(s) = f[n]
    BY <1>1, <1>5, FlattenSeqIs
  <2>2. n \in 1 .. n /\ n <= n + 1 /\ n + 1 \in Nat
    BY <1>1, <1>5
  <2>3. f[n] = g[n]
    <3>. DEFINE D == {i \in 1 .. n : f[i] # g[i]}
    <3>. SUFFICES ASSUME D # {} PROVE FALSE
      BY <2>2
    <3>1. PICK i \in D : \A j \in D : i <= j
      <4>1. D \in SUBSET Nat
        OBVIOUS
      <4>. HIDE DEF D
      <4>. QED  BY <4>1, LeastNat
    <3>2. i \in 1 .. n /\ i \in 1 .. n + 1 /\ f[i] # g[i]
      BY <1>1, <3>1
    <3>3. /\ f[i] = IF i = 1 THEN s[i] ELSE f[i - 1] \o s[i]
          /\ g[i] = IF i = 1 THEN a[i] ELSE g[i - 1] \o a[i]
      <4>1. f[i] = IF i = 1 THEN s[i] ELSE f[i - 1] \o s[i]
        BY <2>1, <3>2, FlattensAt
      <4>2. g = [j \in 1 .. n + 1 |-> IF j = 1 THEN a[j] ELSE g[j - 1] \o a[j]]
        BY <1>2 DEF Flattens
      <4>3. g[i] = IF i = 1 THEN a[i] ELSE g[i - 1] \o a[i]
        BY <3>2, <4>2
      <4>. QED  BY <4>1, <4>3
    <3>4. CASE i # 1
      <4>1. i - 1 \in 1 .. n /\ ~(i <= i - 1)
        BY <3>2, <3>4
      <4>2. f[i - 1] = g[i - 1]
        BY <3>1, <4>1
      <4>. QED  BY <1>1, <3>2, <3>3, <3>4, <4>2
    <3>. QED  BY <1>1, <3>2, <3>3, <3>4
  <2>4. f[n] \in Seq(S)
    BY <1>1, <2>1, <2>2, FlattensType
  <2>. QED  BY <1>2, <1>3, <1>5, <2>1, <2>3, <2>4 DEF a
<1>. QED  BY <1>4, <1>5

-------------------------------------------------------------------------------
(* The log in a header, a backup and log pages.                              *)
Before(pgs, n) == FlattenSeq([p \in 1 .. n |-> ItemsOf(pgs[p - 1])])

DiskLog(h, b, pgs) ==
    LET n == IF Valid(h) THEN h.n ELSE IF Valid(b) THEN b.n ELSE 0
    IN IF n = 0 THEN <<>>
       ELSE Before(pgs, n - 1) \o (IF Valid(pgs[n - 1]) THEN pgs[n - 1].items ELSE ItemsOf(b))

LEMMA DiskLogIs ==
    /\ LogOnDisk = DiskLog(header, backup, pages)
    /\ LogOnDisk' = DiskLog(header', backup', pages')
    /\ Up => Log = Before(pages, logPageId) \o logPage
    /\ Up' => Log' = Before(pages', logPageId') \o logPage'
    /\ ~Up => Log = LogOnDisk
    /\ ~Up' => Log' = LogOnDisk'
BY DEF LogOnDisk, Log, DiskLog, Before, PagesBefore, HeaderOnDisk, LastPageOnDisk, ItemsOf, Valid

PageSets == [PageIds -> Image \cup {Bad}]

LEMMA ImageFacts ==
    ASSUME NEW i \in Image \cup {Bad}
    PROVE  ItemsOf(i) \in Seq(Items) /\ (Valid(i) => i \in Image /\ i.items = ItemsOf(i) /\ i.n \in PageIds)
BY DEF ItemsOf, Valid, Image

LEMMA BeforeNone ==
    ASSUME NEW pgs
    PROVE  Before(pgs, 0) = <<>>
<1>. DEFINE s == [p \in 1 .. 0 |-> ItemsOf(pgs[p - 1])]
<1>1. s = <<>> /\ Len(s) = 0
  OBVIOUS
<1>. QED  BY <1>1 DEF Before, FlattenSeq

LEMMA BeforeNext ==
    ASSUME NEW pgs \in PageSets, NEW n \in PageIds
    PROVE  /\ Before(pgs, n) \in Seq(Items)
           /\ Before(pgs, n + 1) = Before(pgs, n) \o ItemsOf(pgs[n])
<1>. DEFINE s == [p \in 1 .. n |-> ItemsOf(pgs[p - 1])]
            t == ItemsOf(pgs[n])
            u == [p \in 1 .. n + 1 |-> ItemsOf(pgs[p - 1])]
<1>1. n \in Nat /\ \A p \in 1 .. n + 1 : p - 1 \in PageIds
  BY BoundsAssumption DEF PageIds
<1>2. \A p \in PageIds : ItemsOf(pgs[p]) \in Seq(Items)
  BY ImageFacts DEF PageSets
<1>3. s \in Seq(Seq(Items)) /\ t \in Seq(Items) /\ Len(s) = n
  BY <1>1, <1>2
<1>4. Append(s, t) = u
  <2>1. \A p \in 1 .. n : p \in 1 .. n + 1
    BY <1>1
  <2>. QED  BY <1>1, <2>1
<1>. HIDE DEF s, t, u
<1>5. FlattenSeq(s) \in Seq(Items) /\ FlattenSeq(Append(s, t)) = FlattenSeq(s) \o t
  BY <1>3, FlattenAppend
<1>. QED  BY <1>4, <1>5 DEF Before, s, t, u

LEMMA BeforeSame ==
    ASSUME NEW n \in Nat, NEW pgs, NEW qgs, \A p \in 0 .. n - 1 : pgs[p] = qgs[p]
    PROVE  Before(pgs, n) = Before(qgs, n)
<1>1. \A p \in 1 .. n : p - 1 \in 0 .. n - 1
  OBVIOUS
<1>2. [p \in 1 .. n |-> ItemsOf(pgs[p - 1])] = [p \in 1 .. n |-> ItemsOf(qgs[p - 1])]
  BY <1>1
<1>. QED  BY <1>2 DEF Before

LEMMA ConcatAppend ==
    ASSUME NEW S, NEW s \in Seq(S), NEW t \in Seq(S), NEW x \in S
    PROVE  s \o Append(t, x) = Append(s \o t, x)
<1>1. Append(t, x) = t \o <<x>> /\ <<x>> \in Seq(S)
  OBVIOUS
<1>2. Append(s \o t, x) = (s \o t) \o <<x>>
  OBVIOUS
<1>3. s \o (t \o <<x>>) = (s \o t) \o <<x>>
  BY <1>1, ConcatAssociative
<1>. QED  BY <1>1, <1>2, <1>3

(* A log's beginning.                                                       *)
LEMMA StartsFacts ==
    ASSUME NEW s \in Seq(Items), NEW t, StartsWith(s, t)
    PROVE  t \in Seq(Items) /\ t = SubSeq(s, 1, Len(t)) /\ Len(t) \in 0 .. Len(s)
<1>1. PICK m \in 0 .. Len(s) : t = SubSeq(s, 1, m)
  BY DEF StartsWith
<1>2. t \in Seq(Items) /\ Len(t) = m
  BY <1>1
<1>. QED  BY <1>1, <1>2

LEMMA StartsSelf ==
    ASSUME NEW s \in Seq(Items)
    PROVE  StartsWith(s, s) /\ StartsWith(s, <<>>)
<1>1. s = SubSeq(s, 1, Len(s)) /\ Len(s) \in 0 .. Len(s)
  OBVIOUS
<1>2. <<>> = SubSeq(s, 1, 0) /\ 0 \in 0 .. Len(s)
  OBVIOUS
<1>. QED  BY <1>1, <1>2 DEF StartsWith

LEMMA StartsLonger ==
    ASSUME NEW s \in Seq(Items), NEW r \in Seq(Items), NEW t, StartsWith(s, t)
    PROVE  StartsWith(s \o r, t)
<1>1. t \in Seq(Items) /\ t = SubSeq(s, 1, Len(t)) /\ Len(t) \in 0 .. Len(s)
  BY StartsFacts
<1>2. /\ s \o r \in Seq(Items) /\ Len(s \o r) = Len(s) + Len(r)
      /\ \A i \in 1 .. Len(s) : (s \o r)[i] = s[i]
      /\ Len(s) \in Nat /\ Len(r) \in Nat
  OBVIOUS
<1>3. SubSeq(s \o r, 1, Len(t)) = t
  BY <1>1, <1>2
<1>. QED  BY <1>1, <1>2, <1>3 DEF StartsWith

LEMMA StartsAfter ==
    ASSUME NEW s \in Seq(Items), NEW r \in Seq(Items), NEW t, StartsWith(r, t)
    PROVE  StartsWith(s \o r, s \o t)
<1>1. t \in Seq(Items) /\ t = SubSeq(r, 1, Len(t)) /\ Len(t) \in 0 .. Len(r)
  BY StartsFacts
<1>2. /\ s \o r \in Seq(Items) /\ Len(s \o r) = Len(s) + Len(r)
      /\ s \o t \in Seq(Items) /\ Len(s \o t) = Len(s) + Len(t)
      /\ Len(s) \in Nat /\ Len(r) \in Nat /\ Len(t) \in Nat
  BY <1>1
<1>3. PICK m \in 0 .. Len(s \o r) : m = Len(s) + Len(t)
  BY <1>1, <1>2
<1>4. \A i \in 1 .. m : (s \o t)[i] = (s \o r)[i]
  <2>. SUFFICES ASSUME NEW i \in 1 .. m PROVE (s \o t)[i] = (s \o r)[i]
    OBVIOUS
  <2>0. i \in Nat
    OBVIOUS
  <2>1. CASE i <= Len(s)
    BY <1>1, <1>2, <2>1
  <2>2. CASE ~(i <= Len(s))
    <3>1. i - Len(s) \in 1 .. Len(t) /\ i - Len(s) \in 1 .. Len(r)
      BY <1>1, <1>2, <1>3, <2>2
    <3>2. (s \o t)[i] = t[i - Len(s)] /\ (s \o r)[i] = r[i - Len(s)]
      BY <1>1, <1>2, <2>2, <3>1
    <3>3. t[i - Len(s)] = r[i - Len(s)]
      BY <1>1, <3>1
    <3>. QED  BY <3>2, <3>3
  <2>. QED  BY <2>1, <2>2
<1>5. s \o t = SubSeq(s \o r, 1, m)
  <2>. DEFINE u == s \o t
              v == s \o r
  <2>1. u \in Seq(Items) /\ v \in Seq(Items) /\ Len(u) = m /\ m \in 0 .. Len(v)
    BY <1>2, <1>3
  <2>2. \A i \in 1 .. m : u[i] = v[i]
    BY <1>4
  <2>. HIDE DEF u, v
  <2>3. u = SubSeq(v, 1, m)
    BY <2>1, <2>2
  <2>. QED  BY <2>3 DEF u, v
<1>. QED  BY <1>3, <1>5 DEF StartsWith

-------------------------------------------------------------------------------
(* The log in the files, by the number of pages that the header has.         *)
LEMMA DiskLogAt ==
    ASSUME NEW h \in Image \cup {Bad}, NEW b \in Image \cup {Bad}, NEW pgs \in PageSets,
           NEW n \in PageIds, Valid(h)
    PROVE  /\ h.n = n /\ (n > 0 => Valid(pgs[n - 1])) => DiskLog(h, b, pgs) = Before(pgs, n)
           /\ h.n = n + 1 =>
                DiskLog(h, b, pgs) =
                  Before(pgs, n) \o (IF Valid(pgs[n]) THEN pgs[n].items ELSE ItemsOf(b))
<1>0. n \in Nat
  BY BoundsAssumption DEF PageIds
<1>1. ASSUME h.n = n, n > 0 => Valid(pgs[n - 1])
      PROVE  DiskLog(h, b, pgs) = Before(pgs, n)
  <2>1. CASE n = 0
    BY <1>1, <2>1, BeforeNone DEF DiskLog
  <2>2. CASE n # 0
    <3>1. PICK k \in PageIds : k = n - 1 /\ n = k + 1
      BY <1>0, <2>2, BoundsAssumption DEF PageIds
    <3>2. Before(pgs, k + 1) = Before(pgs, k) \o ItemsOf(pgs[k])
      BY BeforeNext
    <3>3. ItemsOf(pgs[k]) = pgs[k].items
      BY <1>0, <1>1, <2>2, <3>1 DEF ItemsOf
    <3>4. DiskLog(h, b, pgs) = Before(pgs, k) \o pgs[k].items
      <4>1. h.n - 1 = k /\ h.n # 0 /\ Valid(pgs[k])
        BY <1>0, <1>1, <2>2, <3>1
      <4>. QED  BY <4>1, Zenon DEF DiskLog
    <3>. QED  BY <3>1, <3>2, <3>3, <3>4
  <2>. QED  BY <2>1, <2>2
<1>2. ASSUME h.n = n + 1
      PROVE  DiskLog(h, b, pgs) =
               Before(pgs, n) \o (IF Valid(pgs[n]) THEN pgs[n].items ELSE ItemsOf(b))
  <2>1. h.n - 1 = n /\ h.n # 0
    BY <1>0, <1>2
  <2>. QED  BY <2>1, Zenon DEF DiskLog
<1>. QED  BY <1>1, <1>2

LEMMA DiskLogType ==
    ASSUME NEW h \in Image \cup {Bad}, NEW b \in Image \cup {Bad}, NEW pgs \in PageSets
    PROVE  DiskLog(h, b, pgs) \in Seq(Items)
<1>1. PICK n \in PageIds : n = IF Valid(h) THEN h.n ELSE IF Valid(b) THEN b.n ELSE 0
  <2>1. 0 \in PageIds
    BY BoundsAssumption DEF PageIds
  <2>. QED  BY <2>1, ImageFacts
<1>2. CASE n = 0
  BY <1>1, <1>2 DEF DiskLog
<1>3. CASE n # 0
  <2>1. PICK k \in PageIds : k = n - 1
    BY <1>3, BoundsAssumption DEF PageIds
  <2>2. Before(pgs, k) \in Seq(Items)
    BY BeforeNext
  <2>3. (IF Valid(pgs[k]) THEN pgs[k].items ELSE ItemsOf(b)) \in Seq(Items)
    BY ImageFacts DEF PageSets
  <2>4. DiskLog(h, b, pgs) = Before(pgs, k) \o (IF Valid(pgs[k]) THEN pgs[k].items ELSE ItemsOf(b))
    BY <1>1, <1>3, <2>1 DEF DiskLog
  <2>. QED  BY <2>2, <2>3, <2>4, ConcatProperties
<1>. QED  BY <1>2, <1>3

(* What the files and the memory say of the log while it is open.            *)
LEMMA UpFacts ==
    ASSUME LogInv, Up
    PROVE  /\ Log = Before(pages, logPageId) \o logPage
           /\ Before(pages, logPageId) \in Seq(Items)
           /\ Log \in Seq(Items) /\ LogOnDisk \in Seq(Items)
           /\ Valid(header)
           /\ \/ header.n = logPageId /\ LastGood(logPageId)
                 /\ LogOnDisk = Before(pages, logPageId)
              \/ header.n = logPageId + 1 /\ everFlushed
                 /\ (Valid(pages[logPageId]) \/ Valid(backup))
                 /\ LogOnDisk = Before(pages, logPageId) \o
                      (IF Valid(pages[logPageId]) THEN pages[logPageId].items ELSE ItemsOf(backup))
           /\ StartsWith(Log, LogOnDisk)
<1>1. /\ header \in Image \cup {Bad} /\ backup \in Image \cup {Bad} /\ pages \in PageSets
      /\ logPageId \in PageIds /\ logPage \in Seq(Items) /\ everFlushed \in BOOLEAN
      /\ headerPage \in PageIds
  BY DEF LogInv, TypeOK, PageSets
<1>2. Before(pages, logPageId) \in Seq(Items)
  BY <1>1, BeforeNext
<1>3. Log = Before(pages, logPageId) \o logPage /\ Log \in Seq(Items)
  BY <1>1, <1>2, DiskLogIs, ConcatProperties
<1>4. LogOnDisk = DiskLog(header, backup, pages) /\ LogOnDisk \in Seq(Items)
  BY <1>1, DiskLogIs, DiskLogType
<1>5. Valid(header)
  BY DEF LogInv, FilesOK
<1>6. \/ header.n = logPageId /\ LastGood(logPageId)
      \/ /\ header.n = logPageId + 1 /\ everFlushed
         /\ IF Valid(pages[logPageId]) THEN StartsWith(logPage, pages[logPageId].items)
            ELSE Valid(backup) /\ StartsWith(logPage, backup.items)
  <2>1. Valid(LogImage(logPage)) /\ LogImage(logPage).items = logPage
    BY <1>1, BadAssumption, BoundsAssumption DEF Valid, LogImage, Image, PageIds
  <2>2. StartsWith(logPage, logPage)
    BY <1>1, StartsSelf
  <2>3. logPageId \in Nat /\ logPageId + 1 # logPageId /\ logPageId + 0 = logPageId
    BY <1>1, BoundsAssumption DEF PageIds
  <2>4. CASE pc \in {"headerBackup", "header"}
    BY <2>4 DEF LogInv, FilesOK
  <2>5. CASE pc = "flushed"
    <3>1. header.n = headerPage /\ everFlushed /\ pages[logPageId] = LogImage(logPage)
      BY <2>5 DEF LogInv, FilesOK
    <3>2. header.n = logPageId + 1
      BY <3>1 DEF LogInv, MemoryOK
    <3>. QED  BY <2>1, <2>2, <3>1, <3>2
  <2>6. CASE pc \notin {"headerBackup", "header", "flushed"}
    <3>1. /\ header.n = headerPage /\ (header.n = logPageId => LastGood(logPageId))
          /\ everFlushed => IF Valid(pages[logPageId])
                            THEN StartsWith(logPage, pages[logPageId].items)
                            ELSE Valid(backup) /\ StartsWith(logPage, backup.items)
      BY <2>6 DEF LogInv, FilesOK
    <3>2. headerPage = logPageId + (IF everFlushed THEN 1 ELSE 0)
      BY DEF LogInv, MemoryOK
    <3>. QED  BY <1>1, <2>3, <3>1, <3>2
  <2>. QED  BY <2>4, <2>5, <2>6
<1>7. CASE header.n = logPageId /\ LastGood(logPageId)
  <2>1. LogOnDisk = Before(pages, logPageId)
    BY <1>1, <1>4, <1>5, <1>7, DiskLogAt, ZenonT(60) DEF LastGood
  <2>2. StartsWith(Before(pages, logPageId), Before(pages, logPageId))
    BY <1>2, StartsSelf
  <2>3. StartsWith(Log, LogOnDisk)
    BY <1>1, <1>2, <1>3, <2>1, <2>2, StartsLonger
  <2>. QED  BY <1>2, <1>3, <1>4, <1>5, <1>7, <2>1, <2>3
<1>8. CASE /\ header.n = logPageId + 1 /\ everFlushed
           /\ IF Valid(pages[logPageId]) THEN StartsWith(logPage, pages[logPageId].items)
              ELSE Valid(backup) /\ StartsWith(logPage, backup.items)
  <2>. DEFINE t == IF Valid(pages[logPageId]) THEN pages[logPageId].items ELSE ItemsOf(backup)
  <2>1. LogOnDisk = Before(pages, logPageId) \o t
    BY <1>1, <1>4, <1>5, <1>8, DiskLogAt
  <2>2. StartsWith(logPage, t)
    BY <1>8 DEF ItemsOf
  <2>. HIDE DEF t
  <2>3. StartsWith(Log, LogOnDisk)
    BY <1>1, <1>2, <1>3, <2>1, <2>2, StartsAfter
  <2>4. Valid(pages[logPageId]) \/ Valid(backup)
    BY <1>8
  <2>. QED  BY <1>2, <1>3, <1>4, <1>5, <1>8, <2>1, <2>3, <2>4 DEF t
<1>. QED  BY <1>6, <1>7, <1>8

-------------------------------------------------------------------------------
(* Small facts that every step needs.                                       *)
LEMMA Bounds ==
    ASSUME LogInv
    PROVE  /\ added \in Nat /\ added <= MaxItems /\ acked \in Nat /\ acked <= MaxItems /\ torn \in Nat
           /\ header \in Image \cup {Bad} /\ backup \in Image \cup {Bad} /\ pages \in PageSets
           /\ logPageId \in PageIds /\ logPageId \in Nat /\ logPage \in Seq(Items)
           /\ headerPage \in PageIds /\ headerPage \in Nat /\ pending \in Seq(Items)
           /\ everFlushed \in BOOLEAN /\ Len(logPage) <= SlotsPerPage
           /\ 0 \in PageIds /\ 1 \in PageIds /\ SlotsPerPage >= 1 /\ SlotsPerPage \in Nat
           /\ \A n \in Nat : Few(n, added) => n \in PageIds
<1>1. MaxItems \in Nat /\ MaxItems >= 1 /\ SlotsPerPage \in Nat /\ SlotsPerPage >= 1 /\ MaxTorn \in Nat
  BY SlotsPerPageAssumption, BoundsAssumption
<1>2. /\ added \in Nat /\ added <= MaxItems /\ acked \in Nat /\ acked <= MaxItems /\ torn \in Nat
  BY <1>1 DEF LogInv, TypeOK
<1>3. PageIds \subseteq Nat /\ 0 \in PageIds /\ 1 \in PageIds
  BY <1>1 DEF PageIds
<1>4. \A n \in Nat : Few(n, added) => n \in PageIds
  BY <1>1, <1>2 DEF Few, PageIds
<1>5. /\ header \in Image \cup {Bad} /\ backup \in Image \cup {Bad} /\ pages \in PageSets
      /\ logPageId \in PageIds /\ logPage \in Seq(Items)
      /\ headerPage \in PageIds /\ pending \in Seq(Items)
      /\ everFlushed \in BOOLEAN /\ Len(logPage) <= SlotsPerPage
  BY DEF LogInv, TypeOK, PageSets
<1>. QED  BY <1>1, <1>2, <1>3, <1>4, <1>5

LEMMA NewImages ==
    /\ \A s \in Seq(Items) : /\ LogImage(s) \in Image /\ LogImage(s).items = s
                             /\ LogImage(s).n = 0 /\ Valid(LogImage(s))
                             /\ ItemsOf(LogImage(s)) = s
    /\ \A n \in PageIds : /\ HeaderImage(n) \in Image /\ HeaderImage(n).n = n
                          /\ Valid(HeaderImage(n)) /\ ItemsOf(HeaderImage(n)) = <<>>
    /\ ~Valid(Bad) /\ ItemsOf(Bad) = <<>>
<1>1. 0 \in PageIds
  BY BoundsAssumption DEF PageIds
<1>2. ~Valid(Bad) /\ ItemsOf(Bad) = <<>>
  BY DEF Valid, ItemsOf
<1>3. ASSUME NEW s \in Seq(Items)
      PROVE  /\ LogImage(s) \in Image /\ LogImage(s).items = s
             /\ LogImage(s).n = 0 /\ Valid(LogImage(s)) /\ ItemsOf(LogImage(s)) = s
  <2>1. LogImage(s) \in Image /\ LogImage(s).items = s /\ LogImage(s).n = 0
    BY <1>1 DEF LogImage, Image
  <2>. QED  BY <2>1, BadAssumption DEF Valid, ItemsOf
<1>4. ASSUME NEW n \in PageIds
      PROVE  /\ HeaderImage(n) \in Image /\ HeaderImage(n).n = n
             /\ Valid(HeaderImage(n)) /\ ItemsOf(HeaderImage(n)) = <<>>
  <2>1. HeaderImage(n) \in Image /\ HeaderImage(n).n = n /\ HeaderImage(n).items = <<>>
    BY DEF HeaderImage, Image
  <2>. QED  BY <2>1, BadAssumption DEF Valid, ItemsOf
<1>. QED  BY <1>2, <1>3, <1>4

LEMMA FitsLater ==
    ASSUME NEW i \in Image \cup {Bad}, NEW a \in Nat, NEW b \in Nat, a <= b, Fits(i, a)
    PROVE  Fits(i, b)
<1>1. Valid(i) => i.n \in Nat
  BY ImageFacts DEF PageIds
<1>2. (a = 0 => ItemsOf(i) = <<>>) /\ (b = 0 => a = 0) /\ Short(ItemsOf(i))
  BY DEF Fits
<1>3. Valid(i) => Few(i.n, b)
  BY <1>1 DEF Fits, Few
<1>. QED  BY <1>2, <1>3 DEF Fits

LEMMA FitsNew ==
    ASSUME NEW a \in Nat
    PROVE  /\ Fits(Bad, a)
           /\ \A s \in Seq(Items) : Short(s) /\ (a = 0 => s = <<>>) => Fits(LogImage(s), a)
           /\ \A n \in PageIds : Few(n, a) => Fits(HeaderImage(n), a)
<1>1. Short(<<>>) /\ Few(0, a)
  BY SlotsPerPageAssumption DEF Short, Few
<1>. QED  BY <1>1, NewImages DEF Fits

LEMMA ImagesLater ==
    ASSUME LogInv, UNCHANGED disk, added' \in Nat, added <= added'
    PROVE  ImagesOK'
<1>1. Fits(header, added') /\ Fits(backup, added')
  BY Bounds, FitsLater DEF LogInv, ImagesOK
<1>2. ASSUME NEW p \in PageIds
      PROVE  Fits(pages[p], added')
  BY <1>2, Bounds, FitsLater DEF LogInv, ImagesOK, PageSets
<1>3. header' = header /\ backup' = backup /\ pages' = pages
  BY DEF disk
<1>. QED  BY <1>1, <1>2, <1>3 DEF ImagesOK

LEMMA SameFiles ==
    ASSUME UNCHANGED disk
    PROVE  LogOnDisk' = LogOnDisk
BY DiskLogIs DEF disk

(* A step of the log in memory and on disk is one of the abstract log.       *)
Follows == [Durable!Next]_(Durable!vars)

LEMMA AddLogStep ==
    ASSUME LogInv, AddLog
    PROVE  LogInv' /\ Follows
<1>1. /\ pc = "idle" /\ pc' = "idle" /\ added < MaxItems /\ Len(logPage) < SlotsPerPage
      /\ added' = added + 1 /\ logPage' = Append(logPage, added')
      /\ header' = header /\ backup' = backup /\ pages' = pages
      /\ headerPage' = headerPage /\ headerValid' = headerValid /\ logPageId' = logPageId
      /\ everFlushed' = everFlushed /\ pending' = pending /\ torn' = torn /\ acked' = acked
      /\ UNCHANGED disk
  BY DEF AddLog, disk
<1>2. Up /\ Up'
  BY <1>1 DEF Up
<1>3. added' \in Items /\ logPage' \in Seq(Items) /\ Len(logPage') = Len(logPage) + 1
  BY <1>1, Bounds, BoundsAssumption DEF Items
<1>4. Log' = Append(Log, added') /\ Log \in Seq(Items) /\ Len(Log') = Len(Log) + 1
  <2>1. Log' = Before(pages, logPageId) \o Append(logPage, added')
    BY <1>1, <1>2, DiskLogIs
  <2>2. Log = Before(pages, logPageId) \o logPage /\ Before(pages, logPageId) \in Seq(Items)
        /\ Log \in Seq(Items)
    BY <1>2, UpFacts
  <2>3. Before(pages, logPageId) \o Append(logPage, added') =
          Append(Before(pages, logPageId) \o logPage, added')
    BY <1>3, <2>2, Bounds, ConcatAppend, SMTT(60)
  <2>. QED  BY <1>3, <2>1, <2>2, <2>3
<1>5. LogOnDisk' = LogOnDisk
  BY <1>1, SameFiles
<1>6. TypeOK' /\ OpensAgain'
  BY <1>1, <1>3, Bounds, BoundsAssumption DEF LogInv, TypeOK, OpensAgain
<1>7. ImagesOK'
  BY <1>1, Bounds, ImagesLater
<1>8. MemoryOK'
  BY <1>1, <1>2, Bounds DEF LogInv, MemoryOK, Few
<1>9. FilesOK'
  <2>1. \A t : StartsWith(logPage, t) => StartsWith(logPage', t)
    <3>1. logPage' = logPage \o <<added'>> /\ <<added'>> \in Seq(Items)
      BY <1>1, <1>3, Bounds
    <3>. QED  BY <3>1, Bounds, StartsLonger
  <2>. QED  BY <1>1, <1>2, <2>1 DEF LogInv, FilesOK, LastGood, Valid
<1>10. OpeningOK'
  BY <1>1 DEF OpeningOK
<1>11. AckedOK'
  BY <1>1, <1>2, <1>4, <1>5, Bounds DEF LogInv, AckedOK
<1>12. Follows
  BY <1>1, <1>3, <1>4 DEF Follows, Durable!Next, Durable!Add
<1>. QED  BY <1>6, <1>7, <1>8, <1>9, <1>10, <1>11, <1>12 DEF LogInv

LEMMA AddLogFullStep ==
    ASSUME LogInv, AddLogFull
    PROVE  LogInv' /\ Follows
<1>1. /\ pc = "idle" /\ pc' = "logBackup" /\ added < MaxItems /\ Len(logPage) = SlotsPerPage
      /\ added' = added + 1 /\ pending' = <<added'>> /\ logPage' = logPage
      /\ header' = header /\ backup' = backup /\ pages' = pages
      /\ headerPage' = headerPage /\ headerValid' = headerValid /\ logPageId' = logPageId
      /\ everFlushed' = everFlushed /\ torn' = torn /\ acked' = acked
      /\ UNCHANGED disk
  BY DEF AddLogFull, disk
<1>2. Up /\ Up' /\ pending = <<>> /\ logPage # <<>>
  <2>1. Up /\ Up'
    BY <1>1 DEF Up
  <2>2. pending = <<>>
    BY <1>1, <2>1 DEF LogInv, MemoryOK
  <2>. QED  BY <1>1, <2>1, <2>2, Bounds
<1>3. added' \in Items /\ pending' \in Seq(Items) /\ Len(pending') = 1 /\ Len(pending) = 0
  <2>1. added' \in Items
    BY <1>1, Bounds, BoundsAssumption DEF Items
  <2>. QED  BY <1>1, <1>2, <2>1
<1>4. Log' = Log /\ Log \in Seq(Items)
  BY <1>1, <1>2, DiskLogIs, UpFacts
<1>5. LogOnDisk' = LogOnDisk
  BY <1>1, SameFiles
<1>6. TypeOK' /\ OpensAgain'
  BY <1>1, <1>3, Bounds, BoundsAssumption, SMTT(60) DEF LogInv, TypeOK, OpensAgain
<1>7. ImagesOK'
  BY <1>1, Bounds, ImagesLater
<1>8. MemoryOK'
  <2>1. Few(logPageId + 1, added) /\ added > 0 /\ added' > 0
    BY <1>1, <1>2, Bounds DEF LogInv, MemoryOK
  <2>2. logPageId + 2 <= added' /\ Few(logPageId + 1, added)'
    BY <1>1, <2>1, Bounds DEF Few
  <2>. QED  BY <1>1, <1>2, <1>3, <2>1, <2>2 DEF LogInv, MemoryOK
<1>9. FilesOK'
  BY <1>1, <1>2 DEF LogInv, FilesOK, LastGood, Valid
<1>10. OpeningOK'
  BY <1>1 DEF OpeningOK
<1>11. AckedOK'
  BY <1>1, <1>2, <1>3, <1>4, <1>5, Bounds DEF LogInv, AckedOK
<1>12. Follows
  BY <1>1, <1>4 DEF Follows, Durable!vars
<1>. QED  BY <1>6, <1>7, <1>8, <1>9, <1>10, <1>11, <1>12 DEF LogInv

LEMMA FlushLogsStep ==
    ASSUME LogInv, FlushLogs
    PROVE  LogInv' /\ Follows
<1>1. /\ pc = "idle" /\ pc' = "logBackup" /\ UNCHANGED <<disk, memory, history>>
      /\ header' = header /\ backup' = backup /\ pages' = pages
      /\ headerPage' = headerPage /\ headerValid' = headerValid /\ logPageId' = logPageId
      /\ logPage' = logPage /\ everFlushed' = everFlushed /\ pending' = pending
      /\ added' = added /\ torn' = torn /\ acked' = acked
  BY DEF FlushLogs, disk, memory, history
<1>2. Up /\ Up' /\ pending = <<>>
  BY <1>1 DEF Up, LogInv, MemoryOK
<1>4. Log' = Log
  BY <1>1, <1>2, DiskLogIs
<1>5. LogOnDisk' = LogOnDisk
  BY <1>1, SameFiles
<1>6. TypeOK' /\ OpensAgain'
  BY <1>1 DEF LogInv, TypeOK, OpensAgain, Writing
<1>7. ImagesOK'
  BY <1>1, Bounds, ImagesLater
<1>8. MemoryOK'
  BY <1>1, <1>2 DEF LogInv, MemoryOK, Few
<1>9. FilesOK'
  BY <1>1, <1>2 DEF LogInv, FilesOK, LastGood, Valid
<1>10. OpeningOK'
  BY <1>1 DEF OpeningOK
<1>11. AckedOK'
  BY <1>1, <1>2, <1>4, <1>5 DEF LogInv, AckedOK
<1>12. Follows
  BY <1>1, <1>4 DEF Follows, Durable!vars
<1>. QED  BY <1>6, <1>7, <1>8, <1>9, <1>10, <1>11, <1>12 DEF LogInv

-------------------------------------------------------------------------------
(* Writing pages: the log in the files stays, or becomes the one in memory.  *)
LEMMA DiskFollows ==
    ASSUME LogInv, Up, Up', Log' = Log, LogOnDisk' = LogOnDisk \/ LogOnDisk' = Log,
           acked' = acked, added' = added, pending' = pending
    PROVE  AckedOK' /\ Follows
<1>1. Len(LogOnDisk) \in 0 .. Len(Log) /\ Len(LogOnDisk) \in Nat /\ Len(Log) \in Nat
  BY UpFacts, StartsFacts
<1>2. acked <= Len(LogOnDisk) /\ acked \in Nat /\ Len(Log) + Len(pending) <= added
  BY Bounds DEF LogInv, AckedOK
<1>3. acked <= Len(LogOnDisk')
  BY <1>1, <1>2
<1>4. AckedOK'
  BY <1>2, <1>3 DEF AckedOK
<1>5. Follows
  BY DEF Follows, Durable!vars
<1>. QED  BY <1>4, <1>5

LEMMA PageWritten ==
    ASSUME LogInv, NEW i \in Image \cup {Bad}, pages' = [pages EXCEPT ![logPageId] = i]
    PROVE  /\ pages' \in PageSets /\ pages'[logPageId] = i
           /\ \A p \in PageIds : p # logPageId => pages'[p] = pages[p]
           /\ Before(pages', logPageId) = Before(pages, logPageId)
           /\ LastGood(logPageId) => (logPageId > 0 => Valid(pages'[logPageId - 1]))
           /\ Fits(i, added) => \A p \in PageIds : Fits(pages'[p], added)
<1>1. /\ pages' \in PageSets /\ pages'[logPageId] = i
      /\ \A p \in PageIds : p # logPageId => pages'[p] = pages[p]
  BY Bounds DEF PageSets
<1>2. \A p \in 0 .. logPageId - 1 : p \in PageIds /\ p # logPageId
  BY Bounds, BoundsAssumption DEF PageIds
<1>3. Before(pages', logPageId) = Before(pages, logPageId)
  BY <1>1, <1>2, Bounds, BeforeSame
<1>4. logPageId > 0 => logPageId - 1 \in 0 .. logPageId - 1
  BY Bounds
<1>5. LastGood(logPageId) => (logPageId > 0 => Valid(pages'[logPageId - 1]))
  BY <1>1, <1>2, <1>4 DEF LastGood
<1>6. Fits(i, added) => \A p \in PageIds : Fits(pages'[p], added)
  BY <1>1 DEF LogInv, ImagesOK
<1>. QED  BY <1>1, <1>3, <1>5, <1>6

LEMMA WriteLogBackupStep ==
    ASSUME LogInv, WriteLogBackup
    PROVE  LogInv' /\ Follows
<1>1. /\ pc = "logBackup" /\ pc' = "logPage" /\ backup' = LogImage(logPage)
      /\ header' = header /\ pages' = pages
      /\ headerPage' = headerPage /\ headerValid' = headerValid /\ logPageId' = logPageId
      /\ logPage' = logPage /\ everFlushed' = everFlushed /\ pending' = pending
      /\ added' = added /\ torn' = torn /\ acked' = acked
  BY DEF WriteLogBackup, memory, history
<1>2. Up /\ Up'
  BY <1>1 DEF Up
<1>3. /\ backup' \in Image \cup {Bad} /\ Valid(backup') /\ backup'.items = logPage
      /\ ItemsOf(backup') = logPage
  BY <1>1, Bounds, NewImages
<1>4. Log' = Log
  BY <1>1, <1>2, DiskLogIs
<1>5. LogOnDisk' = LogOnDisk \/ LogOnDisk' = Log
  <2>1. LogOnDisk' = DiskLog(header, backup', pages)
    BY <1>1, DiskLogIs
  <2>2. CASE header.n = logPageId /\ LastGood(logPageId)
             /\ LogOnDisk = Before(pages, logPageId)
    <3>1. DiskLog(header, backup', pages) = Before(pages, logPageId)
      BY <1>2, <1>3, <2>2, Bounds, UpFacts, DiskLogAt DEF LastGood
    <3>. QED  BY <2>1, <2>2, <3>1
  <2>3. CASE header.n = logPageId + 1
             /\ LogOnDisk = Before(pages, logPageId) \o
                  (IF Valid(pages[logPageId]) THEN pages[logPageId].items ELSE ItemsOf(backup))
    <3>1. DiskLog(header, backup', pages) = Before(pages, logPageId) \o
            (IF Valid(pages[logPageId]) THEN pages[logPageId].items ELSE logPage)
      <4>1. header \in Image \cup {Bad} /\ pages \in PageSets /\ logPageId \in PageIds /\ Valid(header)
        BY <1>2, Bounds, UpFacts
      <4>. QED  BY <1>3, <2>3, <4>1, DiskLogAt, SMTT(60)
    <3>2. Log = Before(pages, logPageId) \o logPage
      BY <1>2, UpFacts
    <3>. QED  BY <2>1, <2>3, <3>1, <3>2
  <2>. QED  BY <1>2, <2>2, <2>3, UpFacts
<1>6. TypeOK' /\ OpensAgain'
  BY <1>1, <1>3 DEF LogInv, TypeOK, OpensAgain, Writing
<1>7. ImagesOK'
  <2>1. added = 0 => logPage = <<>>
    BY <1>2, Bounds DEF LogInv, MemoryOK
  <2>2. Fits(backup', added)
    BY <1>1, <2>1, Bounds, FitsNew DEF Short
  <2>. QED  BY <1>1, <2>2 DEF LogInv, ImagesOK
<1>8. MemoryOK'
  BY <1>1, <1>2 DEF LogInv, MemoryOK
<1>9. FilesOK'
  <2>1. StartsWith(logPage, logPage)
    BY Bounds, StartsSelf
  <2>. QED  BY <1>1, <1>2, <1>3, <2>1 DEF LogInv, FilesOK, LastGood
<1>10. OpeningOK'
  BY <1>1 DEF OpeningOK
<1>11. AckedOK' /\ Follows
  BY <1>1, <1>2, <1>4, <1>5, DiskFollows
<1>. QED  BY <1>6, <1>7, <1>8, <1>9, <1>10, <1>11 DEF LogInv

LEMMA WriteLogPageStep ==
    ASSUME LogInv, WriteLogPage
    PROVE  LogInv' /\ Follows
<1>1. /\ pc = "logPage" /\ pages' = [pages EXCEPT ![logPageId] = LogImage(logPage)]
      /\ header' = header /\ backup' = backup
      /\ headerValid' = headerValid /\ logPageId' = logPageId
      /\ logPage' = logPage /\ pending' = pending
      /\ added' = added /\ torn' = torn /\ acked' = acked
      /\ everFlushed' = TRUE
  BY Bounds DEF WriteLogPage, memory, history
<1>2. \/ everFlushed /\ pc' = "flushed" /\ headerPage' = headerPage
      \/ ~everFlushed /\ pc' = "headerBackup" /\ headerPage' = headerPage + 1
  BY DEF WriteLogPage
<1>3. Up /\ Up'
  BY <1>1, <1>2 DEF Up
<1>4. LogImage(logPage) \in Image \cup {Bad} /\ LogImage(logPage).items = logPage
      /\ Valid(LogImage(logPage))
  BY Bounds, NewImages
<1>5. /\ pages' \in PageSets /\ pages'[logPageId] = LogImage(logPage)
      /\ Before(pages', logPageId) = Before(pages, logPageId)
      /\ LastGood(logPageId) => (logPageId > 0 => Valid(pages'[logPageId - 1]))
      /\ Fits(LogImage(logPage), added) => \A p \in PageIds : Fits(pages'[p], added)
  BY <1>1, <1>4, PageWritten
<1>6. Log' = Log
  BY <1>1, <1>3, <1>5, DiskLogIs
<1>7. headerPage = logPageId + (IF everFlushed THEN 1 ELSE 0) /\ header.n = headerPage
      /\ Few(logPageId + 1, added) /\ Valid(header)
  BY <1>1, <1>3 DEF LogInv, MemoryOK, FilesOK
<1>8. headerPage' = logPageId + 1 /\ headerPage' \in PageIds
  <2>1. headerPage' = logPageId + 1
    BY <1>2, <1>7, Bounds
  <2>2. logPageId + 1 \in Nat
    BY Bounds
  <2>. QED  BY <1>7, <2>1, <2>2, Bounds
<1>9. LogOnDisk' = LogOnDisk \/ LogOnDisk' = Log
  <2>0. header \in Image \cup {Bad} /\ backup \in Image \cup {Bad} /\ logPageId \in PageIds
    BY Bounds
  <2>1. LogOnDisk' = DiskLog(header, backup, pages')
    BY <1>1, DiskLogIs
  <2>2. CASE header.n = logPageId /\ LastGood(logPageId)
             /\ LogOnDisk = Before(pages, logPageId)
    <3>0. header.n = logPageId /\ (logPageId > 0 => Valid(pages'[logPageId - 1]))
      BY <1>5, <2>2
    <3>1. DiskLog(header, backup, pages') = Before(pages', logPageId)
      BY <1>5, <1>7, <2>0, <3>0, DiskLogAt
    <3>. QED  BY <1>5, <2>1, <2>2, <3>1
  <2>3. CASE header.n = logPageId + 1
    <3>1. DiskLog(header, backup, pages') = Before(pages', logPageId) \o logPage
      <4>1. DiskLog(header, backup, pages') = Before(pages', logPageId) \o
              (IF Valid(pages'[logPageId]) THEN pages'[logPageId].items ELSE ItemsOf(backup))
        BY <1>5, <1>7, <2>0, <2>3, DiskLogAt, ZenonT(60)
      <4>2. Valid(pages'[logPageId]) /\ pages'[logPageId].items = logPage
        BY <1>4, <1>5
      <4>. QED  BY <4>1, <4>2
    <3>2. Log = Before(pages, logPageId) \o logPage
      BY <1>3, UpFacts
    <3>. QED  BY <1>5, <2>1, <3>1, <3>2
  <2>. QED  BY <1>3, <2>2, <2>3, UpFacts
<1>10. TypeOK' /\ OpensAgain'
  BY <1>1, <1>2, <1>5, <1>8 DEF LogInv, TypeOK, OpensAgain, Writing, PageSets
<1>11. ImagesOK'
  <2>1. added = 0 => logPage = <<>>
    BY <1>3, Bounds DEF LogInv, MemoryOK
  <2>2. Fits(LogImage(logPage), added)
    BY <2>1, Bounds, FitsNew DEF Short
  <2>. QED  BY <1>1, <1>5, <2>2 DEF LogInv, ImagesOK
<1>12. MemoryOK'
  BY <1>1, <1>2, <1>3, <1>7, <1>8 DEF LogInv, MemoryOK
<1>13. FilesOK'
  <2>1. CASE everFlushed
    <3>1. header'.n = logPageId + 1 /\ logPageId + 1 # logPageId
      BY <1>1, <1>7, <2>1, Bounds
    <3>. QED  BY <1>1, <1>2, <1>5, <1>7, <1>8, <2>1, <3>1 DEF FilesOK
  <2>2. CASE ~everFlushed
    <3>1. header.n = logPageId /\ LastGood(logPageId)
      BY <1>3, <1>7, <2>2, Bounds, UpFacts
    <3>. QED  BY <1>1, <1>2, <1>5, <1>7, <2>2, <3>1 DEF FilesOK, LastGood
  <2>. QED  BY <2>1, <2>2
<1>14. OpeningOK'
  BY <1>2 DEF OpeningOK
<1>15. AckedOK' /\ Follows
  BY <1>1, <1>3, <1>6, <1>9, DiskFollows
<1>. QED  BY <1>10, <1>11, <1>12, <1>13, <1>14, <1>15 DEF LogInv

LEMMA WriteHeaderBackupStep ==
    ASSUME LogInv, WriteHeaderBackup
    PROVE  LogInv' /\ Follows
<1>1. /\ pc = "headerBackup" /\ pc' = "header" /\ backup' = HeaderImage(headerPage)
      /\ header' = header /\ pages' = pages
      /\ headerPage' = headerPage /\ headerValid' = headerValid /\ logPageId' = logPageId
      /\ logPage' = logPage /\ everFlushed' = everFlushed /\ pending' = pending
      /\ added' = added /\ torn' = torn /\ acked' = acked
  BY DEF WriteHeaderBackup, memory, history
<1>2. Up /\ Up'
  BY <1>1 DEF Up
<1>3. /\ header.n = logPageId /\ Valid(header) /\ LastGood(logPageId)
      /\ everFlushed /\ pages[logPageId] = LogImage(logPage)
  BY <1>1, <1>2 DEF LogInv, FilesOK
<1>4. headerPage = logPageId + 1 /\ Few(headerPage, added)
  BY <1>2, <1>3 DEF LogInv, MemoryOK
<1>5. backup' \in Image \cup {Bad} /\ Valid(backup') /\ Fits(backup', added)
  BY <1>1, <1>4, Bounds, NewImages, FitsNew
<1>6. Log' = Log
  BY <1>1, <1>2, DiskLogIs
<1>7. LogOnDisk' = LogOnDisk
  <2>1. header \in Image \cup {Bad} /\ backup \in Image \cup {Bad}
        /\ pages \in PageSets /\ logPageId \in PageIds
    BY Bounds
  <2>2. header.n = logPageId /\ (logPageId > 0 => Valid(pages[logPageId - 1]))
    BY <1>3 DEF LastGood
  <2>3. /\ DiskLog(header, backup, pages) = Before(pages, logPageId)
        /\ DiskLog(header, backup', pages) = Before(pages, logPageId)
    BY <1>3, <1>5, <2>1, <2>2, DiskLogAt
  <2>. QED  BY <1>1, <2>3, DiskLogIs
<1>8. TypeOK' /\ OpensAgain'
  BY <1>1, <1>5 DEF LogInv, TypeOK, OpensAgain, Writing
<1>9. ImagesOK'
  BY <1>1, <1>5 DEF LogInv, ImagesOK
<1>10. MemoryOK'
  BY <1>1, <1>2 DEF LogInv, MemoryOK
<1>11. FilesOK'
  BY <1>1, <1>2, <1>3 DEF FilesOK, LastGood
<1>12. OpeningOK'
  BY <1>1 DEF OpeningOK
<1>13. AckedOK' /\ Follows
  BY <1>1, <1>2, <1>6, <1>7, DiskFollows
<1>. QED  BY <1>8, <1>9, <1>10, <1>11, <1>12, <1>13 DEF LogInv

LEMMA WriteHeaderStep ==
    ASSUME LogInv, WriteHeader
    PROVE  LogInv' /\ Follows
<1>1. /\ pc = "header" /\ pc' = "flushed" /\ header' = HeaderImage(headerPage)
      /\ backup' = backup /\ pages' = pages
      /\ headerPage' = headerPage /\ headerValid' = headerValid /\ logPageId' = logPageId
      /\ logPage' = logPage /\ everFlushed' = everFlushed /\ pending' = pending
      /\ added' = added /\ torn' = torn /\ acked' = acked
  BY DEF WriteHeader, memory, history
<1>2. Up /\ Up'
  BY <1>1 DEF Up
<1>3. everFlushed /\ pages[logPageId] = LogImage(logPage)
  BY <1>1, <1>2 DEF LogInv, FilesOK
<1>4. headerPage = logPageId + 1 /\ Few(headerPage, added) /\ headerPage # logPageId
  BY <1>2, <1>3, Bounds DEF LogInv, MemoryOK
<1>5. header' \in Image \cup {Bad} /\ Valid(header') /\ Fits(header', added) /\ header'.n = headerPage
  BY <1>1, <1>4, Bounds, NewImages, FitsNew
<1>6. Log' = Log
  BY <1>1, <1>2, DiskLogIs
<1>7. LogOnDisk' = Log
  <2>1. /\ backup \in Image \cup {Bad} /\ pages \in PageSets /\ logPageId \in PageIds
        /\ header'.n = logPageId + 1
    BY <1>4, <1>5, Bounds
  <2>2. DiskLog(header', backup, pages) = Before(pages, logPageId) \o
          (IF Valid(pages[logPageId]) THEN pages[logPageId].items ELSE ItemsOf(backup))
    BY <1>5, <2>1, DiskLogAt
  <2>3. Valid(pages[logPageId]) /\ pages[logPageId].items = logPage
    BY <1>3, Bounds, NewImages
  <2>. QED  BY <1>1, <1>2, <2>2, <2>3, DiskLogIs
<1>8. TypeOK' /\ OpensAgain'
  BY <1>1, <1>5 DEF LogInv, TypeOK, OpensAgain
<1>9. ImagesOK'
  BY <1>1, <1>5 DEF LogInv, ImagesOK
<1>10. MemoryOK'
  BY <1>1, <1>2 DEF LogInv, MemoryOK
<1>11. FilesOK'
  BY <1>1, <1>2, <1>3, <1>4, <1>5 DEF FilesOK
<1>12. OpeningOK'
  BY <1>1 DEF OpeningOK
<1>13. AckedOK' /\ Follows
  BY <1>1, <1>2, <1>6, <1>7, DiskFollows
<1>. QED  BY <1>8, <1>9, <1>10, <1>11, <1>12, <1>13 DEF LogInv

LEMMA FlushDoneStep ==
    ASSUME LogInv, FlushDone
    PROVE  LogInv' /\ Follows
<1>1. /\ pc = "flushed" /\ pc' = "idle" /\ UNCHANGED disk
      /\ header' = header /\ backup' = backup /\ pages' = pages
      /\ headerPage' = headerPage /\ headerValid' = headerValid
      /\ added' = added /\ torn' = torn
  BY DEF FlushDone, disk
<1>2. \/ /\ pending # <<>> /\ logPage' = pending /\ logPageId' = headerPage
         /\ everFlushed' = FALSE /\ pending' = <<>> /\ acked' = acked
      \/ /\ pending = <<>> /\ acked' = Len(Log) /\ logPage' = logPage /\ logPageId' = logPageId
         /\ everFlushed' = everFlushed /\ pending' = pending
  BY DEF FlushDone
<1>3. Up /\ Up'
  BY <1>1 DEF Up
<1>4. /\ everFlushed /\ pages[logPageId] = LogImage(logPage) /\ Valid(header)
      /\ header.n = headerPage
  BY <1>1, <1>3 DEF LogInv, FilesOK
<1>5. headerPage = logPageId + 1 /\ headerPage # logPageId /\ headerPage \in PageIds
  BY <1>3, <1>4, Bounds DEF LogInv, MemoryOK
<1>6. Valid(pages[logPageId]) /\ pages[logPageId].items = logPage /\ ItemsOf(pages[logPageId]) = logPage
  BY <1>4, Bounds, NewImages
<1>7. /\ Log = Before(pages, logPageId) \o logPage /\ Log \in Seq(Items) /\ LogOnDisk = Log
      /\ Len(Log) \in Nat
  <2>1. Log = Before(pages, logPageId) \o logPage /\ Log \in Seq(Items)
    BY <1>3, UpFacts
  <2>2. LogOnDisk = Before(pages, logPageId) \o logPage
    BY <1>3, <1>4, <1>5, <1>6, UpFacts
  <2>. QED  BY <2>1, <2>2
<1>8. LogOnDisk' = LogOnDisk
  BY <1>1, SameFiles
<1>9. ImagesOK'
  BY <1>1, Bounds, ImagesLater
<1>10. OpeningOK' /\ OpensAgain'
  BY <1>1 DEF OpeningOK, OpensAgain
<1>11. Len(Log) + Len(pending) <= added /\ acked \in Nat /\ acked <= Len(Log)
  BY <1>3, <1>7, Bounds DEF LogInv, AckedOK
<1>12. CASE pending # <<>>
  <2>1. /\ logPage' = pending /\ logPageId' = headerPage
        /\ everFlushed' = FALSE /\ pending' = <<>> /\ acked' = acked
    BY <1>2, <1>12
  <2>2. Len(pending) = 1 /\ logPageId + 2 <= added
    BY <1>3, <1>12 DEF LogInv, MemoryOK
  <2>3. PICK x \in Items : pending = <<x>>
    <3>1. pending \in Seq(Items) /\ Len(pending) = 1
      BY <2>2, Bounds
    <3>2. pending[1] \in Items
      BY <3>1
    <3>3. pending = <<pending[1]>>
      <4>1. <<pending[1]>> \in Seq(Items) /\ Len(<<pending[1]>>) = 1 /\ <<pending[1]>>[1] = pending[1]
        BY <3>2
      <4>2. \A i \in 1 .. 1 : i = 1
        OBVIOUS
      <4>. QED  BY <3>1, <4>1, <4>2, SeqEqual
    <3>. QED  BY <3>2, <3>3
  <2>4. Log' = Append(Log, x)
    <3>1. Before(pages, logPageId + 1) = Before(pages, logPageId) \o logPage
      BY <1>6, Bounds, BeforeNext
    <3>2. Log' = Before(pages, logPageId + 1) \o <<x>>
      BY <1>1, <1>3, <1>5, <2>1, <2>3, DiskLogIs
    <3>. QED  BY <1>7, <3>1, <3>2, SMTT(60)
  <2>5. TypeOK'
    BY <1>1, <1>5, <2>1, <2>2, Bounds, SMTT(60) DEF LogInv, TypeOK
  <2>6. MemoryOK'
    <3>1. Few(logPageId + 2, added) /\ added > 0
      BY <2>2, Bounds DEF Few
    <3>2. headerPage + 1 = logPageId + 2 /\ headerPage = headerPage + 0
      BY <1>5, Bounds
    <3>. QED  BY <1>1, <1>3, <2>1, <3>1, <3>2 DEF MemoryOK
  <2>7. FilesOK'
    <3>1. LastGood(headerPage)
      BY <1>5, <1>6, Bounds DEF LastGood
    <3>. QED  BY <1>1, <1>3, <1>4, <2>1, <3>1 DEF FilesOK, LastGood
  <2>8. AckedOK'
    <3>1. Len(Log') = Len(Log) + 1 /\ Len(pending') = 0
      BY <1>7, <2>1, <2>4
    <3>. QED  BY <1>1, <1>3, <1>7, <1>8, <1>11, <2>1, <2>2, <3>1 DEF AckedOK
  <2>9. Follows
    BY <2>1, <2>4 DEF Follows, Durable!Next, Durable!Add
  <2>. QED  BY <1>9, <1>10, <2>5, <2>6, <2>7, <2>8, <2>9 DEF LogInv
<1>13. CASE pending = <<>>
  <2>1. /\ acked' = Len(Log) /\ logPage' = logPage /\ logPageId' = logPageId
        /\ everFlushed' = everFlushed /\ pending' = pending
    BY <1>2, <1>13
  <2>2. Log' = Log
    BY <1>1, <1>3, <2>1, DiskLogIs
  <2>3. Len(Log) \in 0 .. MaxItems
    BY <1>7, <1>11, <1>13, Bounds, BoundsAssumption
  <2>4. TypeOK'
    BY <1>1, <2>1, <2>3 DEF LogInv, TypeOK
  <2>5. MemoryOK'
    BY <1>1, <1>3, <1>13, <2>1 DEF LogInv, MemoryOK
  <2>6. FilesOK'
    <3>1. StartsWith(logPage, logPage)
      BY Bounds, StartsSelf
    <3>. QED  BY <1>1, <1>3, <1>4, <1>5, <1>6, <2>1, <3>1 DEF FilesOK
  <2>7. AckedOK'
    BY <1>1, <1>3, <1>7, <1>8, <1>11, <2>1, <2>2 DEF AckedOK
  <2>8. Follows
    BY <2>1, <2>2 DEF Follows, Durable!Next, Durable!Flush
  <2>. QED  BY <1>9, <1>10, <2>4, <2>5, <2>6, <2>7, <2>8 DEF LogInv
<1>. QED  BY <1>12, <1>13

-------------------------------------------------------------------------------
(* Opening: the log in the files stays.                                     *)
LEMMA DownFacts ==
    ASSUME LogInv, ~Up
    PROVE  /\ Log = LogOnDisk /\ acked = Len(LogOnDisk) /\ Len(LogOnDisk) <= added
           /\ logPage = <<>> /\ logPageId = 0 /\ everFlushed = FALSE /\ pending = <<>>
           /\ LogOnDisk \in Seq(Items)
<1>1. Log = LogOnDisk
  BY DiskLogIs
<1>2. logPage = <<>> /\ logPageId = 0 /\ everFlushed = FALSE /\ pending = <<>>
  BY Bounds DEF LogInv, MemoryOK
<1>3. LogOnDisk \in Seq(Items)
  BY Bounds, DiskLogIs, DiskLogType
<1>4. acked = Len(LogOnDisk) /\ Len(LogOnDisk) + 0 <= added
  BY <1>1, <1>2 DEF LogInv, AckedOK
<1>. QED  BY <1>1, <1>2, <1>3, <1>4, Bounds

LEMMA StaysDown ==
    ASSUME LogInv, ~Up, ~Up', LogOnDisk' = LogOnDisk,
           UNCHANGED <<logPage, logPageId, everFlushed, pending, added, acked>>
    PROVE  MemoryOK' /\ FilesOK' /\ AckedOK' /\ Follows
<1>1. Log' = LogOnDisk /\ Log = LogOnDisk
  BY DiskLogIs
<1>2. AckedOK'
  BY <1>1 DEF LogInv, AckedOK
<1>3. MemoryOK' /\ FilesOK'
  BY DEF LogInv, MemoryOK, FilesOK
<1>4. Follows
  BY <1>1 DEF Follows, Durable!vars
<1>. QED  BY <1>2, <1>3, <1>4

LEMMA OpenHeaderStep ==
    ASSUME LogInv, OpenHeader
    PROVE  LogInv' /\ Follows
<1>1. /\ pc = "down" /\ UNCHANGED disk
      /\ header' = header /\ backup' = backup /\ pages' = pages
      /\ logPage' = logPage /\ logPageId' = logPageId /\ everFlushed' = everFlushed
      /\ pending' = pending /\ added' = added /\ torn' = torn /\ acked' = acked
      /\ headerValid' = Valid(header)
  BY DEF OpenHeader, disk, history
<1>2. \/ Valid(header) /\ headerPage' = header.n /\ pc' = "openPage"
      \/ ~Valid(header) /\ Valid(backup) /\ headerPage' = backup.n /\ pc' = "restoreHeader"
      \/ ~Valid(header) /\ ~Valid(backup) /\ headerPage' = 0 /\ pc' = "newBackup"
  BY DEF OpenHeader
<1>3. ~Up /\ ~Up'
  BY <1>1, <1>2 DEF Up
<1>4. headerPage' \in PageIds /\ headerValid' \in BOOLEAN
  BY <1>1, <1>2, Bounds, ImageFacts DEF Valid
<1>5. TypeOK' /\ OpensAgain'
  BY <1>1, <1>2, <1>4 DEF LogInv, TypeOK, OpensAgain, Writing
<1>6. ImagesOK'
  BY <1>1, Bounds, ImagesLater
<1>7. OpeningOK'
  BY <1>1, <1>2 DEF LogInv, OpeningOK, LastGood
<1>8. MemoryOK' /\ FilesOK' /\ AckedOK' /\ Follows
  BY <1>1, <1>3, SameFiles, StaysDown
<1>. QED  BY <1>5, <1>6, <1>7, <1>8 DEF LogInv

LEMMA RestoreHeaderStep ==
    ASSUME LogInv, RestoreHeader
    PROVE  LogInv' /\ Follows
<1>1. /\ pc = "restoreHeader" /\ pc' = "openPage" /\ header' = backup
      /\ backup' = backup /\ pages' = pages /\ headerPage' = headerPage /\ headerValid' = headerValid
      /\ logPage' = logPage /\ logPageId' = logPageId /\ everFlushed' = everFlushed
      /\ pending' = pending /\ added' = added /\ torn' = torn /\ acked' = acked
  BY DEF RestoreHeader, memory, history
<1>2. ~Up /\ ~Up'
  BY <1>1 DEF Up
<1>3. ~Valid(header) /\ Valid(backup) /\ headerPage = backup.n /\ LastGood(headerPage)
  BY <1>1 DEF LogInv, OpeningOK
<1>4. LogOnDisk' = LogOnDisk
  <2>1. DiskLog(header', backup', pages') = DiskLog(header, backup, pages)
    BY <1>1, <1>3, Zenon DEF DiskLog
  <2>. QED  BY <2>1, DiskLogIs
<1>5. TypeOK' /\ OpensAgain'
  BY <1>1 DEF LogInv, TypeOK, OpensAgain
<1>6. ImagesOK'
  BY <1>1 DEF LogInv, ImagesOK
<1>7. OpeningOK'
  BY <1>1, <1>3 DEF OpeningOK, LastGood
<1>8. MemoryOK' /\ FilesOK' /\ AckedOK' /\ Follows
  BY <1>1, <1>2, <1>4, StaysDown
<1>. QED  BY <1>5, <1>6, <1>7, <1>8 DEF LogInv

LEMMA NewBackupStep ==
    ASSUME LogInv, NewBackup
    PROVE  LogInv' /\ Follows
<1>1. /\ pc = "newBackup" /\ pc' = "newHeader" /\ backup' = HeaderImage(0)
      /\ header' = header /\ pages' = pages /\ headerPage' = headerPage /\ headerValid' = TRUE
      /\ logPage' = logPage /\ logPageId' = logPageId /\ everFlushed' = everFlushed
      /\ pending' = pending /\ added' = added /\ torn' = torn /\ acked' = acked
  BY DEF NewBackup, history
<1>2. ~Up /\ ~Up'
  BY <1>1 DEF Up
<1>3. ~Valid(header) /\ ~Valid(backup) /\ headerPage = 0
  BY <1>1 DEF LogInv, OpeningOK
<1>4. backup' \in Image /\ Valid(backup') /\ backup'.n = 0 /\ Fits(backup', added)
  BY <1>1, Bounds, NewImages, FitsNew DEF Few
<1>5. LogOnDisk' = LogOnDisk
  <2>1. DiskLog(header, backup, pages) = <<>> /\ DiskLog(header', backup', pages') = <<>>
    BY <1>1, <1>3, <1>4 DEF DiskLog
  <2>. QED  BY <2>1, DiskLogIs
<1>6. TypeOK' /\ OpensAgain'
  BY <1>1, <1>4 DEF LogInv, TypeOK, OpensAgain, Writing
<1>7. ImagesOK'
  BY <1>1, <1>4 DEF LogInv, ImagesOK
<1>8. OpeningOK'
  BY <1>1, <1>3 DEF OpeningOK
<1>9. MemoryOK' /\ FilesOK' /\ AckedOK' /\ Follows
  BY <1>1, <1>2, <1>5, StaysDown
<1>. QED  BY <1>6, <1>7, <1>8, <1>9 DEF LogInv

LEMMA NewHeaderStep ==
    ASSUME LogInv, NewHeader
    PROVE  LogInv' /\ Follows
<1>1. /\ pc = "newHeader" /\ pc' = "openPage" /\ header' = HeaderImage(0)
      /\ backup' = backup /\ pages' = pages /\ headerPage' = headerPage /\ headerValid' = headerValid
      /\ logPage' = logPage /\ logPageId' = logPageId /\ everFlushed' = everFlushed
      /\ pending' = pending /\ added' = added /\ torn' = torn /\ acked' = acked
  BY DEF NewHeader, memory, history
<1>2. ~Up /\ ~Up'
  BY <1>1 DEF Up
<1>3. ~Valid(header) /\ backup = HeaderImage(0) /\ headerPage = 0
  BY <1>1 DEF LogInv, OpeningOK
<1>4. header' \in Image /\ Valid(header') /\ header'.n = 0 /\ Fits(header', added)
      /\ Valid(backup) /\ backup.n = 0
  BY <1>1, <1>3, Bounds, NewImages, FitsNew DEF Few
<1>5. LogOnDisk' = LogOnDisk
  <2>1. DiskLog(header, backup, pages) = <<>> /\ DiskLog(header', backup', pages') = <<>>
    BY <1>1, <1>3, <1>4 DEF DiskLog
  <2>. QED  BY <2>1, DiskLogIs
<1>6. TypeOK' /\ OpensAgain'
  BY <1>1, <1>4 DEF LogInv, TypeOK, OpensAgain
<1>7. ImagesOK'
  BY <1>1, <1>4 DEF LogInv, ImagesOK
<1>8. OpeningOK'
  BY <1>1, <1>3, <1>4 DEF OpeningOK, LastGood
<1>9. MemoryOK' /\ FilesOK' /\ AckedOK' /\ Follows
  BY <1>1, <1>2, <1>5, StaysDown
<1>. QED  BY <1>6, <1>7, <1>8, <1>9 DEF LogInv

LEMMA OpenLogPageStep ==
    ASSUME LogInv, OpenLogPage
    PROVE  LogInv' /\ Follows
<1>1. /\ pc = "openPage" /\ UNCHANGED disk
      /\ header' = header /\ backup' = backup /\ pages' = pages
      /\ headerPage' = headerPage /\ headerValid' = headerValid
      /\ pending' = pending /\ added' = added /\ torn' = torn /\ acked' = acked
  BY DEF OpenLogPage, disk, history
<1>2. ~Up
  BY <1>1 DEF Up
<1>3. /\ Valid(header) /\ headerPage = header.n
      /\ LastGood(headerPage) \/ (headerValid /\ Valid(backup))
  <2>1. pc = "openPage"
    BY <1>1
  <2>2. OpeningOK /\ headerValid \in BOOLEAN
    BY DEF LogInv, TypeOK
  <2>3. Valid(header) /\ headerPage = header.n
    BY <2>1, <2>2 DEF OpeningOK
  <2>4. LastGood(headerPage) \/ (headerValid /\ Valid(backup))
    BY <2>1, <2>2 DEF OpeningOK
  <2>. QED  BY <2>3, <2>4
<1>4. Log = LogOnDisk /\ acked = Len(LogOnDisk) /\ Len(LogOnDisk) <= added /\ pending = <<>>
      /\ LogOnDisk \in Seq(Items)
  BY <1>2, DownFacts
<1>5. LogOnDisk' = LogOnDisk
  BY <1>1, SameFiles
<1>6. ImagesOK'
  BY <1>1, Bounds, ImagesLater
<1>7. Few(headerPage, added)
  BY <1>3 DEF LogInv, ImagesOK, Fits
<1>8. SUFFICES ASSUME pc' = "idle", Log' = Log, logPageId' \in PageIds,
                      logPage' \in Seq(Items), Short(logPage'),
                      added = 0 => logPage' = <<>>, everFlushed' \in BOOLEAN,
                      headerPage = logPageId' + (IF everFlushed' THEN 1 ELSE 0),
                      everFlushed' => IF Valid(pages[logPageId'])
                                      THEN StartsWith(logPage', pages[logPageId'].items)
                                      ELSE Valid(backup) /\ StartsWith(logPage', backup.items),
                      Few(logPageId' + 1, added),
                      headerPage = logPageId' => (logPageId' > 0 => Valid(pages[logPageId' - 1]))
               PROVE  LogInv' /\ Follows
  <2>1. PageIds \subseteq Nat /\ headerPage \in Nat
    BY Bounds DEF PageIds
  <2>2. ASSUME NEW s \in Seq(Items), s = <<>> PROVE Short(s) /\ (added = 0 => s = <<>>)
    BY <2>2, Bounds DEF Short
  <2>3. CASE headerPage = 0 /\ OpenAt(0, <<>>, FALSE)
    <3>1. pc' = "idle" /\ logPageId' = 0 /\ logPage' = <<>> /\ everFlushed' = FALSE
      BY <2>3 DEF OpenAt
    <3>2. Up'
      BY <3>1 DEF Up
    <3>3. LogOnDisk = <<>>
      BY <1>3, <2>3, DiskLogIs DEF DiskLog
    <3>4. Log' = <<>>
      BY <3>1, <3>2, DiskLogIs, BeforeNone
    <3>5. Few(0 + 1, added) /\ <<>> \in Seq(Items) /\ 0 \in PageIds
      BY Bounds DEF Few
    <3>6. Log' = Log /\ headerPage = 0 + (IF FALSE THEN 1 ELSE 0)
      BY <1>4, <2>3, <3>3, <3>4
    <3>7. /\ logPageId' \in PageIds /\ logPage' \in Seq(Items) /\ Short(logPage')
          /\ added = 0 => logPage' = <<>>
          /\ headerPage = logPageId' + (IF everFlushed' THEN 1 ELSE 0)
          /\ Few(logPageId' + 1, added)
          /\ everFlushed' = FALSE /\ logPageId' = 0
      BY <2>2, <3>1, <3>5, <3>6
    <3>8. /\ everFlushed' \in BOOLEAN
          /\ everFlushed' => IF Valid(pages[logPageId'])
                             THEN StartsWith(logPage', pages[logPageId'].items)
                             ELSE Valid(backup) /\ StartsWith(logPage', backup.items)
          /\ headerPage = logPageId' => (logPageId' > 0 => Valid(pages[logPageId' - 1]))
      <4>1. everFlushed' \in BOOLEAN /\ ~everFlushed'
        BY <3>7
      <4>2. ~(logPageId' > 0)
        BY <3>7
      <4>. QED  BY <4>1, <4>2, Zenon
    <3>. QED  BY <1>8, <3>1, <3>6, <3>7, <3>8
  <2>4. ASSUME headerPage > 0, NEW t \in Seq(Items), OpenAt(headerPage - 1, t, TRUE),
               Short(t), added = 0 => t = <<>>,
               t = IF Valid(pages[headerPage - 1]) THEN pages[headerPage - 1].items ELSE ItemsOf(backup),
               Valid(pages[headerPage - 1]) \/ Valid(backup)
        PROVE  LogInv' /\ Follows
    <3>1. PICK k \in PageIds : k = headerPage - 1 /\ headerPage = k + 1 /\ headerPage # k
      BY <2>1, <2>4, Bounds, BoundsAssumption DEF PageIds
    <3>2. pc' = "idle" /\ logPageId' = k /\ logPage' = t /\ everFlushed' = TRUE
      BY <2>4, <3>1 DEF OpenAt
    <3>3. Up'
      BY <3>2 DEF Up
    <3>4. t = IF Valid(pages[k]) THEN pages[k].items ELSE ItemsOf(backup)
      BY <2>4, <3>1
    <3>5. LogOnDisk = Before(pages, k) \o t
      <4>1. header \in Image \cup {Bad} /\ backup \in Image \cup {Bad} /\ pages \in PageSets
            /\ header.n = k + 1
        BY <1>3, <3>1, Bounds
      <4>2. DiskLog(header, backup, pages) =
              Before(pages, k) \o (IF Valid(pages[k]) THEN pages[k].items ELSE ItemsOf(backup))
        BY <1>3, <4>1, DiskLogAt
      <4>. QED  BY <3>4, <4>2, DiskLogIs
    <3>6. Log' = Before(pages, k) \o t
      BY <1>1, <3>2, <3>3, DiskLogIs
    <3>7. StartsWith(t, t)
      BY StartsSelf
    <3>8. IF Valid(pages[k]) THEN StartsWith(t, pages[k].items)
          ELSE Valid(backup) /\ StartsWith(t, backup.items)
      BY <2>4, <3>1, <3>4, <3>7 DEF ItemsOf
    <3>. QED  BY <1>4, <1>7, <1>8, <2>4, <3>1, <3>2, <3>5, <3>6, <3>8
  <2>5. CASE headerPage > 0 /\ Valid(pages[headerPage - 1])
             /\ OpenAt(headerPage - 1, pages[headerPage - 1].items, TRUE)
    <3>1. PICK k \in PageIds : k = headerPage - 1
      BY <2>1, <2>5, Bounds, BoundsAssumption DEF PageIds
    <3>2. pages[k].items = ItemsOf(pages[k]) /\ pages[k].items \in Seq(Items)
      BY <2>5, <3>1, Bounds, ImageFacts DEF PageSets
    <3>3. Short(pages[k].items) /\ (added = 0 => pages[k].items = <<>>)
      BY <3>2 DEF LogInv, ImagesOK, Fits
    <3>. QED  BY <2>4, <2>5, <3>1, <3>2, <3>3
  <2>6. CASE headerPage > 0 /\ ~Valid(pages[headerPage - 1]) /\ Valid(backup)
             /\ OpenAt(headerPage - 1, backup.items, TRUE)
    <3>1. backup.items = ItemsOf(backup) /\ backup.items \in Seq(Items)
      BY <2>6, Bounds, ImageFacts
    <3>2. Short(backup.items) /\ (added = 0 => backup.items = <<>>)
      BY <3>1 DEF LogInv, ImagesOK, Fits
    <3>. QED  BY <2>4, <2>6, <3>1, <3>2
  <2>7. headerPage > 0 => Valid(pages[headerPage - 1]) \/ (headerValid /\ Valid(backup))
    BY <1>3 DEF LastGood
  <2>. QED  BY <2>3, <2>5, <2>6, <2>7 DEF OpenLogPage
<1>9. Up'
  BY <1>8 DEF Up
<1>10. TypeOK' /\ OpensAgain'
  BY <1>1, <1>8, Bounds DEF LogInv, TypeOK, OpensAgain, Short
<1>11. MemoryOK'
  BY <1>1, <1>4, <1>8, <1>9, Bounds DEF MemoryOK
<1>12. FilesOK'
  BY <1>1, <1>3, <1>8, <1>9 DEF FilesOK, LastGood
<1>13. OpeningOK'
  BY <1>8 DEF OpeningOK
<1>14. AckedOK'
  BY <1>1, <1>4, <1>5, <1>8, <1>9, Bounds DEF AckedOK
<1>15. Follows
  BY <1>1, <1>8 DEF Follows, Durable!vars
<1>. QED  BY <1>6, <1>10, <1>11, <1>12, <1>13, <1>14, <1>15 DEF LogInv

-------------------------------------------------------------------------------
(* Crashes: what flush_logs has written is still there.                      *)
LEMMA ForgetStep ==
    ASSUME LogInv, pc' = "down", Forget, ImagesOK', OpeningOK', added' = added,
           torn' \in 0 .. MaxTorn,
           header' \in Image \cup {Bad}, backup' \in Image \cup {Bad}, pages' \in PageSets,
           LogOnDisk' = LogOnDisk \/ (Up /\ LogOnDisk' = Log)
    PROVE  LogInv' /\ Follows
<1>1. /\ headerPage' = 0 /\ headerValid' = TRUE /\ logPage' = <<>> /\ logPageId' = 0
      /\ everFlushed' = FALSE /\ pending' = <<>> /\ acked' = Len(LogOnDisk')
  BY DEF Forget
<1>2. ~Up' /\ Log' = LogOnDisk'
  <2>1. ~Up'
    BY DEF Up
  <2>. QED  BY <2>1, DiskLogIs
<1>3. /\ Log \in Seq(Items) /\ LogOnDisk \in Seq(Items) /\ StartsWith(Log, LogOnDisk)
      /\ acked <= Len(LogOnDisk) /\ Len(Log) <= added
  <2>1. CASE Up
    <3>1. acked <= Len(LogOnDisk) /\ Len(Log) + Len(pending) <= added
      BY <2>1 DEF LogInv, AckedOK
    <3>2. Log \in Seq(Items) /\ LogOnDisk \in Seq(Items) /\ StartsWith(Log, LogOnDisk)
      BY <2>1, UpFacts
    <3>. QED  BY <3>1, <3>2, Bounds
  <2>2. CASE ~Up
    <3>1. Log = LogOnDisk /\ acked = Len(LogOnDisk) /\ Len(LogOnDisk) <= added
          /\ LogOnDisk \in Seq(Items)
      BY <2>2, DownFacts
    <3>2. StartsWith(Log, LogOnDisk)
      BY <3>1, StartsSelf
    <3>. QED  BY <3>1, <3>2
  <2>. QED  BY <2>1, <2>2
<1>4. /\ LogOnDisk = SubSeq(Log, 1, Len(LogOnDisk)) /\ Len(LogOnDisk) \in 0 .. Len(Log)
      /\ Log = SubSeq(Log, 1, Len(Log)) /\ Len(Log) \in Nat
  <2>1. LogOnDisk = SubSeq(Log, 1, Len(LogOnDisk)) /\ Len(LogOnDisk) \in 0 .. Len(Log)
    BY <1>3, StartsFacts
  <2>. QED  BY <1>3, <2>1
<1>5. PICK m \in Nat : /\ m = Len(LogOnDisk') /\ acked <= m /\ m <= Len(Log)
                       /\ LogOnDisk' = SubSeq(Log, 1, m)
  <2>1. CASE LogOnDisk' = LogOnDisk
    <3>1. Len(LogOnDisk) \in Nat /\ Len(LogOnDisk) <= Len(Log)
      BY <1>4
    <3>. QED  BY <1>3, <1>4, <2>1, <3>1, Zenon
  <2>2. CASE LogOnDisk' = Log
    <3>1. acked <= Len(Log) /\ Len(Log) <= Len(Log)
      BY <1>3, <1>4, Bounds
    <3>. QED  BY <1>4, <2>2, <3>1, Zenon
  <2>. QED  BY <2>1, <2>2
<1>6. TypeOK' /\ OpensAgain'
  <2>1. 0 \in PageIds /\ MaxItems \in Nat /\ acked' \in 0 .. MaxItems
    BY <1>1, <1>3, <1>4, <1>5, Bounds, BoundsAssumption
  <2>2. logPage' \in Seq(Items) /\ Len(logPage') <= SlotsPerPage /\ pending' \in Seq(Items)
    BY <1>1, Bounds
  <2>3. added' \in 0 .. MaxItems
    BY DEF LogInv, TypeOK
  <2>. QED  BY <1>1, <2>1, <2>2, <2>3 DEF TypeOK, OpensAgain, PageSets
<1>7. MemoryOK' /\ FilesOK'
  BY <1>1, <1>2 DEF MemoryOK, FilesOK
<1>8. AckedOK'
  BY <1>1, <1>2, <1>3, <1>4, <1>5, Bounds DEF AckedOK
<1>9. Follows
  <2>1. m \in acked .. Len(Log) /\ Log' = SubSeq(Log, 1, m) /\ acked' = m
    BY <1>1, <1>2, <1>4, <1>5, Bounds
  <2>2. Durable!Crash
    BY <2>1 DEF Durable!Crash
  <2>. QED  BY <2>2 DEF Follows, Durable!Next
<1>. QED  BY <1>6, <1>7, <1>8, <1>9 DEF LogInv

(* The files as they are in a crash between two page writes can be opened.   *)
LEMMA CanBeOpened ==
    ASSUME LogInv, OpensAgain
    PROVE  IF Valid(header) THEN LastGood(header.n) \/ Valid(backup)
           ELSE Valid(backup) => LastGood(backup.n)
<1>1. CASE Up
  <2>1. Valid(header)
    BY <1>1, UpFacts
  <2>2. LastGood(header.n) \/ Valid(backup)
    <3>1. CASE header.n = logPageId /\ LastGood(logPageId)
      BY <3>1
    <3>2. CASE header.n = logPageId + 1 /\ (Valid(pages[logPageId]) \/ Valid(backup))
      <4>1. header.n - 1 = logPageId
        BY <3>2, Bounds
      <4>. QED  BY <3>2, <4>1, Zenon DEF LastGood
    <3>. QED  BY <1>1, <3>1, <3>2, UpFacts
  <2>. QED  BY <2>1, <2>2
<1>2. CASE ~Up
  <2>1. pc \in {"down", "restoreHeader", "newBackup", "newHeader", "openPage"}
    BY <1>2 DEF LogInv, TypeOK, OpensAgain, Up, Writing
  <2>2. CASE pc = "down"
    BY <2>2 DEF LogInv, OpeningOK
  <2>3. CASE pc = "restoreHeader"
    <3>1. ~Valid(header) /\ Valid(backup) /\ headerPage = backup.n /\ LastGood(headerPage)
      BY <2>3 DEF LogInv, OpeningOK
    <3>. QED  BY <3>1
  <2>4. CASE pc = "newBackup"
    <3>1. ~Valid(header) /\ ~Valid(backup)
      BY <2>4 DEF LogInv, OpeningOK
    <3>. QED  BY <3>1
  <2>5. CASE pc = "newHeader"
    <3>1. ~Valid(header) /\ backup = HeaderImage(0)
      BY <2>5 DEF LogInv, OpeningOK
    <3>2. backup.n = 0
      BY <3>1, Bounds, NewImages
    <3>. QED  BY <3>1, <3>2 DEF LastGood
  <2>6. CASE pc = "openPage"
    <3>1. /\ Valid(header) /\ headerPage = header.n
          /\ LastGood(headerPage) \/ (headerValid /\ Valid(backup))
      BY <2>6 DEF LogInv, OpeningOK
    <3>. QED  BY <3>1
  <2>. QED  BY <2>1, <2>2, <2>3, <2>4, <2>5, <2>6
<1>. QED  BY <1>1, <1>2

LEMMA CrashStep ==
    ASSUME LogInv, Crash
    PROVE  LogInv' /\ Follows
<1>1. /\ UNCHANGED disk /\ added' = added /\ torn' = torn /\ pc' = "down" /\ Forget
      /\ header' = header /\ backup' = backup /\ pages' = pages
  BY DEF Crash, Forget, disk
<1>2. ImagesOK'
  BY <1>1, Bounds, ImagesLater
<1>3. OpeningOK'
  <2>1. OpensAgain
    BY DEF LogInv
  <2>. QED  BY <1>1, <2>1, CanBeOpened DEF OpeningOK, LastGood
<1>4. LogOnDisk' = LogOnDisk
  BY <1>1, SameFiles
<1>5. torn' \in 0 .. MaxTorn
  BY <1>1 DEF LogInv, TypeOK
<1>. QED  BY <1>1, <1>2, <1>3, <1>4, <1>5, Bounds, ForgetStep

LEMMA CrashWritingStep ==
    ASSUME LogInv, ~OnlyCopy, CrashWriting
    PROVE  LogInv' /\ Follows
<1>1. /\ pc' = "down" /\ added' = added /\ torn' \in 0 .. MaxTorn /\ Forget
      /\ \/ /\ pc \in {"logBackup", "headerBackup", "newBackup"}
            /\ backup' = Bad /\ header' = header /\ pages' = pages
         \/ /\ pc \in {"header", "restoreHeader", "newHeader"}
            /\ header' = Bad /\ backup' = backup /\ pages' = pages
         \/ /\ pc = "logPage" /\ pages' = [pages EXCEPT ![logPageId] = Bad]
            /\ header' = header /\ backup' = backup
  <2>1. torn' \in 0 .. MaxTorn
    BY Bounds, BoundsAssumption DEF CrashWriting
  <2>. QED  BY <2>1 DEF CrashWriting, Forget
<1>2. /\ header \in Image \cup {Bad} /\ backup \in Image \cup {Bad} /\ pages \in PageSets
      /\ logPageId \in PageIds /\ logPageId \in Nat /\ ~Valid(Bad) /\ Fits(Bad, added)
      /\ Fits(header, added) /\ Fits(backup, added) /\ \A p \in PageIds : Fits(pages[p], added)
  <2>1. Fits(Bad, added) /\ ~Valid(Bad)
    BY Bounds, FitsNew, NewImages
  <2>. QED  BY <2>1, Bounds DEF LogInv, ImagesOK
<1>3. ASSUME backup' = Bad, header' = header, pages' = pages,
             pc \in {"logBackup", "headerBackup", "newBackup"}
      PROVE  LogInv' /\ Follows
  <2>1. ImagesOK'
    BY <1>1, <1>2, <1>3 DEF ImagesOK
  <2>2. (Valid(header) => LastGood(header.n)) /\ LogOnDisk' = LogOnDisk
    <3>1. CASE Valid(header)
      <4>1. HeaderOnDisk = header.n
        BY <3>1 DEF HeaderOnDisk
      <4>2. LastGood(header.n)
        <5>1. CASE pc = "logBackup"
          BY <4>1, <5>1 DEF OnlyCopy, LastPageGood, LastGood
        <5>2. CASE pc = "headerBackup"
          <6>1. Up
            BY <5>2 DEF Up
          <6>. QED  BY <5>2, <6>1 DEF LogInv, FilesOK
        <5>3. CASE pc = "newBackup"
          BY <3>1, <5>3 DEF LogInv, OpeningOK
        <5>. QED  BY <1>3, <5>1, <5>2, <5>3
      <4>3. PICK n \in PageIds : n = header.n
        BY <1>2, <3>1, ImageFacts
      <4>4. n > 0 => Valid(pages[n - 1])
        BY <4>2, <4>3 DEF LastGood
      <4>5. Bad \in Image \cup {Bad}
        OBVIOUS
      <4>6. DiskLog(header, backup, pages) = Before(pages, n)
            /\ DiskLog(header, Bad, pages) = Before(pages, n)
        BY <1>2, <3>1, <4>3, <4>4, <4>5, DiskLogAt
      <4>. QED  BY <1>3, <4>2, <4>6, DiskLogIs
    <3>2. CASE ~Valid(header)
      <4>1. pc = "newBackup"
        <5>1. Up => Valid(header)
          BY UpFacts
        <5>. QED  BY <1>3, <3>2, <5>1 DEF Up
      <4>2. ~Valid(backup)
        BY <4>1 DEF LogInv, OpeningOK
      <4>3. DiskLog(header, backup, pages) = <<>> /\ DiskLog(header, Bad, pages) = <<>>
        BY <1>2, <3>2, <4>2 DEF DiskLog
      <4>. QED  BY <1>3, <3>2, <4>3, DiskLogIs
    <3>. QED  BY <3>1, <3>2
  <2>3. OpeningOK'
    <3>1. IF Valid(header) THEN LastGood(header.n) \/ Valid(Bad)
          ELSE Valid(Bad) => (Bad.n > 0 => Valid(pages[Bad.n - 1]))
      BY <1>2, <2>2
    <3>. QED  BY <1>1, <1>3, <3>1 DEF OpeningOK, LastGood
  <2>. QED  BY <1>1, <1>2, <1>3, <2>1, <2>2, <2>3, ForgetStep
<1>4. ASSUME header' = Bad, backup' = backup, pages' = pages,
             pc \in {"header", "restoreHeader", "newHeader"}
      PROVE  LogInv' /\ Follows
  <2>1. ImagesOK'
    BY <1>1, <1>2, <1>4 DEF ImagesOK
  <2>2. (Valid(backup) => LastGood(backup.n))
        /\ (LogOnDisk' = LogOnDisk \/ (Up /\ LogOnDisk' = Log))
    <3>1. CASE pc = "header"
      <4>1. Up
        BY <3>1 DEF Up
      <4>2. /\ backup = HeaderImage(headerPage) /\ everFlushed
            /\ pages[logPageId] = LogImage(logPage)
        BY <3>1, <4>1 DEF LogInv, FilesOK
      <4>3. headerPage = logPageId + 1
        BY <4>1, <4>2 DEF LogInv, MemoryOK
      <4>4. backup.n = logPageId + 1 /\ Valid(backup)
        BY <4>2, <4>3, Bounds, NewImages
      <4>5. Valid(pages[logPageId]) /\ pages[logPageId].items = logPage
        BY <4>2, Bounds, NewImages
      <4>6. DiskLog(Bad, backup, pages) = Before(pages, logPageId) \o logPage
        <5>1. backup.n # 0 /\ backup.n - 1 = logPageId
          BY <1>2, <4>4
        <5>. QED  BY <1>2, <4>4, <4>5, <5>1, Zenon DEF DiskLog
      <4>7. LastGood(backup.n)
        <5>1. backup.n - 1 = logPageId
          BY <1>2, <4>4
        <5>. QED  BY <4>5, <5>1, Zenon DEF LastGood
      <4>. QED  BY <1>4, <4>1, <4>6, <4>7, DiskLogIs, UpFacts
    <3>2. CASE pc = "restoreHeader"
      <4>1. ~Valid(header) /\ headerPage = backup.n /\ LastGood(headerPage)
        BY <3>2 DEF LogInv, OpeningOK
      <4>2. header = Bad
        BY <4>1 DEF Valid
      <4>. QED  BY <1>4, <4>1, <4>2, DiskLogIs
    <3>3. CASE pc = "newHeader"
      <4>1. ~Valid(header) /\ backup = HeaderImage(0)
        BY <3>3 DEF LogInv, OpeningOK
      <4>2. header = Bad
        BY <4>1 DEF Valid
      <4>3. backup.n = 0
        BY <4>1, Bounds, NewImages
      <4>4. LastGood(backup.n)
        BY <4>3 DEF LastGood
      <4>. QED  BY <1>4, <4>2, <4>4, DiskLogIs
    <3>. QED  BY <1>4, <3>1, <3>2, <3>3
  <2>3. OpeningOK'
    <3>1. ~Valid(header')
      BY <1>2, <1>4
    <3>. QED  BY <1>1, <1>4, <2>2, <3>1 DEF OpeningOK, LastGood
  <2>. QED  BY <1>1, <1>2, <1>4, <2>1, <2>2, <2>3, ForgetStep
<1>5. ASSUME pages' = [pages EXCEPT ![logPageId] = Bad], header' = header, backup' = backup,
             pc = "logPage"
      PROVE  LogInv' /\ Follows
  <2>1. Up
    BY <1>5 DEF Up
  <2>2. backup = LogImage(logPage)
    BY <1>5, <2>1 DEF LogInv, FilesOK
  <2>3. Valid(backup) /\ ItemsOf(backup) = logPage
    BY <2>2, Bounds, NewImages
  <2>4. /\ pages' \in PageSets /\ pages'[logPageId] = Bad
        /\ Before(pages', logPageId) = Before(pages, logPageId)
        /\ LastGood(logPageId) => (logPageId > 0 => Valid(pages'[logPageId - 1]))
        /\ Fits(Bad, added) => \A p \in PageIds : Fits(pages'[p], added)
    <3>1. Bad \in Image \cup {Bad}
      OBVIOUS
    <3>. QED  BY <1>5, <3>1, PageWritten
  <2>5. ImagesOK'
    BY <1>1, <1>2, <1>5, <2>4 DEF ImagesOK
  <2>6. Valid(header)
    BY <2>1, UpFacts
  <2>7. LogOnDisk' = LogOnDisk \/ LogOnDisk' = Log
    <3>1. LogOnDisk' = DiskLog(header, backup, pages')
      BY <1>5, DiskLogIs
    <3>2. CASE header.n = logPageId /\ LastGood(logPageId)
               /\ LogOnDisk = Before(pages, logPageId)
      <4>1. header.n = logPageId /\ (logPageId > 0 => Valid(pages'[logPageId - 1]))
        BY <2>4, <3>2
      <4>2. DiskLog(header, backup, pages') = Before(pages', logPageId)
        BY <1>2, <2>4, <2>6, <4>1, DiskLogAt
      <4>. QED  BY <2>4, <3>1, <3>2, <4>2
    <3>3. CASE header.n = logPageId + 1
      <4>1. DiskLog(header, backup, pages') = Before(pages', logPageId) \o
              (IF Valid(pages'[logPageId]) THEN pages'[logPageId].items ELSE ItemsOf(backup))
        BY <1>2, <2>4, <2>6, <3>3, DiskLogAt
      <4>2. ~Valid(pages'[logPageId])
        BY <1>2, <2>4
      <4>3. Log = Before(pages, logPageId) \o logPage
        BY <2>1, UpFacts
      <4>. QED  BY <2>3, <2>4, <3>1, <4>1, <4>2, <4>3
    <3>. QED  BY <2>1, <3>2, <3>3, UpFacts
  <2>8. OpeningOK'
    <3>1. Valid(header') /\ Valid(backup')
      BY <1>5, <2>3, <2>6
    <3>. QED  BY <1>1, <3>1 DEF OpeningOK
  <2>. QED  BY <1>1, <1>2, <1>5, <2>1, <2>4, <2>5, <2>7, <2>8, ForgetStep
<1>. QED  BY <1>1, <1>3, <1>4, <1>5

-------------------------------------------------------------------------------
LEMMA LogInvInit ==
    Init => LogInv /\ Durable!Init
<1>. SUFFICES ASSUME Init PROVE LogInv /\ Durable!Init
  OBVIOUS
<1>1. /\ header = Bad /\ backup = Bad /\ pages = [p \in PageIds |-> Bad] /\ pc = "down"
      /\ headerPage = 0 /\ headerValid = TRUE /\ logPage = <<>> /\ logPageId = 0
      /\ everFlushed = FALSE /\ pending = <<>> /\ added = 0 /\ torn = 0 /\ acked = 0
  BY DEF Init
<1>2. 0 \in PageIds /\ 0 \in 0 .. MaxItems /\ 0 \in 0 .. MaxTorn
      /\ SlotsPerPage \in Nat
  BY BoundsAssumption, SlotsPerPageAssumption DEF PageIds
<1>3. TypeOK /\ OpensAgain
  <2>1. <<>> \in Seq(Items) /\ Len(<<>>) <= SlotsPerPage
    BY <1>2
  <2>2. pages \in [PageIds -> Image \cup {Bad}]
    BY <1>1
  <2>. QED  BY <1>1, <1>2, <2>1, <2>2 DEF TypeOK, OpensAgain
<1>4. ~Up
  BY <1>1 DEF Up
<1>5. ~Valid(Bad) /\ Fits(Bad, 0)
  BY FitsNew, NewImages
<1>6. ImagesOK
  <2>1. \A p \in PageIds : pages[p] = Bad
    BY <1>1
  <2>. QED  BY <1>1, <1>5, <2>1 DEF ImagesOK
<1>7. MemoryOK /\ FilesOK
  BY <1>1, <1>4 DEF MemoryOK, FilesOK
<1>8. OpeningOK
  BY <1>1, <1>5 DEF OpeningOK
<1>9. Log = <<>> /\ LogOnDisk = <<>>
  <2>1. DiskLog(header, backup, pages) = <<>>
    BY <1>1, <1>5 DEF DiskLog
  <2>. QED  BY <1>4, <2>1, DiskLogIs
<1>10. AckedOK
  <2>1. Len(<<>>) = 0 /\ 0 + 0 <= 0
    OBVIOUS
  <2>. QED  BY <1>1, <1>4, <1>9, <2>1 DEF AckedOK
<1>. QED  BY <1>1, <1>3, <1>6, <1>7, <1>8, <1>9, <1>10 DEF LogInv, Durable!Init

LEMMA LogInvNext ==
    LogInv /\ [NextSparing]_vars => LogInv' /\ Follows
<1>. SUFFICES ASSUME LogInv, [NextSparing]_vars PROVE LogInv' /\ Follows
  OBVIOUS
<1>1. CASE AddLog \/ AddLogFull \/ FlushLogs \/ FlushDone
  BY <1>1, AddLogStep, AddLogFullStep, FlushLogsStep, FlushDoneStep
<1>2. CASE WriteLogBackup \/ WriteLogPage \/ WriteHeaderBackup \/ WriteHeader
  BY <1>2, WriteLogBackupStep, WriteLogPageStep, WriteHeaderBackupStep, WriteHeaderStep
<1>3. CASE OpenHeader \/ RestoreHeader \/ NewBackup \/ NewHeader \/ OpenLogPage
  BY <1>3, OpenHeaderStep, RestoreHeaderStep, NewBackupStep, NewHeaderStep, OpenLogPageStep
<1>4. CASE Crash \/ (~OnlyCopy /\ CrashWriting)
  BY <1>4, CrashStep, CrashWritingStep
<1>5. CASE UNCHANGED vars
  <2>1. /\ header' = header /\ backup' = backup /\ pages' = pages /\ pc' = pc
        /\ headerPage' = headerPage /\ headerValid' = headerValid /\ logPage' = logPage
        /\ logPageId' = logPageId /\ everFlushed' = everFlushed /\ pending' = pending
        /\ added' = added /\ torn' = torn /\ acked' = acked /\ UNCHANGED disk
    BY <1>5 DEF vars, disk, memory, history
  <2>2. LogOnDisk' = LogOnDisk
    BY <2>1, SameFiles
  <2>3. Up' = Up
    BY <2>1 DEF Up
  <2>4. Log' = Log
    BY <2>1, <2>2, <2>3, DiskLogIs
  <2>5. TypeOK' /\ OpensAgain' /\ ImagesOK'
    BY <2>1 DEF LogInv, TypeOK, OpensAgain, ImagesOK
  <2>6. MemoryOK' /\ FilesOK' /\ OpeningOK'
    BY <2>1, <2>3 DEF LogInv, MemoryOK, FilesOK, OpeningOK, LastGood
  <2>7. AckedOK'
    BY <2>1, <2>2, <2>3, <2>4 DEF LogInv, AckedOK
  <2>8. Follows
    BY <2>1, <2>4 DEF Follows, Durable!vars
  <2>. QED  BY <2>5, <2>6, <2>7, <2>8 DEF LogInv
<1>. QED  BY <1>1, <1>2, <1>3, <1>4, <1>5 DEF NextSparing, Step

(* The types, and how the pages in the files and in memory belong together:  *)
(* the inductive invariant of the log's files.  It lives on the condition of *)
(* SparingSpec: while the last page is bad in its file, the backup is good.  *)
THEOREM LogFilesAgree == SparingSpec => []LogInv
<1>. QED  BY LogInvInit, LogInvNext, PTL DEF SparingSpec

(* Every variable has its type, whatever is added, torn and opened again.    *)
THEOREM LogTypes == SparingSpec => []TypeOK
<1>1. LogInv => TypeOK
  BY DEF LogInv
<1>. QED  BY <1>1, LogFilesAgree, PTL

(* The constructor finds a last log page or its backup that passes its       *)
(* checksum after a crash between two page writes and after one that tore    *)
(* the page being written, the backup excepted while the last page in the    *)
(* file is bad already (then it does not: LogTornTwice.cfg).                 *)
THEOREM LogOpensAgain == SparingSpec => []OpensAgain
<1>1. LogInv => OpensAgain
  BY DEF LogInv
<1>. QED  BY <1>1, LogFilesAgree, PTL

(* The page writes, in their order, implement a log that loses nothing       *)
(* flushed: what flush_logs has returned for is there after every crash that *)
(* SparingSpec allows, and a crash only ever takes items from the end.       *)
THEOREM LogIsDurable == SparingSpec => ImplementsDurableLog
<1>1. LogInv /\ [NextSparing]_vars => [Durable!Next]_(Durable!vars)
  BY LogInvNext DEF Follows
<1>2. Init => Durable!Init
  BY LogInvInit
<1>. QED  BY <1>1, <1>2, LogFilesAgree, PTL DEF SparingSpec, ImplementsDurableLog, Durable!Spec

===============================================================================
