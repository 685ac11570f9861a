---------------------------- MODULE RecoveryProofs ----------------------------
(***************************************************************************)
(* Crashes and recover(), for every number of workers, keys, pages, records  *)
(* and crashes.  The log alone, cut off anywhere after what was flushed, is   *)
(* enough to go on with IDs and timestamps never used before (CountersInv);  *)
(* transactions are in it whole or not at all, or recover() does not return  *)
(* (PartsInv, with an induction over redo_pass); commits that have returned  *)
(* stay in it (AckedLogged); and pages and headers keep their shape          *)
(* (StoreTyped, HeadersTyped).                                              *)
(***************************************************************************)
EXTENDS Recovery, TLAPS, SequenceTheorems, FiniteSetTheorems, WellFoundedInduction

Checkpoints == {c \in DOMAIN log : log[c].type = "CHECKPOINT_LOG"}
CommitItems == {i \in DOMAIN log : log[i].type = "COMMIT_LOG"}

IsSeq(s) == s \in Seq({s[i] : i \in DOMAIN s})

ItemsTyped ==
    \A i \in DOMAIN log :
        /\ log[i].id \in Nat /\ log[i].tx \in Nat
        /\ log[i].maxTx \in Nat /\ log[i].maxTs \in Nat

IdsIncrease == \A i, j \in DOMAIN log : i < j => log[i].id < log[j].id

(* A checkpoint has seen all transaction IDs and timestamps before it,       *)
CheckpointsCover ==
    \A c \in Checkpoints :
        /\ \A i \in DOMAIN log : i <= c => log[i].tx <= log[c].maxTx
        /\ \A i \in CommitItems \cup Checkpoints : i < c => log[i].maxTs <= log[c].maxTs

(* and a commit is later than all before it.                                *)
CommitsRise ==
    \A i \in CommitItems :
        /\ log[i].maxTs > 0
        /\ \A j \in CommitItems \cup Checkpoints : j < i => log[j].maxTs < log[i].maxTs

(* Of the log, whoever reads it, cut off or not.                             *)
LogOK ==
    /\ IsSeq(log)
    /\ ItemsTyped /\ IdsIncrease /\ CheckpointsCover /\ CommitsRise

(* Whose commit is logged and not yet readable.                              *)
Logged(w) == wpc[w] \in {"flush", "unlock"}

(* Of a program that is up: its counters are ahead of the log.               *)
CountersAhead ==
    Up => /\ \A i \in DOMAIN log : log[i].id < nextLogId /\ log[i].tx <= maxTx
          /\ \A w \in Workers : tx[w] <= maxTx
          /\ \A c \in Checkpoints : log[c].maxTs <= maxTs
          /\ \A i \in CommitItems : log[i].maxTs <= maxTs + 1
          /\ (\A w \in Workers : ~Logged(w)) => \A i \in CommitItems : log[i].maxTs <= maxTs

ControlTyped ==
    /\ durable \in 0 .. Len(log)
    /\ nextLogId \in Nat /\ maxTx \in Nat /\ maxTs \in Nat
    /\ pc \in PcValues
    /\ wpc \in [Workers -> WorkerPlaces]
    /\ tx \in [Workers -> Nat]
    /\ n \in [Workers -> Nat]

(* Of the workers: one commits at a time, none runs beside a checkpoint or   *)
(* when the program is not up.                                              *)
WorkersOK ==
    /\ \A w \in Workers :
        /\ wpc[w] \in {"stamp", "link", "index", "commit", "flush", "unlock"} => Committing(w)
        /\ wpc[w] \in {"idle", "run"} => ~Committing(w)
    /\ \A v, w \in Workers : Committing(v) /\ Committing(w) => v = w
    /\ ~Up \/ cpc # "idle" => \A w \in Workers : wpc[w] = "idle"
    /\ ~Up => cpc = "idle"

(* Of a program that is not there: it knows no transaction.                  *)
Forgotten == pc = "down" => \A w \in Workers : tx[w] = 0

CountersInv ==
    /\ ControlTyped
    /\ LogOK
    /\ CountersAhead
    /\ WorkersOK
    /\ NoAssertionFails

-------------------------------------------------------------------------------
(* Sequences that grow and are cut off.                                     *)
LEMMA SeqFacts ==
    ASSUME NEW s, IsSeq(s)
    PROVE  Len(s) \in Nat /\ DOMAIN s = 1 .. Len(s)
BY DEF IsSeq

LEMMA SeqIs ==
    ASSUME NEW S, NEW s \in Seq(S)
    PROVE  IsSeq(s)
<1>. DEFINE T == {s[i] : i \in DOMAIN s}
<1>1. Len(s) \in Nat /\ DOMAIN s = 1 .. Len(s)
  OBVIOUS
<1>2. s = [i \in 1 .. Len(s) |-> s[i]]
  BY <1>1, SeqDef
<1>3. \A i \in 1 .. Len(s) : s[i] \in T
  BY <1>1
<1>. HIDE DEF T
<1>4. s \in [1 .. Len(s) -> T]
  BY <1>2, <1>3
<1>5. s \in Seq(T)
  BY <1>1, <1>4, SeqDef
<1>. QED  BY <1>5 DEF IsSeq, T

LEMMA AppendFacts ==
    ASSUME NEW s, IsSeq(s), NEW x
    PROVE  /\ IsSeq(Append(s, x))
           /\ Len(Append(s, x)) = Len(s) + 1
           /\ \A i \in DOMAIN s : Append(s, x)[i] = s[i]
           /\ Append(s, x)[Len(s) + 1] = x
<1>. DEFINE S == {s[i] : i \in DOMAIN s} \cup {x}
<1>1. s \in Seq(S)
  <2>1. {s[i] : i \in DOMAIN s} \subseteq S
    OBVIOUS
  <2>2. s \in Seq({s[i] : i \in DOMAIN s})
    BY DEF IsSeq
  <2>. HIDE DEF S
  <2>. QED  BY <2>1, <2>2
<1>2. x \in S
  OBVIOUS
<1>. HIDE DEF S
<1>3. Append(s, x) \in Seq(S) /\ Len(s) \in Nat /\ DOMAIN s = 1 .. Len(s)
  BY <1>1, <1>2
<1>4. /\ Len(Append(s, x)) = Len(s) + 1
      /\ \A i \in 1 .. Len(s) : Append(s, x)[i] = s[i]
      /\ Append(s, x)[Len(s) + 1] = x
  BY <1>1, <1>2
<1>5. IsSeq(Append(s, x))
  BY <1>3, SeqIs
<1>. QED  BY <1>3, <1>4, <1>5

LEMMA TwoMoreFacts ==
    ASSUME NEW s, IsSeq(s), NEW x, NEW y
    PROVE  /\ IsSeq(s \o <<x, y>>)
           /\ Len(s \o <<x, y>>) = Len(s) + 2
           /\ \A i \in DOMAIN s : (s \o <<x, y>>)[i] = s[i]
           /\ (s \o <<x, y>>)[Len(s) + 1] = x
           /\ (s \o <<x, y>>)[Len(s) + 2] = y
<1>. DEFINE S == {s[i] : i \in DOMAIN s} \cup {x, y}
<1>1. s \in Seq(S)
  <2>1. {s[i] : i \in DOMAIN s} \subseteq S
    OBVIOUS
  <2>2. s \in Seq({s[i] : i \in DOMAIN s})
    BY DEF IsSeq
  <2>. HIDE DEF S
  <2>. QED  BY <2>1, <2>2
<1>2. x \in S /\ y \in S
  OBVIOUS
<1>. HIDE DEF S
<1>3. <<x, y>> \in Seq(S) /\ Len(<<x, y>>) = 2 /\ <<x, y>>[1] = x /\ <<x, y>>[2] = y
  BY <1>2
<1>. DEFINE t == <<x, y>>
<1>4. t \in Seq(S) /\ Len(t) = 2 /\ t[1] = x /\ t[2] = y
  BY <1>3
<1>. HIDE DEF t
<1>5. /\ s \o t \in Seq(S) /\ Len(s \o t) = Len(s) + 2
      /\ \A i \in 1 .. Len(s) + 2 : (s \o t)[i] = IF i <= Len(s) THEN s[i] ELSE t[i - Len(s)]
  <2>1. /\ s \o t \in Seq(S) /\ Len(s \o t) = Len(s) + Len(t)
        /\ \A i \in 1 .. Len(s) + Len(t) :
             (s \o t)[i] = IF i <= Len(s) THEN s[i] ELSE t[i - Len(s)]
    BY <1>1, <1>4, ConcatProperties, Zenon
  <2>2. Len(t) = 2
    BY <1>4
  <2>. QED  BY <2>1, <2>2, Zenon
<1>6. Len(s) \in Nat /\ DOMAIN s = 1 .. Len(s)
  BY <1>1
<1>7. /\ \A i \in 1 .. Len(s) : (s \o t)[i] = s[i]
      /\ (s \o t)[Len(s) + 1] = x /\ (s \o t)[Len(s) + 2] = y
  <2>1. \A i \in 1 .. Len(s) : i \in 1 .. Len(s) + 2 /\ i <= Len(s)
    BY <1>6
  <2>2. /\ Len(s) + 1 \in 1 .. Len(s) + 2 /\ ~(Len(s) + 1 <= Len(s))
        /\ Len(s) + 2 \in 1 .. Len(s) + 2 /\ ~(Len(s) + 2 <= Len(s))
        /\ (Len(s) + 1) - Len(s) = 1 /\ (Len(s) + 2) - Len(s) = 2
    BY <1>6
  <2>. QED  BY <1>4, <1>5, <2>1, <2>2
<1>8. IsSeq(s \o t)
  BY <1>5, SeqIs
<1>. QED  BY <1>5, <1>6, <1>7, <1>8 DEF t

LEMMA PrefixFacts ==
    ASSUME NEW s, IsSeq(s), NEW m \in 0 .. Len(s)
    PROVE  /\ IsSeq(SubSeq(s, 1, m))
           /\ Len(SubSeq(s, 1, m)) = m
           /\ \A i \in 1 .. m : SubSeq(s, 1, m)[i] = s[i]
<1>. DEFINE S == {s[i] : i \in DOMAIN s}
<1>1. s \in Seq(S) /\ Len(s) \in Nat
  BY DEF IsSeq
<1>. HIDE DEF S
<1>2. \A i \in 1 .. m : s[i] \in S
  BY <1>1, ElementOfSeq
<1>3. /\ SubSeq(s, 1, m) \in Seq(S)
      /\ Len(SubSeq(s, 1, m)) = IF 1 <= m THEN m - 1 + 1 ELSE 0
      /\ \A i \in 1 .. m - 1 + 1 : SubSeq(s, 1, m)[i] = s[1 + i - 1]
  BY <1>1, <1>2, SubSeqProperties
<1>4. IsSeq(SubSeq(s, 1, m))
  BY <1>3, SeqIs
<1>. QED  BY <1>1, <1>3, <1>4

-------------------------------------------------------------------------------
(* A log that is cut off is a log.                                          *)
LEMMA LogOKCut ==
    ASSUME LogOK, NEW m \in 0 .. Len(log), log' = SubSeq(log, 1, m)
    PROVE  LogOK'
<1>1. /\ IsSeq(log') /\ Len(log') = m /\ \A i \in 1 .. m : log'[i] = log[i]
  BY PrefixFacts DEF LogOK
<1>2. /\ Len(log) \in Nat /\ DOMAIN log = 1 .. Len(log) /\ DOMAIN log' = 1 .. m
  BY <1>1, SeqFacts DEF LogOK
<1>3. DOMAIN log' \subseteq DOMAIN log /\ \A i \in DOMAIN log' : log'[i] = log[i]
  BY <1>1, <1>2
<1>4. ItemsTyped' /\ IdsIncrease'
  BY <1>3 DEF LogOK, ItemsTyped, IdsIncrease
<1>5. CheckpointsCover'
  BY <1>3 DEF LogOK, CheckpointsCover, Checkpoints, CommitItems
<1>6. CommitsRise'
  BY <1>3 DEF LogOK, CommitsRise, Checkpoints, CommitItems
<1>. QED  BY <1>1, <1>4, <1>5, <1>6 DEF LogOK

(* The log is longer, and the new items follow the old ones.                 *)
Longer ==
    /\ IsSeq(log') /\ Len(log) <= Len(log')
    /\ \A i \in 1 .. Len(log) : log'[i] = log[i]

Typed(x) == x.id \in Nat /\ x.tx \in Nat /\ x.maxTx \in Nat /\ x.maxTs \in Nat

LEMMA LogOKGrows ==
    ASSUME LogOK, Longer,
           \A j \in Len(log) + 1 .. Len(log') :
               /\ Typed(log'[j])
               /\ \A i \in 1 .. Len(log') : i < j => log'[i].id < log'[j].id
               /\ log'[j].type = "CHECKPOINT_LOG" =>
                    /\ \A i \in 1 .. Len(log') : i <= j => log'[i].tx <= log'[j].maxTx
                    /\ \A i \in (CommitItems \cup Checkpoints)' :
                            i < j => log'[i].maxTs <= log'[j].maxTs
               /\ log'[j].type = "COMMIT_LOG" =>
                    /\ log'[j].maxTs > 0
                    /\ \A i \in (CommitItems \cup Checkpoints)' :
                            i < j => log'[i].maxTs < log'[j].maxTs
    PROVE  LogOK'
<1>1. /\ Len(log) \in Nat /\ DOMAIN log = 1 .. Len(log)
      /\ Len(log') \in Nat /\ DOMAIN log' = 1 .. Len(log')
  BY SeqFacts DEF LogOK, Longer
<1>2. \A j \in DOMAIN log' \ (Len(log) + 1 .. Len(log')) :
        /\ j \in DOMAIN log /\ log'[j] = log[j]
        /\ \A i \in DOMAIN log' : i < j => i \in DOMAIN log /\ log'[i] = log[i]
  BY <1>1 DEF Longer
<1>3. ItemsTyped'
  BY <1>1, <1>2 DEF LogOK, ItemsTyped, Typed
<1>4. IdsIncrease'
  BY <1>1, <1>2 DEF LogOK, IdsIncrease
<1>5. CheckpointsCover'
  <2>1. SUFFICES ASSUME NEW c \in Checkpoints', c \notin Len(log) + 1 .. Len(log')
                 PROVE  /\ \A i \in DOMAIN log' : i <= c => log'[i].tx <= log'[c].maxTx
                        /\ \A i \in (CommitItems \cup Checkpoints)' :
                                i < c => log'[i].maxTs <= log'[c].maxTs
    BY <1>1 DEF CheckpointsCover, Checkpoints
  <2>2. c \in Checkpoints /\ log'[c] = log[c]
    BY <1>2, <2>1 DEF Checkpoints
  <2>3. \A i \in DOMAIN log' : i <= c => i \in DOMAIN log /\ log'[i] = log[i]
    <3>1. c \in DOMAIN log /\ c \in 1 .. Len(log)
      BY <1>1, <2>2 DEF Checkpoints
    <3>. QED  BY <1>1, <3>1 DEF Longer
  <2>4. \A i \in DOMAIN log' : i < c => i <= c
    BY <1>1, <2>2 DEF Checkpoints
  <2>. QED  BY <2>2, <2>3, <2>4 DEF LogOK, CheckpointsCover, CommitItems, Checkpoints
<1>6. CommitsRise'
  <2>1. SUFFICES ASSUME NEW c \in CommitItems', c \notin Len(log) + 1 .. Len(log')
                 PROVE  /\ log'[c].maxTs > 0
                        /\ \A i \in (CommitItems \cup Checkpoints)' :
                                i < c => log'[i].maxTs < log'[c].maxTs
    BY <1>1 DEF CommitsRise, CommitItems
  <2>2. c \in CommitItems /\ log'[c] = log[c]
    BY <1>2, <2>1 DEF CommitItems
  <2>3. \A i \in DOMAIN log' : i < c => i \in DOMAIN log /\ log'[i] = log[i]
    BY <1>2, <2>1 DEF CommitItems
  <2>. QED  BY <2>2, <2>3 DEF LogOK, CommitsRise, CommitItems, Checkpoints
<1>. QED  BY <1>3, <1>4, <1>5, <1>6 DEF LogOK, Longer

(* Log items of changes and aborts tell no counters.                        *)
Plain(x) == x.type \notin {"COMMIT_LOG", "CHECKPOINT_LOG"}

LEMMA PlainItems ==
    ASSUME CountersInv, Up, pc' = pc, Longer, UNCHANGED counters, nextLogId' \in Nat,
           nextLogId <= nextLogId',
           \A w \in Workers : Logged(w) => Logged(w)',
           \A w \in Workers : tx[w]' <= maxTx,
           \A j \in Len(log) + 1 .. Len(log') :
               /\ Typed(log'[j]) /\ Plain(log'[j])
               /\ log'[j].tx <= maxTx
               /\ nextLogId <= log'[j].id /\ log'[j].id < nextLogId'
               /\ \A i \in Len(log) + 1 .. Len(log') : i < j => log'[i].id < log'[j].id
    PROVE  LogOK' /\ CountersAhead'
<1>1. /\ Len(log) \in Nat /\ DOMAIN log = 1 .. Len(log)
      /\ Len(log') \in Nat /\ DOMAIN log' = 1 .. Len(log')
      /\ Len(log) <= Len(log')
  BY SeqFacts DEF CountersInv, LogOK, Longer
<1>2. \A i \in DOMAIN log : log'[i] = log[i] /\ log[i].id < nextLogId /\ log[i].id \in Nat
  BY <1>1 DEF CountersInv, CountersAhead, Longer, LogOK, ItemsTyped
<1>3. nextLogId \in Nat /\ maxTx \in Nat /\ maxTs \in Nat
  BY DEF CountersInv, ControlTyped
<1>4. \A j \in Len(log) + 1 .. Len(log') : log'[j].id \in Nat
  BY DEF Typed
<1>5. \A j \in Len(log) + 1 .. Len(log') :
        \A i \in 1 .. Len(log') : i < j => log'[i].id < log'[j].id
  <2>. SUFFICES ASSUME NEW j \in Len(log) + 1 .. Len(log'), NEW i \in 1 .. Len(log'), i < j
                PROVE  log'[i].id < log'[j].id
    OBVIOUS
  <2>1. CASE i \in DOMAIN log
    BY <1>2, <1>3, <1>4, <2>1
  <2>2. CASE i \notin DOMAIN log
    <3>1. i \in Len(log) + 1 .. Len(log')
      BY <1>1, <2>2
    <3>. QED  BY <3>1
  <2>. QED  BY <2>1, <2>2
<1>6. LogOK'
  <2>1. LogOK
    BY DEF CountersInv
  <2>. QED  BY <2>1, <1>5, LogOKGrows DEF Plain
<1>7. \A i \in DOMAIN log' : i \in DOMAIN log \/ i \in Len(log) + 1 .. Len(log')
  BY <1>1
<1>8. Checkpoints' = Checkpoints /\ CommitItems' = CommitItems
  BY <1>1, <1>2, <1>7 DEF Checkpoints, CommitItems, Plain
<1>9. CountersAhead
  BY DEF CountersInv
<1>10. \A i \in DOMAIN log' : log'[i].id < nextLogId' /\ log'[i].tx <= maxTx'
  <2>. SUFFICES ASSUME NEW i \in DOMAIN log'
                PROVE  log'[i].id < nextLogId' /\ log'[i].tx <= maxTx'
    OBVIOUS
  <2>0. maxTx' = maxTx
    BY DEF counters
  <2>1. CASE i \in Len(log) + 1 .. Len(log')
    BY <2>0, <2>1
  <2>2. CASE i \in DOMAIN log
    <3>1. log[i].tx <= maxTx
      BY <1>9, <2>2 DEF CountersAhead
    <3>. QED  BY <1>2, <1>3, <2>0, <2>2, <3>1
  <2>. QED  BY <1>7, <2>1, <2>2
<1>. QED  BY <1>2, <1>6, <1>8, <1>9, <1>10 DEF CountersAhead, counters, Up, Checkpoints, CommitItems

-------------------------------------------------------------------------------
(* Steps of workers.                                                        *)
InCommit == {"stamp", "link", "index", "commit", "flush", "unlock"}

(* A worker that is not idle runs in a program that is up, without a         *)
(* checkpoint.                                                              *)
LEMMA Running ==
    ASSUME WorkersOK, NEW w \in Workers, wpc[w] # "idle"
    PROVE  Up /\ cpc = "idle"
BY DEF WorkersOK

LEMMA WorkerMoves ==
    ASSUME CountersInv, Up, cpc = "idle", NEW w \in Workers, NEW place \in WorkerPlaces,
           Goto(w, place), UNCHANGED <<pc, cpc>>,
           n' \in [Workers -> Nat], \A v \in Workers : v # w => n'[v] = n[v],
           place \in InCommit => n'[w] > 0,
           place \in {"idle", "run"} => n'[w] = 0,
           n'[w] > 0 => n[w] > 0 \/ \A v \in Workers : ~Committing(v)
    PROVE  WorkersOK' /\ wpc' \in [Workers -> WorkerPlaces]
<1>1. wpc \in [Workers -> WorkerPlaces] /\ n \in [Workers -> Nat]
  BY DEF CountersInv, ControlTyped
<1>2. /\ wpc' \in [Workers -> WorkerPlaces] /\ wpc'[w] = place
      /\ \A v \in Workers : v # w => wpc'[v] = wpc[v]
  BY <1>1 DEF Goto
<1>3. WorkersOK
  BY DEF CountersInv
<1>4. \A v \in Workers :
        /\ wpc'[v] \in InCommit => Committing(v)'
        /\ wpc'[v] \in {"idle", "run"} => ~Committing(v)'
  <2>. SUFFICES ASSUME NEW v \in Workers
                PROVE  /\ wpc'[v] \in InCommit => Committing(v)'
                       /\ wpc'[v] \in {"idle", "run"} => ~Committing(v)'
    OBVIOUS
  <2>1. CASE v = w
    <3>1. n'[v] = 0 => ~(n'[v] > 0)
      OBVIOUS
    <3>. QED  BY <1>2, <2>1, <3>1 DEF Committing
  <2>2. CASE v # w
    BY <1>2, <1>3, <2>2 DEF WorkersOK, Committing, InCommit
  <2>. QED  BY <2>1, <2>2
<1>5. \A u, v \in Workers : Committing(u)' /\ Committing(v)' => u = v
  BY <1>3 DEF WorkersOK, Committing
<1>6. Up' /\ cpc' = "idle"
  BY DEF Up
<1>. QED  BY <1>2, <1>4, <1>5, <1>6 DEF WorkersOK, InCommit

(* Steps that log nothing and end no commit.                                *)
LEMMA QuietStep ==
    ASSUME CountersInv, UNCHANGED <<log, nextLogId, maxTs, pc>>,
           maxTx' \in Nat, maxTx <= maxTx',
           \A w \in Workers : tx'[w] <= maxTx',
           \A w \in Workers : Logged(w) => Logged(w)'
    PROVE  LogOK' /\ CountersAhead' /\ NoAssertionFails'
<1>1. LogOK' /\ NoAssertionFails'
  BY DEF CountersInv, LogOK, ItemsTyped, IdsIncrease, CheckpointsCover, CommitsRise,
         Checkpoints, CommitItems, NoAssertionFails, IsSeq
<1>2. CountersAhead
  BY DEF CountersInv
<1>3. Checkpoints' = Checkpoints /\ CommitItems' = CommitItems
  BY DEF Checkpoints, CommitItems
<1>4. maxTx \in Nat /\ \A i \in DOMAIN log : log[i].tx \in Nat
  BY DEF CountersInv, ControlTyped, LogOK, ItemsTyped
<1>5. \A i \in DOMAIN log : log[i].tx <= maxTx => log[i].tx <= maxTx'
  BY <1>4
<1>. QED  BY <1>1, <1>2, <1>3, <1>5 DEF CountersAhead, Up

LEMMA BeginKeeps ==
    ASSUME CountersInv, NEW w \in Workers, Begin(w)
    PROVE  CountersInv'
<1>1. /\ nextLogId \in Nat /\ maxTx \in Nat /\ maxTs \in Nat /\ durable \in 0 .. Len(log)
      /\ tx \in [Workers -> Nat] /\ n \in [Workers -> Nat] /\ pc \in PcValues
      /\ wpc \in [Workers -> WorkerPlaces]
  BY DEF CountersInv, ControlTyped
<1>2. /\ Up /\ cpc = "idle" /\ wpc[w] = "idle" /\ maxTx' = maxTx + 1
      /\ tx' = [tx EXCEPT ![w] = maxTx + 1] /\ Goto(w, "run")
      /\ UNCHANGED <<log, nextLogId, maxTs, pc, n, cpc, durable>>
  BY DEF Begin, At, logVars
<1>3. maxTx' \in Nat /\ maxTx <= maxTx' /\ tx' \in [Workers -> Nat]
  BY <1>1, <1>2
<1>4. \A v \in Workers : tx[v] <= maxTx
  BY <1>2 DEF CountersInv, CountersAhead
<1>5. \A v \in Workers : tx'[v] <= maxTx'
  BY <1>1, <1>2, <1>3, <1>4
<1>6. \A v \in Workers : Logged(v) => Logged(v)'
  BY <1>1, <1>2 DEF Logged, Goto
<1>7. ~Committing(w) /\ n[w] \in Nat
  BY <1>1, <1>2 DEF CountersInv, WorkersOK
<1>8. n[w] = 0
  BY <1>7 DEF Committing
<1>9. WorkersOK' /\ wpc' \in [Workers -> WorkerPlaces]
  BY <1>1, <1>2, <1>8, WorkerMoves DEF InCommit, WorkerPlaces
<1>10. LogOK' /\ CountersAhead' /\ NoAssertionFails'
  BY <1>2, <1>3, <1>5, <1>6, QuietStep
<1>11. ControlTyped'
  BY <1>1, <1>2, <1>3, <1>9 DEF ControlTyped
<1>. QED  BY <1>9, <1>10, <1>11 DEF CountersInv

(* A worker goes on without a log item, *)
LEMMA QuietMove ==
    ASSUME CountersInv, Up, cpc = "idle", NEW w \in Workers, NEW place \in WorkerPlaces,
           Goto(w, place), UNCHANGED <<log, nextLogId, pc, counters, tx, cpc>>,
           durable' \in 0 .. Len(log),
           n' \in [Workers -> Nat], \A v \in Workers : v # w => n'[v] = n[v],
           place \in InCommit => n'[w] > 0,
           place \in {"idle", "run"} => n'[w] = 0,
           n'[w] > 0 => n[w] > 0 \/ \A v \in Workers : ~Committing(v),
           Logged(w) => place \in {"flush", "unlock"}
    PROVE  CountersInv'
<1>1. ControlTyped
  BY DEF CountersInv
<1>2. WorkersOK' /\ wpc' \in [Workers -> WorkerPlaces]
  BY WorkerMoves
<1>3. \A v \in Workers : Logged(v) => Logged(v)'
  BY <1>1 DEF ControlTyped, Logged, Goto
<1>4. maxTx' \in Nat /\ maxTx <= maxTx' /\ maxTs' = maxTs /\ maxTx' = maxTx
  BY <1>1 DEF ControlTyped, counters
<1>5. \A v \in Workers : tx'[v] <= maxTx'
  BY <1>4 DEF CountersInv, CountersAhead
<1>6. LogOK' /\ CountersAhead' /\ NoAssertionFails'
  BY <1>3, <1>4, <1>5, QuietStep
<1>7. ControlTyped'
  BY <1>1, <1>2, <1>4 DEF ControlTyped
<1>. QED  BY <1>2, <1>6, <1>7 DEF CountersInv

(* or stays where it is, as everybody else does.                            *)
LEMMA QuietRest ==
    ASSUME CountersInv,
           UNCHANGED <<log, nextLogId, pc, counters, tx, wpc, n>>,
           durable' \in 0 .. Len(log),
           cpc' # "idle" => Up /\ \A w \in Workers : wpc[w] = "idle",
           ~Up => cpc' = "idle"
    PROVE  CountersInv'
<1>1. ControlTyped /\ WorkersOK
  BY DEF CountersInv
<1>2. WorkersOK'
  <2>1. \A w \in Workers : Committing(w)' <=> Committing(w)
    BY DEF Committing
  <2>. QED  BY <1>1, <2>1 DEF WorkersOK, Up
<1>3. \A v \in Workers : Logged(v) => Logged(v)'
  BY DEF Logged
<1>4. maxTx' \in Nat /\ maxTx <= maxTx' /\ maxTs' = maxTs /\ maxTx' = maxTx
  BY <1>1 DEF ControlTyped, counters
<1>5. CASE Up
  <2>1. \A v \in Workers : tx'[v] <= maxTx'
    BY <1>4, <1>5 DEF CountersInv, CountersAhead
  <2>2. LogOK' /\ CountersAhead' /\ NoAssertionFails'
    BY <1>3, <1>4, <2>1, QuietStep
  <2>3. ControlTyped'
    BY <1>1, <1>4 DEF ControlTyped
  <2>. QED  BY <1>2, <2>2, <2>3 DEF CountersInv
<1>6. CASE ~Up
  <2>1. LogOK' /\ NoAssertionFails'
    BY DEF CountersInv, LogOK, ItemsTyped, IdsIncrease, CheckpointsCover, CommitsRise,
           Checkpoints, CommitItems, NoAssertionFails, IsSeq
  <2>2. CountersAhead'
    BY <1>6 DEF CountersAhead, Up
  <2>3. ControlTyped'
    BY <1>1, <1>4 DEF ControlTyped
  <2>. QED  BY <1>2, <2>1, <2>2, <2>3 DEF CountersInv
<1>. QED  BY <1>5, <1>6

LEMMA LogFacts ==
    ASSUME CountersInv
    PROVE  /\ Len(log) \in Nat /\ DOMAIN log = 1 .. Len(log)
           /\ durable \in 0 .. Len(log) /\ Len(log) \in 0 .. Len(log)
           /\ nextLogId \in Nat /\ maxTx \in Nat /\ maxTs \in Nat
           /\ tx \in [Workers -> Nat] /\ n \in [Workers -> Nat]
           /\ wpc \in [Workers -> WorkerPlaces]
<1>1. Len(log) \in Nat /\ DOMAIN log = 1 .. Len(log)
  BY SeqFacts DEF CountersInv, LogOK
<1>. QED  BY <1>1 DEF CountersInv, ControlTyped

LEMMA RepairKeeps ==
    ASSUME CountersInv, NEW w \in Workers, NEW h \in Hashes, Repair(w, h)
    PROVE  CountersInv'
<1>1. /\ Up /\ wpc[w] = "run"
      /\ UNCHANGED <<log, nextLogId, pc, counters, tx, wpc, n, durable, cpc>>
  BY DEF Repair, At, logVars, workerVars
<1>2. cpc = "idle"
  BY <1>1, Running DEF CountersInv
<1>. QED  BY <1>1, <1>2, LogFacts, QuietRest

LEMMA WriteBackupKeeps ==
    ASSUME CountersInv, NEW w \in Workers, WriteBackup(w)
    PROVE  CountersInv'
<1>1. /\ wpc[w] = "backup" /\ Goto(w, "header")
      /\ UNCHANGED <<log, nextLogId, pc, counters, tx, n, durable, cpc>>
  BY DEF WriteBackup, At, logVars
<1>2. Up /\ cpc = "idle"
  BY <1>1, Running DEF CountersInv
<1>3. n' \in [Workers -> Nat] /\ durable' \in 0 .. Len(log) /\ \A v \in Workers : n'[v] = n[v]
  BY <1>1, LogFacts
<1>4. "header" \in WorkerPlaces /\ "header" \notin InCommit /\ ~Logged(w)
  BY <1>1 DEF WorkerPlaces, InCommit, Logged
<1>. QED  BY <1>1, <1>2, <1>3, <1>4, QuietMove

LEMMA WriteHeaderKeeps ==
    ASSUME CountersInv, NEW w \in Workers, WriteHeader(w)
    PROVE  CountersInv'
<1>1. /\ wpc[w] = "header"
      /\ Goto(w, IF Committing(w) THEN "index" ELSE "run")
      /\ UNCHANGED <<log, nextLogId, pc, counters, tx, n, durable, cpc>>
  BY DEF WriteHeader, At, logVars
<1>2. Up /\ cpc = "idle"
  BY <1>1, Running DEF CountersInv
<1>3. /\ n' \in [Workers -> Nat] /\ durable' \in 0 .. Len(log)
      /\ \A v \in Workers : n'[v] = n[v] /\ n[v] \in Nat
  BY <1>1, LogFacts
<1>4. ~Logged(w)
  BY <1>1 DEF Logged
<1>5. CASE Committing(w)
  <2>1. Goto(w, "index") /\ "index" \in WorkerPlaces /\ n'[w] > 0
    BY <1>1, <1>3, <1>5 DEF WorkerPlaces, Committing
  <2>. QED  BY <1>1, <1>2, <1>3, <1>4, <1>5, <2>1, QuietMove DEF Committing
<1>6. CASE ~Committing(w)
  <2>1. Goto(w, "run") /\ "run" \in WorkerPlaces /\ "run" \notin InCommit /\ n'[w] = 0
    BY <1>1, <1>3, <1>6 DEF WorkerPlaces, Committing, InCommit
  <2>2. ~(n'[w] > 0)
    BY <2>1
  <2>. QED  BY <1>1, <1>2, <1>3, <1>4, <2>1, <2>2, QuietMove
<1>. QED  BY <1>5, <1>6

LEMMA CommitLockKeeps ==
    ASSUME CountersInv, NEW w \in Workers, CommitLock(w)
    PROVE  CountersInv'
<1>1. /\ wpc[w] = "run" /\ n' = [n EXCEPT ![w] = 1]
      /\ \A v \in Workers : ~Committing(v)
      /\ UNCHANGED <<log, nextLogId, pc, counters, tx, durable, cpc>>
  BY DEF CommitLock, At, logVars
<1>2. PICK place \in {"commit", "stamp"} : Goto(w, place)
  BY DEF CommitLock
<1>3. Up /\ cpc = "idle"
  BY <1>1, Running DEF CountersInv
<1>4. /\ n' \in [Workers -> Nat] /\ durable' \in 0 .. Len(log) /\ n'[w] > 0 /\ n'[w] # 0
      /\ \A v \in Workers : v # w => n'[v] = n[v]
  BY <1>1, LogFacts
<1>5. place \in WorkerPlaces /\ place \notin {"idle", "run"} /\ ~Logged(w)
  BY <1>1 DEF WorkerPlaces, Logged
<1>. QED  BY <1>1, <1>2, <1>3, <1>4, <1>5, QuietMove

LEMMA NewIndexPageKeeps ==
    ASSUME CountersInv, NEW w \in Workers, NewIndexPage(w)
    PROVE  CountersInv'
<1>1. /\ wpc[w] = "index" /\ Goto(w, "backup")
      /\ UNCHANGED <<log, nextLogId, pc, counters, tx, n, durable, cpc>>
  BY DEF NewIndexPage, At, logVars
<1>2. Up /\ cpc = "idle"
  BY <1>1, Running DEF CountersInv
<1>3. n' \in [Workers -> Nat] /\ durable' \in 0 .. Len(log) /\ \A v \in Workers : n'[v] = n[v]
  BY <1>1, LogFacts
<1>4. "backup" \in WorkerPlaces /\ "backup" \notin InCommit /\ ~Logged(w)
  BY <1>1 DEF WorkerPlaces, InCommit, Logged
<1>. QED  BY <1>1, <1>2, <1>3, <1>4, QuietMove

LEMMA FlushCommitKeeps ==
    ASSUME CountersInv, NEW w \in Workers, FlushCommit(w)
    PROVE  CountersInv'
<1>1. /\ wpc[w] = "flush" /\ Goto(w, "unlock") /\ durable' = Len(log)
      /\ UNCHANGED <<log, nextLogId, pc, counters, tx, n, cpc>>
  BY DEF FlushCommit, FlushLogs, Log!Flush, At
<1>2. Up /\ cpc = "idle" /\ Committing(w)
  BY <1>1, Running DEF CountersInv, WorkersOK
<1>3. /\ n' \in [Workers -> Nat] /\ durable' \in 0 .. Len(log) /\ n'[w] > 0
      /\ \A v \in Workers : n'[v] = n[v]
  BY <1>1, <1>2, LogFacts DEF Committing
<1>4. "unlock" \in WorkerPlaces /\ "unlock" \notin {"idle", "run"}
  BY DEF WorkerPlaces
<1>. QED  BY <1>1, <1>2, <1>3, <1>4, QuietMove DEF Committing

-------------------------------------------------------------------------------
(* What is new in the log: plain items of transaction t with the next IDs.   *)
NewPlainItems(t) ==
    /\ Longer /\ nextLogId' \in Nat /\ nextLogId <= nextLogId'
    /\ durable' = durable
    /\ \A j \in Len(log) + 1 .. Len(log') :
        /\ Typed(log'[j]) /\ Plain(log'[j])
        /\ log'[j].tx = t
        /\ nextLogId <= log'[j].id /\ log'[j].id < nextLogId'
        /\ \A i \in Len(log) + 1 .. Len(log') : i < j => log'[i].id < log'[j].id

LEMMA OneItem ==
    ASSUME CountersInv, NEW x, AddLog(x), Typed(x), Plain(x), x.id = nextLogId
    PROVE  NewPlainItems(x.tx)
<1>1. log' = Append(log, x) /\ durable' = durable /\ nextLogId' = nextLogId + 1
  BY DEF AddLog, Log!Add
<1>2. /\ IsSeq(log') /\ Len(log') = Len(log) + 1
      /\ \A i \in DOMAIN log : log'[i] = log[i]
      /\ log'[Len(log) + 1] = x
  BY <1>1, AppendFacts DEF CountersInv, LogOK
<1>3. Len(log) \in Nat /\ DOMAIN log = 1 .. Len(log) /\ nextLogId \in Nat
  BY LogFacts
<1>4. Longer
  BY <1>2, <1>3 DEF Longer
<1>5. \A j \in Len(log) + 1 .. Len(log') : j = Len(log) + 1
  BY <1>2, <1>3
<1>. QED  BY <1>1, <1>2, <1>3, <1>4, <1>5 DEF NewPlainItems

LEMMA TwoItems ==
    ASSUME CountersInv, NEW x, NEW y,
           log' = log \o <<x, y>>, durable' = durable, nextLogId' = nextLogId + 2,
           Typed(x), Plain(x), x.id = nextLogId,
           Typed(y), Plain(y), y.id = nextLogId + 1, y.tx = x.tx
    PROVE  NewPlainItems(x.tx)
<1>1. /\ IsSeq(log') /\ Len(log') = Len(log) + 2
      /\ \A i \in DOMAIN log : log'[i] = log[i]
      /\ log'[Len(log) + 1] = x /\ log'[Len(log) + 2] = y
  BY TwoMoreFacts DEF CountersInv, LogOK
<1>2. Len(log) \in Nat /\ DOMAIN log = 1 .. Len(log) /\ nextLogId \in Nat
  BY LogFacts
<1>3. Longer
  <2>1. Len(log) <= Len(log')
    BY <1>1, <1>2
  <2>. QED  BY <1>1, <1>2, <2>1 DEF Longer
<1>4. \A j \in Len(log) + 1 .. Len(log') : j = Len(log) + 1 \/ j = Len(log) + 2
  BY <1>1, <1>2
<1>5. \A j \in Len(log) + 1 .. Len(log') :
        /\ Typed(log'[j]) /\ Plain(log'[j]) /\ log'[j].tx = x.tx
        /\ nextLogId <= log'[j].id /\ log'[j].id < nextLogId'
  BY <1>1, <1>2, <1>4
<1>6. \A i, j \in Len(log) + 1 .. Len(log') : i < j => log'[i].id < log'[j].id
  <2>. SUFFICES ASSUME NEW i \in Len(log) + 1 .. Len(log'), NEW j \in Len(log) + 1 .. Len(log'),
                       i < j
                PROVE  log'[i].id < log'[j].id
    OBVIOUS
  <2>1. i = Len(log) + 1 /\ j = Len(log) + 2
    BY <1>2, <1>4
  <2>. QED  BY <1>1, <1>2, <2>1
<1>. QED  BY <1>2, <1>3, <1>5, <1>6 DEF NewPlainItems

LEMMA TakeItems ==
    ASSUME CountersInv, NEW w \in Workers, NEW slotType, NEW type, NEW p, NEW page, NEW s, NEW x,
           slotType \in LogTypes \ {"COMMIT_LOG", "CHECKPOINT_LOG"},
           type \in LogTypes \ {"COMMIT_LOG", "CHECKPOINT_LOG"},
           Take(w, slotType, type, p, page, s, x)
    PROVE  NewPlainItems(tx[w])
<1>. DEFINE taken == page[Bitmap] \cup {s}
            a == Item(slotType, tx[w], p, Bitmap, taken)
            b == [Item(type, tx[w], p, s, x) EXCEPT !.id = @ + 1]
<1>1. log' = log \o <<a, b>> /\ durable' = durable /\ nextLogId' = nextLogId + 2
  BY DEF Take
<1>2. nextLogId \in Nat /\ tx[w] \in Nat
  BY LogFacts
<1>3. /\ a.type = slotType /\ a.tx = tx[w] /\ a.id = nextLogId
      /\ a.maxTx = 0 /\ a.maxTs = 0
  BY DEF Item
<1>4. /\ b.type = type /\ b.tx = tx[w] /\ b.id = nextLogId + 1
      /\ b.maxTx = 0 /\ b.maxTs = 0
  BY DEF Item
<1>. HIDE DEF a, b
<1>5. Typed(a) /\ Typed(b) /\ Plain(a) /\ Plain(b)
  BY <1>2, <1>3, <1>4 DEF Typed, Plain
<1>. QED  BY <1>1, <1>3, <1>4, <1>5, TwoItems

LEMMA PlainMove ==
    ASSUME CountersInv, Up, cpc = "idle", NEW w \in Workers, NEW place \in WorkerPlaces,
           Goto(w, place), NewPlainItems(tx[w]), ~Logged(w),
           UNCHANGED <<pc, counters, cpc>>,
           tx' \in [Workers -> Nat], \A v \in Workers : tx'[v] <= maxTx,
           n' \in [Workers -> Nat], \A v \in Workers : v # w => n'[v] = n[v],
           place \in InCommit => n'[w] > 0,
           place \in {"idle", "run"} => n'[w] = 0,
           n'[w] > 0 => n[w] > 0
    PROVE  CountersInv'
<1>1. ControlTyped
  BY DEF CountersInv
<1>2. WorkersOK' /\ wpc' \in [Workers -> WorkerPlaces]
  BY WorkerMoves
<1>3. \A v \in Workers : Logged(v) => Logged(v)'
  BY <1>1 DEF ControlTyped, Logged, Goto
<1>4. tx[w] <= maxTx
  BY DEF CountersInv, CountersAhead
<1>5. LogOK' /\ CountersAhead'
  BY <1>3, <1>4, PlainItems DEF NewPlainItems
<1>6. NoAssertionFails'
  BY DEF CountersInv, NoAssertionFails
<1>7. durable' \in 0 .. Len(log') /\ nextLogId' \in Nat
  <2>1. Len(log') \in Nat /\ Len(log) <= Len(log')
    BY SeqFacts DEF NewPlainItems, Longer
  <2>. QED  BY <2>1, LogFacts DEF NewPlainItems
<1>8. ControlTyped'
  BY <1>1, <1>2, <1>7 DEF ControlTyped, counters
<1>. QED  BY <1>2, <1>5, <1>6, <1>8 DEF CountersInv

LEMMA WriteKeeps ==
    ASSUME CountersInv, NEW w \in Workers, NEW k \in Keys, Write(w, k)
    PROVE  CountersInv'
<1>1. /\ Up /\ wpc[w] = "run" /\ UNCHANGED <<pc, counters, tx, n, cpc>>
  BY DEF Write, At
<1>2. cpc = "idle"
  BY <1>1, Running DEF CountersInv
<1>3. NewPlainItems(tx[w])
  <2>1. PICK p, page, s, x :
            Take(w, "DATA_SLOT_LOG", "DATA_RECORD_INSERT_LOG", p, page, s, x)
    BY DEF Write
  <2>. QED  BY <2>1, TakeItems DEF LogTypes
<1>4. PICK place \in {"run", "backup"} : Goto(w, place)
  <2>1. wpc' = wpc \/ Goto(w, "backup")
    BY DEF Write
  <2>2. wpc' = wpc => Goto(w, "run")
    BY <1>1, LogFacts DEF Goto
  <2>. QED  BY <2>1, <2>2
<1>5. ~Committing(w) /\ n[w] \in Nat /\ n[w] = 0
  BY <1>1, LogFacts DEF CountersInv, WorkersOK, Committing
<1>6. /\ tx' \in [Workers -> Nat] /\ n' \in [Workers -> Nat]
      /\ \A v \in Workers : tx'[v] <= maxTx /\ n'[v] = n[v]
  BY <1>1, LogFacts DEF CountersInv, CountersAhead
<1>7. place \in WorkerPlaces /\ place \notin InCommit /\ ~Logged(w)
  BY <1>1 DEF WorkerPlaces, InCommit, Logged
<1>. QED  BY <1>1, <1>2, <1>3, <1>4, <1>5, <1>6, <1>7, PlainMove

LEMMA ChangeItem ==
    ASSUME CountersInv, NEW w \in Workers, NEW type, NEW p, NEW o, NEW x,
           type \in LogTypes \ {"COMMIT_LOG", "CHECKPOINT_LOG"},
           Change(w, type, p, o, x)
    PROVE  NewPlainItems(tx[w])
<1>. DEFINE a == Item(type, tx[w], p, o, x)
<1>1. AddLog(a)
  BY DEF Change
<1>2. nextLogId \in Nat /\ tx[w] \in Nat
  BY LogFacts
<1>3. /\ a.type = type /\ a.tx = tx[w] /\ a.id = nextLogId
      /\ a.maxTx = 0 /\ a.maxTs = 0
  BY DEF Item
<1>. HIDE DEF a
<1>4. Typed(a) /\ Plain(a)
  BY <1>2, <1>3 DEF Typed, Plain
<1>. QED  BY <1>1, <1>3, <1>4, OneItem

(* What a step of a committing worker leaves.                               *)
LEMMA CommittingMove ==
    ASSUME CountersInv, NEW w \in Workers, wpc[w] \in {"stamp", "link", "index"},
           NEW place \in {"stamp", "link", "index", "commit"},
           Goto(w, place), NewPlainItems(tx[w]),
           n' = n \/ n' = [n EXCEPT ![w] = @ + 1],
           UNCHANGED <<pc, counters, tx, cpc>>
    PROVE  CountersInv'
<1>1. Up /\ cpc = "idle" /\ Committing(w)
  BY Running DEF CountersInv, WorkersOK
<1>2. /\ tx' \in [Workers -> Nat] /\ \A v \in Workers : tx'[v] <= maxTx
  BY <1>1, LogFacts DEF CountersInv, CountersAhead
<1>3. /\ n' \in [Workers -> Nat] /\ n'[w] > 0 /\ n'[w] # 0
      /\ \A v \in Workers : v # w => n'[v] = n[v]
  BY <1>1, LogFacts DEF Committing
<1>4. place \in WorkerPlaces /\ place \notin {"idle", "run"} /\ ~Logged(w)
  BY DEF WorkerPlaces, Logged
<1>. QED  BY <1>1, <1>2, <1>3, <1>4, PlainMove DEF Committing

LEMMA StampKeeps ==
    ASSUME CountersInv, NEW w \in Workers, Stamp(w)
    PROVE  CountersInv'
<1>1. wpc[w] = "stamp" /\ UNCHANGED <<pc, counters, tx, n, cpc>>
  BY DEF Stamp, At
<1>2. NewPlainItems(tx[w])
  <2>1. PICK p, o, x : Change(w, "DATA_RECORD_UPDATE_LOG", p, o, x)
    BY DEF Stamp
  <2>. QED  BY <2>1, ChangeItem DEF LogTypes
<1>3. PICK place \in {"index", "link"} : Goto(w, place)
  BY DEF Stamp
<1>. QED  BY <1>1, <1>2, <1>3, CommittingMove

LEMMA NextItemMove ==
    ASSUME NEW w \in Workers, NextItem(w)
    PROVE  /\ n' = [n EXCEPT ![w] = @ + 1]
           /\ \E place \in {"stamp", "commit"} : Goto(w, place)
BY DEF NextItem

LEMMA LinkKeeps ==
    ASSUME CountersInv, NEW w \in Workers, Link(w)
    PROVE  CountersInv'
<1>1. wpc[w] = "link" /\ NextItem(w) /\ UNCHANGED <<pc, counters, tx, cpc>>
  BY DEF Link, At
<1>2. NewPlainItems(tx[w])
  <2>1. PICK p, o, x : Change(w, "INDEX_ITEM_UPDATE_LOG", p, o, x)
    BY DEF Link
  <2>. QED  BY <2>1, ChangeItem DEF LogTypes
<1>. QED  BY <1>1, <1>2, NextItemMove, CommittingMove

LEMMA PutIndexItemKeeps ==
    ASSUME CountersInv, NEW w \in Workers, PutIndexItem(w)
    PROVE  CountersInv'
<1>1. wpc[w] = "index" /\ NextItem(w) /\ UNCHANGED <<pc, counters, tx, cpc>>
  BY DEF PutIndexItem, At
<1>2. NewPlainItems(tx[w])
  <2>1. PICK p, page, s, x : Take(w, "INDEX_SLOT_LOG", "INDEX_ITEM_INSERT_LOG", p, page, s, x)
    BY DEF PutIndexItem
  <2>. QED  BY <2>1, TakeItems DEF LogTypes
<1>. QED  BY <1>1, <1>2, NextItemMove, CommittingMove

LEMMA AbortKeeps ==
    ASSUME CountersInv, NEW w \in Workers, Abort(w)
    PROVE  CountersInv'
<1>. DEFINE a == MarkItem("ABORT_LOG", tx[w])
<1>1. /\ wpc[w] = "run" /\ Goto(w, "idle") /\ AddLog(a)
      /\ tx' = [tx EXCEPT ![w] = 0] /\ UNCHANGED <<pc, counters, n, cpc>>
  BY DEF Abort, At
<1>2. Up /\ cpc = "idle" /\ ~Committing(w)
  BY <1>1, Running DEF CountersInv, WorkersOK
<1>3. nextLogId \in Nat /\ tx[w] \in Nat
  BY LogFacts
<1>4. NewPlainItems(tx[w])
  <2>1. /\ a.type = "ABORT_LOG" /\ a.tx = tx[w] /\ a.id = nextLogId
        /\ a.maxTx = 0 /\ a.maxTs = 0
    BY DEF MarkItem, Item
  <2>. HIDE DEF a
  <2>2. Typed(a) /\ Plain(a)
    BY <1>3, <2>1 DEF Typed, Plain
  <2>. QED  BY <1>1, <2>1, <2>2, OneItem
<1>5. tx' \in [Workers -> Nat] /\ \A v \in Workers : tx'[v] <= maxTx
  <2>1. \A v \in Workers : tx[v] <= maxTx
    BY <1>2 DEF CountersInv, CountersAhead
  <2>. QED  BY <1>1, <2>1, LogFacts
<1>6. n' \in [Workers -> Nat] /\ n'[w] = 0 /\ \A v \in Workers : n'[v] = n[v]
  BY <1>1, <1>2, LogFacts DEF Committing
<1>7. "idle" \in WorkerPlaces /\ "idle" \notin InCommit /\ ~Logged(w) /\ ~(n'[w] > 0)
  BY <1>1, <1>6 DEF WorkerPlaces, InCommit, Logged
<1>. QED  BY <1>1, <1>2, <1>4, <1>5, <1>6, <1>7, PlainMove

-------------------------------------------------------------------------------
(* The items that tell counters, and the counters.                          *)

(* Nobody else has its commit logged while w has not.                        *)
LEMMA NobodyLogged ==
    ASSUME CountersInv, Up, NEW w \in Workers, Committing(w), ~Logged(w)
    PROVE  \A i \in CommitItems : log[i].maxTs <= maxTs
<1>1. \A v \in Workers : ~Logged(v)
  BY DEF CountersInv, WorkersOK, Logged
<1>. QED  BY <1>1 DEF CountersInv, CountersAhead

LEMMA AppendedItem ==
    ASSUME CountersInv, NEW x, AddLog(x)
    PROVE  /\ Longer /\ Len(log') = Len(log) + 1 /\ log'[Len(log) + 1] = x
           /\ durable' = durable /\ nextLogId' = nextLogId + 1
           /\ DOMAIN log' = 1 .. Len(log) + 1
           /\ Len(log) + 1 .. Len(log') = {Len(log) + 1}
<1>1. log' = Append(log, x) /\ durable' = durable /\ nextLogId' = nextLogId + 1
  BY DEF AddLog, Log!Add
<1>2. /\ IsSeq(log') /\ Len(log') = Len(log) + 1
      /\ \A i \in DOMAIN log : log'[i] = log[i]
      /\ log'[Len(log) + 1] = x
  BY <1>1, AppendFacts DEF CountersInv, LogOK
<1>3. Len(log) \in Nat /\ DOMAIN log = 1 .. Len(log)
  BY LogFacts
<1>4. DOMAIN log' = 1 .. Len(log) + 1
  BY <1>2, SeqFacts
<1>5. Len(log) + 1 .. Len(log') = {Len(log) + 1}
  BY <1>2, <1>3
<1>6. Len(log) <= Len(log')
  BY <1>2, <1>3
<1>. QED  BY <1>1, <1>2, <1>3, <1>4, <1>5, <1>6 DEF Longer

LEMMA AddCommitKeeps ==
    ASSUME CountersInv, NEW w \in Workers, AddCommit(w)
    PROVE  CountersInv'
<1>. DEFINE a == [MarkItem("COMMIT_LOG", tx[w]) EXCEPT !.maxTs = maxTs + 1]
            last == Len(log) + 1
<1>1. /\ wpc[w] = "commit" /\ AddLog(a) /\ UNCHANGED <<pc, counters, tx, n, cpc>>
  BY DEF AddCommit, At
<1>2. PICK place \in {"unlock", "flush"} : Goto(w, place)
  BY DEF AddCommit
<1>3. /\ Up /\ cpc = "idle" /\ Committing(w) /\ ~Logged(w)
  BY <1>1, Running DEF CountersInv, WorkersOK, Logged
<1>4. /\ Len(log) \in Nat /\ DOMAIN log = 1 .. Len(log) /\ durable \in 0 .. Len(log)
      /\ nextLogId \in Nat /\ maxTx \in Nat /\ maxTs \in Nat /\ tx[w] \in Nat
      /\ wpc \in [Workers -> WorkerPlaces]
  BY LogFacts
<1>5. a.type = "COMMIT_LOG" /\ a.tx = tx[w] /\ a.id = nextLogId /\ a.maxTx = 0 /\ a.maxTs = maxTs + 1
  BY DEF MarkItem, Item
<1>. HIDE DEF a
<1>6. /\ Longer /\ Len(log') = last /\ log'[last] = a
      /\ durable' = durable /\ nextLogId' = nextLogId + 1
      /\ DOMAIN log' = 1 .. last /\ Len(log) + 1 .. Len(log') = {last}
  BY <1>1, AppendedItem
<1>7. \A i \in 1 .. last : i < last => i \in DOMAIN log /\ log'[i] = log[i]
  BY <1>4, <1>6 DEF Longer
<1>8. \A i \in DOMAIN log : log[i].id < nextLogId /\ log[i].tx <= maxTx
  BY <1>3 DEF CountersInv, CountersAhead
<1>9. \A i \in CommitItems \cup Checkpoints : log[i].maxTs <= maxTs /\ log[i].maxTs \in Nat
  <2>1. \A i \in CommitItems : log[i].maxTs <= maxTs
    BY <1>3, NobodyLogged
  <2>2. \A i \in Checkpoints : log[i].maxTs <= maxTs
    BY <1>3 DEF CountersInv, CountersAhead
  <2>. QED  BY <2>1, <2>2 DEF CountersInv, LogOK, ItemsTyped, CommitItems, Checkpoints
<1>10. \A i \in (CommitItems \cup Checkpoints)' :
          i < last => i \in CommitItems \cup Checkpoints /\ log'[i] = log[i]
  BY <1>6, <1>7 DEF CommitItems, Checkpoints
<1>11. LogOK'
  <2>1. Typed(a)
    BY <1>4, <1>5 DEF Typed
  <2>2. \A i \in 1 .. Len(log') : i < last => log'[i].id < a.id
    BY <1>5, <1>6, <1>7, <1>8
  <2>3. a.maxTs > 0
    BY <1>4, <1>5
  <2>4. \A i \in (CommitItems \cup Checkpoints)' : i < last => log'[i].maxTs < a.maxTs
    BY <1>4, <1>5, <1>9, <1>10
  <2>5. LogOK
    BY DEF CountersInv
  <2>. QED  BY <1>5, <1>6, <2>1, <2>2, <2>3, <2>4, <2>5, LogOKGrows
<1>12. WorkersOK' /\ wpc' \in [Workers -> WorkerPlaces]
  <2>1. n' \in [Workers -> Nat] /\ n'[w] > 0 /\ n'[w] # 0 /\ \A v \in Workers : n'[v] = n[v]
    BY <1>1, <1>3, LogFacts DEF Committing
  <2>2. place \in WorkerPlaces /\ place \notin {"idle", "run"}
    BY DEF WorkerPlaces
  <2>. QED  BY <1>1, <1>2, <1>3, <2>1, <2>2, WorkerMoves DEF Committing
<1>13. CountersAhead'
  <2>1. Logged(w)'
    BY <1>2, <1>4 DEF Logged, Goto
  <2>2. \A v \in Workers : tx[v] <= maxTx
    BY <1>3 DEF CountersInv, CountersAhead
  <2>3. \A i \in 1 .. last : i < last \/ i = last
    BY <1>4
  <2>4. \A i \in DOMAIN log' : log'[i].id < nextLogId' /\ log'[i].tx <= maxTx'
    <3>. SUFFICES ASSUME NEW i \in 1 .. last
                  PROVE  log'[i].id < nextLogId' /\ log'[i].tx <= maxTx'
      BY <1>6
    <3>0. maxTx' = maxTx
      BY <1>1 DEF counters
    <3>1. CASE i = last
      BY <1>4, <1>5, <1>6, <2>2, <3>0, <3>1
    <3>2. CASE i < last
      <4>1. log'[i].id < nextLogId /\ log'[i].tx <= maxTx /\ log[i].id \in Nat
        BY <1>7, <1>8, <3>2 DEF CountersInv, LogOK, ItemsTyped
      <4>. QED  BY <1>4, <1>6, <1>7, <3>0, <3>2, <4>1
    <3>. QED  BY <2>3, <3>1, <3>2
  <2>5. \A i \in Checkpoints' : log'[i].maxTs <= maxTs'
    <3>. SUFFICES ASSUME NEW i \in Checkpoints' PROVE log'[i].maxTs <= maxTs'
      OBVIOUS
    <3>1. i # last /\ i \in 1 .. last
      BY <1>5, <1>6 DEF Checkpoints
    <3>2. i < last
      BY <2>3, <3>1
    <3>. QED  BY <1>1, <1>9, <1>10, <3>2 DEF counters
  <2>6. \A i \in CommitItems' : log'[i].maxTs <= maxTs' + 1
    <3>. SUFFICES ASSUME NEW i \in CommitItems' PROVE log'[i].maxTs <= maxTs' + 1
      OBVIOUS
    <3>0. maxTs' = maxTs
      BY <1>1 DEF counters
    <3>1. CASE i = last
      BY <1>4, <1>5, <1>6, <3>0, <3>1
    <3>2. CASE i < last
      BY <1>4, <1>9, <1>10, <3>0, <3>2
    <3>. QED  BY <1>6, <2>3, <3>1, <3>2 DEF CommitItems
  <2>. QED  BY <1>1, <2>1, <2>2, <2>4, <2>5, <2>6 DEF CountersAhead, counters
<1>14. ControlTyped'
  <2>1. durable' \in 0 .. Len(log') /\ nextLogId' \in Nat
    BY <1>4, <1>6
  <2>. QED  BY <1>1, <1>12, <2>1 DEF CountersInv, ControlTyped, counters
<1>15. NoAssertionFails'
  BY <1>1 DEF CountersInv, NoAssertionFails
<1>. QED  BY <1>11, <1>12, <1>13, <1>14, <1>15 DEF CountersInv

LEMMA UnlockKeeps ==
    ASSUME CountersInv, NEW w \in Workers, Unlock(w)
    PROVE  CountersInv'
<1>1. /\ wpc[w] = "unlock" /\ maxTs' = maxTs + 1 /\ n' = [n EXCEPT ![w] = 0]
      /\ Goto(w, "idle") /\ tx' = [tx EXCEPT ![w] = 0]
      /\ UNCHANGED <<log, durable, nextLogId, pc, maxTx, cpc>>
  BY DEF Unlock, At, logVars
<1>2. Up /\ cpc = "idle"
  BY <1>1, Running DEF CountersInv
<1>3. /\ nextLogId \in Nat /\ maxTx \in Nat /\ maxTs \in Nat /\ durable \in 0 .. Len(log)
      /\ tx \in [Workers -> Nat] /\ n \in [Workers -> Nat]
  BY LogFacts
<1>4. WorkersOK' /\ wpc' \in [Workers -> WorkerPlaces]
  <2>1. n' \in [Workers -> Nat] /\ n'[w] = 0 /\ ~(n'[w] > 0)
        /\ \A v \in Workers : v # w => n'[v] = n[v]
    BY <1>1, <1>3
  <2>2. "idle" \in WorkerPlaces /\ "idle" \notin InCommit
    BY DEF WorkerPlaces, InCommit
  <2>. QED  BY <1>1, <1>2, <2>1, <2>2, WorkerMoves
<1>5. LogOK' /\ NoAssertionFails'
  BY <1>1 DEF CountersInv, LogOK, ItemsTyped, IdsIncrease, CheckpointsCover, CommitsRise,
         Checkpoints, CommitItems, NoAssertionFails, IsSeq
<1>6. CountersAhead'
  <2>1. CountersAhead /\ Checkpoints' = Checkpoints /\ CommitItems' = CommitItems
    BY <1>1 DEF CountersInv, Checkpoints, CommitItems
  <2>2. \A v \in Workers : tx'[v] <= maxTx'
    BY <1>1, <1>2, <1>3, <2>1 DEF CountersAhead
  <2>3. \A i \in CommitItems \cup Checkpoints : log[i].maxTs \in Nat
    BY DEF CountersInv, LogOK, ItemsTyped, CommitItems, Checkpoints
  <2>4. \A i \in Checkpoints : log[i].maxTs <= maxTs + 1
    BY <1>2, <1>3, <2>1, <2>3 DEF CountersAhead
  <2>5. \A i \in CommitItems : log[i].maxTs <= maxTs + 1 /\ log[i].maxTs <= maxTs + 1 + 1
    BY <1>2, <1>3, <2>1, <2>3 DEF CountersAhead
  <2>. QED  BY <1>1, <1>2, <2>1, <2>2, <2>4, <2>5 DEF CountersAhead
<1>7. ControlTyped'
  BY <1>1, <1>3, <1>4 DEF CountersInv, ControlTyped
<1>. QED  BY <1>4, <1>5, <1>6, <1>7 DEF CountersInv

LEMMA CleanPoolKeeps == CountersInv /\ CleanPool => CountersInv'
<1>. SUFFICES ASSUME CountersInv, CleanPool PROVE CountersInv'
  OBVIOUS
<1>1. /\ Up /\ cpc = "idle" /\ durable' = Len(log)
      /\ UNCHANGED <<log, nextLogId, pc, counters, tx, wpc, n, cpc>>
  BY DEF CleanPool, FlushLogs, Log!Flush, workerVars
<1>. QED  BY <1>1, LogFacts, QuietRest

LEMMA CheckpointBeginKeeps == CountersInv /\ CheckpointBegin => CountersInv'
<1>. SUFFICES ASSUME CountersInv, CheckpointBegin PROVE CountersInv'
  OBVIOUS
<1>1. /\ Up /\ \A w \in Workers : wpc[w] = "idle"
      /\ UNCHANGED <<log, durable, nextLogId, pc, counters, tx, wpc, n>>
  BY DEF CheckpointBegin, At, logVars, workerVars
<1>. QED  BY <1>1, LogFacts, QuietRest

LEMMA CheckpointPagesKeeps == CountersInv /\ CheckpointPages => CountersInv'
<1>. SUFFICES ASSUME CountersInv, CheckpointPages PROVE CountersInv'
  OBVIOUS
<1>1. /\ cpc = "flush pages"
      /\ UNCHANGED <<log, durable, nextLogId, pc, counters, tx, wpc, n>>
  BY DEF CheckpointPages, logVars, workerVars
<1>2. Up /\ \A w \in Workers : wpc[w] = "idle"
  BY <1>1 DEF CountersInv, WorkersOK
<1>. QED  BY <1>1, <1>2, LogFacts, QuietRest

LEMMA CheckpointFlushKeeps == CountersInv /\ CheckpointFlush => CountersInv'
<1>. SUFFICES ASSUME CountersInv, CheckpointFlush PROVE CountersInv'
  OBVIOUS
<1>1. /\ cpc' = "idle" /\ durable' = Len(log)
      /\ UNCHANGED <<log, nextLogId, pc, counters, tx, wpc, n>>
  BY DEF CheckpointFlush, FlushLogs, Log!Flush, workerVars
<1>. QED  BY <1>1, LogFacts, QuietRest

LEMMA CheckpointLogKeeps == CountersInv /\ CheckpointLog => CountersInv'
<1>. SUFFICES ASSUME CountersInv, CheckpointLog PROVE CountersInv'
  OBVIOUS
<1>. DEFINE last == Len(log) + 1
            a == CheckpointItem
<1>1. /\ cpc = "log" /\ cpc' = "flush log" /\ AddLog(a)
      /\ UNCHANGED <<pc, counters, tx, wpc, n>>
  BY DEF CheckpointLog, workerVars
<1>2. Up /\ \A w \in Workers : wpc[w] = "idle" /\ ~Logged(w)
  BY <1>1 DEF CountersInv, WorkersOK, Logged
<1>3. /\ Len(log) \in Nat /\ DOMAIN log = 1 .. Len(log) /\ durable \in 0 .. Len(log)
      /\ nextLogId \in Nat /\ maxTx \in Nat /\ maxTs \in Nat
  BY LogFacts
<1>4. a.type = "CHECKPOINT_LOG" /\ a.tx = 0 /\ a.id = nextLogId /\ a.maxTx = maxTx /\ a.maxTs = maxTs
  BY DEF CheckpointItem, MarkItem, Item
<1>. HIDE DEF a
<1>5. /\ Longer /\ Len(log') = last /\ log'[last] = a
      /\ durable' = durable /\ nextLogId' = nextLogId + 1
      /\ DOMAIN log' = 1 .. last /\ Len(log) + 1 .. Len(log') = {last}
  BY <1>1, AppendedItem
<1>6. \A i \in 1 .. last : i < last => i \in DOMAIN log /\ log'[i] = log[i]
  BY <1>3, <1>5 DEF Longer
<1>7. /\ \A i \in DOMAIN log : log[i].id < nextLogId /\ log[i].tx <= maxTx
      /\ \A i \in CommitItems \cup Checkpoints : log[i].maxTs <= maxTs
  BY <1>2 DEF CountersInv, CountersAhead
<1>8. \A i \in DOMAIN log : log[i].id \in Nat /\ log[i].maxTs \in Nat
  BY DEF CountersInv, LogOK, ItemsTyped
<1>9. \A i \in (CommitItems \cup Checkpoints)' :
          i < last => i \in CommitItems \cup Checkpoints /\ log'[i] = log[i]
  BY <1>5, <1>6 DEF CommitItems, Checkpoints
<1>10. LogOK'
  <2>1. Typed(a)
    BY <1>3, <1>4 DEF Typed
  <2>2. /\ \A i \in 1 .. Len(log') : i < last => log'[i].id < a.id
        /\ \A i \in 1 .. Len(log') : i < last => log'[i].tx <= a.maxTx
    BY <1>4, <1>5, <1>6, <1>7
  <2>5. a.tx <= a.maxTx
    BY <1>3, <1>4
  <2>6. \A i \in 1 .. Len(log') : i <= last => log'[i].tx <= a.maxTx
    <3>1. \A i \in 1 .. Len(log') : i <= last => i < last \/ i = last
      BY <1>3, <1>5
    <3>. QED  BY <1>5, <2>2, <2>5, <3>1
  <2>3. \A i \in (CommitItems \cup Checkpoints)' : i < last => log'[i].maxTs <= a.maxTs
    BY <1>4, <1>7, <1>9
  <2>4. LogOK
    BY DEF CountersInv
  <2>. QED  BY <1>4, <1>5, <2>1, <2>2, <2>3, <2>4, <2>6, LogOKGrows
<1>11. CountersAhead'
  <2>1. \A i \in 1 .. last : i < last \/ i = last
    BY <1>3
  <2>2. maxTx' = maxTx /\ maxTs' = maxTs
    BY <1>1 DEF counters
  <2>3. \A i \in DOMAIN log' : log'[i].id < nextLogId' /\ log'[i].tx <= maxTx'
    <3>. SUFFICES ASSUME NEW i \in 1 .. last
                  PROVE  log'[i].id < nextLogId' /\ log'[i].tx <= maxTx'
      BY <1>5
    <3>1. CASE i = last
      BY <1>3, <1>4, <1>5, <2>2, <3>1
    <3>2. CASE i < last
      BY <1>3, <1>5, <1>6, <1>7, <1>8, <2>2, <3>2
    <3>. QED  BY <2>1, <3>1, <3>2
  <2>4. \A i \in (CommitItems \cup Checkpoints)' : log'[i].maxTs <= maxTs'
    <3>. SUFFICES ASSUME NEW i \in (CommitItems \cup Checkpoints)' PROVE log'[i].maxTs <= maxTs'
      OBVIOUS
    <3>1. i \in 1 .. last
      BY <1>5 DEF CommitItems, Checkpoints
    <3>2. CASE i = last
      BY <1>3, <1>4, <1>5, <2>2, <3>2
    <3>3. CASE i < last
      BY <1>7, <1>9, <2>2, <3>3
    <3>. QED  BY <2>1, <3>1, <3>2, <3>3
  <2>5. \A i \in CommitItems' : log'[i].maxTs \in Nat
    BY <1>10 DEF LogOK, ItemsTyped, CommitItems
  <2>6. \A i \in CommitItems' : log'[i].maxTs <= maxTs' + 1
    BY <1>3, <2>2, <2>4, <2>5
  <2>7. \A v \in Workers : tx'[v] <= maxTx'
    BY <1>1, <1>2, <2>2 DEF CountersInv, CountersAhead
  <2>. QED  BY <2>3, <2>4, <2>6, <2>7 DEF CountersAhead
<1>12. WorkersOK'
  <2>1. \A w \in Workers : Committing(w)' <=> Committing(w)
    BY <1>1 DEF Committing
  <2>. QED  BY <1>1, <1>2, <2>1 DEF CountersInv, WorkersOK, Up
<1>13. ControlTyped'
  <2>1. durable' \in 0 .. Len(log') /\ nextLogId' \in Nat
    BY <1>3, <1>5
  <2>. QED  BY <1>1, <2>1 DEF CountersInv, ControlTyped, counters
<1>14. NoAssertionFails'
  BY <1>1 DEF CountersInv, NoAssertionFails
<1>. QED  BY <1>10, <1>11, <1>12, <1>13, <1>14 DEF CountersInv

-------------------------------------------------------------------------------
(* Crashes: the log is cut off or whole, all else is forgotten.              *)
LEMMA StopKeeps ==
    ASSUME CountersInv, Stop, NEW m \in durable .. Len(log), log' = SubSeq(log, 1, m),
           durable' \in 0 .. m
    PROVE  CountersInv'
<1>1. Len(log) \in Nat /\ durable \in 0 .. Len(log)
  BY LogFacts
<1>2. m \in 0 .. Len(log)
  BY <1>1
<1>3. LogOK' /\ Len(log') = m
  BY <1>2, LogOKCut, PrefixFacts DEF CountersInv, LogOK
<1>4. /\ pc' = "down" /\ cpc' = "idle" /\ nextLogId' = 0 /\ maxTx' = 0 /\ maxTs' = 0
      /\ wpc' = [w \in Workers |-> "idle"] /\ tx' = [w \in Workers |-> 0]
      /\ n' = [w \in Workers |-> 0]
  BY DEF Stop
<1>5. ControlTyped'
  BY <1>3, <1>4 DEF ControlTyped, PcValues, WorkerPlaces
<1>6. WorkersOK'
  <2>1. \A w \in Workers : wpc'[w] = "idle" /\ ~Committing(w)'
    BY <1>4 DEF Committing
  <2>. QED  BY <1>4, <2>1 DEF WorkersOK
<1>7. CountersAhead' /\ NoAssertionFails'
  BY <1>4 DEF CountersAhead, Up, NoAssertionFails
<1>. QED  BY <1>3, <1>5, <1>6, <1>7 DEF CountersInv

LEMMA WholeLog == CountersInv => SubSeq(log, 1, Len(log)) = log
BY SubSeqFull DEF CountersInv, LogOK, IsSeq

LEMMA FaultKeeps == CountersInv /\ Fault => CountersInv'
<1>. SUFFICES ASSUME CountersInv, Fault PROVE CountersInv'
  OBVIOUS
<1>1. Stop /\ (Log!Crash \/ Log!Flush)
  BY DEF Fault, Crash, TornPage, TornHeader
<1>2. Len(log) \in Nat /\ durable \in 0 .. Len(log)
  BY LogFacts
<1>3. CASE Log!Crash
  <2>1. PICK m \in durable .. Len(log) : log' = SubSeq(log, 1, m) /\ durable' = m
    BY <1>3 DEF Log!Crash
  <2>2. durable' \in 0 .. m
    BY <1>2, <2>1
  <2>. QED  BY <1>1, <2>1, <2>2, StopKeeps
<1>4. CASE Log!Flush
  <2>1. log' = SubSeq(log, 1, Len(log)) /\ durable' = Len(log)
    BY <1>4, WholeLog DEF Log!Flush
  <2>2. Len(log) \in durable .. Len(log) /\ durable' \in 0 .. Len(log)
    BY <1>2, <2>1
  <2>. QED  BY <1>1, <2>1, <2>2, StopKeeps
<1>. QED  BY <1>1, <1>3, <1>4

-------------------------------------------------------------------------------
(* recover()                                                                *)

(* What it restores is ahead of the whole log, though it looks at the end.   *)
LEMMA RestoredAhead ==
    ASSUME CountersInv, NEW c \in 0 .. Len(log), IsLastCheckpoint(c), RestoreCounters(c)
    PROVE  /\ nextLogId' \in Nat /\ maxTx' \in Nat /\ maxTs' \in Nat
           /\ \A i \in DOMAIN log : log[i].id < nextLogId' /\ log[i].tx <= maxTx'
           /\ \A i \in CommitItems \cup Checkpoints : log[i].maxTs <= maxTs'
<1>1. Len(log) \in Nat /\ DOMAIN log = 1 .. Len(log)
  BY LogFacts
<1>2. LogOK /\ \A i \in DOMAIN log : Typed(log[i])
  BY DEF CountersInv, LogOK, ItemsTyped, Typed
<1>3. c > 0 => c \in Checkpoints
  BY <1>1 DEF IsLastCheckpoint, Checkpoints
<1>4. c = 0 \/ c > 0
  BY <1>1
<1>5. \A i \in DOMAIN log : i < c \/ i = c \/ i \in After(c)
  BY <1>1 DEF After
<1>6. After(c) \subseteq DOMAIN log /\ (c .. Len(log)) \ {0} \subseteq DOMAIN log
  BY <1>1 DEF After
<1>7. TxAt(c) \in Nat /\ TsAt(c) \in Nat
  BY <1>2, <1>3, <1>4 DEF TxAt, TsAt, Typed, Checkpoints
<1>8. nextLogId' \in Nat /\ \A i \in (c .. Len(log)) \ {0} : log[i].id < nextLogId'
  <2>1. \A i \in (c .. Len(log)) \ {0} : log[i].id + 1 \in Nat
    BY <1>2, <1>6 DEF Typed
  <2>. QED  BY <2>1 DEF RestoreCounters
<1>9. maxTx' \in Nat /\ TxAt(c) <= maxTx' /\ \A i \in After(c) : log[i].tx <= maxTx'
  <2>1. \A i \in After(c) : log[i].tx \in Nat
    BY <1>2, <1>6 DEF Typed
  <2>. QED  BY <1>7, <2>1 DEF RestoreCounters
<1>10. maxTs' \in Nat /\ TsAt(c) <= maxTs' /\ \A i \in CommitsAfter(c) : log[i].maxTs <= maxTs'
  <2>1. \A i \in CommitsAfter(c) : log[i].maxTs \in Nat
    BY <1>2, <1>6 DEF Typed, CommitsAfter
  <2>. QED  BY <1>7, <2>1 DEF RestoreCounters
<1>11. \A i \in DOMAIN log : log[i].id < nextLogId'
  <2>. SUFFICES ASSUME NEW i \in DOMAIN log PROVE log[i].id < nextLogId'
    OBVIOUS
  <2>1. CASE i < c
    <3>1. c > 0 /\ c \in DOMAIN log /\ c \in (c .. Len(log)) \ {0}
      BY <1>1, <2>1
    <3>2. log[i].id < log[c].id /\ log[i].id \in Nat /\ log[c].id \in Nat
      BY <1>2, <2>1, <3>1 DEF LogOK, IdsIncrease, Typed
    <3>3. log[c].id < nextLogId'
      BY <1>8, <3>1
    <3>. QED  BY <1>8, <3>2, <3>3
  <2>2. CASE ~(i < c)
    <3>1. i \in (c .. Len(log)) \ {0}
      BY <1>1, <2>2
    <3>. QED  BY <1>8, <3>1
  <2>. QED  BY <2>1, <2>2
<1>12. \A i \in DOMAIN log : log[i].tx <= maxTx'
  <2>. SUFFICES ASSUME NEW i \in DOMAIN log PROVE log[i].tx <= maxTx'
    OBVIOUS
  <2>1. CASE i <= c
    <3>1. c > 0 /\ c # 0 /\ c \in Checkpoints /\ c \in DOMAIN log
      BY <1>1, <1>3, <2>1
    <3>2. log[i].tx <= log[c].maxTx /\ log[i].tx \in Nat /\ log[c].maxTx \in Nat
      BY <1>2, <2>1, <3>1 DEF LogOK, CheckpointsCover, Typed
    <3>3. log[c].maxTx <= maxTx'
      BY <1>9, <3>1 DEF TxAt
    <3>. QED  BY <1>9, <3>2, <3>3
  <2>2. CASE i \in After(c)
    BY <1>9, <2>2
  <2>3. i <= c \/ i \in After(c)
    BY <1>1 DEF After
  <2>. QED  BY <2>1, <2>2, <2>3
<1>13. \A i \in CommitItems \cup Checkpoints : log[i].maxTs <= maxTs'
  <2>. SUFFICES ASSUME NEW i \in CommitItems \cup Checkpoints PROVE log[i].maxTs <= maxTs'
    OBVIOUS
  <2>0. i \in DOMAIN log
    BY DEF CommitItems, Checkpoints
  <2>1. CASE i < c
    <3>1. c > 0 /\ c # 0 /\ c \in Checkpoints
      BY <1>1, <1>3, <2>0, <2>1
    <3>2. log[i].maxTs <= log[c].maxTs /\ log[i].maxTs \in Nat /\ log[c].maxTs \in Nat
      BY <1>2, <2>0, <2>1, <3>1 DEF LogOK, CheckpointsCover, Checkpoints, Typed
    <3>3. log[c].maxTs <= maxTs'
      BY <1>10, <3>1 DEF TsAt
    <3>. QED  BY <1>10, <3>2, <3>3
  <2>2. CASE i = c
    <3>1. c # 0
      BY <1>1, <2>0, <2>2
    <3>. QED  BY <1>10, <2>2, <3>1 DEF TsAt
  <2>3. CASE i \in After(c)
    <3>1. i \in CommitsAfter(c)
      BY <2>3 DEF IsLastCheckpoint, CommitsAfter, CommitItems, Checkpoints
    <3>. QED  BY <1>10, <3>1
  <2>. QED  BY <1>5, <2>0, <2>1, <2>2, <2>3
<1>. QED  BY <1>8, <1>9, <1>10, <1>11, <1>12, <1>13

(* The timestamps of commits rise, so that its assertion holds.              *)
LEMMA AssertionHolds ==
    ASSUME CountersInv, NEW c \in 0 .. Len(log), IsLastCheckpoint(c)
    PROVE  TimestampsRise(c)
<1>1. Len(log) \in Nat /\ DOMAIN log = 1 .. Len(log)
  BY LogFacts
<1>2. CommitsRise /\ \A i \in DOMAIN log : log[i].maxTs \in Nat
  BY DEF CountersInv, LogOK, ItemsTyped
<1>. SUFFICES ASSUME NEW i \in CommitsAfter(c)
              PROVE  /\ log[i].maxTs > TsAt(c)
                     /\ \A j \in CommitsAfter(c) : j < i => log[i].maxTs > log[j].maxTs
  BY DEF TimestampsRise
<1>3. i \in CommitItems /\ i \in DOMAIN log /\ i > c
  BY <1>1 DEF CommitsAfter, CommitItems, After
<1>4. log[i].maxTs > TsAt(c)
  <2>1. CASE c = 0
    BY <1>2, <1>3, <2>1 DEF TsAt, CommitsRise
  <2>2. CASE c # 0
    <3>1. c > 0 /\ c \in DOMAIN log /\ c < i
      BY <1>1, <1>3, <2>2
    <3>2. c \in Checkpoints
      BY <3>1 DEF IsLastCheckpoint, Checkpoints
    <3>3. log[c].maxTs < log[i].maxTs /\ log[c].maxTs \in Nat /\ log[i].maxTs \in Nat
      BY <1>2, <1>3, <3>1, <3>2 DEF CommitsRise
    <3>. QED  BY <2>2, <3>3 DEF TsAt
  <2>. QED  BY <2>1, <2>2
<1>5. ASSUME NEW j \in CommitsAfter(c), j < i
      PROVE  log[i].maxTs > log[j].maxTs
  <2>1. j \in CommitItems /\ j \in DOMAIN log
    BY <1>1 DEF CommitsAfter, CommitItems, After
  <2>2. log[j].maxTs < log[i].maxTs /\ log[j].maxTs \in Nat /\ log[i].maxTs \in Nat
    BY <1>2, <1>3, <1>5, <2>1 DEF CommitsRise
  <2>. QED  BY <2>2
<1>. QED  BY <1>4, <1>5

LEMMA RecoverKeeps == CountersInv /\ Forgotten /\ Recover => CountersInv'
<1>. SUFFICES ASSUME CountersInv, Forgotten, Recover PROVE CountersInv'
  OBVIOUS
<1>1. /\ pc = "down"
      /\ UNCHANGED <<log, durable, wpc, tx, n, cpc>>
  BY DEF Recover, workerVars
<1>2. PICK c \in 0 .. Len(log) :
        /\ IsLastCheckpoint(c) /\ RestoreCounters(c)
        /\ IF TimestampsRise(c) THEN UndoPass(Redone(c)) ELSE pc' = "failed"
  BY DEF Recover
<1>3. pc' \in {"up", "hung"}
  BY <1>2, AssertionHolds DEF UndoPass
<1>4. /\ nextLogId' \in Nat /\ maxTx' \in Nat /\ maxTs' \in Nat
      /\ \A i \in DOMAIN log : log[i].id < nextLogId' /\ log[i].tx <= maxTx'
      /\ \A i \in CommitItems \cup Checkpoints : log[i].maxTs <= maxTs'
  BY <1>2, RestoredAhead
<1>5. LogOK'
  BY <1>1 DEF CountersInv, LogOK, ItemsTyped, IdsIncrease, CheckpointsCover, CommitsRise,
              Checkpoints, CommitItems
<1>6. CommitItems' = CommitItems /\ Checkpoints' = Checkpoints
  BY <1>1 DEF CommitItems, Checkpoints
<1>7. \A i \in CommitItems : log[i].maxTs \in Nat
  BY DEF CountersInv, LogOK, ItemsTyped, CommitItems
<1>8. CountersAhead'
  <2>1. \A w \in Workers : tx'[w] <= maxTx'
    <3>1. \A w \in Workers : tx'[w] = 0
      BY <1>1 DEF Forgotten
    <3>. QED  BY <1>4, <3>1
  <2>2. \A i \in CommitItems : log[i].maxTs <= maxTs' + 1
    BY <1>4, <1>7
  <2>. QED  BY <1>1, <1>4, <1>6, <2>1, <2>2 DEF CountersAhead
<1>9. \A w \in Workers : wpc[w] = "idle" /\ (Committing(w)' <=> Committing(w))
  BY <1>1 DEF CountersInv, WorkersOK, Up, Committing
<1>10. WorkersOK'
  <2>1. cpc' = "idle"
    BY <1>1 DEF CountersInv, WorkersOK, Up
  <2>. QED  BY <1>1, <1>9, <2>1 DEF CountersInv, WorkersOK
<1>11. ControlTyped'
  BY <1>1, <1>3, <1>4 DEF CountersInv, ControlTyped, PcValues
<1>12. NoAssertionFails'
  BY <1>3 DEF NoAssertionFails
<1>. QED  BY <1>5, <1>8, <1>10, <1>11, <1>12 DEF CountersInv

-------------------------------------------------------------------------------
(* The invariant                                                            *)
LEMMA TransactionKeeps ==
    ASSUME CountersInv, NEW w \in Workers, Transaction(w)
    PROVE  CountersInv'
<1>1. CASE Begin(w)
  BY <1>1, BeginKeeps
<1>2. CASE CountPage(w)
  BY <1>2, WriteBackupKeeps, WriteHeaderKeeps DEF CountPage
<1>3. CASE Commit(w)
  BY <1>3, CommitLockKeeps, StampKeeps, LinkKeeps, NewIndexPageKeeps, PutIndexItemKeeps,
     AddCommitKeeps, FlushCommitKeeps, UnlockKeeps DEF Commit
<1>4. CASE Abort(w)
  BY <1>4, AbortKeeps
<1>5. CASE \E k \in Keys : Write(w, k)
  BY <1>5, WriteKeeps
<1>6. CASE \E h \in Hashes : Repair(w, h)
  BY <1>6, RepairKeeps
<1>. QED  BY <1>1, <1>2, <1>3, <1>4, <1>5, <1>6 DEF Transaction

LEMMA CheckpointKeeps == CountersInv /\ Checkpoint => CountersInv'
BY CheckpointBeginKeeps, CheckpointPagesKeeps, CheckpointLogKeeps, CheckpointFlushKeeps
   DEF Checkpoint

LEMMA StutterKeeps == CountersInv /\ UNCHANGED vars => CountersInv'
BY DEF CountersInv, ControlTyped, LogOK, IsSeq, ItemsTyped, IdsIncrease, CheckpointsCover,
       CommitsRise, CountersAhead, WorkersOK, NoAssertionFails, Checkpoints, CommitItems, Up,
       Logged, Committing, vars, fileVars, logVars, counters, workerVars, history

LEMMA ForgottenKeeps == CountersInv /\ Forgotten /\ [Next]_vars => Forgotten'
<1>. SUFFICES ASSUME CountersInv, Forgotten, [Next]_vars PROVE Forgotten'
  OBVIOUS
<1>1. CASE Fault
  <2>1. tx' = [w \in Workers |-> 0]
    BY <1>1 DEF Fault, Crash, TornPage, TornHeader, Stop
  <2>. QED  BY <2>1 DEF Forgotten
<1>2. CASE Recover
  BY <1>2 DEF Recover, workerVars, Forgotten
<1>3. CASE \E w \in Workers : Transaction(w)
  <2>1. pc' = pc
    BY <1>3, ZenonT(60) DEF Transaction, Begin, CountPage, WriteBackup, WriteHeader, Commit, CommitLock,
                Stamp, Link, NewIndexPage, PutIndexItem, AddCommit, FlushCommit, Unlock, Abort,
                Write, Repair
  <2>2. Up
    <3>1. PICK w \in Workers : Transaction(w)
      BY <1>3
    <3>2. Up \/ wpc[w] # "idle"
      BY <3>1 DEF Transaction, Begin, CountPage, WriteBackup, WriteHeader, Commit, CommitLock,
                  Stamp, Link, NewIndexPage, PutIndexItem, AddCommit, FlushCommit, Unlock, Abort,
                  Write, Repair, At
    <3>. QED  BY <3>2 DEF CountersInv, WorkersOK
  <2>. QED  BY <2>1, <2>2 DEF Up, Forgotten
<1>4. CASE CleanPool \/ Checkpoint
  <2>1. pc' = pc /\ tx' = tx
    BY <1>4 DEF CleanPool, Checkpoint, CheckpointBegin, CheckpointPages, CheckpointLog,
                CheckpointFlush, workerVars
  <2>. QED  BY <2>1 DEF Forgotten
<1>5. CASE UNCHANGED vars
  BY <1>5 DEF vars, workerVars, Forgotten
<1>. QED  BY <1>1, <1>2, <1>3, <1>4, <1>5 DEF Next

LEMMA CountersInit == Init => CountersInv /\ Forgotten
<1>. SUFFICES ASSUME Init PROVE CountersInv /\ Forgotten
  OBVIOUS
<1>1. log = <<>> /\ durable = 0 /\ pc = "down" /\ cpc = "idle"
  BY DEF Init, Log!Init
<1>2. /\ wpc = [w \in Workers |-> "idle"] /\ tx = [w \in Workers |-> 0]
      /\ n = [w \in Workers |-> 0]
      /\ nextLogId = 0 /\ maxTx = 0 /\ maxTs = 0
  BY DEF Init
<1>3. DOMAIN log = {} /\ Len(log) = 0 /\ IsSeq(log)
  <2>1. IsSeq(<<>>)
    <3>1. <<>> \in Seq({})
      OBVIOUS
    <3>. QED  BY <3>1, SeqIs
  <2>. QED  BY <1>1, <2>1
<1>4. ControlTyped
  BY <1>1, <1>2, <1>3 DEF ControlTyped, PcValues, WorkerPlaces
<1>5. LogOK
  BY <1>3 DEF LogOK, ItemsTyped, IdsIncrease, CheckpointsCover, CommitsRise, Checkpoints,
              CommitItems
<1>6. CountersAhead /\ NoAssertionFails
  BY <1>1 DEF CountersAhead, Up, NoAssertionFails
<1>7. WorkersOK
  <2>1. \A w \in Workers : wpc[w] = "idle" /\ ~Committing(w)
    BY <1>2 DEF Committing
  <2>. QED  BY <1>1, <2>1 DEF WorkersOK
<1>. QED  BY <1>2, <1>4, <1>5, <1>6, <1>7 DEF CountersInv, Forgotten

(***************************************************************************)
(* The invariant that the properties of the counters follow from.            *)
(***************************************************************************)
THEOREM CountersInvariant == Spec => [](CountersInv /\ Forgotten)
<1>1. CountersInv /\ Forgotten /\ [Next]_vars => CountersInv'
  BY RecoverKeeps, TransactionKeeps, CleanPoolKeeps, CheckpointKeeps, FaultKeeps,
     StutterKeeps DEF Next
<1>. QED  BY <1>1, CountersInit, ForgottenKeeps, PTL DEF Spec

(***************************************************************************)
(* Log IDs increase along the log, through all crashes, cuts and restarts,   *)
(* and recover() goes on with one that is not in it.                        *)
(***************************************************************************)
THEOREM LogIdsAlwaysIncrease == Spec => []LogIdsIncrease
<1>1. CountersInv => LogIdsIncrease
  BY DEF CountersInv, CountersAhead, LogOK, IdsIncrease, LogIdsIncrease
<1>. QED  BY <1>1, CountersInvariant, PTL

(***************************************************************************)
(* No transaction ID that the log still knows is ever given out again: a      *)
(* transaction that begins gets maxTx + 1.                                   *)
(***************************************************************************)
THEOREM TransactionIdsAlwaysNew == Spec => []TransactionIdsNew
<1>1. CountersInv => TransactionIdsNew
  BY DEF CountersInv, CountersAhead, TransactionIdsNew
<1>. QED  BY <1>1, CountersInvariant, PTL

(***************************************************************************)
(* The assertion of update_max_timestamp_with_logitem never fails in any     *)
(* recovery: the timestamps of commits rise along what is left of the log.   *)
(***************************************************************************)
THEOREM AssertionNeverFails == Spec => []NoAssertionFails
<1>1. CountersInv => NoAssertionFails
  BY DEF CountersInv
<1>. QED  BY <1>1, CountersInvariant, PTL

-------------------------------------------------------------------------------
(* Transactions in the log.  A transaction ends once and logs nothing after *)
(* it; one that aborts has linked nothing; an item is inserted into an index*)
(* page right after its slot was taken; and at a checkpoint all that linked *)
(* versions had committed.                                                  *)
EndsLast ==
    \A i, j \in DOMAIN log : log[i].type \in Ends /\ i < j => log[j].tx # log[i].tx

AbortedUnlinked ==
    \A i, j \in DOMAIN log :
        log[i].type = "ABORT_LOG" /\ log[j].type \in IndexItems => log[i].tx # log[j].tx

SlotBefore(i) ==
    i - 1 \in DOMAIN log /\ log[i - 1].type = "INDEX_SLOT_LOG" /\ log[i - 1].tx = log[i].tx

CommittedBefore(c, t) == \E j \in CommitItems : j < c /\ log[j].tx = t

Ids == 0 .. MaxTx

TxLog ==
    /\ \A i \in DOMAIN log :
        /\ log[i].type \in LogTypes /\ log[i].tx \in Ids /\ log[i].maxTx \in Ids
        /\ log[i].type # "CHECKPOINT_LOG" => log[i].tx # 0
        /\ log[i].type = "INDEX_ITEM_INSERT_LOG" => SlotBefore(i)
    /\ EndsLast
    /\ AbortedUnlinked
    /\ \A c \in Checkpoints : \A i \in DOMAIN log :
            i < c /\ log[i].type \in IndexItems => CommittedBefore(c, log[i].tx)

(* A worker in a transaction has an ID of its own, which in the log has      *)
(* ended only if its commit is logged, and has linked only in its commit.   *)
Unended(t) == \A i \in DOMAIN log : log[i].type \in Ends => log[i].tx # t
Unlinked(t) == \A i \in DOMAIN log : log[i].type \in IndexItems => log[i].tx # t

TxOfWorkers ==
    /\ \A w \in Workers : wpc[w] # "idle" =>
        /\ tx[w] # 0
        /\ IF Logged(w) THEN Ended(tx[w], "COMMIT_LOG") ELSE Unended(tx[w])
        /\ ~Committing(w) => Unlinked(tx[w])
    /\ \A v, w \in Workers :
        wpc[v] # "idle" /\ wpc[w] # "idle" /\ v # w => tx[v] # tx[w]

IdsBounded == maxTx \in Ids /\ tx \in [Workers -> Ids]

PartsInv == TxLog /\ TxOfWorkers /\ IdsBounded /\ NothingInPart /\ HangsOnlyFor

LEMMA NoId == 0 \in Ids
BY BoundsAssumption DEF Ids

LEMMA TxLogCut ==
    ASSUME CountersInv, TxLog, NEW m \in 0 .. Len(log), log' = SubSeq(log, 1, m)
    PROVE  TxLog'
<1>1. /\ IsSeq(log') /\ Len(log') = m /\ \A i \in 1 .. m : log'[i] = log[i]
  BY PrefixFacts DEF CountersInv, LogOK
<1>2. /\ Len(log) \in Nat /\ DOMAIN log = 1 .. Len(log) /\ DOMAIN log' = 1 .. m
  BY <1>1, SeqFacts, LogFacts
<1>3. DOMAIN log' \subseteq DOMAIN log /\ \A i \in DOMAIN log' : log'[i] = log[i]
  BY <1>1, <1>2
<1>4. \A i \in DOMAIN log' : SlotBefore(i) => SlotBefore(i)'
  <2>. SUFFICES ASSUME NEW i \in DOMAIN log', SlotBefore(i) PROVE SlotBefore(i)'
    OBVIOUS
  <2>1. i - 1 \in DOMAIN log'
    BY <1>2 DEF SlotBefore
  <2>. QED  BY <1>3, <2>1 DEF SlotBefore
<1>5. EndsLast' /\ AbortedUnlinked'
  BY <1>2, <1>3 DEF TxLog, EndsLast, AbortedUnlinked
<1>6. \A c \in Checkpoints' : \A i \in DOMAIN log' :
            i < c /\ log'[i].type \in IndexItems => CommittedBefore(c, log[i].tx)'
  <2>. SUFFICES ASSUME NEW c \in Checkpoints', NEW i \in DOMAIN log', i < c,
                       log'[i].type \in IndexItems
                PROVE  CommittedBefore(c, log[i].tx)'
    OBVIOUS
  <2>1. c \in Checkpoints /\ i \in DOMAIN log /\ c \in 1 .. m /\ log'[i] = log[i]
    BY <1>2, <1>3 DEF Checkpoints
  <2>2. PICK j \in CommitItems : j < c /\ log[j].tx = log[i].tx
    BY <2>1 DEF TxLog, CommittedBefore
  <2>3. j \in 1 .. m
    BY <1>2, <2>1, <2>2 DEF CommitItems
  <2>4. j \in CommitItems' /\ log'[j].tx = log'[i].tx
    BY <1>2, <1>3, <2>1, <2>2, <2>3 DEF CommitItems
  <2>. QED  BY <2>1, <2>2, <2>4 DEF CommittedBefore
<1>. QED  BY <1>3, <1>4, <1>5, <1>6 DEF TxLog

(* The log grows by items of one transaction that has not ended.            *)
TxItemOK(j, t) ==
    /\ log[j].type \in LogTypes \ {"CHECKPOINT_LOG"} /\ log[j].tx = t /\ log[j].maxTx \in Ids
    /\ log[j].type = "INDEX_ITEM_INSERT_LOG" => SlotBefore(j)
    /\ log[j].type \in Ends => j = Len(log)
    /\ log[j].type = "ABORT_LOG" => Unlinked(t)

LEMMA TxLogGrows ==
    ASSUME CountersInv, TxLog, Longer, NEW t \in Ids, t # 0, Unended(t),
           \A j \in Len(log) + 1 .. Len(log') : TxItemOK(j, t)'
    PROVE  TxLog'
<1>1. /\ Len(log) \in Nat /\ DOMAIN log = 1 .. Len(log)
      /\ Len(log') \in Nat /\ DOMAIN log' = 1 .. Len(log')
      /\ Len(log) <= Len(log')
  BY SeqFacts, LogFacts DEF Longer
<1>2. \A i \in DOMAIN log : i \in DOMAIN log' /\ log'[i] = log[i]
  BY <1>1 DEF Longer
<1>3. \A i \in DOMAIN log' : i \in DOMAIN log \/ i \in Len(log) + 1 .. Len(log')
  BY <1>1
<1>4. \A i \in DOMAIN log : SlotBefore(i) => SlotBefore(i)'
  BY <1>2 DEF SlotBefore
<1>5. \A i \in DOMAIN log' :
        /\ log'[i].type \in LogTypes /\ log'[i].tx \in Ids /\ log'[i].maxTx \in Ids
        /\ log'[i].type # "CHECKPOINT_LOG" => log'[i].tx # 0
        /\ log'[i].type = "INDEX_ITEM_INSERT_LOG" => SlotBefore(i)'
  BY <1>2, <1>3, <1>4 DEF TxLog, TxItemOK
<1>6. EndsLast'
  <2>. SUFFICES ASSUME NEW i \in DOMAIN log', NEW j \in DOMAIN log',
                       log'[i].type \in Ends, i < j
                PROVE  log'[j].tx # log'[i].tx
    BY DEF EndsLast
  <2>1. CASE j \in DOMAIN log
    <3>1. i \in DOMAIN log
      BY <1>1, <2>1
    <3>. QED  BY <1>2, <2>1, <3>1 DEF TxLog, EndsLast
  <2>2. CASE j \notin DOMAIN log
    <3>1. log'[j].tx = t
      BY <1>3, <2>2 DEF TxItemOK
    <3>2. i # Len(log')
      BY <1>1
    <3>3. i \in DOMAIN log
      BY <1>3, <3>2 DEF TxItemOK
    <3>. QED  BY <1>2, <3>1, <3>3 DEF Unended
  <2>. QED  BY <2>1, <2>2
<1>7. AbortedUnlinked'
  <2>. SUFFICES ASSUME NEW i \in DOMAIN log', NEW j \in DOMAIN log',
                       log'[i].type = "ABORT_LOG", log'[j].type \in IndexItems
                PROVE  log'[i].tx # log'[j].tx
    BY DEF AbortedUnlinked
  <2>1. CASE i \in DOMAIN log
    <3>1. CASE j \in DOMAIN log
      BY <1>2, <2>1, <3>1 DEF TxLog, AbortedUnlinked
    <3>2. CASE j \notin DOMAIN log
      <4>1. log'[j].tx = t
        BY <1>3, <3>2 DEF TxItemOK
      <4>. QED  BY <1>2, <2>1, <4>1 DEF Unended, Ends
    <3>. QED  BY <3>1, <3>2
  <2>2. CASE i \notin DOMAIN log
    BY <1>3, <2>2 DEF TxItemOK, Unlinked
  <2>. QED  BY <2>1, <2>2
<1>8. \A c \in Checkpoints' : \A i \in DOMAIN log' :
            i < c /\ log'[i].type \in IndexItems => CommittedBefore(c, log[i].tx)'
  <2>. SUFFICES ASSUME NEW c \in Checkpoints', NEW i \in DOMAIN log', i < c,
                       log'[i].type \in IndexItems
                PROVE  CommittedBefore(c, log[i].tx)'
    OBVIOUS
  <2>1. c \in Checkpoints
    BY <1>2, <1>3 DEF Checkpoints, TxItemOK
  <2>2. i \in DOMAIN log
    BY <1>1, <2>1 DEF Checkpoints
  <2>3. PICK j \in CommitItems : j < c /\ log[j].tx = log[i].tx
    BY <1>2, <2>1, <2>2 DEF TxLog, CommittedBefore
  <2>4. j \in CommitItems'
    BY <1>2 DEF CommitItems
  <2>. QED  BY <1>2, <2>2, <2>3, <2>4 DEF CommittedBefore, CommitItems
<1>. QED  BY <1>5, <1>6, <1>7, <1>8 DEF TxLog

LEMMA LongerFacts ==
    ASSUME CountersInv, Longer
    PROVE  /\ \A i \in DOMAIN log : i \in DOMAIN log' /\ log'[i] = log[i]
           /\ \A i \in DOMAIN log' : i \in DOMAIN log \/ i \in Len(log) + 1 .. Len(log')
<1>1. /\ Len(log) \in Nat /\ DOMAIN log = 1 .. Len(log)
      /\ Len(log') \in Nat /\ DOMAIN log' = 1 .. Len(log')
      /\ Len(log) <= Len(log')
  BY SeqFacts, LogFacts DEF Longer
<1>. QED  BY <1>1 DEF Longer

(* Nothing is logged, and nobody begins or ends.                            *)
LEMMA PartsQuiet ==
    ASSUME PartsInv, Up, UNCHANGED <<log, pc, tx, maxTx>>,
           \A v \in Workers :
               /\ wpc'[v] # "idle" => wpc[v] # "idle"
               /\ Logged(v)' <=> Logged(v)
               /\ Committing(v) => Committing(v)'
    PROVE  PartsInv'
<1>1. TxLog'
  BY DEF PartsInv, TxLog, SlotBefore, EndsLast, AbortedUnlinked, Checkpoints, CommitItems,
         CommittedBefore
<1>2. TxOfWorkers'
  BY DEF PartsInv, TxOfWorkers, Ended, Unended, Unlinked
<1>3. NothingInPart'
  BY DEF PartsInv, NothingInPart, Up, Ended
<1>4. HangsOnlyFor'
  BY DEF HangsOnlyFor, Up
<1>. QED  BY <1>1, <1>2, <1>3, <1>4 DEF PartsInv, IdsBounded

(* A transaction logs changes.                                              *)
LEMMA PartsGrow ==
    ASSUME CountersInv, PartsInv, Up, Longer, UNCHANGED <<pc, tx, maxTx>>, NEW w \in Workers,
           wpc[w] # "idle", wpc'[w] # "idle", ~Logged(w), ~Logged(w)',
           \A v \in Workers : v # w => wpc'[v] = wpc[v],
           \A v \in Workers : Committing(v) => Committing(v)',
           \A j \in Len(log) + 1 .. Len(log') :
               /\ TxItemOK(j, tx[w])'
               /\ log'[j].type \notin Ends
               /\ log'[j].type \in IndexItems => Committing(w)
    PROVE  PartsInv'
<1>1. TxLog /\ TxOfWorkers /\ IdsBounded /\ NothingInPart
  BY DEF PartsInv
<1>2. /\ tx[w] \in Ids /\ tx[w] # 0 /\ Unended(tx[w])
      /\ \A v \in Workers : v # w /\ wpc[v] # "idle" => tx[v] # tx[w]
      /\ ~Committing(w) => Unlinked(tx[w])
  BY <1>1 DEF TxOfWorkers, IdsBounded
<1>3. /\ \A i \in DOMAIN log : i \in DOMAIN log' /\ log'[i] = log[i]
      /\ \A i \in DOMAIN log' : i \in DOMAIN log \/ i \in Len(log) + 1 .. Len(log')
  BY LongerFacts
<1>4. \A i \in DOMAIN log' \ DOMAIN log :
        /\ log'[i].tx = tx[w] /\ log'[i].type \notin Ends
        /\ log'[i].type \in IndexItems => Committing(w)
  BY <1>3 DEF TxItemOK
<1>5. TxLog'
  BY <1>1, <1>2, TxLogGrows
<1>6. \A t : Ended(t, "COMMIT_LOG") => Ended(t, "COMMIT_LOG")'
  BY <1>3 DEF Ended
<1>7. \A t : Unended(t) => Unended(t)'
  BY <1>3, <1>4 DEF Unended
<1>8. \A v \in Workers : wpc[v] # "idle" /\ ~Committing(v)' => Unlinked(tx[v])'
  <2>. SUFFICES ASSUME NEW v \in Workers, wpc[v] # "idle", ~Committing(v)'
                PROVE  Unlinked(tx[v])'
    OBVIOUS
  <2>1. ~Committing(v) /\ Unlinked(tx[v])
    BY <1>1 DEF TxOfWorkers
  <2>2. CASE v = w
    BY <1>3, <1>4, <2>1, <2>2 DEF Unlinked
  <2>3. CASE v # w
    <3>1. tx[v] # tx[w]
      BY <1>2, <2>3
    <3>. QED  BY <1>3, <1>4, <2>1, <3>1 DEF Unlinked
  <2>. QED  BY <2>2, <2>3
<1>9. \A v \in Workers :
        /\ wpc'[v] # "idle" => wpc[v] # "idle"
        /\ Logged(v)' <=> Logged(v)
  BY DEF Logged
<1>10. TxOfWorkers'
  BY <1>1, <1>6, <1>7, <1>8, <1>9 DEF TxOfWorkers
<1>11. NothingInPart'
  <2>. SUFFICES ASSUME NEW i \in DOMAIN log', log'[i].type \in IndexItems
                PROVE  \/ Ended(log[i].tx, "COMMIT_LOG")'
                       \/ \E v \in Workers : Committing(v)' /\ tx[v] = log'[i].tx
    BY DEF NothingInPart
  <2>1. CASE i \in DOMAIN log
    BY <1>1, <1>3, <1>6, <2>1 DEF NothingInPart
  <2>2. CASE i \notin DOMAIN log
    BY <1>4, <2>2
  <2>. QED  BY <2>1, <2>2
<1>12. HangsOnlyFor'
  BY DEF HangsOnlyFor, Up
<1>. QED  BY <1>1, <1>5, <1>10, <1>11, <1>12 DEF PartsInv, IdsBounded

LEMMA BeginParts ==
    ASSUME CountersInv, PartsInv, NEW w \in Workers, Begin(w)
    PROVE  PartsInv'
<1>1. /\ Up /\ wpc[w] = "idle" /\ Goto(w, "run")
      /\ tx' = [tx EXCEPT ![w] = maxTx + 1]
      /\ UNCHANGED <<log, pc, n>>
  BY DEF Begin, At, logVars
<1>2. /\ maxTx \in Nat /\ tx \in [Workers -> Nat] /\ wpc \in [Workers -> WorkerPlaces]
  BY LogFacts
<1>3. PICK t \in Nat : t = maxTx + 1
  BY <1>2
<1>4. /\ \A i \in DOMAIN log : log[i].tx # t
      /\ \A v \in Workers : tx[v] # t
      /\ t # 0
  <2>1. /\ \A i \in DOMAIN log : log[i].tx <= maxTx /\ log[i].tx \in Nat
        /\ \A v \in Workers : tx[v] <= maxTx /\ tx[v] \in Nat
    BY <1>1, <1>2 DEF CountersInv, CountersAhead, LogOK, ItemsTyped
  <2>. QED  BY <1>2, <1>3, <2>1
<1>5. /\ tx'[w] = t /\ wpc'[w] = "run"
      /\ \A v \in Workers \ {w} : tx'[v] = tx[v] /\ wpc'[v] = wpc[v]
  BY <1>1, <1>2, <1>3 DEF Goto
<1>6. TxLog /\ TxOfWorkers /\ NothingInPart
  BY DEF PartsInv
<1>7. TxLog'
  BY <1>1, <1>6 DEF TxLog, SlotBefore, EndsLast, AbortedUnlinked, Checkpoints, CommitItems,
                    CommittedBefore
<1>8. \A v \in Workers : Committing(v)' <=> Committing(v)
  BY <1>1 DEF Committing
<1>9. ~Committing(w)
  BY <1>1 DEF CountersInv, WorkersOK
<1>10. TxOfWorkers'
  <2>1. \A v \in Workers : wpc'[v] # "idle" =>
          /\ tx'[v] # 0
          /\ IF Logged(v)' THEN Ended(tx[v], "COMMIT_LOG")' ELSE Unended(tx[v])'
          /\ ~Committing(v)' => Unlinked(tx[v])'
    <3>. SUFFICES ASSUME NEW v \in Workers, wpc'[v] # "idle"
                  PROVE  /\ tx'[v] # 0
                         /\ IF Logged(v)' THEN Ended(tx[v], "COMMIT_LOG")' ELSE Unended(tx[v])'
                         /\ ~Committing(v)' => Unlinked(tx[v])'
      OBVIOUS
    <3>1. CASE v = w
      BY <1>1, <1>4, <1>5, <3>1 DEF Logged, Unended, Unlinked
    <3>2. CASE v # w
      BY <1>1, <1>5, <1>6, <1>8, <3>2 DEF TxOfWorkers, Logged, Ended, Unended, Unlinked
    <3>. QED  BY <3>1, <3>2
  <2>2. \A u, v \in Workers :
          wpc'[u] # "idle" /\ wpc'[v] # "idle" /\ u # v => tx'[u] # tx'[v]
    BY <1>4, <1>5, <1>6 DEF TxOfWorkers
  <2>. QED  BY <2>1, <2>2 DEF TxOfWorkers
<1>11. NothingInPart'
  <2>1. \A v \in Workers : Committing(v) => tx'[v] = tx[v]
    BY <1>5, <1>9
  <2>. QED  BY <1>1, <1>6, <1>8, <2>1 DEF NothingInPart, Ended
<1>12. HangsOnlyFor'
  BY <1>1 DEF HangsOnlyFor, Up
<1>13. IdsBounded'
  <2>1. maxTx' = t /\ t \in Ids
    BY <1>2, <1>3, BoundsAssumption DEF Begin, Ids
  <2>. QED  BY <1>1, <1>3, <2>1 DEF PartsInv, IdsBounded
<1>. QED  BY <1>7, <1>10, <1>11, <1>12, <1>13 DEF PartsInv

(* A transaction logs its end.                                              *)
LEMMA EndItem ==
    ASSUME CountersInv, PartsInv, NEW w \in Workers, wpc[w] # "idle", ~Logged(w),
           NEW x, AddLog(x), x.type \in Ends, x.tx = tx[w], x.maxTx = 0,
           x.type = "ABORT_LOG" => Unlinked(tx[w])
    PROVE  /\ TxLog'
           /\ \A i \in DOMAIN log : i \in DOMAIN log' /\ log'[i] = log[i]
           /\ \A i \in DOMAIN log' \ DOMAIN log : log'[i] = x
           /\ \E i \in DOMAIN log' : log'[i] = x
<1>1. /\ Longer /\ Len(log') = Len(log) + 1 /\ log'[Len(log) + 1] = x
      /\ DOMAIN log' = 1 .. Len(log) + 1
      /\ Len(log) + 1 .. Len(log') = {Len(log) + 1}
  BY AppendedItem
<1>2. /\ \A i \in DOMAIN log : i \in DOMAIN log' /\ log'[i] = log[i]
      /\ \A i \in DOMAIN log' : i \in DOMAIN log \/ i \in Len(log) + 1 .. Len(log')
  BY <1>1, LongerFacts
<1>3. \A i \in DOMAIN log' \ DOMAIN log : log'[i] = x
  BY <1>1, <1>2
<1>4. Len(log) + 1 \in DOMAIN log'
  BY <1>1, LogFacts
<1>5. PICK t \in Ids : t = tx[w] /\ t # 0 /\ Unended(t)
  BY DEF PartsInv, TxOfWorkers, IdsBounded
<1>6. x.type = "ABORT_LOG" => Unlinked(t)'
  BY <1>2, <1>3, <1>5 DEF Unlinked, IndexItems
<1>7. \A j \in Len(log) + 1 .. Len(log') : TxItemOK(j, t)'
  BY <1>1, <1>5, <1>6, NoId DEF TxItemOK, Ends, LogTypes
<1>8. TxLog'
  BY <1>1, <1>5, <1>7, TxLogGrows DEF PartsInv
<1>. QED  BY <1>1, <1>2, <1>3, <1>4, <1>8

LEMMA AddCommitParts ==
    ASSUME CountersInv, PartsInv, NEW w \in Workers, AddCommit(w)
    PROVE  PartsInv'
<1>. DEFINE a == [MarkItem("COMMIT_LOG", tx[w]) EXCEPT !.maxTs = maxTs + 1]
<1>1. /\ wpc[w] = "commit" /\ AddLog(a) /\ UNCHANGED <<pc, tx, maxTx, n>>
      /\ \E place \in {"unlock", "flush"} : Goto(w, place)
  BY DEF AddCommit, At, counters
<1>2. a.type = "COMMIT_LOG" /\ a.tx = tx[w] /\ a.maxTx = 0
  BY DEF MarkItem, Item
<1>. HIDE DEF a
<1>3. Up /\ ~Logged(w) /\ wpc \in [Workers -> WorkerPlaces]
  BY <1>1, Running, LogFacts DEF CountersInv, Logged
<1>4. /\ TxLog'
      /\ \A i \in DOMAIN log : i \in DOMAIN log' /\ log'[i] = log[i]
      /\ \A i \in DOMAIN log' \ DOMAIN log : log'[i] = a
      /\ \E i \in DOMAIN log' : log'[i] = a
  BY <1>1, <1>2, <1>3, EndItem DEF Ends
<1>5. /\ wpc'[w] # "idle" /\ Logged(w)'
      /\ \A v \in Workers \ {w} : wpc'[v] = wpc[v]
  BY <1>1, <1>3 DEF Goto, Logged
<1>6. TxOfWorkers /\ NothingInPart
  BY DEF PartsInv
<1>7. \A v \in Workers : Committing(v)' <=> Committing(v)
  BY <1>1 DEF Committing
<1>8. Committing(w)
  BY <1>1 DEF CountersInv, WorkersOK
<1>9. \A t : Ended(t, "COMMIT_LOG") => Ended(t, "COMMIT_LOG")'
  BY <1>4 DEF Ended
<1>10. \A t : Unlinked(t) => Unlinked(t)'
  BY <1>2, <1>4 DEF Unlinked, IndexItems
<1>11. \A t : t # tx[w] /\ Unended(t) => Unended(t)'
  BY <1>2, <1>4 DEF Unended
<1>12. TxOfWorkers'
  <2>1. \A v \in Workers : wpc'[v] # "idle" =>
          /\ tx[v] # 0
          /\ IF Logged(v)' THEN Ended(tx[v], "COMMIT_LOG")' ELSE Unended(tx[v])'
          /\ ~Committing(v)' => Unlinked(tx[v])'
    <3>. SUFFICES ASSUME NEW v \in Workers, wpc'[v] # "idle"
                  PROVE  /\ tx[v] # 0
                         /\ IF Logged(v)' THEN Ended(tx[v], "COMMIT_LOG")' ELSE Unended(tx[v])'
                         /\ ~Committing(v)' => Unlinked(tx[v])'
      OBVIOUS
    <3>1. CASE v = w
      <4>1. Ended(tx[v], "COMMIT_LOG")'
        BY <1>1, <1>2, <1>4, <3>1 DEF Ended
      <4>2. tx[v] # 0
        BY <1>1, <1>6, <3>1 DEF TxOfWorkers
      <4>. QED  BY <1>5, <1>7, <1>8, <3>1, <4>1, <4>2
    <3>2. CASE v # w
      <4>1. wpc[v] # "idle" /\ tx[v] # tx[w] /\ (Logged(v)' <=> Logged(v))
        BY <1>1, <1>5, <1>6, <3>2 DEF TxOfWorkers, Logged
      <4>. QED  BY <1>1, <1>6, <1>7, <1>9, <1>10, <1>11, <4>1 DEF TxOfWorkers
    <3>. QED  BY <3>1, <3>2
  <2>2. \A u, v \in Workers :
          wpc'[u] # "idle" /\ wpc'[v] # "idle" /\ u # v => tx[u] # tx[v]
    BY <1>1, <1>5, <1>6 DEF TxOfWorkers
  <2>. QED  BY <1>1, <2>1, <2>2 DEF TxOfWorkers
<1>13. NothingInPart'
  <2>1. \A i \in DOMAIN log' : log'[i].type \in IndexItems => i \in DOMAIN log
    BY <1>2, <1>4 DEF IndexItems
  <2>. QED  BY <1>1, <1>3, <1>4, <1>6, <1>7, <1>9, <2>1 DEF NothingInPart
<1>14. HangsOnlyFor'
  BY <1>1, <1>3 DEF HangsOnlyFor, Up
<1>. QED  BY <1>1, <1>4, <1>12, <1>13, <1>14 DEF PartsInv, IdsBounded

LEMMA AbortParts ==
    ASSUME CountersInv, PartsInv, NEW w \in Workers, Abort(w)
    PROVE  PartsInv'
<1>. DEFINE a == MarkItem("ABORT_LOG", tx[w])
<1>1. /\ wpc[w] = "run" /\ Goto(w, "idle") /\ AddLog(a)
      /\ tx' = [tx EXCEPT ![w] = 0] /\ UNCHANGED <<pc, maxTx, n>>
  BY DEF Abort, At, counters
<1>2. a.type = "ABORT_LOG" /\ a.tx = tx[w] /\ a.maxTx = 0
  BY DEF MarkItem, Item
<1>. HIDE DEF a
<1>3. /\ Up /\ ~Logged(w) /\ ~Committing(w)
      /\ wpc \in [Workers -> WorkerPlaces] /\ tx \in [Workers -> Nat]
  BY <1>1, Running, LogFacts DEF CountersInv, WorkersOK, Logged
<1>4. TxOfWorkers /\ NothingInPart /\ Unlinked(tx[w])
  BY <1>1, <1>3 DEF PartsInv, TxOfWorkers
<1>5. /\ TxLog'
      /\ \A i \in DOMAIN log : i \in DOMAIN log' /\ log'[i] = log[i]
      /\ \A i \in DOMAIN log' \ DOMAIN log : log'[i] = a
  BY <1>1, <1>2, <1>3, <1>4, EndItem DEF Ends
<1>6. /\ wpc'[w] = "idle"
      /\ \A v \in Workers \ {w} : wpc'[v] = wpc[v] /\ tx'[v] = tx[v]
  BY <1>1, <1>3 DEF Goto
<1>7. \A v \in Workers : Committing(v)' <=> Committing(v)
  BY <1>1 DEF Committing
<1>8. /\ \A t : Ended(t, "COMMIT_LOG") => Ended(t, "COMMIT_LOG")'
      /\ \A t : Unlinked(t) => Unlinked(t)'
      /\ \A t : t # tx[w] /\ Unended(t) => Unended(t)'
  BY <1>2, <1>5 DEF Ended, Unlinked, Unended, IndexItems
<1>9. TxOfWorkers'
  <2>1. \A v \in Workers : wpc'[v] # "idle" =>
          /\ tx'[v] # 0
          /\ IF Logged(v)' THEN Ended(tx[v], "COMMIT_LOG")' ELSE Unended(tx[v])'
          /\ ~Committing(v)' => Unlinked(tx[v])'
    <3>. SUFFICES ASSUME NEW v \in Workers, wpc'[v] # "idle"
                  PROVE  /\ tx'[v] # 0
                         /\ IF Logged(v)' THEN Ended(tx[v], "COMMIT_LOG")' ELSE Unended(tx[v])'
                         /\ ~Committing(v)' => Unlinked(tx[v])'
      OBVIOUS
    <3>1. v # w
      BY <1>6
    <3>2. /\ wpc[v] # "idle" /\ tx'[v] = tx[v] /\ tx[v] # tx[w]
          /\ (Logged(v)' <=> Logged(v))
      BY <1>1, <1>4, <1>6, <3>1 DEF TxOfWorkers, Logged
    <3>. QED  BY <1>4, <1>7, <1>8, <3>2 DEF TxOfWorkers
  <2>2. \A u, v \in Workers :
          wpc'[u] # "idle" /\ wpc'[v] # "idle" /\ u # v => tx'[u] # tx'[v]
    BY <1>4, <1>6 DEF TxOfWorkers
  <2>. QED  BY <2>1, <2>2 DEF TxOfWorkers
<1>10. NothingInPart'
  <2>1. \A i \in DOMAIN log' : log'[i].type \in IndexItems => i \in DOMAIN log
    BY <1>2, <1>5 DEF IndexItems
  <2>2. \A v \in Workers : Committing(v) => tx'[v] = tx[v]
    BY <1>3, <1>6
  <2>. QED  BY <1>1, <1>3, <1>4, <1>5, <1>7, <1>8, <2>1, <2>2 DEF NothingInPart
<1>11. HangsOnlyFor'
  BY <1>1, <1>3 DEF HangsOnlyFor, Up
<1>. QED  BY <1>1, <1>5, <1>9, <1>10, <1>11, NoId DEF PartsInv, IdsBounded

LEMMA UnlockParts ==
    ASSUME CountersInv, PartsInv, NEW w \in Workers, Unlock(w)
    PROVE  PartsInv'
<1>1. /\ wpc[w] = "unlock" /\ n' = [n EXCEPT ![w] = 0]
      /\ Goto(w, "idle") /\ tx' = [tx EXCEPT ![w] = 0]
      /\ UNCHANGED <<log, pc, maxTx>>
  BY DEF Unlock, At, logVars
<1>2. /\ Up /\ Logged(w) /\ wpc \in [Workers -> WorkerPlaces] /\ tx \in [Workers -> Nat]
      /\ n \in [Workers -> Nat]
  BY <1>1, Running, LogFacts DEF CountersInv, Logged
<1>3. TxLog /\ TxOfWorkers /\ NothingInPart /\ Ended(tx[w], "COMMIT_LOG")
  BY <1>1, <1>2 DEF PartsInv, TxOfWorkers
<1>4. /\ wpc'[w] = "idle"
      /\ \A v \in Workers \ {w} : wpc'[v] = wpc[v] /\ tx'[v] = tx[v] /\ n'[v] = n[v]
  BY <1>1, <1>2 DEF Goto
<1>5. TxLog'
  BY <1>1, <1>3 DEF TxLog, SlotBefore, EndsLast, AbortedUnlinked, Checkpoints, CommitItems,
                    CommittedBefore
<1>6. TxOfWorkers'
  BY <1>1, <1>3, <1>4 DEF TxOfWorkers, Logged, Committing, Ended, Unended, Unlinked
<1>7. NothingInPart'
  <2>1. \A v \in Workers \ {w} : Committing(v) => Committing(v)' /\ tx'[v] = tx[v]
    BY <1>4 DEF Committing
  <2>2. \A i \in DOMAIN log :
          log[i].type \in IndexItems =>
            \/ Ended(log[i].tx, "COMMIT_LOG")
            \/ \E v \in Workers \ {w} : Committing(v) /\ tx[v] = log[i].tx
    BY <1>2, <1>3 DEF NothingInPart
  <2>. QED  BY <1>1, <2>1, <2>2 DEF NothingInPart, Ended
<1>8. HangsOnlyFor'
  BY <1>1, <1>2 DEF HangsOnlyFor, Up
<1>. QED  BY <1>1, <1>5, <1>6, <1>7, <1>8, NoId DEF PartsInv, IdsBounded

LEMMA CheckpointLogParts ==
    ASSUME CountersInv, PartsInv, CheckpointLog
    PROVE  PartsInv'
<1>. DEFINE a == CheckpointItem
            last == Len(log) + 1
<1>1. /\ cpc = "log" /\ AddLog(a) /\ UNCHANGED <<pc, tx, maxTx, wpc, n>>
  BY DEF CheckpointLog, workerVars, counters
<1>2. a.type = "CHECKPOINT_LOG" /\ a.tx = 0 /\ a.maxTx = maxTx
  BY DEF CheckpointItem, MarkItem, Item
<1>. HIDE DEF a
<1>3. /\ Up /\ \A w \in Workers : wpc[w] = "idle" /\ ~Committing(w)
  BY <1>1 DEF CountersInv, WorkersOK
<1>4. TxLog /\ IdsBounded /\ NothingInPart
  BY DEF PartsInv
<1>5. /\ Longer /\ log'[last] = a /\ DOMAIN log' = 1 .. last
      /\ Len(log) + 1 .. Len(log') = {last}
  BY <1>1, AppendedItem
<1>6. Len(log) \in Nat /\ DOMAIN log = 1 .. Len(log)
  BY LogFacts
<1>7. /\ \A i \in DOMAIN log : i \in DOMAIN log' /\ log'[i] = log[i] /\ i < last
      /\ \A i \in DOMAIN log' : i \in DOMAIN log \/ i = last
  BY <1>5, <1>6 DEF Longer
<1>8. \A i \in DOMAIN log : log[i].type \in IndexItems =>
        \E j \in CommitItems : j < last /\ log[j].tx = log[i].tx
  BY <1>3, <1>4, <1>7 DEF NothingInPart, Ended, CommitItems
<1>9. \A t : Ended(t, "COMMIT_LOG") => Ended(t, "COMMIT_LOG")'
  BY <1>7 DEF Ended
<1>10. TxLog'
  <2>1. \A i \in DOMAIN log : SlotBefore(i) => SlotBefore(i)'
    BY <1>7 DEF SlotBefore
  <2>2. \A i \in DOMAIN log' :
          /\ log'[i].type \in LogTypes /\ log'[i].tx \in Ids /\ log'[i].maxTx \in Ids
          /\ log'[i].type # "CHECKPOINT_LOG" => log'[i].tx # 0
          /\ log'[i].type = "INDEX_ITEM_INSERT_LOG" => SlotBefore(i)'
    BY <1>2, <1>4, <1>5, <1>7, <2>1, NoId DEF TxLog, LogTypes, IdsBounded
  <2>3. EndsLast'
    <3>. SUFFICES ASSUME NEW i \in DOMAIN log', NEW j \in DOMAIN log',
                         log'[i].type \in Ends, i < j
                  PROVE  log'[j].tx # log'[i].tx
      BY DEF EndsLast
    <3>1. i \in DOMAIN log
      BY <1>2, <1>5, <1>7 DEF Ends
    <3>2. CASE j \in DOMAIN log
      BY <1>4, <1>7, <3>1, <3>2 DEF TxLog, EndsLast
    <3>3. CASE j = last
      <4>2. log[i].tx # 0
        BY <1>4, <1>7, <3>1 DEF TxLog, Ends
      <4>. QED  BY <1>2, <1>5, <1>7, <3>1, <3>3, <4>2
    <3>. QED  BY <1>7, <3>2, <3>3
  <2>4. AbortedUnlinked'
    BY <1>2, <1>4, <1>5, <1>7 DEF TxLog, AbortedUnlinked, IndexItems
  <2>5. \A c \in Checkpoints' : \A i \in DOMAIN log' :
            i < c /\ log'[i].type \in IndexItems => CommittedBefore(c, log[i].tx)'
    <3>. SUFFICES ASSUME NEW c \in Checkpoints', NEW i \in DOMAIN log', i < c,
                         log'[i].type \in IndexItems
                  PROVE  CommittedBefore(c, log[i].tx)'
      OBVIOUS
    <3>1. i \in DOMAIN log
      BY <1>2, <1>5, <1>7 DEF IndexItems
    <3>2. PICK j \in CommitItems : j < c /\ log[j].tx = log[i].tx
      <4>1. CASE c \in DOMAIN log
        <5>1. c \in Checkpoints
          BY <1>7, <4>1 DEF Checkpoints
        <5>. QED  BY <1>4, <1>7, <3>1, <5>1 DEF TxLog, CommittedBefore
      <4>2. CASE c = last
        BY <1>7, <1>8, <3>1, <4>2
      <4>. QED  BY <1>7, <4>1, <4>2 DEF Checkpoints
    <3>3. j \in CommitItems'
      BY <1>7 DEF CommitItems
    <3>. QED  BY <1>7, <3>1, <3>2, <3>3 DEF CommittedBefore, CommitItems
  <2>. QED  BY <2>2, <2>3, <2>4, <2>5 DEF TxLog
<1>11. TxOfWorkers'
  BY <1>1, <1>3 DEF TxOfWorkers
<1>12. NothingInPart'
  <2>1. \A i \in DOMAIN log' : log'[i].type \in IndexItems => i \in DOMAIN log
    BY <1>2, <1>5, <1>7 DEF IndexItems
  <2>. QED  BY <1>3, <1>4, <1>7, <1>9, <2>1 DEF NothingInPart
<1>13. HangsOnlyFor'
  BY <1>1, <1>3 DEF HangsOnlyFor, Up
<1>. QED  BY <1>1, <1>4, <1>10, <1>11, <1>12, <1>13 DEF PartsInv, IdsBounded

(* Steps that log nothing.                                                  *)
LEMMA QuietParts ==
    ASSUME CountersInv, PartsInv, NEW w \in Workers,
           \/ WriteBackup(w) \/ WriteHeader(w) \/ CommitLock(w)
           \/ NewIndexPage(w) \/ FlushCommit(w)
    PROVE  PartsInv'
<1>1. /\ UNCHANGED <<log, pc, tx, maxTx>>
      /\ \E place \in WorkerPlaces \ {"idle"} : Goto(w, place)
      /\ wpc[w] # "idle"
  BY ZenonT(30) DEF WriteBackup, WriteHeader, CommitLock, NewIndexPage, FlushCommit, FlushLogs, Log!Flush,
         At, logVars, counters, WorkerPlaces
<1>2. Up /\ wpc \in [Workers -> WorkerPlaces] /\ n \in [Workers -> Nat]
  BY <1>1, Running, LogFacts DEF CountersInv
<1>3. Logged(w)' <=> Logged(w)
  BY <1>1, <1>2 DEF WriteBackup, WriteHeader, CommitLock, NewIndexPage, FlushCommit, At, Goto, Logged
<1>4. \A v \in Workers : Committing(v) => Committing(v)'
  BY <1>2 DEF WriteBackup, WriteHeader, CommitLock, NewIndexPage, FlushCommit, Committing
<1>5. \A v \in Workers : v # w => wpc'[v] = wpc[v]
  BY <1>1, <1>2 DEF Goto
<1>6. \A v \in Workers : wpc'[v] # "idle" => wpc[v] # "idle"
  BY <1>1, <1>5
<1>7. \A v \in Workers : Logged(v)' <=> Logged(v)
  BY <1>3, <1>5 DEF Logged
<1>. QED  BY <1>1, <1>2, <1>4, <1>6, <1>7, PartsQuiet

LEMMA RestParts ==
    ASSUME CountersInv, PartsInv,
           \/ CleanPool \/ CheckpointBegin \/ CheckpointPages \/ CheckpointFlush
           \/ \E w \in Workers, h \in Hashes : Repair(w, h)
    PROVE  PartsInv'
<1>1. UNCHANGED <<log, pc, tx, maxTx, wpc, n>>
  BY DEF CleanPool, CheckpointBegin, CheckpointPages, CheckpointFlush, Repair, FlushLogs,
         Log!Flush, logVars, counters, workerVars
<1>2. Up
  BY DEF CleanPool, CheckpointBegin, CheckpointPages, CheckpointFlush, Repair, CountersInv, WorkersOK
<1>. QED  BY <1>1, <1>2, PartsQuiet DEF Logged, Committing

(* Steps that log changes.                                                  *)
LEMMA TakeTx ==
    ASSUME CountersInv, NEW w \in Workers, NEW slotType, NEW type, NEW p, NEW page, NEW s, NEW x,
           slotType \in {"DATA_SLOT_LOG", "INDEX_SLOT_LOG"},
           type \in {"DATA_RECORD_INSERT_LOG", "INDEX_ITEM_INSERT_LOG"},
           type = "INDEX_ITEM_INSERT_LOG" => slotType = "INDEX_SLOT_LOG",
           tx' = tx, Take(w, slotType, type, p, page, s, x)
    PROVE  /\ Longer
           /\ \A j \in Len(log) + 1 .. Len(log') :
                TxItemOK(j, tx[w])' /\ log'[j].type \in {slotType, type}
<1>. DEFINE taken == page[Bitmap] \cup {s}
            a == Item(slotType, tx[w], p, Bitmap, taken)
            b == [Item(type, tx[w], p, s, x) EXCEPT !.id = @ + 1]
<1>1. log' = log \o <<a, b>>
  BY DEF Take
<1>2. /\ a.type = slotType /\ a.tx = tx[w] /\ a.maxTx = 0
      /\ b.type = type /\ b.tx = tx[w] /\ b.maxTx = 0
  BY DEF Item
<1>. HIDE DEF a, b
<1>3. Len(log) \in Nat /\ DOMAIN log = 1 .. Len(log)
  BY LogFacts
<1>4. PICK m \in Nat : m = Len(log) + 1
  BY <1>3
<1>5. /\ IsSeq(log') /\ Len(log') = m + 1
      /\ \A i \in DOMAIN log : log'[i] = log[i]
      /\ log'[m] = a /\ log'[m + 1] = b
  BY <1>1, <1>3, <1>4, TwoMoreFacts DEF CountersInv, LogOK
<1>6. DOMAIN log' = 1 .. m + 1 /\ m \in DOMAIN log'
  BY <1>3, <1>4, <1>5, SeqFacts
<1>7. Longer
  BY <1>3, <1>4, <1>5 DEF Longer
<1>8. \A j \in Len(log) + 1 .. Len(log') : j = m \/ (j = m + 1 /\ j - 1 = m)
  BY <1>4, <1>5
<1>9. \A j \in Len(log) + 1 .. Len(log') :
        /\ log'[j].type \in {slotType, type} /\ log'[j].tx = tx[w] /\ log'[j].maxTx = 0
        /\ log'[j].type = "INDEX_ITEM_INSERT_LOG" => SlotBefore(j)'
  BY <1>2, <1>5, <1>6, <1>8 DEF SlotBefore
<1>. QED  BY <1>7, <1>9, NoId DEF TxItemOK, LogTypes, Ends

LEMMA ChangeTx ==
    ASSUME CountersInv, NEW w \in Workers, NEW type, NEW p, NEW o, NEW x,
           type \in {"DATA_RECORD_UPDATE_LOG", "INDEX_ITEM_UPDATE_LOG"},
           tx' = tx, Change(w, type, p, o, x)
    PROVE  /\ Longer
           /\ \A j \in Len(log) + 1 .. Len(log') :
                TxItemOK(j, tx[w])' /\ log'[j].type = type
<1>. DEFINE a == Item(type, tx[w], p, o, x)
<1>1. AddLog(a)
  BY DEF Change
<1>2. a.type = type /\ a.tx = tx[w] /\ a.maxTx = 0
  BY DEF Item
<1>. HIDE DEF a
<1>3. /\ Longer /\ log'[Len(log) + 1] = a
      /\ Len(log) + 1 .. Len(log') = {Len(log) + 1}
  BY <1>1, AppendedItem
<1>. QED  BY <1>2, <1>3, NoId DEF TxItemOK, LogTypes, Ends

LEMMA GrowParts ==
    ASSUME CountersInv, PartsInv, NEW w \in Workers,
           Stamp(w) \/ Link(w) \/ PutIndexItem(w) \/ \E k \in Keys : Write(w, k)
    PROVE  PartsInv'
<1>1. /\ UNCHANGED <<pc, tx, maxTx>>
      /\ wpc' = wpc \/ \E place \in WorkerPlaces \ {"idle", "flush", "unlock"} : Goto(w, place)
      /\ wpc[w] \in {"run", "stamp", "link", "index"}
  BY ZenonT(60) DEF Stamp, Link, PutIndexItem, Write, NextItem, At, WorkerPlaces, counters
<1>2. Up /\ wpc \in [Workers -> WorkerPlaces] /\ n \in [Workers -> Nat]
  BY <1>1, Running, LogFacts DEF CountersInv
<1>3. /\ wpc[w] # "idle" /\ wpc'[w] # "idle" /\ ~Logged(w) /\ ~Logged(w)'
      /\ \A v \in Workers : v # w => wpc'[v] = wpc[v]
  BY <1>1, <1>2 DEF Goto, Logged
<1>4. \A v \in Workers : Committing(v) => Committing(v)'
  <2>1. n' = n \/ n' = [n EXCEPT ![w] = @ + 1]
    BY DEF Stamp, Link, PutIndexItem, Write, NextItem
  <2>. QED  BY <1>2, <2>1 DEF Committing
<1>5. /\ Longer
      /\ \A j \in Len(log) + 1 .. Len(log') :
            /\ TxItemOK(j, tx[w])'
            /\ log'[j].type \notin Ends
            /\ log'[j].type \in IndexItems => Committing(w)
  <2>1. CASE Stamp(w)
    <3>1. PICK p, o, x : Change(w, "DATA_RECORD_UPDATE_LOG", p, o, x)
      BY <2>1 DEF Stamp
    <3>. QED  BY <1>1, <3>1, ChangeTx DEF Ends, IndexItems
  <2>2. CASE Link(w)
    <3>1. PICK p, o, x : Change(w, "INDEX_ITEM_UPDATE_LOG", p, o, x)
      BY <2>2 DEF Link
    <3>2. Committing(w)
      BY <2>2 DEF Link, At, CountersInv, WorkersOK
    <3>. QED  BY <1>1, <3>1, <3>2, ChangeTx DEF Ends
  <2>3. CASE PutIndexItem(w)
    <3>1. PICK p, page, s, x : Take(w, "INDEX_SLOT_LOG", "INDEX_ITEM_INSERT_LOG", p, page, s, x)
      BY <2>3 DEF PutIndexItem
    <3>2. Committing(w)
      BY <2>3 DEF PutIndexItem, At, CountersInv, WorkersOK
    <3>. QED  BY <1>1, <3>1, <3>2, TakeTx DEF Ends
  <2>4. CASE \E k \in Keys : Write(w, k)
    <3>1. PICK p, page, s, x : Take(w, "DATA_SLOT_LOG", "DATA_RECORD_INSERT_LOG", p, page, s, x)
      BY <2>4 DEF Write
    <3>. QED  BY <1>1, <3>1, TakeTx DEF Ends, IndexItems
  <2>. QED  BY <2>1, <2>2, <2>3, <2>4
<1>. QED  BY <1>1, <1>2, <1>3, <1>4, <1>5, PartsGrow

(* A crash.                                                                 *)
LEMMA FaultParts ==
    ASSUME CountersInv, PartsInv, Fault
    PROVE  PartsInv'
<1>1. Stop /\ (Log!Crash \/ Log!Flush)
  BY DEF Fault, Crash, TornPage, TornHeader
<1>2. Len(log) \in Nat /\ durable \in 0 .. Len(log)
  BY LogFacts
<1>3. \E m \in 0 .. Len(log) : log' = SubSeq(log, 1, m)
  <2>1. CASE Log!Crash
    BY <1>2, <2>1 DEF Log!Crash
  <2>2. CASE Log!Flush
    BY <1>2, <2>2, WholeLog DEF Log!Flush
  <2>. QED  BY <1>1, <2>1, <2>2
<1>4. TxLog'
  BY <1>3, TxLogCut DEF PartsInv
<1>5. pc' = "down" /\ \A w \in Workers : wpc'[w] = "idle"
  BY <1>1 DEF Stop
<1>6. IdsBounded'
  BY <1>1, NoId DEF Stop, IdsBounded
<1>. QED  BY <1>4, <1>5, <1>6 DEF PartsInv, TxOfWorkers, NothingInPart, HangsOnlyFor, Up

-------------------------------------------------------------------------------
(* redo_pass                                                                *)

(* Induction over the natural numbers, for what Redone and CommitsIn compute.*)
LEMMA LeastNat ==
    ASSUME NEW S \in SUBSET Nat, S # {}
    PROVE  \E m \in S : \A i \in S : m <= i
<1>1. IsWellFoundedOn(OpToRel(<, Nat), Nat)
  BY NatLessThanWellFounded
<1>2. PICK m \in S : \A i \in S : ~(<<i, m>> \in OpToRel(<, Nat))
  BY <1>1, WFMin
<1>3. \A i \in S : ~(i < m)
  BY <1>2, Zenon DEF OpToRel
<1>. QED  BY <1>3

LEMMA Induct ==
    ASSUME NEW T, 0 \in T, \A i \in Nat : i \in T => i + 1 \in T
    PROVE  Nat \subseteq T
<1>. SUFFICES ASSUME Nat \ T # {} PROVE FALSE
  OBVIOUS
<1>1. PICK m \in Nat \ T : \A i \in Nat \ T : m <= i
  BY LeastNat
<1>2. m # 0 /\ m - 1 \in Nat
  BY <1>1
<1>3. m - 1 \in T
  BY <1>1, <1>2
<1>. QED  BY <1>1, <1>2, <1>3

(* The same between two numbers.                                            *)
LEMMA InductUpTo ==
    ASSUME NEW a \in Nat, NEW b \in Nat, NEW T, a \in T,
           \A i \in a .. b - 1 : i \in T => i + 1 \in T
    PROVE  a .. b \subseteq T
<1>. DEFINE D == {i \in a .. b : i \notin T}
<1>. SUFFICES ASSUME D # {} PROVE FALSE
  OBVIOUS
<1>1. D \in SUBSET Nat
  OBVIOUS
<1>2. PICK m \in D : \A i \in D : m <= i
  <2>. HIDE DEF D
  <2>. QED  BY <1>1, LeastNat
<1>3. m \in a .. b /\ m # a /\ m \notin T
  BY <1>2
<1>4. m - 1 \in a .. b - 1 /\ m - 1 \in a .. b /\ ~(m <= m - 1)
  BY <1>3
<1>5. m - 1 \in T
  BY <1>2, <1>4
<1>6. (m - 1) + 1 \in T
  BY <1>4, <1>5
<1>7. (m - 1) + 1 = m
  BY <1>3
<1>. QED  BY <1>3, <1>6, <1>7

(* f[i] is what has been made of the items after c up to i.                  *)
NothingRedone == [mem |-> mem, open |-> {}, undo |-> {}, hung |-> FALSE]

Redoes(f, c, k) ==
    f = [i \in c .. k |-> IF i = c THEN NothingRedone ELSE RedoItem(f[i - 1], log[i])]

LEMMA RedoesAt ==
    ASSUME NEW c \in Nat, NEW k \in Nat, NEW f, Redoes(f, c, k), NEW i \in c .. k
    PROVE  f[i] = IF i = c THEN NothingRedone ELSE RedoItem(f[i - 1], log[i])
BY DEF Redoes

LEMMA RedoesExists ==
    ASSUME NEW c \in Nat, NEW b \in Nat, c <= b
    PROVE  \E f : Redoes(f, c, b)
<1>. DEFINE T == {k \in Nat : \E f : Redoes(f, c, k)}
<1>1. c \in T
  <2>. DEFINE f == [i \in c .. c |-> NothingRedone]
  <2>1. \A i \in c .. c : i = c
    OBVIOUS
  <2>2. Redoes(f, c, c)
    BY <2>1, Zenon DEF Redoes
  <2>. QED  BY <2>2
<1>2. ASSUME NEW k \in c .. b - 1, k \in T PROVE k + 1 \in T
  <2>1. PICK f : Redoes(f, c, k)
    BY <1>2
  <2>. DEFINE g == [i \in c .. k + 1 |-> IF i = k + 1 THEN RedoItem(f[i - 1], log[i]) ELSE f[i]]
  <2>2. \A i \in c .. k : i # k + 1 /\ i \in c .. k + 1 /\ k \in Nat
    OBVIOUS
  <2>3. \A i \in c .. k :
          g[i] = f[i] /\ f[i] = IF i = c THEN NothingRedone ELSE RedoItem(f[i - 1], log[i])
    <3>1. \A i \in c .. k : g[i] = f[i]
      BY <2>2
    <3>. HIDE DEF g
    <3>. QED  BY <2>1, <2>2, <3>1, RedoesAt
  <2>4. \A i \in c .. k + 1 : i = c \/ i - 1 \in c .. k
    OBVIOUS
  <2>5. \A i \in c .. k + 1 :
          g[i] = IF i = c THEN NothingRedone ELSE RedoItem(g[i - 1], log[i])
    <3>. SUFFICES ASSUME NEW i \in c .. k + 1
                  PROVE  g[i] = IF i = c THEN NothingRedone ELSE RedoItem(g[i - 1], log[i])
      OBVIOUS
    <3>1. CASE i = k + 1
      <4>1. g[i] = RedoItem(f[i - 1], log[i]) /\ i # c /\ i - 1 \in c .. k
        BY <3>1
      <4>. HIDE DEF g
      <4>. QED  BY <2>3, <4>1
    <3>2. CASE i # k + 1
      <4>1. i \in c .. k
        BY <3>2
      <4>. HIDE DEF g
      <4>. QED  BY <2>3, <2>4, <4>1
    <3>. QED  BY <3>1, <3>2
  <2>6. Redoes(g, c, k + 1)
    <3>1. g = [i \in c .. k + 1 |-> g[i]]
      OBVIOUS
    <3>. HIDE DEF g
    <3>. QED  BY <2>5, <3>1 DEF Redoes
  <2>7. k + 1 \in Nat
    OBVIOUS
  <2>. QED  BY <2>6, <2>7
<1>3. b \in c .. b
  OBVIOUS
<1>. QED
  <2>. HIDE DEF T
  <2>1. c .. b \subseteq T
    BY <1>1, <1>2, InductUpTo
  <2>2. b \in T
    BY <1>3, <2>1
  <2>. QED  BY <2>2 DEF T

LEMMA RedoneIs ==
    ASSUME CountersInv, NEW c \in 0 .. Len(log)
    PROVE  \E f : Redoes(f, c, Len(log)) /\ Redone(c) = f[Len(log)]
<1>. DEFINE f == CHOOSE f : Redoes(f, c, Len(log))
<1>1. c \in Nat /\ Len(log) \in Nat /\ c <= Len(log)
  BY LogFacts
<1>2. Redoes(f, c, Len(log))
  BY <1>1, RedoesExists
<1>3. Redone(c) = f[Len(log)]
  BY DEF Redone, Redoes, NothingRedone
<1>. QED  BY <1>2, <1>3

IsRedo(r) ==
    /\ r = [mem |-> r.mem, open |-> r.open, undo |-> r.undo, hung |-> r.hung]
    /\ r.hung \in BOOLEAN

CanOpen(r, x) == FileOf(x.page) \in r.open \/ Cardinality(r.open) < MaxFds

RedoStep(r, x, q) ==
    /\ IsRedo(q)
    /\ r.hung => q = r
    /\ ~r.hung /\ x.type \in NoChange =>
        /\ ~q.hung /\ q.open = r.open /\ q.mem = r.mem
        /\ q.undo = IF x.type \in Ends THEN r.undo \ {x.tx} ELSE r.undo
    /\ ~r.hung /\ x.type \notin NoChange /\ CanOpen(r, x) =>
        /\ ~q.hung /\ q.open = r.open \cup {FileOf(x.page)}
        /\ q.mem = [r.mem EXCEPT ![x.page][x.offset] = x.new]
        /\ q.undo = IF x.type \in NeedUndo THEN r.undo \cup {x.tx} ELSE r.undo
    /\ ~r.hung /\ x.type \notin NoChange /\ ~CanOpen(r, x) => q.hung /\ q.mem = r.mem

LEMMA RedoItemFacts ==
    ASSUME NEW r, NEW x, NEW q, IsRedo(r), q = RedoItem(r, x)
    PROVE  RedoStep(r, x, q)
<1>1. CASE r.hung
  BY <1>1 DEF RedoItem, RedoStep
<1>2. CASE ~r.hung /\ x.type \in NoChange
  <2>1. q = [r EXCEPT !.undo = IF x.type \in Ends THEN @ \ {x.tx} ELSE @]
    BY <1>2 DEF RedoItem
  <2>. QED  BY <1>2, <2>1 DEF IsRedo, RedoStep
<1>3. CASE ~r.hung /\ x.type \notin NoChange /\ CanOpen(r, x)
  <2>1. q = [r EXCEPT !.open = @ \cup {FileOf(x.page)},
                      !.mem = [@ EXCEPT ![x.page][x.offset] = x.new],
                      !.undo = IF x.type \in NeedUndo THEN @ \cup {x.tx} ELSE @]
    BY <1>3 DEF RedoItem, RedoChange, CanOpen
  <2>. QED  BY <1>3, <2>1 DEF IsRedo, RedoStep
<1>4. CASE ~r.hung /\ x.type \notin NoChange /\ ~CanOpen(r, x)
  <2>1. q = [r EXCEPT !.hung = TRUE]
    BY <1>4 DEF RedoItem, RedoChange, CanOpen
  <2>. QED  BY <1>4, <2>1 DEF IsRedo, RedoStep
<1>. QED  BY <1>1, <1>2, <1>3, <1>4 DEF RedoStep

(* What is there after the items up to k: the files of the changes are open, *)
(* or they were too many; to undo is what has changed and not ended.         *)
ChangesIn(c, k) == {i \in c + 1 .. k : log[i].type \notin NoChange}
FilesIn(c, k) == {FileOf(log[i].page) : i \in ChangesIn(c, k)}
EndedIn(i, k) == \E j \in i + 1 .. k : log[j].type \in Ends /\ log[j].tx = log[i].tx

Redoing(r, c, k) ==
    /\ IsRedo(r)
    /\ IsFiniteSet(FilesIn(c, k))
    /\ IF r.hung THEN Cardinality(FilesIn(c, k)) > MaxFds
       ELSE /\ r.open = FilesIn(c, k)
            /\ \A i \in c + 1 .. k :
                 log[i].type \in NeedUndo => EndedIn(i, k) \/ log[i].tx \in r.undo
            /\ \A t \in r.undo : \E i \in c + 1 .. k :
                 log[i].type \in NeedUndo /\ log[i].tx = t /\ ~EndedIn(i, k)

LEMMA FilesNext ==
    ASSUME NEW c \in Nat, NEW k \in Nat, c <= k, NEW m, m = k + 1
    PROVE  FilesIn(c, m) = IF log[m].type \in NoChange THEN FilesIn(c, k)
                           ELSE FilesIn(c, k) \cup {FileOf(log[m].page)}
<1>1. \A i : i \in c + 1 .. m <=> (i \in c + 1 .. k \/ i = m)
  OBVIOUS
<1>2. \A i : i \in ChangesIn(c, m) <=>
              (i \in ChangesIn(c, k) \/ (i = m /\ log[m].type \notin NoChange))
  BY <1>1 DEF ChangesIn
<1>. QED  BY <1>2 DEF FilesIn

LEMMA RedoingNext ==
    ASSUME NEW c \in Nat, NEW k \in Nat, c <= k, NEW m, m = k + 1,
           NEW r, Redoing(r, c, k), NEW q, q = RedoItem(r, log[m])
    PROVE  Redoing(q, c, m)
<1>0. RedoStep(r, log[m], q)
  BY RedoItemFacts DEF Redoing
<1>1. /\ IsRedo(q)
      /\ r.hung => q = r
      /\ ~r.hung /\ log[m].type \in NoChange =>
            /\ ~q.hung /\ q.open = r.open
            /\ q.undo = IF log[m].type \in Ends THEN r.undo \ {log[m].tx} ELSE r.undo
      /\ ~r.hung /\ log[m].type \notin NoChange /\ CanOpen(r, log[m]) =>
            /\ ~q.hung /\ q.open = r.open \cup {FileOf(log[m].page)}
            /\ q.undo = IF log[m].type \in NeedUndo THEN r.undo \cup {log[m].tx} ELSE r.undo
      /\ ~r.hung /\ log[m].type \notin NoChange /\ ~CanOpen(r, log[m]) => q.hung
  BY <1>0 DEF RedoStep
<1>. DEFINE F == FilesIn(c, k)
<1>2. FilesIn(c, m) = IF log[m].type \in NoChange THEN F ELSE F \cup {FileOf(log[m].page)}
  BY FilesNext
<1>3. IsFiniteSet(F) /\ IsFiniteSet(FilesIn(c, m))
  BY <1>2, FS_AddElement DEF Redoing
<1>4. \A i \in c + 1 .. k : i \in c + 1 .. m /\ i # m
  OBVIOUS
<1>5. \A i \in c + 1 .. m : i \in c + 1 .. k \/ i = m
  OBVIOUS
<1>6. m \in c + 1 .. m /\ m + 1 .. m = {}
  OBVIOUS
<1>7. \A i \in c + 1 .. k :
        EndedIn(i, m) <=> EndedIn(i, k) \/ (log[m].type \in Ends /\ log[m].tx = log[i].tx)
  <2>1. \A i \in c + 1 .. k : \A j : j \in i + 1 .. m <=> j \in i + 1 .. k \/ j = m
    OBVIOUS
  <2>. QED  BY <2>1 DEF EndedIn
<1>8. ~EndedIn(m, m)
  BY <1>6 DEF EndedIn
<1>9. NoChange = Ends \cup {"CHECKPOINT_LOG"} /\ \A x \in NeedUndo : x \notin NoChange
  BY DEF NoChange, NeedUndo, Ends
<1>10. CASE r.hung
  <2>1. F \subseteq FilesIn(c, m)
    BY <1>2
  <2>2. Cardinality(F) <= Cardinality(FilesIn(c, m))
    BY <1>3, <2>1, FS_Subset
  <2>3. Cardinality(F) > MaxFds
    BY <1>10 DEF Redoing
  <2>4. Cardinality(F) \in Nat /\ Cardinality(FilesIn(c, m)) \in Nat
    BY <1>3, FS_CardinalityType
  <2>5. Cardinality(FilesIn(c, m)) > MaxFds
    BY <2>2, <2>3, <2>4, SizesAssumption
  <2>. QED  BY <1>1, <1>3, <1>10, <2>5 DEF Redoing
<1>11. CASE ~r.hung
  <2>0. /\ r.open = F
        /\ \A i \in c + 1 .. k :
             log[i].type \in NeedUndo => EndedIn(i, k) \/ log[i].tx \in r.undo
        /\ \A t \in r.undo : \E i \in c + 1 .. k :
             log[i].type \in NeedUndo /\ log[i].tx = t /\ ~EndedIn(i, k)
    BY <1>11 DEF Redoing
  <2>1. CASE log[m].type \in NoChange
    <3>1. /\ ~q.hung /\ q.open = FilesIn(c, m)
          /\ q.undo = IF log[m].type \in Ends THEN r.undo \ {log[m].tx} ELSE r.undo
      BY <1>1, <1>2, <1>11, <2>0, <2>1
    <3>2. \A i \in c + 1 .. m :
            log[i].type \in NeedUndo => EndedIn(i, m) \/ log[i].tx \in q.undo
      BY <1>5, <1>7, <1>9, <2>0, <2>1, <3>1
    <3>3. \A t \in q.undo : \E i \in c + 1 .. m :
            log[i].type \in NeedUndo /\ log[i].tx = t /\ ~EndedIn(i, m)
      BY <1>4, <1>7, <2>0, <3>1
    <3>. QED  BY <1>1, <1>3, <3>1, <3>2, <3>3 DEF Redoing
  <2>2. CASE log[m].type \notin NoChange /\ CanOpen(r, log[m])
    <3>1. /\ ~q.hung /\ q.open = FilesIn(c, m)
          /\ q.undo = IF log[m].type \in NeedUndo THEN r.undo \cup {log[m].tx} ELSE r.undo
      BY <1>1, <1>2, <1>11, <2>0, <2>2
    <3>0. log[m].type \notin Ends
      BY <1>9, <2>2
    <3>2. \A i \in c + 1 .. m :
            log[i].type \in NeedUndo => EndedIn(i, m) \/ log[i].tx \in q.undo
      BY <1>5, <1>7, <2>0, <3>1
    <3>3. \A t \in q.undo : \E i \in c + 1 .. m :
            log[i].type \in NeedUndo /\ log[i].tx = t /\ ~EndedIn(i, m)
      BY <1>4, <1>6, <1>7, <1>8, <2>0, <3>0, <3>1
    <3>. QED  BY <1>1, <1>3, <3>1, <3>2, <3>3 DEF Redoing
  <2>3. CASE log[m].type \notin NoChange /\ ~CanOpen(r, log[m])
    <3>1. FileOf(log[m].page) \notin F /\ ~(Cardinality(F) < MaxFds)
      BY <2>0, <2>3 DEF CanOpen
    <3>2. Cardinality(F) \in Nat /\ Cardinality(FilesIn(c, m)) = Cardinality(F) + 1
      BY <1>2, <1>3, <2>3, <3>1, FS_AddElement, FS_CardinalityType
    <3>3. Cardinality(FilesIn(c, m)) > MaxFds
      BY <3>1, <3>2, SizesAssumption
    <3>. QED  BY <1>1, <1>3, <1>11, <2>3, <3>3 DEF Redoing
  <2>. QED  BY <2>1, <2>2, <2>3
<1>. QED  BY <1>1, <1>10, <1>11 DEF Redoing, IsRedo

LEMMA RedoneFacts ==
    ASSUME CountersInv, NEW c \in 0 .. Len(log)
    PROVE  Redoing(Redone(c), c, Len(log))
<1>1. c \in Nat /\ Len(log) \in Nat /\ c <= Len(log) /\ Len(log) \in c .. Len(log)
  BY LogFacts
<1>2. PICK f : Redoes(f, c, Len(log)) /\ Redone(c) = f[Len(log)]
  BY RedoneIs
<1>. DEFINE T == {k \in c .. Len(log) : Redoing(f[k], c, k)}
<1>3. c \in T
  <2>1. c \in c .. Len(log) /\ c + 1 .. c = {}
    BY <1>1
  <2>2. f[c] = NothingRedone
    BY <1>1, <1>2, <2>1, RedoesAt
  <2>3. FilesIn(c, c) = {}
    BY <2>1 DEF FilesIn, ChangesIn
  <2>4. Redoing(f[c], c, c)
    BY <2>1, <2>2, <2>3, FS_EmptySet DEF Redoing, NothingRedone, IsRedo
  <2>. QED  BY <2>1, <2>4
<1>4. ASSUME NEW k \in c .. Len(log) - 1, k \in T PROVE k + 1 \in T
  <2>1. PICK m \in c .. Len(log) : m = k + 1 /\ m # c /\ m - 1 = k /\ k \in Nat /\ c <= k
    BY <1>1
  <2>2. f[m] = RedoItem(f[k], log[m])
    BY <1>1, <1>2, <2>1, RedoesAt
  <2>3. Redoing(f[k], c, k)
    BY <1>4
  <2>4. Redoing(f[m], c, m)
    BY <1>1, <2>1, <2>2, <2>3, RedoingNext
  <2>. QED  BY <2>1, <2>4
<1>. HIDE DEF T
<1>5. c .. Len(log) \subseteq T
  BY <1>1, <1>3, <1>4, InductUpTo
<1>. QED  BY <1>1, <1>2, <1>5 DEF T

LEMMA SameReasons ==
    ASSUME UNCHANGED log
    PROVE  (Unfinished' <=> Unfinished) /\ (TooManyFiles' <=> TooManyFiles)
<1>1. Unfinished' <=> Unfinished
  BY DEF Unfinished, Ended
<1>2. TooManyFiles' <=> TooManyFiles
  BY DEF TooManyFiles
<1>. QED  BY <1>1, <1>2

(* recover() goes on only if all that it saw linked in the log has ended,    *)
(* and hangs only for what the log has.                                     *)
LEMMA RecoverParts ==
    ASSUME CountersInv, PartsInv, Recover
    PROVE  PartsInv'
<1>1. pc = "down" /\ UNCHANGED <<log, wpc, tx, n>>
  BY DEF Recover, workerVars
<1>2. PICK c \in 0 .. Len(log) :
        /\ IsLastCheckpoint(c) /\ RestoreCounters(c)
        /\ IF TimestampsRise(c) THEN UndoPass(Redone(c)) ELSE pc' = "failed"
  BY DEF Recover
<1>3. pc' = IF Redone(c).hung \/ Redone(c).undo # {} THEN "hung" ELSE "up"
  BY <1>2, AssertionHolds DEF UndoPass
<1>4. Redoing(Redone(c), c, Len(log))
  BY RedoneFacts
<1>5. PICK r : r = Redone(c)
  OBVIOUS
<1>6. PICK last \in Nat : last = Len(log)
  BY LogFacts
<1>7. DOMAIN log = 1 .. last /\ c \in Nat /\ c <= last
  BY <1>6, LogFacts
<1>8. TxLog /\ TxOfWorkers
  BY DEF PartsInv
<1>9. TxLog' /\ TxOfWorkers'
  BY <1>1, <1>8 DEF TxLog, SlotBefore, EndsLast, AbortedUnlinked, Checkpoints, CommitItems,
       CommittedBefore, TxOfWorkers, Logged, Ended, Unended, Unlinked, Committing
<1>10. c + 1 .. last \subseteq DOMAIN log /\ \A i \in DOMAIN log : i <= c \/ i \in c + 1 .. last
  BY <1>7
<1>11. ASSUME pc' = "up", NEW i \in DOMAIN log, log[i].type \in IndexItems
       PROVE  Ended(log[i].tx, "COMMIT_LOG")
  <2>1. ~r.hung /\ r.undo = {}
    BY <1>3, <1>5, <1>11
  <2>2. \A j \in c + 1 .. last :
            log[j].type \in NeedUndo => EndedIn(j, last)
    BY <1>4, <1>5, <1>6, <2>1 DEF Redoing
  <2>3. ASSUME NEW j \in c + 1 .. last, log[j].type \in NeedUndo, log[j].tx = log[i].tx
        PROVE  Ended(log[i].tx, "COMMIT_LOG")
    <3>1. PICK e \in j + 1 .. last : log[e].type \in Ends /\ log[e].tx = log[j].tx
      BY <2>2, <2>3 DEF EndedIn
    <3>2. e \in DOMAIN log
      BY <1>7, <3>1
    <3>3. log[e].type # "ABORT_LOG"
      BY <1>8, <1>11, <2>3, <3>1, <3>2 DEF TxLog, AbortedUnlinked
    <3>. QED  BY <2>3, <3>1, <3>2, <3>3 DEF Ended, Ends
  <2>4. CASE i \in c + 1 .. last
    <3>1. CASE log[i].type = "INDEX_ITEM_UPDATE_LOG"
      BY <2>3, <2>4, <3>1 DEF NeedUndo
    <3>2. CASE log[i].type = "INDEX_ITEM_INSERT_LOG"
      <4>1. SlotBefore(i)
        BY <1>8, <3>2 DEF TxLog
      <4>2. i - 1 \in c + 1 .. last
        <5>1. c # 0 => log[c].type = "CHECKPOINT_LOG"
          BY <1>2, <1>7 DEF IsLastCheckpoint
        <5>2. i - 1 \in DOMAIN log /\ i - 1 # c
          BY <1>7, <4>1, <5>1 DEF SlotBefore
        <5>. QED  BY <1>7, <2>4, <5>2
      <4>. QED  BY <2>3, <4>1, <4>2 DEF SlotBefore, NeedUndo
    <3>. QED  BY <1>11, <3>1, <3>2 DEF IndexItems
  <2>5. CASE i <= c
    <3>1. c \in Checkpoints /\ i # c
      <4>1. c > 0 /\ c \in DOMAIN log
        BY <1>7, <2>5
      <4>2. log[c].type = "CHECKPOINT_LOG"
        BY <1>2, <4>1 DEF IsLastCheckpoint
      <4>. QED  BY <1>11, <4>1, <4>2 DEF Checkpoints, IndexItems
    <3>2. i < c
      BY <1>7, <2>5, <3>1
    <3>3. CommittedBefore(c, log[i].tx)
      BY <1>8, <1>11, <3>1, <3>2 DEF TxLog
    <3>. QED  BY <3>3 DEF CommittedBefore, CommitItems, Ended
  <2>. QED  BY <1>10, <2>4, <2>5
<1>12. NothingInPart'
  BY <1>1, <1>11 DEF NothingInPart, Up, Ended
<1>13. ASSUME pc' = "hung" PROVE Unfinished \/ TooManyFiles
  <2>1. CASE r.hung
    <3>1. Cardinality(FilesIn(c, last)) > MaxFds
      BY <1>4, <1>5, <1>6, <2>1 DEF Redoing
    <3>2. ChangesIn(c, last) = {j \in DOMAIN log : j > c /\ log[j].type \notin NoChange}
      <4>1. \A j : j \in c + 1 .. last <=> j \in DOMAIN log /\ j > c
        BY <1>7
      <4>. QED  BY <4>1 DEF ChangesIn
    <3>3. \A j \in DOMAIN log : j > c => log[j].type # "CHECKPOINT_LOG"
      BY <1>2, <1>6, <1>7 DEF IsLastCheckpoint, After
    <3>. QED  BY <3>1, <3>2, <3>3, Zenon DEF TooManyFiles, FilesIn
  <2>2. CASE ~r.hung
    <3>1. r.undo # {}
      BY <1>3, <1>5, <1>13, <2>2
    <3>2. PICK i \in c + 1 .. last : log[i].type \in NeedUndo /\ ~EndedIn(i, last)
      BY <1>4, <1>5, <1>6, <2>2, <3>1 DEF Redoing
    <3>3. i \in DOMAIN log /\ \A j \in DOMAIN log : j < i \/ j = i \/ j \in i + 1 .. last
      BY <1>7, <3>2
    <3>4. ASSUME NEW j \in DOMAIN log, log[j].type \in Ends, log[j].tx = log[i].tx
          PROVE  FALSE
      <4>1. CASE j < i
        BY <1>8, <3>3, <3>4, <4>1 DEF TxLog, EndsLast
      <4>2. CASE j = i
        BY <3>2, <3>4, <4>2 DEF NeedUndo, Ends
      <4>3. CASE j \in i + 1 .. last
        BY <3>2, <3>4, <4>3 DEF EndedIn
      <4>. QED  BY <3>3, <4>1, <4>2, <4>3
    <3>. QED  BY <3>2, <3>3, <3>4 DEF Unfinished, Ended
  <2>. QED  BY <2>1, <2>2
<1>14. HangsOnlyFor'
  BY <1>1, <1>13, SameReasons DEF HangsOnlyFor
<1>15. IdsBounded'
  <2>1. After(c) \subseteq DOMAIN log /\ (c # 0 => c \in DOMAIN log)
    BY <1>6, <1>7 DEF After
  <2>2. TxAt(c) \in Ids /\ \A i \in After(c) : log[i].tx \in Ids
    BY <1>8, <2>1, NoId DEF TxLog, TxAt
  <2>3. maxTx' \in Ids
    BY <1>2, <2>2 DEF RestoreCounters
  <2>. QED  BY <1>1, <2>3 DEF PartsInv, IdsBounded
<1>. QED  BY <1>9, <1>12, <1>14, <1>15 DEF PartsInv

LEMMA StutterParts ==
    ASSUME PartsInv, UNCHANGED vars
    PROVE  PartsInv'
<1>1. UNCHANGED <<log, pc, wpc, tx, maxTx, n>>
  BY DEF vars, fileVars, logVars, counters, workerVars
<1>2. TxLog' /\ TxOfWorkers'
  BY <1>1 DEF PartsInv, TxLog, SlotBefore, EndsLast, AbortedUnlinked, Checkpoints, CommitItems,
       CommittedBefore, TxOfWorkers, Logged, Ended, Unended, Unlinked, Committing
<1>3. NothingInPart' /\ HangsOnlyFor'
  BY <1>1, SameReasons DEF PartsInv, NothingInPart, HangsOnlyFor, Up, Ended, Committing
<1>. QED  BY <1>1, <1>2, <1>3 DEF PartsInv, IdsBounded

LEMMA TransactionParts ==
    ASSUME CountersInv, PartsInv, NEW w \in Workers, Transaction(w)
    PROVE  PartsInv'
<1>1. CASE Begin(w)
  BY <1>1, BeginParts
<1>2. CASE CountPage(w)
  BY <1>2, QuietParts DEF CountPage
<1>3. CASE Commit(w)
  BY <1>3, QuietParts, GrowParts, AddCommitParts, UnlockParts DEF Commit
<1>4. CASE Abort(w)
  BY <1>4, AbortParts
<1>5. CASE \E k \in Keys : Write(w, k)
  BY <1>5, GrowParts
<1>6. CASE \E h \in Hashes : Repair(w, h)
  BY <1>6, RestParts
<1>. QED  BY <1>1, <1>2, <1>3, <1>4, <1>5, <1>6 DEF Transaction

LEMMA PartsInit == Init => PartsInv
<1>. SUFFICES ASSUME Init PROVE PartsInv
  OBVIOUS
<1>1. /\ log = <<>> /\ pc = "down" /\ DOMAIN log = {}
      /\ \A w \in Workers : wpc[w] = "idle"
  BY DEF Init, Log!Init
<1>2. IdsBounded
  BY NoId DEF Init, IdsBounded
<1>. QED  BY <1>1, <1>2 DEF PartsInv, TxLog, EndsLast, AbortedUnlinked, Checkpoints, TxOfWorkers,
                      NothingInPart, HangsOnlyFor, Up

(***************************************************************************)
(* The invariant that the next two properties follow from.                  *)
(***************************************************************************)
THEOREM PartsInvariant == Spec => []PartsInv
<1>1. CountersInv /\ PartsInv /\ [Next]_vars => PartsInv'
  BY RecoverParts, TransactionParts, RestParts, CheckpointLogParts, FaultParts, StutterParts
     DEF Next, Checkpoint
<1>. QED  BY <1>1, PartsInit, CountersInvariant, PTL DEF Spec

(***************************************************************************)
(* No transaction is there in part: whatever of the log and the pages was    *)
(* lost or torn, a program that came up has no index item of a transaction  *)
(* that has not committed, its own commits under way aside.                 *)
(***************************************************************************)
THEOREM NeverInPart == Spec => []NothingInPart
<1>1. PartsInv => NothingInPart
  BY DEF PartsInv
<1>. QED  BY <1>1, PartsInvariant, PTL

(***************************************************************************)
(* recover() hangs for no other reason than a transaction in the log that    *)
(* has not ended, or more files since the last checkpoint than the pool can  *)
(* open.                                                                    *)
(***************************************************************************)
THEOREM AlwaysHangsOnlyFor == Spec => []HangsOnlyFor
<1>1. PartsInv => HangsOnlyFor
  BY DEF PartsInv
<1>. QED  BY <1>1, PartsInvariant, PTL

-------------------------------------------------------------------------------
(* The commits in a log.  f[i] is those among the first i items.             *)
CommitsTo(f, l, k) ==
    f = [i \in 0 .. k |->
            IF i = 0 THEN <<>>
            ELSE IF l[i].type = "COMMIT_LOG" THEN Append(f[i - 1], l[i].tx)
            ELSE f[i - 1]]

LEMMA CommitsToAt ==
    ASSUME NEW l, NEW k \in Nat, NEW f, CommitsTo(f, l, k), NEW i \in 0 .. k
    PROVE  f[i] = IF i = 0 THEN <<>>
                  ELSE IF l[i].type = "COMMIT_LOG" THEN Append(f[i - 1], l[i].tx)
                  ELSE f[i - 1]
BY DEF CommitsTo

LEMMA CommitsToStep ==
    ASSUME NEW l, NEW k \in Nat, NEW f, CommitsTo(f, l, k), NEW i \in 0 .. k - 1
    PROVE  f[i + 1] = IF l[i + 1].type = "COMMIT_LOG" THEN Append(f[i], l[i + 1].tx)
                      ELSE f[i]
<1>1. i + 1 \in 0 .. k /\ i + 1 # 0 /\ (i + 1) - 1 = i
  OBVIOUS
<1>2. PICK j \in 0 .. k : j = i + 1
  BY <1>1
<1>3. f[j] = IF j = 0 THEN <<>>
             ELSE IF l[j].type = "COMMIT_LOG" THEN Append(f[j - 1], l[j].tx)
             ELSE f[j - 1]
  BY CommitsToAt
<1>. QED  BY <1>1, <1>2, <1>3

LEMMA CommitsToExists ==
    ASSUME NEW l, NEW b \in Nat
    PROVE  \E f : CommitsTo(f, l, b)
<1>. DEFINE T == {k \in Nat : \E f : CommitsTo(f, l, k)}
<1>1. 0 \in T
  <2>. DEFINE f == [i \in 0 .. 0 |-> <<>>]
  <2>1. \A i \in 0 .. 0 : i = 0
    OBVIOUS
  <2>2. CommitsTo(f, l, 0)
    BY <2>1, Zenon DEF CommitsTo
  <2>. QED  BY <2>2
<1>2. ASSUME NEW k \in Nat, k \in T PROVE k + 1 \in T
  <2>1. PICK f : CommitsTo(f, l, k)
    BY <1>2
  <2>. DEFINE Step(h, i) == IF l[i].type = "COMMIT_LOG" THEN Append(h[i - 1], l[i].tx)
                            ELSE h[i - 1]
              g == [i \in 0 .. k + 1 |-> IF i = k + 1 THEN Step(f, i) ELSE f[i]]
  <2>2. \A i \in 0 .. k : i # k + 1 /\ i \in 0 .. k + 1 /\ k \in Nat
    OBVIOUS
  <2>3. \A i \in 0 .. k : g[i] = f[i] /\ f[i] = IF i = 0 THEN <<>> ELSE Step(f, i)
    <3>1. \A i \in 0 .. k : g[i] = f[i]
      BY <2>2
    <3>2. \A i \in 0 .. k : f[i] = IF i = 0 THEN <<>> ELSE Step(f, i)
      BY <2>1, CommitsToAt
    <3>. QED  BY <3>1, <3>2
  <2>4. \A i \in 0 .. k + 1 : i = 0 \/ i - 1 \in 0 .. k
    OBVIOUS
  <2>5. \A i \in 0 .. k + 1 : g[i] = IF i = 0 THEN <<>> ELSE Step(g, i)
    <3>. SUFFICES ASSUME NEW i \in 0 .. k + 1
                  PROVE  g[i] = IF i = 0 THEN <<>> ELSE Step(g, i)
      OBVIOUS
    <3>1. CASE i = k + 1
      <4>1. g[i] = Step(f, i) /\ i # 0 /\ i - 1 \in 0 .. k
        BY <3>1
      <4>2. g[i - 1] = f[i - 1]
        BY <2>3, <4>1
      <4>. HIDE DEF g
      <4>. QED  BY <4>1, <4>2
    <3>2. CASE i # k + 1
      <4>1. i \in 0 .. k
        BY <3>2
      <4>. HIDE DEF g
      <4>. QED  BY <2>3, <2>4, <4>1
    <3>. QED  BY <3>1, <3>2
  <2>6. CommitsTo(g, l, k + 1)
    <3>1. g = [i \in 0 .. k + 1 |-> g[i]]
      OBVIOUS
    <3>. HIDE DEF g
    <3>. QED  BY <2>5, <3>1 DEF CommitsTo
  <2>7. k + 1 \in Nat
    OBVIOUS
  <2>. QED  BY <2>6, <2>7
<1>3. Nat \subseteq T
  <2>. HIDE DEF T
  <2>. QED  BY <1>1, <1>2, Induct
<1>. QED  BY <1>3

LEMMA CommitsAre ==
    ASSUME NEW l, Len(l) \in Nat
    PROVE  \E f : CommitsTo(f, l, Len(l)) /\ CommitsIn(l) = f[Len(l)]
<1>. DEFINE f == CHOOSE f : CommitsTo(f, l, Len(l))
<1>1. CommitsTo(f, l, Len(l))
  BY CommitsToExists
<1>2. CommitsIn(l) = f[Len(l)]
  BY DEF CommitsIn, CommitsTo
<1>. QED  BY <1>1, <1>2

(* Logs that begin with the same items begin with the same commits.          *)
SameTill(b, l, m) == \A i \in 1 .. b : l[i] = m[i]

LEMMA SameCommits ==
    ASSUME NEW l, NEW k \in Nat, NEW f, CommitsTo(f, l, k),
           NEW m, NEW b \in Nat, NEW g, CommitsTo(g, m, b),
           b <= k, SameTill(b, l, m)
    PROVE  \A i \in 0 .. b : f[i] = g[i]
<1>. DEFINE T == {i \in 0 .. b : f[i] = g[i]}
<1>1. 0 \in T
  <2>1. 0 \in 0 .. k /\ 0 \in 0 .. b
    OBVIOUS
  <2>2. f[0] = <<>> /\ g[0] = <<>>
    BY <2>1 DEF CommitsTo
  <2>. QED  BY <2>1, <2>2
<1>2. ASSUME NEW i \in 0 .. b - 1, i \in T PROVE i + 1 \in T
  <2>1. i \in 0 .. k - 1 /\ i + 1 \in 1 .. b /\ i + 1 \in 0 .. b
    OBVIOUS
  <2>2. f[i + 1] = IF l[i + 1].type = "COMMIT_LOG" THEN Append(f[i], l[i + 1].tx) ELSE f[i]
    BY <2>1, CommitsToStep
  <2>3. g[i + 1] = IF m[i + 1].type = "COMMIT_LOG" THEN Append(g[i], m[i + 1].tx) ELSE g[i]
    BY <2>1, CommitsToStep
  <2>4. l[i + 1] = m[i + 1]
    BY <2>1 DEF SameTill
  <2>5. f[i] = g[i]
    BY <1>2
  <2>. QED  BY <2>1, <2>2, <2>3, <2>4, <2>5
<1>. QED
  <2>. HIDE DEF T
  <2>1. 0 .. b \subseteq T
    BY <1>1, <1>2, InductUpTo
  <2>. QED  BY <2>1 DEF T

TxIds == 1 .. MaxTx

CommitsTyped(l) == \A i \in 1 .. Len(l) : l[i].type = "COMMIT_LOG" => l[i].tx \in TxIds

LEMMA CommitsToTyped ==
    ASSUME NEW l, NEW k \in Nat, NEW f, CommitsTo(f, l, k), k = Len(l), CommitsTyped(l)
    PROVE  \A i \in 0 .. k : f[i] \in Seq(TxIds)
<1>. DEFINE T == {i \in 0 .. k : f[i] \in Seq(TxIds)}
<1>1. 0 \in T
  <2>1. 0 \in 0 .. k /\ f[0] = <<>>
    BY DEF CommitsTo
  <2>2. <<>> \in Seq(TxIds)
    OBVIOUS
  <2>. HIDE DEF TxIds
  <2>. QED  BY <2>1, <2>2
<1>2. ASSUME NEW i \in 0 .. k - 1, i \in T PROVE i + 1 \in T
  <2>1. i + 1 \in 1 .. k /\ i + 1 \in 0 .. k
    OBVIOUS
  <2>2. f[i + 1] = IF l[i + 1].type = "COMMIT_LOG" THEN Append(f[i], l[i + 1].tx) ELSE f[i]
    BY CommitsToStep
  <2>3. f[i] \in Seq(TxIds)
    BY <1>2
  <2>4. l[i + 1].type = "COMMIT_LOG" => l[i + 1].tx \in TxIds
    BY <2>1 DEF CommitsTyped
  <2>5. f[i + 1] \in Seq(TxIds)
    <3>. HIDE DEF TxIds
    <3>. QED  BY <2>2, <2>3, <2>4
  <2>. QED  BY <2>1, <2>5
<1>. QED
  <2>. HIDE DEF T
  <2>1. 0 .. k \subseteq T
    BY <1>1, <1>2, InductUpTo
  <2>. QED  BY <2>1 DEF T

(* Commits stand in the order of the log: an earlier list begins a later.    *)
Begins(s, t) == Len(s) <= Len(t) /\ s = SubSeq(t, 1, Len(s))

LEMMA BeginsItself == ASSUME NEW s \in Seq(TxIds) PROVE Begins(s, s)
<1>1. Len(s) \in Nat /\ SubSeq(s, 1, Len(s)) = s
  OBVIOUS
<1>. QED  BY <1>1 DEF Begins

LEMMA BeginsAppended ==
    ASSUME NEW s \in Seq(TxIds), NEW t \in Seq(TxIds), NEW x \in TxIds, Begins(s, t)
    PROVE  Begins(s, Append(t, x))
<1>1. Append(t, x) \in Seq(TxIds) /\ Len(Append(t, x)) = Len(t) + 1
  OBVIOUS
<1>2. \A i \in 1 .. Len(t) : Append(t, x)[i] = t[i]
  OBVIOUS
<1>3. Len(s) \in Nat /\ Len(t) \in Nat /\ Len(s) <= Len(t) /\ s = SubSeq(t, 1, Len(s))
  BY DEF Begins
<1>4. SubSeq(Append(t, x), 1, Len(s)) = SubSeq(t, 1, Len(s))
  BY <1>1, <1>2, <1>3
<1>. QED  BY <1>1, <1>3, <1>4 DEF Begins

LEMMA CommitsBegin ==
    ASSUME NEW l, NEW k \in Nat, NEW f, CommitsTo(f, l, k), k = Len(l), CommitsTyped(l),
           NEW i \in 0 .. k
    PROVE  \A j \in i .. k : Begins(f[i], f[j])
<1>. DEFINE T == {j \in i .. k : Begins(f[i], f[j])}
<1>1. i \in T
  <2>1. f[i] \in Seq(TxIds) /\ i \in i .. k
    BY CommitsToTyped
  <2>2. Begins(f[i], f[i])
    BY <2>1, BeginsItself
  <2>. QED  BY <2>1, <2>2
<1>2. ASSUME NEW j \in i .. k - 1, j \in T PROVE j + 1 \in T
  <2>1. j \in 0 .. k /\ j \in 0 .. k - 1 /\ j + 1 \in 1 .. k /\ j + 1 \in i .. k
    OBVIOUS
  <2>2. f[j + 1] = IF l[j + 1].type = "COMMIT_LOG" THEN Append(f[j], l[j + 1].tx) ELSE f[j]
    BY <2>1, CommitsToStep
  <2>3. f[i] \in Seq(TxIds) /\ f[j] \in Seq(TxIds)
    BY <2>1, CommitsToTyped
  <2>4. Begins(f[i], f[j])
    BY <1>2
  <2>5. l[j + 1].type = "COMMIT_LOG" => l[j + 1].tx \in TxIds
    BY <2>1 DEF CommitsTyped
  <2>6. CASE l[j + 1].type = "COMMIT_LOG"
    <3>1. PICK x \in TxIds : x = l[j + 1].tx
      BY <2>5, <2>6
    <3>2. Begins(f[i], Append(f[j], x))
      BY <2>3, <2>4, BeginsAppended
    <3>. QED  BY <2>1, <2>2, <2>6, <3>1, <3>2
  <2>7. CASE l[j + 1].type # "COMMIT_LOG"
    BY <2>1, <2>2, <2>4, <2>7
  <2>. QED  BY <2>6, <2>7
<1>. QED
  <2>. HIDE DEF T
  <2>1. PICK a \in Nat : a = i
    OBVIOUS
  <2>2. a \in T /\ \A j \in a .. k - 1 : j \in T => j + 1 \in T
    BY <1>1, <1>2, <2>1
  <2>3. a .. k \subseteq T
    BY <2>2, InductUpTo
  <2>. QED  BY <2>1, <2>3 DEF T

LEMMA CommitsOfPrefix ==
    ASSUME NEW l, NEW k \in Nat, NEW f, CommitsTo(f, l, k),
           NEW d, NEW b \in Nat, b <= k, Len(d) = b, SameTill(b, l, d)
    PROVE  CommitsIn(d) = f[b]
<1>1. PICK g : CommitsTo(g, d, b) /\ CommitsIn(d) = g[b]
  <2>1. \E g : CommitsTo(g, d, Len(d)) /\ CommitsIn(d) = g[Len(d)]
    BY CommitsAre
  <2>. QED  BY <2>1
<1>2. \A i \in 0 .. b : f[i] = g[i]
  BY <1>1, SameCommits
<1>3. b \in 0 .. b
  OBVIOUS
<1>. QED  BY <1>1, <1>2, <1>3

(* The commits among the first m items of the log, all of them together.     *)
CommitsTill(m) == CommitsIn(SubSeq(log, 1, m))

LEMMA CommitsTillAre ==
    ASSUME IsSeq(log), NEW k \in Nat, k = Len(log), NEW f, CommitsTo(f, log, k),
           NEW m \in 0 .. k
    PROVE  CommitsTill(m) = f[m]
<1>1. PICK d : d = SubSeq(log, 1, m)
  OBVIOUS
<1>2. Len(d) = m /\ \A i \in 1 .. m : log[i] = d[i]
  BY <1>1, PrefixFacts
<1>3. PICK b \in Nat : b = m
  OBVIOUS
<1>4. b <= k /\ Len(d) = b /\ SameTill(b, log, d)
  BY <1>2, <1>3 DEF SameTill
<1>5. CommitsIn(d) = f[b]
  BY <1>4, CommitsOfPrefix
<1>. QED  BY <1>1, <1>3, <1>5 DEF CommitsTill

LEMMA CommitsFacts ==
    ASSUME IsSeq(log), CommitsTyped(log)
    PROVE  /\ Commits = CommitsTill(Len(log))
           /\ \A m \in 0 .. Len(log) : CommitsTill(m) \in Seq(TxIds)
           /\ \A m \in 0 .. Len(log) : \A p \in m .. Len(log) :
                    Begins(CommitsTill(m), CommitsTill(p))
<1>1. PICK k \in Nat : k = Len(log)
  BY SeqFacts
<1>2. PICK f : CommitsTo(f, log, k) /\ CommitsIn(log) = f[k]
  <2>1. \E f : CommitsTo(f, log, Len(log)) /\ CommitsIn(log) = f[Len(log)]
    BY <1>1, CommitsAre
  <2>. QED  BY <1>1, <2>1
<1>3. \A m \in 0 .. k : CommitsTill(m) = f[m]
  BY <1>1, <1>2, CommitsTillAre
<1>4. k \in 0 .. k
  OBVIOUS
<1>5. \A m \in 0 .. k : f[m] \in Seq(TxIds)
  BY <1>1, <1>2, CommitsToTyped
<1>6. \A m \in 0 .. k : \A p \in m .. k : Begins(f[m], f[p])
  BY <1>1, <1>2, CommitsBegin
<1>7. \A m \in 0 .. k : \A p \in m .. k : Begins(CommitsTill(m), CommitsTill(p))
  <2>1. \A m \in 0 .. k : \A p \in m .. k : p \in 0 .. k
    OBVIOUS
  <2>. QED  BY <1>3, <1>6, <2>1
<1>. QED  BY <1>1, <1>2, <1>3, <1>4, <1>5, <1>7 DEF Commits

(* In a longer log the commits up to a place of the old one are the same.    *)
LEMMA CommitsTillLonger ==
    ASSUME IsSeq(log), Longer, NEW m \in 0 .. Len(log)
    PROVE  CommitsTill(m)' = CommitsTill(m)
<1>1. PICK k \in Nat : k = Len(log)
  BY SeqFacts
<1>2. PICK f : CommitsTo(f, log, k)
  BY CommitsToExists
<1>3. CommitsTill(m) = f[m]
  BY <1>1, <1>2, CommitsTillAre
<1>4. PICK l : l = log'
  OBVIOUS
<1>5. PICK d : d = SubSeq(l, 1, m)
  OBVIOUS
<1>6. IsSeq(l) /\ Len(l) \in Nat /\ m \in 0 .. Len(l)
  BY <1>4, SeqFacts DEF Longer
<1>7. Len(d) = m /\ \A i \in 1 .. m : d[i] = l[i]
  BY <1>5, <1>6, PrefixFacts
<1>8. PICK b \in Nat : b = m
  BY <1>1
<1>9. SameTill(b, log, d)
  BY <1>1, <1>4, <1>7, <1>8 DEF Longer, SameTill
<1>10. Len(d) = b /\ b <= k
  BY <1>1, <1>7, <1>8
<1>11. CommitsIn(d) = f[b]
  BY <1>2, <1>9, <1>10, CommitsOfPrefix
<1>. QED  BY <1>3, <1>4, <1>5, <1>8, <1>11 DEF CommitsTill

(* Items that are no commits add none.                                      *)
NoCommits(l, a, b) == \A i \in a .. b - 1 : l[i + 1].type # "COMMIT_LOG"

LEMMA NoneAdded ==
    ASSUME NEW l, NEW k \in Nat, NEW f, CommitsTo(f, l, k),
           NEW b \in Nat, b <= k, NoCommits(l, b, k)
    PROVE  f[k] = f[b]
<1>. DEFINE T == {i \in b .. k : f[i] = f[b]}
<1>1. b \in T
  OBVIOUS
<1>2. ASSUME NEW i \in b .. k - 1, i \in T PROVE i + 1 \in T
  <2>1. i \in 0 .. k - 1 /\ i + 1 \in b .. k
    OBVIOUS
  <2>2. f[i + 1] = IF l[i + 1].type = "COMMIT_LOG" THEN Append(f[i], l[i + 1].tx) ELSE f[i]
    BY <2>1, CommitsToStep
  <2>3. l[i + 1].type # "COMMIT_LOG"
    BY DEF NoCommits
  <2>4. f[i] = f[b]
    BY <1>2
  <2>. QED  BY <2>1, <2>2, <2>3, <2>4
<1>3. k \in b .. k
  OBVIOUS
<1>. QED
  <2>. HIDE DEF T
  <2>1. b .. k \subseteq T
    BY <1>1, <1>2, InductUpTo
  <2>2. k \in T
    BY <1>3, <2>1
  <2>. QED  BY <2>2 DEF T

LEMMA CommitsLonger ==
    ASSUME IsSeq(log), Longer
    PROVE  \E f, k, j :
             /\ k \in Nat /\ k = Len(log) /\ j \in Nat /\ j = Len(log') /\ k <= j
             /\ CommitsTo(f, log', j) /\ Commits' = f[j] /\ Commits = f[k]
<1>1. PICK k \in Nat : k = Len(log)
  BY SeqFacts
<1>2. PICK l : l = log'
  OBVIOUS
<1>3. PICK j \in Nat : j = Len(l)
  BY <1>2, SeqFacts DEF Longer
<1>4. PICK f : CommitsTo(f, l, j) /\ CommitsIn(l) = f[j]
  <2>1. \E f : CommitsTo(f, l, Len(l)) /\ CommitsIn(l) = f[Len(l)]
    BY <1>3, CommitsAre
  <2>. QED  BY <1>3, <2>1
<1>5. PICK d : d = log
  OBVIOUS
<1>6. k <= j /\ Len(d) = k
  BY <1>1, <1>2, <1>3, <1>5 DEF Longer
<1>7. SameTill(k, l, d)
  BY <1>1, <1>2, <1>5 DEF Longer, SameTill
<1>8. CommitsIn(d) = f[k]
  BY <1>4, <1>6, <1>7, CommitsOfPrefix
<1>. QED  BY <1>1, <1>2, <1>3, <1>4, <1>5, <1>6, <1>8 DEF Commits

LEMMA SameCommitsAfter ==
    ASSUME IsSeq(log), Longer,
           \A i \in Len(log) + 1 .. Len(log') : log'[i].type # "COMMIT_LOG"
    PROVE  Commits' = Commits
<1>1. PICK f, k, j :
        /\ k \in Nat /\ k = Len(log) /\ j \in Nat /\ j = Len(log') /\ k <= j
        /\ CommitsTo(f, log', j) /\ Commits' = f[j] /\ Commits = f[k]
  BY CommitsLonger
<1>2. PICK l : l = log'
  OBVIOUS
<1>3. NoCommits(l, k, j)
  <2>1. \A i \in k .. j - 1 : i + 1 \in k + 1 .. j
    BY <1>1
  <2>. QED  BY <1>1, <1>2, <2>1 DEF NoCommits
<1>4. CommitsTo(f, l, j)
  BY <1>1, <1>2
<1>5. f[j] = f[k]
  BY <1>1, <1>3, <1>4, NoneAdded
<1>. QED  BY <1>1, <1>5

LEMMA OneMoreCommit ==
    ASSUME IsSeq(log), Longer, Len(log') = Len(log) + 1,
           log'[Len(log) + 1].type = "COMMIT_LOG"
    PROVE  Commits' = Append(Commits, log'[Len(log) + 1].tx)
<1>1. PICK f, k, j :
        /\ k \in Nat /\ k = Len(log) /\ j \in Nat /\ j = Len(log') /\ k <= j
        /\ CommitsTo(f, log', j) /\ Commits' = f[j] /\ Commits = f[k]
  BY CommitsLonger
<1>2. PICK l : l = log'
  OBVIOUS
<1>3. CommitsTo(f, l, j) /\ k \in 0 .. j - 1 /\ j = k + 1
  BY <1>1, <1>2
<1>4. f[k + 1] = IF l[k + 1].type = "COMMIT_LOG" THEN Append(f[k], l[k + 1].tx) ELSE f[k]
  BY <1>1, <1>3, CommitsToStep
<1>. QED  BY <1>1, <1>2, <1>3, <1>4

-------------------------------------------------------------------------------
(* No more commits have been acknowledged than there are in the file.        *)
AckedLogged == acked \in Nat /\ acked <= Len(CommitsTill(durable))

Kept == AckedLogged' /\ [Survival!Next]_(Survival!vars)

LEMMA LogIsTyped ==
    ASSUME CountersInv, PartsInv
    PROVE  /\ IsSeq(log) /\ CommitsTyped(log)
           /\ Len(log) \in Nat /\ durable \in 0 .. Len(log)
<1>1. IsSeq(log) /\ Len(log) \in Nat /\ DOMAIN log = 1 .. Len(log)
  BY SeqFacts DEF CountersInv, LogOK
<1>2. CommitsTyped(log)
  BY <1>1, BoundsAssumption DEF PartsInv, TxLog, CommitsTyped, Ids, TxIds
<1>. QED  BY <1>1, <1>2, LogFacts

(* The log is as it was, or flushed.                                        *)
LEMMA KeptQuiet ==
    ASSUME CountersInv, PartsInv, AckedLogged, UNCHANGED <<log, acked>>,
           durable' \in {durable, Len(log)}
    PROVE  Kept
<1>1. PICK a : a = durable'
  OBVIOUS
<1>2. CommitsTill(durable)' = CommitsTill(a)
  BY <1>1 DEF CommitsTill
<1>3. /\ durable \in 0 .. Len(log) /\ a \in durable .. Len(log)
      /\ a \in 0 .. Len(log)
  BY <1>1, LogIsTyped
<1>4. /\ CommitsTill(a) \in Seq(TxIds) /\ CommitsTill(durable) \in Seq(TxIds)
      /\ Begins(CommitsTill(durable), CommitsTill(a))
  BY <1>3, LogIsTyped, CommitsFacts
<1>5. acked <= Len(CommitsTill(a))
  <2>1. Len(CommitsTill(a)) \in Nat /\ Len(CommitsTill(durable)) \in Nat
    BY <1>4
  <2>. QED  BY <1>4, <2>1 DEF AckedLogged, Begins
<1>6. AckedLogged'
  BY <1>2, <1>5 DEF AckedLogged
<1>7. UNCHANGED Survival!vars
  BY DEF Survival!vars, Commits, CommitsIn
<1>. QED  BY <1>6, <1>7 DEF Kept

(* Items that are no commits.                                               *)
LEMMA KeptGrow ==
    ASSUME CountersInv, PartsInv, AckedLogged, Longer, UNCHANGED <<durable, acked>>,
           \A i \in Len(log) + 1 .. Len(log') : log'[i].type # "COMMIT_LOG"
    PROVE  Kept
<1>1. Commits' = Commits
  BY LogIsTyped, SameCommitsAfter
<1>2. AckedLogged'
  <2>1. PICK a : a = durable
    OBVIOUS
  <2>2. CommitsTill(a)' = CommitsTill(a)
    BY <2>1, LogIsTyped, CommitsTillLonger
  <2>. QED  BY <2>1, <2>2 DEF AckedLogged, CommitsTill
<1>3. UNCHANGED Survival!vars
  BY <1>1 DEF Survival!vars
<1>. QED  BY <1>2, <1>3 DEF Kept

LEMMA KeptAddCommit ==
    ASSUME CountersInv, PartsInv, AckedLogged, NEW w \in Workers, AddCommit(w)
    PROVE  Kept
<1>. DEFINE x == [MarkItem("COMMIT_LOG", tx[w]) EXCEPT !.maxTs = maxTs + 1]
<1>1. AddLog(x) /\ acked' = acked /\ wpc[w] = "commit"
  BY DEF AddCommit, At, history
<1>2. x.type = "COMMIT_LOG" /\ x.tx = tx[w]
  BY DEF MarkItem, Item
<1>. HIDE DEF x
<1>3. /\ Longer /\ Len(log') = Len(log) + 1 /\ log'[Len(log) + 1] = x /\ durable' = durable
  BY <1>1, AppendedItem
<1>4. Commits' = Append(Commits, tx[w])
  BY <1>2, <1>3, LogIsTyped, OneMoreCommit
<1>5. tx[w] \in TxIds
  <2>1. tx[w] \in Ids /\ tx[w] # 0
    BY <1>1 DEF PartsInv, TxOfWorkers, IdsBounded
  <2>. QED  BY <2>1, BoundsAssumption DEF Ids, TxIds
<1>6. Survival!Add(tx[w])
  BY <1>1, <1>4 DEF Survival!Add
<1>7. Survival!Next
  BY <1>5, <1>6 DEF Survival!Next, TxIds
<1>8. AckedLogged'
  <2>1. PICK a : a = durable
    OBVIOUS
  <2>2. CommitsTill(a)' = CommitsTill(a)
    BY <1>3, <2>1, LogIsTyped, CommitsTillLonger
  <2>. QED  BY <1>1, <1>3, <2>1, <2>2 DEF AckedLogged, CommitsTill
<1>. QED  BY <1>7, <1>8 DEF Kept

LEMMA KeptFlush ==
    ASSUME CountersInv, PartsInv, AckedLogged, NEW w \in Workers, FlushCommit(w)
    PROVE  Kept
<1>1. log' = log /\ durable' = Len(log) /\ acked' = Len(Commits)
  BY DEF FlushCommit, FlushLogs, Log!Flush
<1>2. Commits' = Commits
  BY <1>1 DEF Commits, CommitsIn
<1>3. Survival!Next
  BY <1>1, <1>2 DEF Survival!Flush, Survival!Next
<1>4. PICK a : a = Len(log)
  OBVIOUS
<1>5. a \in 0 .. Len(log)
  BY <1>4, LogIsTyped
<1>6. CommitsTill(a) = Commits /\ CommitsTill(a) \in Seq(TxIds)
  BY <1>4, <1>5, LogIsTyped, CommitsFacts
<1>7. CommitsTill(durable)' = CommitsTill(a)
  BY <1>1, <1>4 DEF CommitsTill
<1>8. Len(Commits) \in Nat
  BY <1>6
<1>9. AckedLogged'
  BY <1>1, <1>6, <1>7, <1>8 DEF AckedLogged
<1>. QED  BY <1>3, <1>9 DEF Kept

LEMMA KeptFault ==
    ASSUME CountersInv, PartsInv, AckedLogged, Fault
    PROVE  Kept
<1>1. Stop /\ (Log!Crash \/ Log!Flush)
  BY DEF Fault, Crash, TornPage, TornHeader
<1>2. acked' = Len(Commits')
  BY <1>1 DEF Stop
<1>3. PICK m \in durable .. Len(log) : log' = SubSeq(log, 1, m) /\ durable' = m
  <2>1. CASE Log!Crash
    BY <2>1 DEF Log!Crash
  <2>2. CASE Log!Flush
    <3>1. Len(log) \in durable .. Len(log)
      BY LogIsTyped
    <3>2. log' = SubSeq(log, 1, Len(log)) /\ durable' = Len(log)
      BY <2>2, WholeLog DEF Log!Flush
    <3>. QED  BY <3>1, <3>2
  <2>. QED  BY <1>1, <2>1, <2>2
<1>4. m \in 0 .. Len(log) /\ Len(log) \in Nat /\ durable \in 0 .. Len(log)
  BY LogIsTyped
<1>5. Commits' = CommitsTill(m)
  BY <1>3 DEF Commits, CommitsTill
<1>6. PICK s, t : s = CommitsTill(m) /\ t = Commits
  OBVIOUS
<1>7. PICK d : d = CommitsTill(durable)
  OBVIOUS
<1>8. /\ s \in Seq(TxIds) /\ t \in Seq(TxIds) /\ d \in Seq(TxIds)
      /\ Begins(s, t) /\ Begins(d, s)
  <2>1. Len(log) \in m .. Len(log) /\ Len(log) \in 0 .. Len(log)
    BY <1>4
  <2>2. t = CommitsTill(Len(log))
    BY <1>6, LogIsTyped, CommitsFacts
  <2>3. s \in Seq(TxIds) /\ t \in Seq(TxIds) /\ d \in Seq(TxIds)
    BY <1>4, <1>6, <1>7, <2>1, <2>2, LogIsTyped, CommitsFacts
  <2>4. Begins(s, t)
    BY <1>4, <1>6, <2>1, <2>2, LogIsTyped, CommitsFacts
  <2>5. Begins(d, s)
    BY <1>4, <1>6, <1>7, LogIsTyped, CommitsFacts
  <2>. QED  BY <2>3, <2>4, <2>5
<1>9. /\ Len(s) \in Nat /\ Len(t) \in Nat /\ Len(d) \in Nat
      /\ Len(s) <= Len(t) /\ s = SubSeq(t, 1, Len(s)) /\ Len(d) <= Len(s)
  BY <1>8 DEF Begins
<1>10. acked \in Nat /\ acked <= Len(d)
  BY <1>7 DEF AckedLogged
<1>11. Survival!Crash
  <2>1. Len(s) \in acked .. Len(t)
    BY <1>9, <1>10
  <2>2. Commits' = SubSeq(Commits, 1, Len(s)) /\ acked' = Len(s)
    BY <1>2, <1>5, <1>6, <1>9
  <2>. QED  BY <1>6, <2>1, <2>2 DEF Survival!Crash
<1>12. AckedLogged'
  <2>1. PICK l : l = log'
    OBVIOUS
  <2>2. IsSeq(l) /\ Len(l) = m
    BY <1>3, <1>4, <2>1, LogIsTyped, PrefixFacts
  <2>3. SubSeq(l, 1, m) = l
    BY <2>2, SubSeqFull DEF IsSeq
  <2>4. CommitsTill(durable)' = Commits'
    BY <1>3, <2>1, <2>3 DEF CommitsTill, Commits
  <2>. QED  BY <1>2, <1>5, <1>6, <1>9, <2>4 DEF AckedLogged
<1>. QED  BY <1>11, <1>12 DEF Kept, Survival!Next

LEMMA KeptTransaction ==
    ASSUME CountersInv, PartsInv, AckedLogged, NEW w \in Workers, Transaction(w)
    PROVE  Kept
<1>1. CASE Begin(w) \/ CountPage(w) \/ CommitLock(w) \/ NewIndexPage(w) \/ Unlock(w)
           \/ \E h \in Hashes : Repair(w, h)
  <2>1. UNCHANGED <<log, durable, acked>>
    BY <1>1, ZenonT(30)
       DEF Begin, CountPage, WriteBackup, WriteHeader, CommitLock, NewIndexPage, Unlock, Repair,
           logVars, history
  <2>. QED  BY <2>1, KeptQuiet
<1>2. CASE Stamp(w) \/ Link(w) \/ PutIndexItem(w) \/ \E k \in Keys : Write(w, k)
  <2>1. acked' = acked /\ NewPlainItems(tx[w])
    <3>1. CASE Stamp(w)
      <4>1. PICK p, o, x : Change(w, "DATA_RECORD_UPDATE_LOG", p, o, x)
        BY <3>1 DEF Stamp
      <4>. QED  BY <3>1, <4>1, ChangeItem DEF LogTypes, Stamp, history
    <3>2. CASE Link(w)
      <4>1. PICK p, o, x : Change(w, "INDEX_ITEM_UPDATE_LOG", p, o, x)
        BY <3>2 DEF Link
      <4>. QED  BY <3>2, <4>1, ChangeItem DEF LogTypes, Link, history
    <3>3. CASE PutIndexItem(w)
      <4>1. PICK p, page, s, x :
                Take(w, "INDEX_SLOT_LOG", "INDEX_ITEM_INSERT_LOG", p, page, s, x)
        BY <3>3 DEF PutIndexItem
      <4>. QED  BY <3>3, <4>1, TakeItems DEF LogTypes, PutIndexItem, history
    <3>4. CASE \E k \in Keys : Write(w, k)
      <4>1. PICK p, page, s, x :
                Take(w, "DATA_SLOT_LOG", "DATA_RECORD_INSERT_LOG", p, page, s, x)
        BY <3>4 DEF Write
      <4>. QED  BY <3>4, <4>1, TakeItems DEF LogTypes, Write, history
    <3>. QED  BY <1>2, <3>1, <3>2, <3>3, <3>4
  <2>. QED  BY <2>1, KeptGrow DEF NewPlainItems, Plain
<1>3. CASE AddCommit(w)
  BY <1>3, KeptAddCommit
<1>4. CASE FlushCommit(w)
  BY <1>4, KeptFlush
<1>5. CASE Abort(w)
  <2>. DEFINE x == MarkItem("ABORT_LOG", tx[w])
  <2>1. AddLog(x) /\ acked' = acked
    BY <1>5 DEF Abort, history
  <2>2. x.type # "COMMIT_LOG"
    BY DEF MarkItem, Item
  <2>. HIDE DEF x
  <2>3. /\ Longer /\ log'[Len(log) + 1] = x /\ durable' = durable
        /\ Len(log) + 1 .. Len(log') = {Len(log) + 1}
    BY <2>1, AppendedItem
  <2>. QED  BY <2>1, <2>2, <2>3, KeptGrow
<1>. QED  BY <1>1, <1>2, <1>3, <1>4, <1>5 DEF Transaction, Commit

LEMMA KeptCheckpointLog ==
    ASSUME CountersInv, PartsInv, AckedLogged, CheckpointLog
    PROVE  Kept
<1>1. AddLog(CheckpointItem) /\ acked' = acked
  BY DEF CheckpointLog, history
<1>2. CheckpointItem.type # "COMMIT_LOG"
  BY DEF CheckpointItem, MarkItem, Item
<1>3. /\ Longer /\ log'[Len(log) + 1] = CheckpointItem /\ durable' = durable
      /\ Len(log) + 1 .. Len(log') = {Len(log) + 1}
  BY <1>1, AppendedItem
<1>. QED  BY <1>1, <1>2, <1>3, KeptGrow

LEMMA KeptRest ==
    ASSUME CountersInv, PartsInv, AckedLogged,
           \/ Recover \/ CleanPool \/ CheckpointBegin \/ CheckpointPages \/ CheckpointFlush
           \/ UNCHANGED vars
    PROVE  Kept
<1>1. UNCHANGED <<log, acked>> /\ durable' \in {durable, Len(log)}
  BY DEF Recover, CleanPool, CheckpointBegin, CheckpointPages, CheckpointFlush, FlushLogs,
         Log!Flush, logVars, history, vars
<1>. QED  BY <1>1, KeptQuiet

LEMMA AckedInit == Init => AckedLogged /\ Survival!Init
<1>. SUFFICES ASSUME Init PROVE AckedLogged /\ Survival!Init
  OBVIOUS
<1>1. log = <<>> /\ durable = 0 /\ acked = 0 /\ Len(log) = 0
  BY DEF Init, Log!Init
<1>2. PICK l : l = log
  OBVIOUS
<1>3. PICK f : CommitsTo(f, l, 0) /\ CommitsIn(l) = f[0]
  <2>1. \E f : CommitsTo(f, l, Len(l)) /\ CommitsIn(l) = f[Len(l)]
    BY <1>1, <1>2, CommitsAre
  <2>. QED  BY <1>1, <1>2, <2>1
<1>4. CommitsIn(l) = <<>>
  <2>1. 0 \in 0 .. 0
    OBVIOUS
  <2>. QED  BY <1>3, <2>1 DEF CommitsTo
<1>5. SubSeq(log, 1, 0) = log
  BY <1>1
<1>6. CommitsTill(durable) = <<>>
  BY <1>1, <1>2, <1>4, <1>5 DEF CommitsTill
<1>. QED  BY <1>1, <1>2, <1>4, <1>6 DEF AckedLogged, Survival!Init, Commits

(***************************************************************************)
(* A commit that has returned, and one that was found in the log after a     *)
(* crash, survives every later crash, with all before it: the commits in the *)
(* log are themselves a log that loses nothing acknowledged.                 *)
(***************************************************************************)
THEOREM CommitsAlwaysSurvive == Spec => CommitsSurvive
<1>1. CountersInv /\ PartsInv /\ AckedLogged /\ [Next]_vars => Kept
  BY KeptTransaction, KeptCheckpointLog, KeptRest, KeptFault DEF Next, Checkpoint
<1>2. CountersInv /\ PartsInv /\ AckedLogged /\ [Next]_vars
        => AckedLogged' /\ [Survival!Next]_(Survival!vars)
  BY <1>1 DEF Kept
<1>. QED  BY <1>2, AckedInit, CountersInvariant, PartsInvariant, PTL
          DEF Spec, CommitsSurvive, Survival!Spec

-------------------------------------------------------------------------------
(* Types.  A page has the offsets of its kind, in the pool and in its file.  *)
PagesTyped(m) == DOMAIN m = Pages /\ \A p \in Pages : DOMAIN m[p] = Offsets(p)

StoreTyped ==
    /\ hashOf \in [Keys -> Hashes]
    /\ PagesTyped(mem) /\ PagesTyped(disk)
    /\ cpc \in {"idle", "flush pages", "log", "flush log"}
    /\ crashes \in 0 .. MaxCrashes

HeaderValues == Counts \cup {Bad}

(* A worker has written under good headers only; one that is at a write item *)
(* has one; and one that counts a new page counts it in a header that has    *)
(* room for it, and is alone with that.                                      *)
Place(w) == IF Committing(w) THEN n[w] ELSE Len(items[w])
Growing(w) == wpc[w] \in {"backup", "header"}
AtItem(w) == wpc[w] \in {"stamp", "link", "index", "backup", "header"}

HeadersGood(w) == \A i \in 1 .. Len(items[w]) : header[hashOf[items[w][i].key]] # Bad

Room(w) ==
    IF Committing(w) THEN header[HashAt(w)].index = 0 ELSE header[HashAt(w)].data < MaxPages

WorkerTyped(w) ==
    /\ items[w] \in Seq(WriteItem)
    /\ HeadersGood(w)
    /\ AtItem(w) => Place(w) \in 1 .. Len(items[w])
    /\ Growing(w) => Room(w)

Apart(v, w) == Growing(v) /\ Growing(w) => HashAt(v) # HashAt(w)

HeadersTyped ==
    /\ hashOf \in [Keys -> Hashes]
    /\ header \in [Hashes -> HeaderValues] /\ backup \in [Hashes -> HeaderValues]
    /\ items = [w \in Workers |-> items[w]]
    /\ \A w \in Workers : WorkerTyped(w)
    /\ \A v, w \in Workers : v # w => Apart(v, w)

(* Pages.                                                                   *)
PageSet(m, d, p, page) == d = [m EXCEPT ![p] = page]
OffsetSet(m, d, p, o, x) == d = [m EXCEPT ![p][o] = x]

LEMMA PageReplaced ==
    ASSUME NEW m, PagesTyped(m), NEW d, NEW p, NEW page, PageSet(m, d, p, page),
           p \in Pages => DOMAIN page = Offsets(p)
    PROVE  PagesTyped(d)
<1>1. DOMAIN d = Pages /\ \A q \in Pages : d[q] = IF q = p THEN page ELSE m[q]
  BY DEF PagesTyped, PageSet
<1>. QED  BY <1>1 DEF PagesTyped

LEMMA OffsetChanged ==
    ASSUME NEW m, PagesTyped(m), NEW d, NEW p, NEW o, NEW x, OffsetSet(m, d, p, o, x)
    PROVE  PagesTyped(d)
<1>1. PICK e : e = [m[p] EXCEPT ![o] = x]
  OBVIOUS
<1>2. DOMAIN e = DOMAIN m[p]
  BY <1>1
<1>3. PageSet(m, d, p, e)
  BY <1>1 DEF OffsetSet, PageSet
<1>. QED  BY <1>2, <1>3, PageReplaced DEF PagesTyped

LEMMA ZeroTyped == ASSUME NEW p PROVE DOMAIN Zero(p) = Offsets(p)
BY DEF Zero

LEMMA TakeStore ==
    ASSUME StoreTyped, NEW w, NEW slotType, NEW type, NEW p, NEW page, NEW s, NEW x,
           page = mem[p] \/ page = Zero(p), Take(w, slotType, type, p, page, s, x)
    PROVE  PagesTyped(mem')
<1>1. PICK e : e = [page EXCEPT ![Bitmap] = page[Bitmap] \cup {s}, ![s] = x]
  OBVIOUS
<1>2. PICK m, d : m = mem /\ d = mem' /\ PageSet(m, d, p, e)
  BY <1>1 DEF Take, PageSet
<1>3. DOMAIN e = DOMAIN page
  BY <1>1
<1>4. p \in Pages => DOMAIN e = Offsets(p)
  BY <1>3, ZeroTyped DEF StoreTyped, PagesTyped
<1>. QED  BY <1>2, <1>4, PageReplaced DEF StoreTyped

LEMMA StoreSame ==
    ASSUME StoreTyped, UNCHANGED <<hashOf, cpc, crashes>>, PagesTyped(mem'), PagesTyped(disk')
    PROVE  StoreTyped'
BY DEF StoreTyped, PagesTyped

LEMMA WriteStore ==
    ASSUME StoreTyped, NEW w \in Workers, NEW k \in Keys, Write(w, k)
    PROVE  StoreTyped'
<1>1. UNCHANGED <<hashOf, cpc, crashes>>
  BY DEF Write, history
<1>2. PICK p, page, s, x :
        /\ page = mem[p] \/ page = Zero(p)
        /\ Take(w, "DATA_SLOT_LOG", "DATA_RECORD_INSERT_LOG", p, page, s, x)
        /\ disk' = disk \/ disk' = [disk EXCEPT ![p] = Zero(p)]
  BY DEF Write
<1>3. PagesTyped(mem')
  BY <1>2, TakeStore
<1>4. PagesTyped(disk')
  <2>1. PICK z : z = Zero(p) /\ DOMAIN z = Offsets(p)
    BY ZeroTyped
  <2>2. PICK m, d : m = disk /\ d = disk' /\ (d = m \/ PageSet(m, d, p, z))
    BY <1>2, <2>1 DEF PageSet
  <2>3. PagesTyped(m)
    BY <2>2 DEF StoreTyped
  <2>. QED  BY <2>1, <2>2, <2>3, PageReplaced
<1>. QED  BY <1>1, <1>3, <1>4, StoreSame

LEMMA CommitStore ==
    ASSUME StoreTyped, NEW w \in Workers, Commit(w)
    PROVE  StoreTyped'
<1>1. UNCHANGED <<hashOf, cpc, crashes>>
  BY ZenonT(30) DEF Commit, CommitLock, Stamp, Link, NewIndexPage, PutIndexItem, AddCommit, FlushCommit,
         Unlock, history
<1>2. CASE CommitLock(w) \/ AddCommit(w) \/ FlushCommit(w) \/ Unlock(w)
  <2>1. mem' = mem /\ disk' = disk
    BY <1>2 DEF CommitLock, AddCommit, FlushCommit, Unlock, fileVars
  <2>. QED  BY <1>1, <2>1, StoreSame DEF StoreTyped
<1>3. CASE Stamp(w) \/ Link(w)
  <2>1. PICK m, d, p, o, x : m = mem /\ d = mem' /\ OffsetSet(m, d, p, o, x)
    BY <1>3 DEF Stamp, Link, Change, OffsetSet
  <2>2. disk' = disk
    BY <1>3 DEF Stamp, Link, fileVars
  <2>3. PagesTyped(mem')
    BY <2>1, OffsetChanged DEF StoreTyped
  <2>. QED  BY <1>1, <2>2, <2>3, StoreSame DEF StoreTyped
<1>4. CASE NewIndexPage(w)
  <2>1. PICK p, z : /\ z = Zero(p)
                    /\ PageSet(mem, mem', p, z) /\ PageSet(disk, disk', p, z)
    BY <1>4 DEF NewIndexPage, PageSet
  <2>2. DOMAIN z = Offsets(p)
    BY <2>1, ZeroTyped
  <2>3. PICK m, d : m = mem /\ d = mem'
    OBVIOUS
  <2>4. PagesTyped(mem')
    BY <2>1, <2>2, <2>3, PageReplaced DEF StoreTyped
  <2>5. PICK m1, d1 : m1 = disk /\ d1 = disk'
    OBVIOUS
  <2>6. PagesTyped(disk')
    BY <2>1, <2>2, <2>5, PageReplaced DEF StoreTyped
  <2>. QED  BY <1>1, <2>4, <2>6, StoreSame
<1>5. CASE PutIndexItem(w)
  <2>1. PICK p, s, x : Take(w, "INDEX_SLOT_LOG", "INDEX_ITEM_INSERT_LOG", p, mem[p], s, x)
    BY <1>5 DEF PutIndexItem
  <2>2. disk' = disk
    BY <1>5 DEF PutIndexItem, fileVars
  <2>3. PagesTyped(mem')
    BY <2>1, TakeStore
  <2>. QED  BY <1>1, <2>2, <2>3, StoreSame DEF StoreTyped
<1>. QED  BY <1>2, <1>3, <1>4, <1>5 DEF Commit

LEMMA TransactionStore ==
    ASSUME StoreTyped, NEW w \in Workers, Transaction(w)
    PROVE  StoreTyped'
<1>1. CASE Begin(w) \/ CountPage(w) \/ Abort(w) \/ \E h \in Hashes : Repair(w, h)
  <2>1. UNCHANGED <<hashOf, cpc, crashes, mem, disk>>
    BY <1>1, ZenonT(30) DEF Begin, CountPage, WriteBackup, WriteHeader, Abort, Repair, history, fileVars
  <2>. QED  BY <2>1, StoreSame DEF StoreTyped
<1>2. CASE \E k \in Keys : Write(w, k)
  BY <1>2, WriteStore
<1>3. CASE Commit(w)
  BY <1>3, CommitStore
<1>. QED  BY <1>1, <1>2, <1>3 DEF Transaction

LEMMA RestStore ==
    ASSUME StoreTyped, CleanPool \/ Checkpoint \/ UNCHANGED vars
    PROVE  StoreTyped'
<1>1. UNCHANGED <<hashOf, crashes, mem>> /\ (disk' = disk \/ disk' = mem)
  BY ZenonT(30) DEF CleanPool, Checkpoint, CheckpointBegin, CheckpointPages, CheckpointLog, CheckpointFlush,
         history, fileVars, vars
<1>2. cpc' \in {"idle", "flush pages", "log", "flush log"}
  BY ZenonT(30) DEF CleanPool, Checkpoint, CheckpointBegin, CheckpointPages, CheckpointLog, CheckpointFlush,
         vars, StoreTyped
<1>. QED  BY <1>1, <1>2 DEF StoreTyped, PagesTyped

LEMMA FaultStore ==
    ASSUME StoreTyped, Fault
    PROVE  StoreTyped'
<1>1. /\ mem' = disk' /\ cpc' = "idle" /\ hashOf' = hashOf
      /\ crashes' = crashes + 1 /\ crashes < MaxCrashes
  BY DEF Fault, Crash, TornPage, TornHeader, Stop, CrashAhead
<1>2. PagesTyped(disk')
  <2>1. CASE disk' = disk
    BY <2>1 DEF StoreTyped
  <2>2. CASE \E p \in Pages : TornPage(p)
    <3>1. PICK p \in Pages : TornPage(p)
      BY <2>2
    <3>2. /\ DOMAIN disk' = Pages
          /\ \A q \in Pages : \/ disk'[q] = mem[q] \/ disk'[q] = disk[q]
                              \/ DOMAIN disk'[q] = Offsets(q)
      BY <3>1 DEF TornPage
    <3>. QED  BY <3>2 DEF StoreTyped, PagesTyped
  <2>3. Crash \/ (\E w \in Workers : TornHeader(w)) => disk' = disk
    BY DEF Crash, TornHeader, fileVars
  <2>. QED  BY <2>1, <2>2, <2>3 DEF Fault
<1>3. crashes' \in 0 .. MaxCrashes
  <2>1. crashes \in 0 .. MaxCrashes /\ MaxCrashes \in Nat
    BY BoundsAssumption DEF StoreTyped
  <2>2. PICK a \in 0 .. MaxCrashes : a = crashes
    BY <2>1
  <2>3. a + 1 \in 0 .. MaxCrashes
    BY <1>1, <2>1, <2>2
  <2>. QED  BY <1>1, <2>2, <2>3
<1>4. PagesTyped(mem')
  BY <1>1, <1>2
<1>. QED  BY <1>1, <1>2, <1>3, <1>4 DEF StoreTyped, PagesTyped

LEMMA RecoverStore ==
    ASSUME CountersInv, StoreTyped, Recover
    PROVE  StoreTyped'
<1>1. PICK c \in 0 .. Len(log) : mem' = Redone(c).mem
  BY DEF Recover
<1>2. PICK b \in Nat : b = Len(log)
  BY LogFacts
<1>3. PICK a \in Nat : a = c
  BY <1>2
<1>4. PICK f : Redoes(f, a, b) /\ Redone(c) = f[b]
  BY <1>2, <1>3, RedoneIs
<1>. DEFINE T == {i \in a .. b : IsRedo(f[i]) /\ PagesTyped(f[i].mem)}
<1>5. a \in a .. b /\ b \in a .. b
  BY <1>2, <1>3
<1>6. a \in T
  <2>1. f[a] = NothingRedone
    BY <1>4, <1>5, RedoesAt
  <2>2. f[a].mem = mem
    BY <2>1 DEF NothingRedone
  <2>3. IsRedo(f[a])
    BY <2>1 DEF NothingRedone, IsRedo
  <2>. QED  BY <1>5, <2>2, <2>3 DEF StoreTyped
<1>7. ASSUME NEW i \in a .. b - 1, i \in T PROVE i + 1 \in T
  <2>1. PICK j \in a .. b : j = i + 1 /\ j # a /\ j - 1 = i
    OBVIOUS
  <2>2. f[j] = RedoItem(f[j - 1], log[j])
    BY <1>4, <2>1, RedoesAt
  <2>3. IsRedo(f[i]) /\ PagesTyped(f[i].mem)
    BY <1>7
  <2>4. PICK r, x, q : r = f[i] /\ x = log[j] /\ q = f[j]
    OBVIOUS
  <2>5. RedoStep(r, x, q)
    BY <2>1, <2>2, <2>3, <2>4, RedoItemFacts
  <2>6. \/ q.mem = r.mem
        \/ q.mem = [r.mem EXCEPT ![x.page][x.offset] = x.new]
    BY <2>5 DEF RedoStep
  <2>7. PagesTyped(q.mem)
    <3>1. PICK m : m = r.mem
      OBVIOUS
    <3>2. PICK d, p, o, y : d = q.mem /\ (d = m \/ OffsetSet(m, d, p, o, y))
      BY <2>6, <3>1 DEF OffsetSet
    <3>3. PagesTyped(m)
      BY <2>3, <2>4, <3>1
    <3>. QED  BY <3>2, <3>3, OffsetChanged
  <2>. QED  BY <2>1, <2>4, <2>5, <2>7 DEF RedoStep
<1>8. PagesTyped(f[b].mem)
  <2>. HIDE DEF T
  <2>1. a .. b \subseteq T
    BY <1>6, <1>7, InductUpTo
  <2>2. b \in T
    BY <1>5, <2>1
  <2>. QED  BY <2>2 DEF T
<1>9. UNCHANGED <<hashOf, cpc, crashes>> /\ disk' = disk
  BY DEF Recover, fileVars, history
<1>. QED  BY <1>1, <1>4, <1>8, <1>9, StoreSame DEF StoreTyped

LEMMA StoreInit == Init => StoreTyped
<1>. SUFFICES ASSUME Init PROVE StoreTyped
  OBVIOUS
<1>1. PagesTyped(disk) /\ mem = disk
  BY ZeroTyped DEF Init, PagesTyped
<1>. QED  BY <1>1, HashingsAssumption, BoundsAssumption DEF Init, StoreTyped

LEMMA StoreInvariant == Spec => []StoreTyped
<1>1. CountersInv /\ StoreTyped /\ [Next]_vars => StoreTyped'
  BY RecoverStore, TransactionStore, RestStore, FaultStore DEF Next
<1>. QED  BY <1>1, StoreInit, CountersInvariant, PTL DEF Spec

-------------------------------------------------------------------------------
(* Headers.  What a worker is at has a hash.                                *)
LEMMA HashFacts ==
    ASSUME HeadersTyped, NEW w \in Workers, AtItem(w)
    PROVE  /\ Current(w) \in WriteItem /\ HashAt(w) \in Hashes
           /\ header[HashAt(w)] \in Counts
<1>1. items[w] \in Seq(WriteItem) /\ Place(w) \in 1 .. Len(items[w])
  BY DEF HeadersTyped, WorkerTyped
<1>2. Current(w) = items[w][Place(w)]
  BY DEF Current, Place
<1>3. Current(w) \in WriteItem
  <2>1. PICK s, i : s = items[w] /\ i = Place(w)
    OBVIOUS
  <2>2. s[i] \in WriteItem
    BY <1>1, <2>1
  <2>. QED  BY <1>2, <2>1, <2>2
<1>4. KeyOf(w) \in Keys
  BY <1>3 DEF KeyOf, WriteItem
<1>5. HashAt(w) \in Hashes
  BY <1>4 DEF HashAt, HeadersTyped
<1>6. header[HashAt(w)] # Bad
  BY <1>1, <1>2 DEF HashAt, KeyOf, HeadersTyped, WorkerTyped, HeadersGood
<1>7. header[HashAt(w)] \in HeaderValues
  BY <1>5 DEF HeadersTyped
<1>. QED  BY <1>3, <1>5, <1>6, <1>7 DEF HeaderValues

(* One worker moves.                                                        *)
OthersStay(w) ==
    /\ UNCHANGED hashOf
    /\ items' = [v \in Workers |-> items'[v]]
    /\ \A v \in Workers : v # w => wpc'[v] = wpc[v] /\ n'[v] = n[v] /\ items'[v] = items[v]

LEMMA StayFacts ==
    ASSUME NEW w, OthersStay(w), NEW v \in Workers, v # w
    PROVE  /\ Place(v)' = Place(v) /\ HashAt(v)' = HashAt(v)
           /\ Growing(v)' = Growing(v) /\ AtItem(v)' = AtItem(v)
           /\ Committing(v)' = Committing(v)
BY DEF OthersStay, Place, HashAt, KeyOf, Current, Committing, Growing, AtItem

LEMMA HeadersMove ==
    ASSUME HeadersTyped, NEW w \in Workers, OthersStay(w), UNCHANGED header,
           backup' \in [Hashes -> HeaderValues], WorkerTyped(w)',
           \A v \in Workers : v # w /\ Growing(v) /\ Growing(w)' => HashAt(v) # HashAt(w)'
    PROVE  HeadersTyped'
<1>1. \A v \in Workers : v # w => WorkerTyped(v)'
  <2>. SUFFICES ASSUME NEW v \in Workers, v # w PROVE WorkerTyped(v)'
    OBVIOUS
  <2>1. WorkerTyped(v)
    BY DEF HeadersTyped
  <2>2. items'[v] = items[v]
    BY DEF OthersStay
  <2>3. HeadersGood(v)'
    BY <2>1, <2>2 DEF WorkerTyped, HeadersGood, OthersStay
  <2>4. Growing(v)' => Room(v)'
    BY <2>1, StayFacts DEF WorkerTyped, Room
  <2>5. AtItem(v)' => Place(v)' \in 1 .. Len(items'[v])
    BY <2>1, <2>2, StayFacts DEF WorkerTyped
  <2>6. items'[v] \in Seq(WriteItem)
    BY <2>1, <2>2 DEF WorkerTyped
  <2>. QED  BY <2>3, <2>4, <2>5, <2>6 DEF WorkerTyped
<1>2. \A u, v \in Workers : u # v => Apart(u, v)'
  <2>. SUFFICES ASSUME NEW u \in Workers, NEW v \in Workers, u # v PROVE Apart(u, v)'
    OBVIOUS
  <2>1. Apart(u, v) /\ Apart(v, u)
    BY DEF HeadersTyped
  <2>2. CASE u # w /\ v # w
    BY <2>1, <2>2, StayFacts DEF Apart
  <2>3. CASE u = w
    BY <2>3, StayFacts DEF Apart
  <2>4. CASE v = w
    BY <2>4, StayFacts DEF Apart
  <2>. QED  BY <2>2, <2>3, <2>4
<1>. QED  BY <1>1, <1>2 DEF HeadersTyped, OthersStay

(* No worker moves from a header that was good.                             *)
LEMMA HeadersSame ==
    ASSUME HeadersTyped, UNCHANGED <<hashOf, header, backup, items, n, wpc>>
    PROVE  HeadersTyped'
BY DEF HeadersTyped, WorkerTyped, HeadersGood, Apart, AtItem, Growing, Room, Place, HashAt, KeyOf, Current,
       Committing

LEMMA ItemHash ==
    ASSUME HeadersTyped, NEW w \in Workers, NEW i \in 1 .. Len(items[w])
    PROVE  hashOf[items[w][i].key] \in Hashes
<1>1. PICK s \in Seq(WriteItem) : s = items[w]
  BY DEF HeadersTyped, WorkerTyped
<1>2. s[i] \in WriteItem
  BY <1>1
<1>. QED  BY <1>1, <1>2 DEF WriteItem, HeadersTyped

LEMMA RepairHeaders ==
    ASSUME HeadersTyped, NEW w \in Workers, NEW h \in Hashes, Repair(w, h)
    PROVE  HeadersTyped'
<1>1. UNCHANGED <<hashOf, items, n, wpc>> /\ header[h] = Bad
  BY DEF Repair, workerVars
<1>2. header' \in [Hashes -> HeaderValues] /\ backup' \in [Hashes -> HeaderValues]
  <2>1. NoPages \in HeaderValues
    BY BoundsAssumption DEF NoPages, Counts, HeaderValues
  <2>2. header \in [Hashes -> HeaderValues] /\ backup \in [Hashes -> HeaderValues]
    BY DEF HeadersTyped
  <2>3. backup[h] \in HeaderValues
    BY <2>2
  <2>. HIDE DEF HeaderValues
  <2>4. \/ header' = [header EXCEPT ![h] = backup[h]] /\ backup' = backup
        \/ backup' = [backup EXCEPT ![h] = NoPages] /\ header' = header
    BY DEF Repair
  <2>. QED  BY <2>1, <2>2, <2>3, <2>4
<1>3. \A g \in Hashes : header[g] # Bad => header'[g] = header[g]
  BY <1>1 DEF Repair, HeadersTyped
<1>4. \A v \in Workers :
        /\ Place(v)' = Place(v) /\ HashAt(v)' = HashAt(v) /\ Committing(v)' = Committing(v)
        /\ Growing(v)' = Growing(v) /\ AtItem(v)' = AtItem(v)
  BY <1>1 DEF Place, HashAt, KeyOf, Current, Committing, Growing, AtItem
<1>5. \A v \in Workers : WorkerTyped(v)'
  <2>. SUFFICES ASSUME NEW v \in Workers PROVE WorkerTyped(v)'
    OBVIOUS
  <2>1. WorkerTyped(v)
    BY DEF HeadersTyped
  <2>2. Growing(v) => /\ HashAt(v) \in Hashes /\ Room(v)
                      /\ header[HashAt(v)] # Bad
    BY <2>1, HashFacts, BadAssumption DEF WorkerTyped, AtItem, Growing
  <2>3. Growing(v) => Room(v)'
    BY <1>3, <1>4, <2>2 DEF Room
  <2>4. HeadersGood(v)'
    BY <1>1, <1>3, <2>1, ItemHash DEF WorkerTyped, HeadersGood
  <2>. QED  BY <1>1, <1>4, <2>1, <2>3, <2>4 DEF WorkerTyped
<1>6. \A u, v \in Workers : u # v => Apart(u, v)'
  BY <1>4 DEF Apart, HeadersTyped
<1>. QED  BY <1>1, <1>2, <1>5, <1>6 DEF HeadersTyped

(* What counting a page makes of a header.                                  *)
LEMMA CountedFacts ==
    ASSUME HeadersTyped, NEW w \in Workers, Growing(w)
    PROVE  Counted(w) \in Counts
<1>1. Room(w)
  BY DEF HeadersTyped, WorkerTyped
<1>2. header[HashAt(w)] \in Counts
  BY HashFacts DEF AtItem, Growing
<1>3. PICK c \in Counts : c = header[HashAt(w)]
  BY <1>2
<1>4. /\ c = [index |-> c.index, data |-> c.data]
      /\ c.index \in 0 .. 1 /\ c.data \in 0 .. MaxPages
  BY DEF Counts
<1>5. CASE Committing(w)
  <2>1. Counted(w) = [c EXCEPT !.index = @ + 1] /\ c.index = 0
    BY <1>1, <1>3, <1>5 DEF Counted, Room
  <2>2. Counted(w) = [index |-> 1, data |-> c.data]
    BY <1>4, <2>1
  <2>. QED  BY <1>4, <2>2 DEF Counts
<1>6. CASE ~Committing(w)
  <2>1. Counted(w) = [c EXCEPT !.data = @ + 1] /\ c.data < MaxPages
    BY <1>1, <1>3, <1>6 DEF Counted, Room
  <2>2. c.data + 1 \in 0 .. MaxPages
    BY <1>4, <2>1, BoundsAssumption
  <2>3. Counted(w) = [index |-> c.index, data |-> c.data + 1]
    BY <1>4, <2>1
  <2>. QED  BY <1>4, <2>2, <2>3 DEF Counts
<1>. QED  BY <1>5, <1>6

LEMMA WriteBackupHeaders ==
    ASSUME CountersInv, HeadersTyped, NEW w \in Workers, WriteBackup(w)
    PROVE  HeadersTyped'
<1>1. /\ UNCHANGED <<hashOf, header, items, n>> /\ wpc[w] = "backup"
      /\ wpc' = [wpc EXCEPT ![w] = "header"]
      /\ backup' = [backup EXCEPT ![HashAt(w)] = Counted(w)]
  BY DEF WriteBackup, At, Goto
<1>2. wpc \in [Workers -> WorkerPlaces]
  BY LogFacts
<1>3. OthersStay(w) /\ wpc'[w] = "header"
  BY <1>1, <1>2 DEF OthersStay, HeadersTyped
<1>4. /\ Place(w)' = Place(w) /\ HashAt(w)' = HashAt(w) /\ Committing(w)' = Committing(w)
      /\ Growing(w) /\ AtItem(w)
  BY <1>1 DEF Place, HashAt, KeyOf, Current, Committing, Growing, AtItem
<1>5. backup' \in [Hashes -> HeaderValues]
  <2>1. PICK c \in HeaderValues : c = Counted(w)
    BY <1>4, CountedFacts DEF HeaderValues
  <2>. HIDE DEF HeaderValues
  <2>. QED  BY <1>1, <2>1 DEF HeadersTyped
<1>6. WorkerTyped(w)'
  BY <1>1, <1>4 DEF HeadersTyped, WorkerTyped, HeadersGood, Room
<1>7. \A v \in Workers : v # w /\ Growing(v) => HashAt(v) # HashAt(w)'
  BY <1>4 DEF HeadersTyped, Apart
<1>. QED  BY <1>1, <1>3, <1>5, <1>6, <1>7, HeadersMove

LEMMA WriteHeaderHeaders ==
    ASSUME CountersInv, HeadersTyped, NEW w \in Workers, WriteHeader(w)
    PROVE  HeadersTyped'
<1>1. /\ UNCHANGED <<hashOf, backup, items, n>> /\ wpc[w] = "header"
      /\ header' = [header EXCEPT ![HashAt(w)] = Counted(w)]
  BY DEF WriteHeader, At
<1>2. PICK place \in {"index", "run"} : wpc' = [wpc EXCEPT ![w] = place]
  BY DEF WriteHeader, Goto
<1>3. place = "index" => Committing(w)
  <2>1. CASE Committing(w)
    BY <2>1
  <2>2. CASE ~Committing(w)
    <3>1. wpc' = [wpc EXCEPT ![w] = "run"]
      BY <2>2 DEF WriteHeader, Goto
    <3>2. wpc'[w] = "run"
      BY <3>1, LogFacts
    <3>3. wpc'[w] = place
      BY <1>2, LogFacts
    <3>. QED  BY <3>2, <3>3
  <2>. QED  BY <2>1, <2>2
<1>4. OthersStay(w) /\ wpc'[w] = place
  BY <1>1, <1>2, LogFacts DEF OthersStay, HeadersTyped
<1>5. Growing(w) /\ AtItem(w) /\ HashAt(w) \in Hashes
  BY <1>1, HashFacts DEF Growing, AtItem
<1>6. header' \in [Hashes -> HeaderValues]
  <2>1. PICK c \in HeaderValues : c = Counted(w)
    BY <1>5, CountedFacts DEF HeaderValues
  <2>. HIDE DEF HeaderValues
  <2>. QED  BY <1>1, <2>1 DEF HeadersTyped
<1>7. \A g \in Hashes : g # HashAt(w) => header'[g] = header[g]
  BY <1>1 DEF HeadersTyped
<1>11. \A g \in Hashes : header[g] # Bad => header'[g] # Bad
  <2>1. Counted(w) # Bad
    BY <1>5, CountedFacts, BadAssumption
  <2>. QED  BY <1>1, <1>7, <2>1 DEF HeadersTyped
<1>8. ~Growing(w)' /\ Place(w)' = Place(w)
  BY <1>1, <1>4 DEF Growing, Place, Committing
<1>9. \A v \in Workers : WorkerTyped(v)'
  <2>. SUFFICES ASSUME NEW v \in Workers PROVE WorkerTyped(v)'
    OBVIOUS
  <2>1. WorkerTyped(v)
    BY DEF HeadersTyped
  <2>4. HeadersGood(v)'
    BY <1>1, <1>11, <2>1, ItemHash DEF WorkerTyped, HeadersGood
  <2>2. CASE v = w
    BY <1>1, <1>5, <1>8, <2>1, <2>2, <2>4 DEF WorkerTyped
  <2>3. CASE v # w
    <3>1. Growing(v) => HashAt(v) # HashAt(w) /\ HashAt(v) \in Hashes
      BY <1>5, <2>3, HashFacts DEF HeadersTyped, Apart, Growing, AtItem
    <3>2. Growing(v) => Room(v)'
      BY <1>4, <1>7, <2>1, <2>3, <3>1, StayFacts DEF WorkerTyped, Room
    <3>. QED  BY <1>1, <1>4, <2>1, <2>3, <2>4, <3>2, StayFacts DEF WorkerTyped
  <2>. QED  BY <2>2, <2>3
<1>10. \A u, v \in Workers : u # v => Apart(u, v)'
  <2>. SUFFICES ASSUME NEW u \in Workers, NEW v \in Workers, u # v PROVE Apart(u, v)'
    OBVIOUS
  <2>1. CASE u # w /\ v # w
    BY <1>4, <2>1, StayFacts DEF HeadersTyped, Apart
  <2>2. CASE u = w \/ v = w
    BY <1>8, <2>2 DEF Apart
  <2>. QED  BY <2>1, <2>2
<1>. QED  BY <1>1, <1>6, <1>9, <1>10 DEF HeadersTyped

(* A worker that begins, ends, or goes on to the next write item.           *)
LEMMA ItemFree ==
    ASSUME CountersInv, HeadersTyped, NEW w \in Workers,
           UNCHANGED <<hashOf, header, backup>>, OthersStay(w), ~Growing(w)',
           items'[w] = items[w] \/ items'[w] = <<>>, AtItem(w)' => Place(w)' \in 1 .. Len(items'[w])
    PROVE  HeadersTyped'
<1>1. WorkerTyped(w)'
  <2>1. WorkerTyped(w)
    BY DEF HeadersTyped
  <2>2. items'[w] \in Seq(WriteItem) /\ HeadersGood(w)'
    <3>1. CASE items'[w] = items[w]
      BY <2>1, <3>1 DEF WorkerTyped, HeadersGood
    <3>2. CASE items'[w] = <<>>
      BY <3>2 DEF HeadersGood
    <3>. QED  BY <3>1, <3>2
  <2>. QED  BY <2>2 DEF WorkerTyped
<1>2. backup' \in [Hashes -> HeaderValues]
  BY DEF HeadersTyped
<1>. QED  BY <1>1, <1>2, HeadersMove

LEMMA BeginHeaders ==
    ASSUME CountersInv, HeadersTyped, NEW w \in Workers, Begin(w)
    PROVE  HeadersTyped'
<1>1. UNCHANGED <<hashOf, header, backup, items, n>> /\ wpc' = [wpc EXCEPT ![w] = "run"]
  BY DEF Begin, Goto, fileVars
<1>2. OthersStay(w) /\ wpc'[w] = "run"
  BY <1>1, LogFacts DEF OthersStay, HeadersTyped
<1>. QED  BY <1>1, <1>2, ItemFree DEF AtItem, Growing, HeadersTyped, WorkerTyped

LEMMA EndHeaders ==
    ASSUME CountersInv, HeadersTyped, NEW w \in Workers, Abort(w) \/ Unlock(w)
    PROVE  HeadersTyped'
<1>1. /\ UNCHANGED <<hashOf, header, backup>> /\ wpc' = [wpc EXCEPT ![w] = "idle"]
      /\ items' = [items EXCEPT ![w] = <<>>] /\ (n' = n \/ n' = [n EXCEPT ![w] = 0])
  BY DEF Abort, Unlock, Goto, fileVars
<1>2. OthersStay(w) /\ wpc'[w] = "idle" /\ items'[w] = <<>>
  BY <1>1, LogFacts DEF OthersStay, HeadersTyped
<1>. QED  BY <1>1, <1>2, ItemFree DEF AtItem, Growing

LEMMA CommitHeaders ==
    ASSUME CountersInv, HeadersTyped, NEW w \in Workers,
           CommitLock(w) \/ Stamp(w) \/ Link(w) \/ PutIndexItem(w) \/ AddCommit(w) \/ FlushCommit(w)
    PROVE  HeadersTyped'
<1>1. UNCHANGED <<hashOf, header, backup, items>>
  BY ZenonT(30) DEF CommitLock, Stamp, Link, PutIndexItem, AddCommit, FlushCommit, fileVars
<1>2. PICK place \in WorkerPlaces \ {"backup", "header"} : wpc' = [wpc EXCEPT ![w] = place]
  BY ZenonT(30)
     DEF CommitLock, Stamp, Link, PutIndexItem, AddCommit, FlushCommit, NextItem, Goto, WorkerPlaces
<1>3. n' = n \/ (\E i : n' = [n EXCEPT ![w] = i])
  BY ZenonT(30)
     DEF CommitLock, Stamp, Link, PutIndexItem, AddCommit, FlushCommit, NextItem
<1>4. OthersStay(w) /\ wpc'[w] = place /\ ~Growing(w)'
  BY <1>1, <1>2, <1>3, LogFacts DEF OthersStay, HeadersTyped, Growing
<1>5. items[w] \in Seq(WriteItem) /\ Len(items[w]) \in Nat
  BY DEF HeadersTyped, WorkerTyped
<1>6. /\ n \in [Workers -> Nat] /\ wpc \in [Workers -> WorkerPlaces]
      /\ wpc[w] \in {"stamp", "link", "index"} => Committing(w) /\ n[w] \in 1 .. Len(items[w])
  BY LogFacts DEF CountersInv, WorkersOK, HeadersTyped, WorkerTyped, AtItem, Place
<1>7. AtItem(w)' => Place(w)' \in 1 .. Len(items[w])
  <2>1. CASE CommitLock(w)
    <3>1. n'[w] = 1 /\ Place(w)' = 1
      BY <1>6, <2>1 DEF CommitLock, Place, Committing
    <3>2. items[w] = <<>> => wpc'[w] = "commit"
      BY <1>6, <2>1 DEF CommitLock, Goto
    <3>3. items[w] # <<>> => 1 \in 1 .. Len(items[w])
      BY <1>5
    <3>. QED  BY <3>1, <3>2, <3>3 DEF AtItem
  <2>2. CASE Stamp(w)
    <3>1. n' = n /\ wpc[w] = "stamp"
      BY <2>2 DEF Stamp, At
    <3>. QED  BY <1>1, <1>6, <3>1 DEF Place, Committing
  <2>3. CASE Link(w) \/ PutIndexItem(w)
    <3>1. NextItem(w) /\ wpc[w] \in {"stamp", "link", "index"}
      BY <2>3 DEF Link, PutIndexItem, At
    <3>2. n'[w] = n[w] + 1 /\ n[w] \in 1 .. Len(items[w])
      BY <1>6, <3>1 DEF NextItem
    <3>3. Place(w)' = n[w] + 1
      BY <3>2 DEF Place, Committing
    <3>4. ~(n[w] < Len(items[w])) => wpc'[w] = "commit"
      BY <1>6, <3>1 DEF NextItem, Goto
    <3>5. n[w] < Len(items[w]) => n[w] + 1 \in 1 .. Len(items[w])
      BY <1>5, <3>2
    <3>. QED  BY <3>3, <3>4, <3>5 DEF AtItem
  <2>4. CASE AddCommit(w) \/ FlushCommit(w)
    <3>1. wpc'[w] \in {"unlock", "flush"}
      BY <1>6, <2>4 DEF AddCommit, FlushCommit, Goto
    <3>. QED  BY <3>1 DEF AtItem
  <2>. QED  BY <2>1, <2>2, <2>3, <2>4
<1>. QED  BY <1>1, <1>4, <1>5, <1>7, ItemFree

LEMMA NewIndexHeaders ==
    ASSUME CountersInv, HeadersTyped, NEW w \in Workers, NewIndexPage(w)
    PROVE  HeadersTyped'
<1>1. /\ UNCHANGED <<hashOf, header, backup, items, n>> /\ wpc[w] = "index"
      /\ wpc' = [wpc EXCEPT ![w] = "backup"]
      /\ header[HashAt(w)].index = 0 /\ ~Inserting(HashAt(w))
  BY DEF NewIndexPage, At, Goto
<1>2. OthersStay(w) /\ wpc'[w] = "backup"
  BY <1>1, LogFacts DEF OthersStay, HeadersTyped
<1>3. /\ Place(w)' = Place(w) /\ HashAt(w)' = HashAt(w) /\ Committing(w)' = Committing(w)
      /\ AtItem(w) /\ Committing(w)
  BY <1>1 DEF Place, HashAt, KeyOf, Current, Committing, AtItem, CountersInv, WorkersOK
<1>4. Growing(w)' /\ WorkerTyped(w)
  BY <1>2 DEF Growing, HeadersTyped
<1>5. WorkerTyped(w)'
  BY <1>1, <1>3, <1>4 DEF WorkerTyped, HeadersGood, Room
<1>6. \A v \in Workers : v # w /\ Growing(v) => HashAt(v) # HashAt(w)'
  <2>. SUFFICES ASSUME NEW v \in Workers, v # w, Growing(v)
                PROVE  HashAt(v) # HashAt(w)
    BY <1>3
  <2>1. ~Committing(v)
    BY <1>3 DEF CountersInv, WorkersOK
  <2>. QED  BY <1>1, <2>1 DEF Inserting, Growing
<1>7. backup' \in [Hashes -> HeaderValues]
  BY <1>1 DEF HeadersTyped
<1>. QED  BY <1>1, <1>2, <1>5, <1>6, <1>7, HeadersMove

(* A record goes into the first free slot of the last page, or of a new one. *)
LEMMA FirstFreeIs ==
    ASSUME NEW p \in DataPages, FreeSlots(p) # {}
    PROVE  FirstFree(p) \in 1 .. Slots
<1>1. FreeSlots(p) \subseteq 1 .. Slots
  BY SizesAssumption DEF FreeSlots, Offsets, Bitmap
<1>2. FreeSlots(p) \in SUBSET Nat
  BY <1>1, SizesAssumption
<1>3. PICK m \in FreeSlots(p) : \A i \in FreeSlots(p) : m <= i
  <2>1. PICK S \in SUBSET Nat : S = FreeSlots(p)
    BY <1>2
  <2>. QED  BY <2>1, LeastNat
<1>4. FirstFree(p) \in FreeSlots(p)
  BY <1>3 DEF FirstFree
<1>. QED  BY <1>1, <1>4

LEMMA WriteHeaders ==
    ASSUME CountersInv, HeadersTyped, NEW w \in Workers, NEW k \in Keys, Write(w, k)
    PROVE  HeadersTyped'
<1>. DEFINE h == hashOf[k]
<1>1. /\ UNCHANGED <<hashOf, header, backup, n>> /\ wpc[w] = "run"
      /\ header[h] # Bad /\ ~Inserting(h)
  BY DEF Write, At
<1>2. h \in Hashes /\ header[h] \in Counts
  BY <1>1 DEF HeadersTyped, HeaderValues
<1>3. PICK a \in 0 .. MaxPages : a = header[h].data
  BY <1>2 DEF Counts
<1>4. MaxPages \in Nat /\ Slots \in Nat /\ 1 \in 1 .. Slots
  BY BoundsAssumption, SizesAssumption
<1>5. ~Committing(w) /\ wpc \in [Workers -> WorkerPlaces]
  BY <1>1, LogFacts DEF CountersInv, WorkersOK
<1>6. PICK page \in 0 .. MaxPages - 1, slot \in 1 .. Slots :
        /\ items' = [items EXCEPT ![w] = Append(@, NewItem(k, page, slot))]
        /\ \/ wpc' = wpc
           \/ wpc' = [wpc EXCEPT ![w] = "backup"] /\ a < MaxPages /\ ~GrowingIndex(h)
  <2>1. CASE HasRoom(h)
    <3>1. a > 0 /\ a - 1 \in 0 .. MaxPages - 1
      BY <1>3, <1>4, <2>1 DEF HasRoom
    <3>2. PICK b \in 0 .. MaxPages - 1 : b = a - 1
      BY <3>1
    <3>3. DataPage(h, b) \in DataPages /\ FreeSlots(DataPage(h, b)) # {}
      BY <1>2, <1>3, <2>1, <3>2 DEF DataPages, HasRoom
    <3>4. PICK s \in 1 .. Slots : s = FirstFree(DataPage(h, b))
      BY <3>3, FirstFreeIs
    <3>5. items' = [items EXCEPT ![w] = Append(@, NewItem(k, b, s))] /\ wpc' = wpc
      BY <1>3, <2>1, <3>2, <3>4 DEF Write
    <3>. QED  BY <3>5
  <2>2. CASE ~HasRoom(h)
    <3>1. /\ items' = [items EXCEPT ![w] = Append(@, NewItem(k, a, 1))]
          /\ Goto(w, "backup") /\ a < MaxPages /\ ~GrowingIndex(h)
      BY <1>3, <2>2 DEF Write
    <3>2. a \in 0 .. MaxPages - 1
      BY <1>3, <1>4, <3>1
    <3>. QED  BY <1>4, <3>1, <3>2 DEF Goto
  <2>. QED  BY <2>1, <2>2
<1>7. PICK x \in WriteItem : x = NewItem(k, page, slot) /\ x.key = k
  <2>1. PICK first \in BOOLEAN : first = (Found(k) = {})
    OBVIOUS
  <2>2. NewItem(k, page, slot) = [key |-> k, page |-> page, slot |-> slot, first |-> first]
    BY <2>1 DEF NewItem
  <2>. QED  BY <2>2 DEF WriteItem
<1>8. PICK s \in Seq(WriteItem) : s = items[w] /\ HeadersGood(w)
  BY DEF HeadersTyped, WorkerTyped
<1>9. /\ OthersStay(w) /\ items'[w] = Append(s, x)
      /\ wpc'[w] = "run" \/ (wpc'[w] = "backup" /\ a < MaxPages /\ ~GrowingIndex(h))
  BY <1>1, <1>5, <1>6, <1>7, <1>8 DEF OthersStay, HeadersTyped
<1>10. PICK t \in Seq(WriteItem) :
         /\ t = items'[w] /\ Len(t) = Len(s) + 1 /\ t[Len(s) + 1] = x
         /\ \A i \in 1 .. Len(s) : t[i] = s[i]
  <2>1. PICK t : t = Append(s, x)
    OBVIOUS
  <2>2. IsSeq(s)
    BY SeqIs
  <2>3. /\ Len(t) = Len(s) + 1 /\ t[Len(s) + 1] = x
        /\ \A i \in 1 .. Len(s) : t[i] = s[i]
    BY <2>1, <2>2, AppendFacts, SeqFacts
  <2>4. t \in Seq(WriteItem)
    <3>1. PICK S : S = WriteItem
      OBVIOUS
    <3>. QED  BY <2>1, <3>1
  <2>. QED  BY <1>9, <2>1, <2>3, <2>4
<1>11. ~Committing(w)' /\ Place(w)' = Len(t) /\ Len(t) \in 1 .. Len(t) /\ t[Len(t)] = x
  BY <1>1, <1>5, <1>10 DEF Committing, Place
<1>12. HashAt(w)' = h
  BY <1>1, <1>7, <1>10, <1>11 DEF HashAt, KeyOf, Current, Place
<1>13. HeadersGood(w)'
  <2>1. \A i \in 1 .. Len(t) : i \in 1 .. Len(s) \/ i = Len(s) + 1
    BY <1>10
  <2>. QED  BY <1>1, <1>7, <1>8, <1>10, <2>1 DEF HeadersGood
<1>14. Growing(w)' => Room(w)' /\ ~GrowingIndex(h)
  BY <1>1, <1>3, <1>9, <1>11, <1>12 DEF Growing, Room
<1>15. WorkerTyped(w)'
  BY <1>10, <1>11, <1>13, <1>14 DEF WorkerTyped
<1>16. \A v \in Workers : v # w /\ Growing(v) /\ Growing(w)' => HashAt(v) # HashAt(w)'
  BY <1>1, <1>12, <1>14 DEF Inserting, GrowingIndex, Growing
<1>17. backup' \in [Hashes -> HeaderValues]
  BY <1>1 DEF HeadersTyped
<1>. QED  BY <1>1, <1>9, <1>15, <1>16, <1>17, HeadersMove

LEMMA NoItems ==
    ASSUME NEW w, items[w] = <<>>, wpc[w] = "idle"
    PROVE  WorkerTyped(w) /\ ~Growing(w)
<1>1. ~AtItem(w) /\ ~Growing(w)
  BY DEF AtItem, Growing
<1>2. Len(items[w]) = 0 /\ items[w] \in Seq(WriteItem)
  <2>1. PICK S : S = WriteItem
    OBVIOUS
  <2>. QED  BY <2>1
<1>3. HeadersGood(w)
  BY <1>2 DEF HeadersGood
<1>. QED  BY <1>1, <1>2, <1>3 DEF WorkerTyped

LEMMA FaultHeaders ==
    ASSUME CountersInv, HeadersTyped, Fault
    PROVE  HeadersTyped'
<1>1. /\ hashOf' = hashOf
      /\ items' = [w \in Workers |-> <<>>] /\ wpc' = [w \in Workers |-> "idle"]
  BY DEF Fault, Crash, TornPage, TornHeader, Stop
<1>2. header' \in [Hashes -> HeaderValues] /\ backup' \in [Hashes -> HeaderValues]
  <2>1. \/ UNCHANGED <<header, backup>>
        \/ \E h : header' = [header EXCEPT ![h] = Bad] /\ backup' = backup
        \/ \E h : backup' = [backup EXCEPT ![h] = Bad] /\ header' = header
    BY ZenonT(30) DEF Fault, Crash, TornPage, TornHeader, fileVars
  <2>2. Bad \in HeaderValues
    BY DEF HeaderValues
  <2>. HIDE DEF HeaderValues
  <2>. QED  BY <2>1, <2>2 DEF HeadersTyped
<1>3. \A w \in Workers : WorkerTyped(w)'
  <2>1. \A w \in Workers : items'[w] = <<>> /\ wpc'[w] = "idle"
    BY <1>1
  <2>2. Len(<<>>) = 0 /\ <<>> \in Seq(WriteItem)
    <3>1. PICK S : S = WriteItem
      OBVIOUS
    <3>. QED  BY <3>1
  <2>. SUFFICES ASSUME NEW w \in Workers PROVE WorkerTyped(w)'
    OBVIOUS
  <2>3. ~AtItem(w)' /\ ~Growing(w)'
    BY <2>1 DEF AtItem, Growing
  <2>4. HeadersGood(w)'
    BY <2>1, <2>2 DEF HeadersGood
  <2>. QED  BY <2>1, <2>2, <2>3, <2>4 DEF WorkerTyped
<1>4. \A v, w \in Workers : Apart(v, w)'
  BY <1>1 DEF Apart, Growing
<1>. QED  BY <1>1, <1>2, <1>3, <1>4 DEF HeadersTyped

LEMMA TransactionHeaders ==
    ASSUME CountersInv, HeadersTyped, NEW w \in Workers, Transaction(w)
    PROVE  HeadersTyped'
<1>1. CASE \E k \in Keys : Write(w, k)
  BY <1>1, WriteHeaders
<1>2. CASE \E h \in Hashes : Repair(w, h)
  BY <1>2, RepairHeaders
<1>3. CASE Begin(w) \/ Abort(w)
  BY <1>3, BeginHeaders, EndHeaders
<1>4. CASE CountPage(w)
  BY <1>4, WriteBackupHeaders, WriteHeaderHeaders DEF CountPage
<1>5. CASE Commit(w)
  BY <1>5, CommitHeaders, NewIndexHeaders, EndHeaders DEF Commit
<1>. QED  BY <1>1, <1>2, <1>3, <1>4, <1>5 DEF Transaction

LEMMA RestHeaders ==
    ASSUME HeadersTyped, Recover \/ CleanPool \/ Checkpoint \/ UNCHANGED vars
    PROVE  HeadersTyped'
<1>1. UNCHANGED <<hashOf, header, backup, items, n, wpc>>
  BY ZenonT(30) DEF Recover, CleanPool, Checkpoint, CheckpointBegin, CheckpointPages, CheckpointLog,
     CheckpointFlush, fileVars, workerVars, vars
<1>. QED  BY <1>1, HeadersSame

LEMMA HeadersInit == Init => HeadersTyped
<1>. SUFFICES ASSUME Init PROVE HeadersTyped
  OBVIOUS
<1>1. /\ items = [w \in Workers |-> <<>>] /\ wpc = [w \in Workers |-> "idle"]
      /\ header = [h \in Hashes |-> Bad] /\ backup = [h \in Hashes |-> Bad]
      /\ hashOf \in [Keys -> Hashes]
  BY HashingsAssumption DEF Init
<1>2. \A w \in Workers : items[w] = <<>> /\ wpc[w] = "idle"
  BY <1>1
<1>3. \A w \in Workers : WorkerTyped(w) /\ ~Growing(w)
  BY <1>2, NoItems
<1>4. \A v, w \in Workers : Apart(v, w)
  BY <1>3 DEF Apart
<1>. QED  BY <1>1, <1>3, <1>4 DEF HeadersTyped, HeaderValues

LEMMA HeadersInvariant == Spec => []HeadersTyped
<1>1. CountersInv /\ HeadersTyped /\ [Next]_vars => HeadersTyped'
  BY TransactionHeaders, RestHeaders, FaultHeaders DEF Next
<1>. QED  BY <1>1, HeadersInit, CountersInvariant, PTL DEF Spec

LEMMA AckedInvariant == Spec => []AckedLogged
<1>1. CountersInv /\ PartsInv /\ AckedLogged /\ [Next]_vars => AckedLogged'
  BY KeptTransaction, KeptCheckpointLog, KeptRest, KeptFault DEF Next, Checkpoint, Kept
<1>. QED  BY <1>1, AckedInit, CountersInvariant, PartsInvariant, PTL DEF Spec

(***************************************************************************)
(* Types.  That of header and backup says most: no two threads count a page  *)
(* of a bucket at once, and the header they count in is a good one with room *)
(* for it, whatever was torn and repaired before.                           *)
(***************************************************************************)
THEOREM RecoveryTypes == Spec => []TypeOK
<1>1. CountersInv /\ PartsInv /\ StoreTyped /\ HeadersTyped /\ AckedLogged => TypeOK
  <2>. SUFFICES ASSUME CountersInv, PartsInv, StoreTyped, HeadersTyped, AckedLogged
                PROVE  TypeOK
    OBVIOUS
  <2>1. /\ hashOf \in [Keys -> Hashes]
        /\ \A p \in Pages : DOMAIN mem[p] = Offsets(p) /\ DOMAIN disk[p] = Offsets(p)
        /\ cpc \in {"idle", "flush pages", "log", "flush log"}
        /\ crashes \in 0 .. MaxCrashes
    BY DEF StoreTyped, PagesTyped
  <2>2. /\ header \in [Hashes -> Counts \cup {Bad}] /\ backup \in [Hashes -> Counts \cup {Bad}]
        /\ items \in [Workers -> Seq(WriteItem)]
    BY DEF HeadersTyped, WorkerTyped, HeaderValues
  <2>3. /\ \A i \in DOMAIN log : log[i].type \in LogTypes
        /\ maxTx \in 0 .. MaxTx /\ tx \in [Workers -> 0 .. MaxTx]
    BY DEF PartsInv, TxLog, IdsBounded, Ids
  <2>4. /\ durable \in 0 .. Len(log) /\ pc \in PcValues
        /\ nextLogId \in Nat /\ maxTs \in Nat
        /\ wpc \in [Workers -> WorkerPlaces] /\ n \in [Workers -> Nat]
    BY DEF CountersInv, ControlTyped
  <2>5. acked \in Nat
    BY DEF AckedLogged
  <2>. QED  BY <2>1, <2>2, <2>3, <2>4, <2>5 DEF TypeOK
<1>. QED  BY <1>1, CountersInvariant, PartsInvariant, StoreInvariant, HeadersInvariant,
             AckedInvariant, PTL

===============================================================================
