------------------------------ MODULE VersionChain -----------------------------
(***************************************************************************)
(* The versions of one key.  An index item points at the newest            *)
(* DataRecord; each record points at the one that was newest when it was   *)
(* made (prev_page_ID, prev_slot_ID).  A chain is that list, newest first, *)
(* and a key without an index item has the empty chain.  The pages and     *)
(* slots the records sit in are left out: a record, once linked, is never  *)
(* written again (Executor::update_record has only unlinked targets).      *)
(***************************************************************************)
EXTENDS Integers, Sequences

Version == [ts : Nat, val : Int]
Chain == Seq(Version)

(* The versions a reader at read_timestamp ts may use (executor.cpp:39).    *)
VisibleAt(c, ts) == {i \in DOMAIN c : c[i].ts <= ts}

(* The first of them on the walk from the newest record (read_key).         *)
ReadAt(c, ts) ==
    c[CHOOSE i \in VisibleAt(c, ts) : \A j \in VisibleAt(c, ts) : i <= j].val

(* A record with no prev has prev = (0, 0), which is a record too: a walk   *)
(* that finds no version old enough does not end at the end of the chain.   *)
WalksOff(c, ts) == c # <<>> /\ VisibleAt(c, ts) = {}

(* Committing a record whose prev is the head of `base`.                    *)
Link(base, ts, val) == <<[ts |-> ts, val |-> val]>> \o base

(* Each version is newer than the one it hides.                             *)
NewestFirst(c) == \A i, j \in DOMAIN c : i < j => c[i].ts > c[j].ts

===============================================================================
