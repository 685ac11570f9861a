--------------------------- MODULE SnapshotIsolation ---------------------------
(***************************************************************************)
(* What StayDB promises a client: snapshot isolation with                  *)
(* first-committer-wins.  The database is the sequence of its committed    *)
(* states; a transaction reads the state that was last when it began,      *)
(* overlaid with its own writes, and appends one state when it commits.    *)
(* Nothing is said of locks, version chains, timestamps or waiting: that   *)
(* is Transactions, which implements this module (TransactionsProps).      *)
(***************************************************************************)
EXTENDS Integers, Sequences

CONSTANTS
    Tx,      \* transactions
    Keys,    \* keys
    Absent   \* "no value": the key does not exist, or has not been read

VARIABLES
    hist,    \* the commits, oldest first: the state each left, the keys it wrote
    phase,   \* phase[t]: "idle", "running", "committed" or "failed"
    snap,    \* snap[t]: the commit whose state t reads
    view,    \* view[t][k]: what t has read or written of k
    written  \* written[t]: the keys t has written

vars == <<hist, phase, snap, view, written>>

Value == Int \cup {Absent}
DbState == [Keys -> Value]
CommitEntry == [state : DbState, wrote : SUBSET Keys]

Init ==
    /\ hist \in Seq(CommitEntry)
    /\ Len(hist) = 1
    /\ phase = [t \in Tx |-> "idle"]
    /\ snap \in [Tx -> Nat]
    /\ view = [t \in Tx |-> [k \in Keys |-> Absent]]
    /\ written = [t \in Tx |-> {}]

(* A (re)started transaction takes the newest committed state. *)
Begin(t) ==
    /\ phase[t] = "idle"
    /\ phase' = [phase EXCEPT ![t] = "running"]
    /\ snap' = [snap EXCEPT ![t] = Len(hist)]
    /\ view' = [view EXCEPT ![t] = [k \in Keys |-> Absent]]
    /\ written' = [written EXCEPT ![t] = {}]
    /\ UNCHANGED hist

(* A key not touched yet is read in the snapshot, and exists there. *)
Read(t, k) ==
    /\ phase[t] = "running"
    /\ view[t][k] = Absent
    /\ hist[snap[t]].state[k] # Absent
    /\ view' = [view EXCEPT ![t][k] = hist[snap[t]].state[k]]
    /\ UNCHANGED <<hist, phase, snap, written>>

(* A write is private until the transaction commits. *)
Write(t, k) ==
    /\ phase[t] = "running"
    /\ view'[t][k] \in Int
    /\ view' = [view EXCEPT ![t][k] = view'[t][k]]
    /\ written' = [written EXCEPT ![t] = @ \cup {k}]
    /\ UNCHANGED <<hist, phase, snap>>

(* First committer wins: no key t wrote was written by a commit that is    *)
(* newer than t's snapshot.  All of t's writes appear at once.             *)
Commit(t) ==
    /\ phase[t] = "running"
    /\ \A i \in (snap[t] + 1)..Len(hist) : hist[i].wrote \cap written[t] = {}
    /\ hist' = Append(hist,
                 [state |-> [k \in Keys |-> IF k \in written[t]
                                            THEN view[t][k]
                                            ELSE hist[Len(hist)].state[k]],
                  wrote |-> written[t]])
    /\ phase' = [phase EXCEPT ![t] = "committed"]
    /\ UNCHANGED <<snap, view, written>>

(* An aborted transaction leaves the database as it was; it starts again or *)
(* gives up.                                                               *)
Abort(t) ==
    /\ phase[t] = "running"
    /\ \E p \in {"idle", "failed"} : phase' = [phase EXCEPT ![t] = p]
    /\ UNCHANGED <<hist, snap, view, written>>

Next ==
    \E t \in Tx :
        \/ Begin(t)
        \/ Commit(t)
        \/ Abort(t)
        \/ \E k \in Keys : Read(t, k) \/ Write(t, k)

Spec == Init /\ [][Next]_vars

===============================================================================
