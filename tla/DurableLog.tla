------------------------------- MODULE DurableLog ------------------------------
(***************************************************************************)
(* What the log promises (LogManager::add_log and flush_logs): items that  *)
(* were in the log when flush_logs was called are there, in their order,   *)
(* after any crash; of the later ones a crash may lose the newest.  Those   *)
(* that it leaves are in the file, and no later crash loses them.          *)
(***************************************************************************)
EXTENDS Naturals, Sequences

CONSTANT Items \* log items

VARIABLES
    log,     \* the items, oldest first
    durable  \* how many of them are known to be in the file

vars == <<log, durable>>

Init == log = <<>> /\ durable = 0

Add(x) ==
    /\ log' = Append(log, x)
    /\ UNCHANGED durable

Flush ==
    /\ durable' = Len(log)
    /\ UNCHANGED log

Crash ==
    /\ \E m \in durable..Len(log) : log' = SubSeq(log, 1, m) /\ durable' = m

Next == Flush \/ Crash \/ \E x \in Items : Add(x)

Spec == Init /\ [][Next]_vars

===============================================================================
