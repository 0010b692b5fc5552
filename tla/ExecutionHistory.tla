-------------------------- MODULE ExecutionHistory --------------------------
(***************************************************************************)
(* What the kernel promises to whoever reads its events: the status         *)
(* history of an execution only ever grows, one commit at a time, along the *)
(* documented life cycle.  A commit may add several events: a worker claims *)
(* and completes in one transaction.                                        *)
(***************************************************************************)
EXTENDS ExecutionDomain

VARIABLE log    \* the statuses the outbox tells, oldest first

\* recover() is the one way out of STALE that is not in the table; a request
\* to cancel is an event that leaves the status as it is.
Follows(s, t) ==
    \/ t \in EXECUTION_TRANSITIONS[s]
    \/ s = "STALE" /\ t = "RUNNING"
    \/ s = t /\ s \notin Terminal

Extends(new, old) ==
    /\ Len(new) > Len(old)
    /\ SubSeq(new, 1, Len(old)) = old
    /\ old = <<>> => new[1] = "PENDING"
    /\ \A i \in 1 .. Len(new) - 1 : i >= Len(old) => i = 0 \/ Follows(new[i], new[i + 1])

HistoryInit == log = <<>>
HistorySpec == HistoryInit /\ [][Extends(log', log)]_log
=============================================================================
