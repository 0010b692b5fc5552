------------------------ MODULE RunFamiliesProperties ------------------------
(***************************************************************************)
(* What the registry of child runs and the cancellation of runs promise.    *)
(***************************************************************************)
EXTENDS RunFamilies

\* Types: of child_runs, run_snapshots and run_cancellations, and of the offsets.
TypeOK ==
    /\ db.snap \in [Runs -> TerminalRuns \cup {"none", "gated", "waiting"}]
    /\ \A r \in Runs : db.waits[r] # None <=> db.snap[r] = "waiting"
    /\ \A c \in Children : db.row[c].status \in TerminalRuns \cup {"none", "created"}
    /\ db.intent \in [Runs -> {{}, {"asked"}, {"asked", "settled"}, {"asked", "abandoned"},
                               {"asked", "settled", "abandoned"}}]
    /\ ToSet(db.queue) = {r \in Runs : IsPending(db, r)}
    /\ committed <= position /\ position <= Len(log)

\* R-10: an intent is settled only when the run has stopped, and its snapshot or its
\* row in the registry says so; also for intents that were given up before.
SettledMeansStopped ==
    \A r \in Runs : IsSettled(db, r) =>
        IsTerminal(db, r) \/ (r \in Children /\ IsFinished(db, r))

\* D-12, D-13, R-12: whatever way a delegation was closed, delivered to its parent,
\* out of time, or with a parent that had stopped, the ledger has a row for what the
\* child may have done, and nobody waits for the child any more.
ClosedIsAccounted ==
    \A c \in Children : db.row[c].delivered \/ db.row[c].expired =>
        c \in db.book /\ \A r \in Runs : db.waits[r] # c

\* D-18: every delegation is closed in the end, with the drivers of children dead,
\* events lost with the offsets of a failed batch, and the parent stopped or not.
DelegationsClose ==
    \A c \in Children : db.row[c] # NoRow ~> db.row[c].delivered \/ db.row[c].expired

\* A sweep that lets go of all it can may still leave a run whose cancellation raises
\* (an approval out of time), behind more intents than one sweep takes.
SweepsGetThrough ==
    Len(db.queue) <= Limit \/ \A i \in 1 .. Len(db.queue) : CanCancel(db, db.queue[i])

\* R-11: no intent to cancel stays at the head of the queue for ever (cancellation.py:422),
\* although the sweep may not know the run, cannot cancel it, or takes fewer rows than
\* there are, so that those behind it get their turn.
QueueMovesOn ==
    <>[]SweepsGetThrough =>
        []<>(db.queue = <<>>) \/ []<><<First(1, db.queue)' # First(1, db.queue)>>_vars

\* What the code says and does not keep: the queue moves on whatever the sweep meets.
QueueAlwaysMovesOn ==
    []<>(db.queue = <<>>) \/ []<><<First(1, db.queue)' # First(1, db.queue)>>_vars

\* _emit_child_run_outcome: a child that has ended has told the registry so.
EndedChildrenTell ==
    \A c \in Children : IsTerminal(db, c) => IsFinished(db, c)
=============================================================================
