-------------------- MODULE CompensationLedgerProperties --------------------
(***************************************************************************)
(* What the compensation ledger promises.  The rules S-1 to S-16, D-12 to   *)
(* D-29 and R-3 are the repository's own names, from saga.py,               *)
(* compensation.py, child_wake.py, child_wait.py and recovery.py.           *)
(***************************************************************************)
EXTENDS CompensationLedger

ExecutionStatuses == TerminalStatuses \cup {"none", "suspended", "retrying"}
Phases == {"idle", "rebuilt", "unblocked", "driving", "undoing", "calling",
           "releasing", "closing"}

TickOK(t) ==
    /\ t.phase \in Phases
    /\ t.status \in {"running", "unsaved"} \cup TerminalStatuses
    /\ {t.child, t.pending} \subseteq Delegations \cup {None}
    /\ DOMAIN t.fwd \subseteq Executions /\ DOMAIN t.row \subseteq Executions
    /\ \A e \in DOMAIN t.row : t.row[e] \in CompensationRecord
    /\ t.delivers \cup t.expires \subseteq Delegations
    /\ t.queued \subseteq QueuedUndo /\ {t.called, t.seen} \subseteq SUBSET Executions
    /\ t.phase = "calling" => t.todo # <<>>

\* The shape of the state, and the CHECK constraints of the table child_runs: a
\* result is delivered, and a wait is over, only for a child run that was
\* registered, and D-7 no result is delivered before it is there.
TypeOK ==
    /\ run \in {"running"} \cup TerminalStatuses
    /\ pending \in Delegations \cup {None}
    /\ fwd \in [Executions -> ExecutionStatuses]
    /\ row \in [Executions -> CompensationRecord \cup {NoRow}]
    /\ queued \subseteq QueuedUndo
    /\ \A d \in Delegations :
           /\ child[d].delivered => Finished(d)
           /\ child[d].expired => child[d].status # "none"
           /\ child[d].result => child[d].status = "completed"
    /\ \A p \in Processes : TickOK(tick[p])

(***************************************************************************)
(* Undoing.                                                                 *)
(***************************************************************************)
\* S-2 and S-4, the UNIQUE execution_id and the claim by one UPDATE: however
\* many processes end the run, and however late results come in, a side effect
\* is undone once, and once more for each decision of a human to reopen its row
\* and each tick that undid it and was rolled back.
UndoneOncePerDecision ==
    \A e \in Executions : undone[e] + blind[e] <= 1 + reopened[e] + lost[e]

\* S-8: an undo is called without its arguments only after a human reopened a
\* row that lacks them; no automatic path, late results included, does it.
BlindOnlyByHand == \A e \in Executions : blind[e] > 0 => reopened[e] > 0

\* S-4: a row is `running` only while somebody undoes it.  A claim that outlives
\* its tick is a row that no later run of compensate() touches again.
NoClaimIsLeft == \A e \in Executions : row[e].status # "running"

\* S-3: when an undo is called, whatever was booked after it and pending at the
\* verdict has been dealt with, in this tick or by somebody else.
UndoneInReverse ==
    \A p \in Processes : In(p, "calling") =>
        \A e \in tick[p].seen :
            /\ RowSeenBy(p, e).status = "pending"
            /\ RowSeenBy(p, e).at > Current(p).at
            => reopened[e] > 0

\* S-6 and S-7: a run that fails tries to undo everything that was pending at
\* the verdict, its own last bookings included; an undo that fails, or a row
\* that somebody else has claimed, stops none of the others.
NothingIsSkipped ==
    \A p \in Processes : In(p, "undoing") /\ tick[p].todo = <<>> =>
        \A e \in tick[p].seen : RowSeenBy(p, e).status = "pending" => reopened[e] > 0

\* S-14: what is compensated or not needed is never touched again: not by a
\* result that comes late, not by a second verdict, not by a human.
LedgerNeverFlowsBack ==
    [][\A e \in Executions : row[e].status \in FinalStatuses => row'[e] = row[e]]_vars

(***************************************************************************)
(* Results that come late.                                                  *)
(***************************************************************************)
\* D-25: when a child run completed after its run had stopped waiting for it,
\* and its result is settled, the ledger holds the arguments to undo it with.
TruthReachesTheLedger ==
    \A d \in Delegations :
        /\ child[d].delivered /\ child[d].expired /\ child[d].result
        /\ reopened[d] = 0
        => row[d].args

\* D-7 and D-29: a result, once it is there, is settled with the run that
\* waited for it, although ticks fail, the run ends, is cancelled or gives up.
Delivery == \A d \in Delegations : Finished(d) ~> child[d].delivered

(***************************************************************************)
(* What the code says and does not keep.                                    *)
(***************************************************************************)
\* D-12 and D-13: the side effects of a delegation are in the ledger by the
\* time its result counts as delivered, whoever gets there first: the process
\* that cancels the run or the one that brings the result.
DelegationsAreBooked ==
    \A d \in Delegations : child[d].delivered => row[d] # NoRow
=============================================================================
