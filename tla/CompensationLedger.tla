------------------------- MODULE CompensationLedger -------------------------
(***************************************************************************)
(* The compensation ledger of one run that calls tools and delegates to     *)
(* child runs: what is booked for its executions, how the saga undoes or    *)
(* releases it when the run ends, and how results that come back late, or   *)
(* to a run that is over, reach it.                                         *)
(*                                                                          *)
(* Every process runs its work in ticks, and a tick is one transaction: its *)
(* writes sit in tick[p] until Commit, lock the rows they touch, and are    *)
(* lost when the tick rolls back.  What it did outside, side effects and    *)
(* calls that undo them, stays.  A tick starts from the run's latest        *)
(* snapshot, and nothing keeps two processes from starting from the same.   *)
(*                                                                          *)
(* Every action of the run declares its inverse.                            *)
(***************************************************************************)
EXTENDS Naturals, FiniteSets, Sequences, SequencesExt

CONSTANTS
    Processes,      \* child_run_consumer, run_cancellation_sweeper, control plane
    JobsOf,         \* the ticks each process runs
    Calls,          \* executions of tools, numbers
    Delegations,    \* executions that wait for a child run, numbers
    None,           \* no child run
    MaxFaults       \* bound: ticks that fail and rows that a human reopens

ASSUME LedgerAssumption ==
    /\ Calls \subseteq Nat /\ Delegations \subseteq Nat
    /\ JobsOf \in [Processes -> SUBSET {"drive", "wake", "expire", "cancel"}]
    /\ IsFiniteSet(Calls) /\ IsFiniteSet(Delegations) /\ IsFiniteSet(Processes)
    /\ Calls \cap Delegations = {} /\ None \notin Delegations
    /\ MaxFaults \in Nat

VARIABLES
    run,        \* status of the latest snapshot
    pending,    \* pending_child_id of the latest snapshot
    fwd,        \* executions: status of each execution of the run
    row,        \* compensations: the row of each execution
    queued,     \* undoes the kernel is going to try again, each with its claim
    child,      \* child_runs: the row of each delegation
    tick,       \* tick[p]: what p's transaction did so far
    undone,     \* the world outside, undone[e]: how often the undo of e was carried out
    blind,      \* blind[e]: how often it was called without its arguments
    reopened,   \* reopened[e]: how often a human put e back
    lost,       \* lost[e]: how often a tick that undid e rolled back
    faults      \* the bounded counter

tables == <<run, pending, fwd, row, queued, child>>
world == <<undone, blind>>
history == <<reopened, lost>>
vars == <<tables, tick, world, history, faults>>

Executions == Calls \cup Delegations

OpenStatuses == {"pending", "running"}
FinalStatuses == {"compensated", "not_needed"}

\* Mutant: a human puts back what is compensated already.
AllowedBack(from, to) == to = "pending" \/ from # "unresolved"

\* S-14: _ALLOWED_TRANSITIONS.
Allowed(from, to) ==
    \/ from = "pending" /\ to \in {"running", "unresolved", "not_needed"}
    \/ from = "running" /\ to \in {"compensated", "unresolved"}
    \/ from = "unresolved" /\ to = "pending"

\* args is TRUE when the row holds the arguments of the undo, `at` its created_at.
CompensationRecord ==
    [status : OpenStatuses \cup FinalStatuses \cup {"unresolved"},
     args : BOOLEAN, at : Nat, version : Nat]
\* An undo in the queue of the kernel, with the version its row was claimed at.
QueuedUndo == [exec : Executions, args : BOOLEAN, version : Nat]
NoRow == [status |-> "none", args |-> FALSE, at |-> 0, version |-> 0]

ChildStatuses == {"completed", "failed", "cancelled"}
TerminalStatuses == {"completed", "failed", "cancelled"}
NoChild == [status |-> "none", result |-> FALSE, expired |-> FALSE, delivered |-> FALSE]

NoWrites == [e \in {} |-> None]

\* A tick that has written nothing.  status and pending are those it will leave
\* in the latest snapshot, called the executions it has undone, seen those whose
\* rows were pending when it gave its verdict.
IdleTick ==
    [phase |-> "idle", job |-> "none", child |-> None,
     status |-> "running", pending |-> None,
     fwd |-> NoWrites, row |-> NoWrites, queued |-> {}, delivers |-> {}, expires |-> {},
     todo |-> <<>>, seen |-> {}, called |-> {}]

Init ==
    /\ run = "running" /\ pending = None
    /\ fwd = [e \in Executions |-> "none"]
    /\ row = [e \in Executions |-> NoRow]
    /\ queued = {}
    /\ child = [d \in Delegations |-> NoChild]
    /\ tick = [p \in Processes |-> IdleTick]
    /\ undone = [e \in Executions |-> 0]
    /\ blind = [e \in Executions |-> 0]
    /\ reopened = [e \in Executions |-> 0]
    /\ lost = [e \in Executions |-> 0]
    /\ faults = 0

(***************************************************************************)
(* What a transaction sees and writes.                                      *)
(***************************************************************************)
RowSeenBy(p, e) == IF e \in DOMAIN tick[p].row THEN tick[p].row[e] ELSE row[e]
StatusSeenBy(p, e) == IF e \in DOMAIN tick[p].fwd THEN tick[p].fwd[e] ELSE fwd[e]
Write(f, e, v) == [x \in DOMAIN f \cup {e} |-> IF x = e THEN v ELSE f[x]]
Over(f, g) == [x \in DOMAIN g |-> IF x \in DOMAIN f THEN f[x] ELSE g[x]]

\* Nobody else has written the row and not committed yet.
RowUnlocked(p, e) == \A q \in Processes \ {p} : e \notin DOMAIN tick[q].row
ExecutionUnlocked(p, e) == \A q \in Processes \ {p} : e \notin DOMAIN tick[q].fwd

In(p, phase) == tick[p].phase = phase
Continue(p, t) == tick' = [tick EXCEPT ![p] = t]

Stamps == {row[e].at : e \in Executions}
          \cup UNION {{tick[q].row[e].at : e \in DOMAIN tick[q].row} : q \in Processes}
NextStamp == 1 + CHOOSE s \in Stamps : \A u \in Stamps : u <= s
Entry(status, args) == [status |-> status, args |-> args, at |-> NextStamp, version |-> 1]

\* S-2: a row that is there stays the only one.
Booked(p, e, status, args) ==
    IF RowSeenBy(p, e) # NoRow THEN tick[p].row
    ELSE Write(tick[p].row, e, Entry(status, args))

\* Mutant: keys that are missing are left empty.
BookedWithoutKeys(p, e, outcome, keys) ==
    CASE outcome = "completed" -> Booked(p, e, "pending", keys)
      [] outcome = "unknown" -> Booked(p, e, "unresolved", FALSE)
      [] OTHER -> tick[p].row

\* record() for an execution that is completed, with or without the keys that
\* the arguments of the undo are taken from, or that ended in doubt.
BookedOutcome(p, e, outcome, keys) ==
    CASE outcome = "completed" -> Booked(p, e, IF keys THEN "pending" ELSE "unresolved", keys)
      [] outcome = "unknown" -> Booked(p, e, "unresolved", FALSE)
      [] OTHER -> tick[p].row

Moved(r, status) == [r EXCEPT !.status = status, !.version = @ + 1]

(***************************************************************************)
(* The world outside: child runs, retries of the kernel, humans.            *)
(***************************************************************************)
Finished(d) == child[d].status \in ChildStatuses
Running(d) == child[d].status = "running"

\* A child run ends and says so; `keys`: its result has what the undo needs.
ChildFinishes(d, status, keys) ==
    /\ Running(d)
    /\ keys => status = "completed"
    /\ child' = [child EXCEPT ![d].status = status, ![d].result = keys]
    /\ UNCHANGED <<run, pending, fwd, row, queued, tick, world, history, faults>>

\* The undo is called: with its arguments it takes the side effect back.
Undo(e, args) ==
    /\ undone' = IF args THEN [undone EXCEPT ![e] = @ + 1] ELSE undone
    /\ blind' = IF args THEN blind ELSE [blind EXCEPT ![e] = @ + 1]

\* A worker takes an undo that was left in the queue and carries it out.
UndoIsRetried(q) ==
    /\ q \in queued
    /\ queued' = queued \ {q}
    /\ Undo(q.exec, q.args)
    /\ UNCHANGED <<run, pending, fwd, row, child, tick, history, faults>>

\* The same for an execution of the run itself: nobody books what it does now.
CallIsRetried(e) ==
    /\ fwd[e] = "retrying"
    /\ \E status \in {"completed", "failed"} : fwd' = [fwd EXCEPT ![e] = status]
    /\ UNCHANGED <<run, pending, row, queued, child, tick, world, history, faults>>

\* reopen(), by a human.
Reopen(e) ==
    /\ faults < MaxFaults /\ faults' = faults + 1
    /\ \A p \in Processes : RowUnlocked(p, e) /\ e \notin DOMAIN tick[p].row
    /\ Allowed(row[e].status, "pending")
    /\ row' = [row EXCEPT ![e] = Moved(@, "pending")]
    /\ reopened' = [reopened EXCEPT ![e] = @ + 1]
    /\ UNCHANGED <<run, pending, fwd, queued, child, tick, world, lost>>

(***************************************************************************)
(* Ticks that do not bring the run back to life.                            *)
(***************************************************************************)
RunIsOver == run \in TerminalStatuses

\* Mutant: only awaited results are delivered.
ToDeliverAwaited(d) == Finished(d) /\ ~ child[d].delivered /\ ~ child[d].expired

\* undelivered() and the guards of wake().
ToDeliver(d) == Finished(d) /\ ~ child[d].delivered
Free(p, d) == In(p, "idle") /\ \A q \in Processes : d \notin DOMAIN tick[q].row

\* record_child_orphan(): a side effect nobody is responsible for.
Orphaned(d) == IF row[d] = NoRow THEN [row EXCEPT ![d] = Entry("unresolved", FALSE)] ELSE row

\* reconcile_late_result(): only a row that lacks its arguments moves, and only
\* a result that brings them moves it; any other result changes the reason.
Upgradable(r) == r.status = "unresolved" /\ ~ r.args

\* Mutant: a late result changes the reason and nothing else.
ReconciledReason(d) ==
    IF row[d].status = "unresolved" THEN [row EXCEPT ![d].version = @ + 1] ELSE row

Reconciled(d) ==
    IF child[d].result
    THEN IF Upgradable(row[d])
         THEN [row EXCEPT ![d] = [Moved(@, "pending") EXCEPT !.args = TRUE]]
         ELSE row
    ELSE IF row[d].status = "unresolved"
         THEN [row EXCEPT ![d].version = @ + 1]
         ELSE row

Settles(newRow, newChild) ==
    /\ row' = newRow
    /\ child' = newChild
    /\ UNCHANGED <<run, pending, fwd, queued, tick, world, history, faults>>

\* wake(), D-22: the run no longer waits for this result.
WakeLate(p, d) ==
    /\ Free(p, d) /\ ToDeliver(d) /\ child[d].expired
    /\ Settles(Reconciled(d), [child EXCEPT ![d].delivered = TRUE])

\* wake(), D-13 and D-30: the run is over.
WakeOver(p, d) ==
    /\ Free(p, d) /\ ToDeliver(d) /\ ~ child[d].expired
    /\ RunIsOver
    /\ Settles(IF run = "completed" THEN row ELSE Orphaned(d),
               [child EXCEPT ![d].delivered = TRUE])

Overdue(d) == Running(d) /\ ~ child[d].expired

\* expire() for a run that is over.
ExpireOver(p, d) ==
    /\ Free(p, d) /\ Overdue(d) /\ RunIsOver
    /\ Settles(Orphaned(d), [child EXCEPT ![d].expired = TRUE])

\* R-12: the child was asked to stop with its parent and does not answer.
AbandonChild(p, d) ==
    /\ Free(p, d) /\ Running(d)
    /\ RunIsOver /\ fwd[d] = "cancelled" /\ row[d] = NoRow
    /\ Settles(Orphaned(d), child)

(***************************************************************************)
(* Ticks that rebuild the run: the gate of the child it waits for.          *)
(***************************************************************************)
Rebuild(p, job, d) ==
    /\ In(p, "idle") /\ run = "running"
    /\ CASE job = "wake" -> d # None /\ ToDeliver(d) /\ ~ child[d].expired
         [] job = "expire" -> d # None /\ Overdue(d)
         [] job = "cancel" -> d = None
         [] OTHER -> d = None /\ pending = None
    /\ Continue(p, [IdleTick EXCEPT !.phase = "rebuilt", !.job = job, !.child = d,
                                    !.pending = pending])
    /\ UNCHANGED <<tables, world, history, faults>>

\* _close_child_gate(): an execution that is terminal already keeps its status.
Closed(p, d, status) ==
    IF StatusSeenBy(p, d) \in TerminalStatuses THEN tick[p].fwd
    ELSE Write(tick[p].fwd, d, status)
StatusAfter(p, d, status) ==
    IF StatusSeenBy(p, d) \in TerminalStatuses THEN StatusSeenBy(p, d) ELSE status

\* child_completed(), child_failed() and child_cancelled().
DeliverResult(p) ==
    LET d == tick[p].pending
        completed == child[d].status = "completed"
    IN  /\ In(p, "rebuilt") /\ tick[p].job = "wake"
        /\ d # None /\ d = tick[p].child
        /\ ExecutionUnlocked(p, d) /\ RowUnlocked(p, d)
        /\ Continue(p, [tick[p] EXCEPT
               !.phase = "unblocked", !.pending = None, !.delivers = {d},
               !.fwd = Closed(p, d, IF completed THEN "completed" ELSE "failed"),
               !.row = IF completed
                       THEN BookedOutcome(p, d, StatusAfter(p, d, "completed"), child[d].result)
                       ELSE Booked(p, d, "unresolved", FALSE)])
        /\ UNCHANGED <<tables, world, history, faults>>

\* child_wait_expired().
DeclareUnknown(p) ==
    LET d == tick[p].pending
    IN  /\ In(p, "rebuilt") /\ tick[p].job = "expire"
        /\ d # None /\ d = tick[p].child
        /\ ExecutionUnlocked(p, d) /\ RowUnlocked(p, d)
        /\ Continue(p, [tick[p] EXCEPT
               !.phase = "unblocked", !.pending = None, !.expires = {d},
               !.fwd = Closed(p, d, "failed"),
               !.row = Booked(p, d, "unresolved", FALSE)])
        /\ UNCHANGED <<tables, world, history, faults>>

\* The run does not wait for this child any more: it is only driven on, from
\* the snapshot that is the latest by now, and left alone when that is final.
AlreadyClosed(p) ==
    /\ In(p, "rebuilt")
    /\ \/ tick[p].job = "drive"
       \/ tick[p].job = "wake" /\ tick[p].pending = None
       \/ tick[p].job = "expire" /\ tick[p].pending # tick[p].child
    /\ Continue(p, [tick[p] EXCEPT
           !.phase = IF RunIsOver THEN "closing" ELSE "driving",
           !.status = IF RunIsOver THEN "unsaved" ELSE @,
           !.pending = pending,
           !.delivers = IF tick[p].job = "wake" THEN {tick[p].child} ELSE {},
           !.expires = IF tick[p].job = "expire" THEN {tick[p].child} ELSE {}])
    /\ UNCHANGED <<tables, world, history, faults>>

\* drive() after the gate was closed: the latest snapshot is the one this tick
\* has saved, or a final one that another process has saved since.
Drive(p) ==
    /\ In(p, "unblocked")
    /\ \/ Continue(p, [tick[p] EXCEPT !.phase = "driving"])
       \/ RunIsOver /\ Continue(p, [tick[p] EXCEPT !.phase = "closing", !.status = "unsaved"])
    /\ UNCHANGED <<tables, world, history, faults>>

\* cancel(): the sweeper finds the intent, or the loop does before a step.
\* A child that stopped by itself is settled here, any other by its wake-up.
CancelRun(p) ==
    LET d == tick[p].pending
        stopped == d # None /\ child[d].status = "cancelled"
    IN  /\ \/ In(p, "rebuilt") /\ tick[p].job = "cancel"
           \/ In(p, "driving")
        /\ d # None => ExecutionUnlocked(p, d) /\ RowUnlocked(p, d)
        /\ Continue(p, [tick[p] EXCEPT
               !.phase = "closing", !.status = "cancelled", !.pending = None,
               !.fwd = IF d = None THEN @ ELSE Closed(p, d, "cancelled"),
               !.row = IF stopped THEN Booked(p, d, "unresolved", FALSE) ELSE @,
               !.delivers = IF stopped THEN @ \cup {d} ELSE @])
        /\ UNCHANGED <<tables, world, history, faults>>

(***************************************************************************)
(* Driving the run: steps, and how it ends.                                 *)
(***************************************************************************)
CanStep(p) == In(p, "driving") /\ tick[p].pending = None
Fresh(e) ==
    /\ fwd[e] = "none"
    /\ \A q \in Processes : e \notin DOMAIN tick[q].fwd

\* _execute(): the worker runs the call, the loop books what it came to.
CallTool(p, e, outcome, keys) ==
    /\ CanStep(p) /\ Fresh(e)
    /\ keys => outcome = "completed"
    /\ Continue(p, [tick[p] EXCEPT
           !.fwd = Write(@, e, IF outcome = "unknown" THEN "failed" ELSE outcome),
           !.row = BookedOutcome(p, e, outcome, keys)])
    /\ UNCHANGED <<tables, world, history, faults>>

\* _suspend_for_child(): the step ends there.
Delegate(p, d) ==
    /\ CanStep(p) /\ Fresh(d)
    /\ Continue(p, [tick[p] EXCEPT
           !.phase = "closing", !.pending = d, !.fwd = Write(@, d, "suspended")])
    /\ UNCHANGED <<tables, world, history, faults>>

\* The loop stops without a verdict: it waits for the child, for an approval,
\* or has made its steps.
Pause(p) ==
    /\ In(p, "driving")
    /\ Continue(p, [tick[p] EXCEPT !.phase = "closing"])
    /\ UNCHANGED <<tables, world, history, faults>>

\* Mutant: the oldest first.
Older(a, b) == a.at < b.at \/ (a.at = b.at /\ a.exec < b.exec)

\* open_for(): the open rows, the youngest first, as they are read now.
Younger(a, b) == a.at > b.at \/ (a.at = b.at /\ a.exec > b.exec)

\* The orders that ORDER BY created_at DESC, compensation_id DESC allows.
Ordered(items) ==
    LET n == Cardinality(items)
    IN  {s \in [1 .. n -> items] : \A i, j \in 1 .. n : i < j => Younger(s[i], s[j])}

Item(e, r) == [exec |-> e, at |-> r.at, status |-> r.status, version |-> r.version]

\* Mutant: read outside the transaction of the tick.
CommittedItems(p) ==
    Ordered({Item(e, row[e]) : e \in {x \in Executions : row[x].status \in OpenStatuses}})

OpenItems(p) ==
    LET open == {e \in Executions : RowSeenBy(p, e).status \in OpenStatuses}
    IN  Ordered({Item(e, RowSeenBy(p, e)) : e \in open})

\* _declare_terminal(): failed undoes, completed releases.
GiveVerdict(p, status, phase) ==
    /\ CanStep(p)
    /\ \E todo \in OpenItems(p) :
           Continue(p, [tick[p] EXCEPT
               !.phase = phase, !.status = status, !.todo = todo,
               !.seen = {e \in Executions : RowSeenBy(p, e).status = "pending"}])
    /\ UNCHANGED <<tables, world, history, faults>>
Fail(p) == GiveVerdict(p, "failed", "undoing")
Complete(p) == GiveVerdict(p, "completed", "releasing")

(***************************************************************************)
(* compensate() and release(), one row after the other.                     *)
(***************************************************************************)
Current(p) == Head(tick[p].todo)

\* Mutant: the claim does not look at the status.
ClaimableAnyway(r) == TRUE

Claimable(r) == r.status = "pending"

\* claim(): a row somebody else took in the meantime is passed over.
Claim(p) ==
    LET e == Current(p).exec
    IN  /\ In(p, "undoing") /\ tick[p].todo # <<>>
        /\ RowUnlocked(p, e)
        /\ IF Claimable(RowSeenBy(p, e))
           THEN Continue(p, [tick[p] EXCEPT
                    !.phase = "calling", !.row = Write(@, e, Moved(RowSeenBy(p, e), "running"))])
           ELSE Continue(p, [tick[p] EXCEPT !.todo = Tail(@)])
        /\ UNCHANGED <<tables, world, history, faults>>

\* The executor runs the undo and the row says how it went.  "lost": it was
\* carried out and reported as failed; "retrying": the kernel will try again.
UndoOutcomes == {"done", "refused", "lost", "retrying"}

\* Mutant: an undo that raises skips the save.
SettledUnlessRaised(r, outcome) ==
    IF outcome = "lost" THEN r
    ELSE Moved(r, IF outcome = "done" THEN "compensated" ELSE "unresolved")

Settled(r, outcome) == Moved(r, IF outcome = "done" THEN "compensated" ELSE "unresolved")
CallUndo(p, outcome) ==
    LET e == Current(p).exec
        r == tick[p].row[e]
    IN  /\ In(p, "calling")
        /\ IF outcome \in {"done", "lost"} THEN Undo(e, r.args) ELSE UNCHANGED <<undone, blind>>
        /\ Continue(p, [tick[p] EXCEPT
               !.phase = "undoing", !.todo = Tail(@),
               !.called = IF outcome \in {"done", "lost"} THEN @ \cup {e} ELSE @,
               !.queued = IF outcome = "retrying"
                          THEN @ \cup {[exec |-> e, args |-> r.args, version |-> r.version]}
                          ELSE @,
               !.row = Write(@, e, Settled(r, outcome))])
        /\ UNCHANGED <<tables, history, faults>>

\* release(): a row that is being undone is left alone.
Release(p) ==
    LET i == Current(p)
    IN  /\ In(p, "releasing") /\ tick[p].todo # <<>>
        /\ \/ /\ i.status # "pending"
              /\ Continue(p, [tick[p] EXCEPT !.todo = Tail(@)])
           \/ /\ i.status = "pending" /\ RowUnlocked(p, i.exec)
              /\ RowSeenBy(p, i.exec).version = i.version
              /\ Continue(p, [tick[p] EXCEPT !.todo = Tail(@),
                     !.row = Write(@, i.exec, Moved(RowSeenBy(p, i.exec), "not_needed"))])
        /\ UNCHANGED <<tables, world, history, faults>>

(***************************************************************************)
(* The end of a tick.                                                       *)
(***************************************************************************)
Done(p) ==
    \/ In(p, "closing")
    \/ tick[p].phase \in {"undoing", "releasing"} /\ tick[p].todo = <<>>

\* D-20: mark_wait_expired() refuses when the result came in the meantime.
Marked(p, d) ==
    [child[d] EXCEPT
        !.status = IF d \in DOMAIN tick[p].fwd /\ fwd[d] = "none" THEN "running" ELSE @,
        !.delivered = @ \/ d \in tick[p].delivers,
        !.expired = @ \/ d \in tick[p].expires]

Commit(p) ==
    /\ Done(p)
    /\ \A d \in tick[p].expires : ~ Finished(d)
    /\ IF tick[p].status = "unsaved" THEN UNCHANGED <<run, pending>>
       ELSE run' = tick[p].status /\ pending' = tick[p].pending
    /\ fwd' = Over(tick[p].fwd, fwd)
    /\ row' = Over(tick[p].row, row)
    /\ queued' = queued \cup tick[p].queued
    /\ child' = [d \in Delegations |-> Marked(p, d)]
    /\ Continue(p, IdleTick)
    /\ UNCHANGED <<world, history, faults>>

RollBack(p) ==
    /\ Continue(p, IdleTick)
    /\ lost' = [e \in Executions |-> lost[e] + IF e \in tick[p].called THEN 1 ELSE 0]
    /\ UNCHANGED <<tables, world, reopened>>

\* A process is killed, or a statement fails.
Abort(p) ==
    /\ ~ In(p, "idle") /\ faults < MaxFaults
    /\ faults' = faults + 1
    /\ RollBack(p)

\* D-3: the run waits for another child.  E-13: the kernel of this process still
\* holds the execution as it was before somebody closed the gate, or a row that
\* is to be released has moved.  D-20: the result has come after all.
MayRaise(p) ==
    \/ In(p, "rebuilt") /\ tick[p].job = "wake" /\ tick[p].pending \notin {None, tick[p].child}
    \/ /\ In(p, "rebuilt") /\ tick[p].pending # None
       /\ fwd[tick[p].pending] \in TerminalStatuses
    \/ /\ In(p, "releasing") /\ tick[p].todo # <<>> /\ RowUnlocked(p, Current(p).exec)
       /\ Current(p).status = "pending"
       /\ RowSeenBy(p, Current(p).exec).version # Current(p).version
    \/ Done(p) /\ \E d \in tick[p].expires : Finished(d)

\* The tick raises and rolls back.
Raise(p) ==
    /\ MayRaise(p)
    /\ UNCHANGED faults
    /\ RollBack(p)

Step(p) ==
    \/ \E d \in Delegations :
           \/ "wake" \in JobsOf[p] /\ (WakeLate(p, d) \/ WakeOver(p, d))
           \/ "expire" \in JobsOf[p] /\ ExpireOver(p, d)
           \/ "cancel" \in JobsOf[p] /\ AbandonChild(p, d)
    \/ \E job \in JobsOf[p], d \in Delegations \cup {None} : Rebuild(p, job, d)
    \/ DeliverResult(p) \/ DeclareUnknown(p) \/ AlreadyClosed(p) \/ Drive(p) \/ CancelRun(p)
    \/ \E e \in Calls, o \in {"completed", "failed", "unknown", "retrying"}, keys \in BOOLEAN :
           CallTool(p, e, o, keys)
    \/ \E d \in Delegations : Delegate(p, d)
    \/ Pause(p) \/ Fail(p) \/ Complete(p)
    \/ Claim(p) \/ (\E o \in UndoOutcomes : CallUndo(p, o)) \/ Release(p)
    \/ Commit(p) \/ Abort(p) \/ Raise(p)

Environment ==
    \/ \E d \in Delegations, s \in ChildStatuses, keys \in BOOLEAN :
           ChildFinishes(d, s, keys)
    \/ \E q \in queued : UndoIsRetried(q)
    \/ \E e \in Executions : CallIsRetried(e) \/ Reopen(e)

Next == (\E p \in Processes : Step(p)) \/ Environment

Spec == Init /\ [][Next]_vars

FairSpec == Spec /\ \A p \in Processes : WF_vars(Step(p))
=============================================================================
