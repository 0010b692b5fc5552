----------------------------- MODULE RunFamilies -----------------------------
(***************************************************************************)
(* Runs that delegate to child runs, and their cancellation: the registry   *)
(* of child runs, the intents to cancel, the child run consumer and the     *)
(* cancellation sweeper.                                                    *)
(*                                                                          *)
(* A tick of the consumer or of the sweeper is one transaction over all the *)
(* rows it takes: when one of them raises, nothing of the tick is left.     *)
(* Transactions follow each other; what two of them do to the rows of one   *)
(* run at the same time is in CompensationLedger, what a process does with  *)
(* a loop that it keeps in memory in AgentRun.                              *)
(*                                                                          *)
(* A handler maps the tables to the set of tables it may leave, the runs it *)
(* drives being free to stop anywhere; the set is empty when it raises.     *)
(***************************************************************************)
EXTENDS Naturals, Sequences, SequencesExt

CONSTANTS
    Roots,          \* runs started by a request
    Children,       \* ids of runs that a delegation starts
    None,
    Limit,          \* rows that a sweep takes
    Batch,          \* events that a poll returns
    Endings,        \* how runs end by themselves: bound, nothing here tells one from another
    MaxRequests,    \* bound: cancellations asked for by users
    MaxFaults       \* bound: crashes and failed ticks

ASSUME FamilyAssumption ==
    /\ Roots \cap Children = {} /\ None \notin Roots \cup Children
    /\ Limit \in Nat \ {0} /\ Batch \in Nat \ {0}
    /\ Endings \subseteq {"completed", "failed"}
    /\ MaxRequests \in Nat /\ MaxFaults \in Nat

Runs == Roots \cup Children

VARIABLES
    db,         \* the tables
    log,        \* the topic of child run events
    position,   \* what the consumer has polled
    committed,  \* its committed offset
    requests, faults

vars == <<db, log, position, committed, requests, faults>>

TerminalRuns == {"completed", "failed", "cancelled"}

NoRow == [parent |-> None, status |-> "none", delivered |-> FALSE, expired |-> FALSE, asked |-> FALSE]

\* snap is the status in the latest snapshot and waits the pending_child in it.
\* ended and queue keep the order of completed_at and of requested_at.  driven are
\* the children in the hands of the process that spawned them.  Deadlines that
\* have passed: overdue, in their order, of waits, lapsed of intents, stale of approvals.
NoTables ==
    [snap |-> [r \in Runs |-> "none"], waits |-> [r \in Runs |-> None],
     row |-> [c \in Children |-> NoRow], ended |-> <<>>,
     intent |-> [r \in Runs |-> {}], queue |-> <<>>,
     overdue |-> <<>>, lapsed |-> {}, stale |-> {},
     book |-> {}, seen |-> {}, driven |-> {}]

Init ==
    /\ db = NoTables /\ log = <<>> /\ position = 0 /\ committed = 0
    /\ requests = 0 /\ faults = 0

First(n, s) == SubSeq(s, 1, IF Len(s) < n THEN Len(s) ELSE n)

\* The rows of s that are in S, in their order: SelectSeq, which the provers do not know.
Selected(s, S) ==
    LET of[n \in 0 .. Len(s)] ==
          IF n = 0 THEN <<>> ELSE IF s[n] \in S THEN Append(of[n - 1], s[n]) ELSE of[n - 1]
    IN  of[Len(s)]

Without(s, r) == Selected(s, Runs \ {r})

(***************************************************************************)
(* run_cancellations.                                                       *)
(***************************************************************************)
IsSettled(t, r) == "settled" \in t.intent[r]
IsPending(t, r) == t.intent[r] = {"asked"}

\* The row is written again, with a new deadline, until it is settled or abandoned.
Requested(t, r) ==
    IF t.intent[r] \notin {{}, {"asked"}} THEN t
    ELSE [t EXCEPT !.intent[r] = {"asked"}, !.queue = Append(Without(@, r), r), !.lapsed = @ \ {r}]

Settled(t, r) ==
    IF t.intent[r] = {} THEN t
    ELSE [t EXCEPT !.intent[r] = @ \cup {"settled"}, !.queue = Without(@, r), !.lapsed = @ \ {r}]

Abandoned(t, r) ==
    [t EXCEPT !.intent[r] = @ \cup {"abandoned"}, !.queue = Without(@, r), !.lapsed = @ \ {r}]

\* R-14: an intent that was abandoned still stops a run at its safe point.
MustStop(t, r) == t.intent[r] # {} /\ ~IsSettled(t, r)

(***************************************************************************)
(* child_runs.                                                              *)
(***************************************************************************)
IsFinished(t, c) == t.row[c].status \in TerminalRuns
IsOpen(t, c) == t.row[c].status = "created"
Delivered(t, c) == [t EXCEPT !.row[c].delivered = TRUE]
WaitExpired(t, c) == [t EXCEPT !.row[c].expired = TRUE, !.overdue = Without(@, c)]

\* S-2: one row for a delegation, whatever the outcome in it says.
Booked(t, c) == [t EXCEPT !.book = @ \cup {c}]

\* The outcome that a child reports: its row and, in the outbox, its event.
Reported(t, c, status) ==
    [t EXCEPT !.row[c].status = status, !.ended = Append(@, c), !.overdue = Without(@, c),
              !.driven = @ \ {c}]

IsTerminal(t, r) == t.snap[r] \in TerminalRuns
Stopped(t, r, status) ==
    [t EXCEPT !.snap[r] = status, !.waits[r] = None, !.stale = @ \ {r}, !.driven = @ \ {r}]

Unborn(t) == {c \in Children : t.row[c] = NoRow}

\* spawn(), and the snapshot of the parent that waits.
Delegated(t, r) ==
    LET c == CHOOSE x \in Unborn(t) : TRUE
    IN [t EXCEPT !.row[c] = [NoRow EXCEPT !.parent = r, !.status = "created"],
                 !.driven = (@ \ {r}) \cup {c},
                 !.snap[r] = "waiting", !.waits[r] = c]

(***************************************************************************)
(* cancel().  A child whose stack is with the process that cancels, local,  *)
(* is stopped at once; any other is asked to stop.                          *)
(***************************************************************************)
ClosedOut(t, c) ==
    IF t.row[c].status = "cancelled" THEN Booked(Delivered(t, c), c) ELSE t

ChildStopped(t, c) ==
    Settled(Reported([Requested(t, c) EXCEPT !.snap[c] = "cancelled"], c, "cancelled"), c)

PendingChildCancelled(t, r, local) ==
    LET c == t.waits[r]
        asked == Requested(t, c)
    IN IF c = None THEN t
       ELSE IF IsFinished(t, c) THEN ClosedOut(asked, c)
       ELSE IF local /\ c \in t.driven THEN ClosedOut(ChildStopped(asked, c), c)
       ELSE [asked EXCEPT !.row[c].asked = TRUE]

Cancelled(t, r, local) ==
    Settled(Stopped(PendingChildCancelled(Requested(t, r), r, local), r, "cancelled"), r)

\* H-8: an approval past its deadline cannot be cancelled either.
CanCancel(t, r) == r \notin t.stale

(***************************************************************************)
(* Driving a run to where it stops.  A loop that was rebuilt from a         *)
(* snapshot has no child_identity: it reports to nobody.                    *)
(***************************************************************************)
Stops(t, r) ==
    {Stopped(t, r, status) : status \in Endings \cup {"gated"}}
    \cup IF Unborn(t) = {} THEN {} ELSE {Delegated(t, r)}

Driven(t, r) ==
    IF IsTerminal(t, r) THEN {t}
    ELSE IF MustStop(t, r) THEN {Cancelled(t, r, local) : local \in BOOLEAN}
    ELSE IF t.snap[r] \in {"gated", "waiting"} THEN {t}
    ELSE Stops(t, r)

(***************************************************************************)
(* ChildRunWaker and ChildRunWaitExpirer, on one row.  No result: it raises. *)
(***************************************************************************)
Resumed(t, c) == Booked(Stopped(t, t.row[c].parent, "running"), c)

\* Mutant: whatever has stopped needs nothing.
OrphanForgotten(t, c) == t

OrphanBooked(t, c) == IF t.snap[t.row[c].parent] = "completed" THEN t ELSE Booked(t, c)

Woken(t, c) ==
    LET p == t.row[c].parent
    IN IF ~IsFinished(t, c) THEN {}
       ELSE IF t.row[c].delivered THEN {t}
       ELSE IF t.row[c].expired THEN {Delivered(t, c)}
       ELSE IF IsTerminal(t, p) THEN {Delivered(OrphanBooked(t, c), c)}
       ELSE IF t.waits[p] = None THEN {Delivered(u, c) : u \in Driven(t, p)}
       ELSE IF t.waits[p] # c THEN {}
       ELSE {Delivered(u, c) : u \in Driven(Resumed(t, c), p)}

Expired(t, c) ==
    LET p == t.row[c].parent
    IN IF t.row[c].expired THEN {t}
       ELSE IF IsFinished(t, c) THEN {}
       ELSE IF IsTerminal(t, p) THEN {WaitExpired(Booked(t, c), c)}
       ELSE IF t.waits[p] # c THEN {WaitExpired(u, c) : u \in Driven(t, p)}
       ELSE {WaitExpired(u, c) : u \in Driven(Resumed(t, c), p)}

\* IdempotentConsumer.consume.
Consumed(t, c) ==
    IF c \in t.seen THEN {t} ELSE {[u EXCEPT !.seen = @ \cup {c}] : u \in Woken(t, c)}

(***************************************************************************)
(* RunCancellationService.sweep, on one row.                                *)
(***************************************************************************)
\* R-12: nobody else will book what a child of a dead parent has done.
AbandonedIntent(t, r) ==
    LET orphaned == r \in Children /\ t.row[r] # NoRow /\ IsTerminal(t, t.row[r].parent)
    IN {Abandoned(IF orphaned THEN Booked(t, r) ELSE t, r)}

\* Mutant: a run that cannot be rebuilt is taken for one that has stopped.
AdoptedBlindly(t, r) ==
    IF t.snap[r] \in {"none"} \cup TerminalRuns THEN {Settled(t, r)}
    ELSE IF CanCancel(t, r) THEN {Cancelled(t, r, local) : local \in BOOLEAN} ELSE {}

\* R-10: without a snapshot nothing is known of the run.  R-9: it has stopped.
Adopted(t, r) ==
    IF t.snap[r] = "none" THEN {t}
    ELSE IF IsTerminal(t, r) THEN {Settled(t, r)}
    ELSE IF ~CanCancel(t, r) THEN {}
    ELSE {Cancelled(t, r, local) : local \in BOOLEAN}

(***************************************************************************)
(* The queries of the sweeps.                                               *)
(***************************************************************************)
\* Mutant: every outcome is left to its event.
NothingUndelivered(t) == <<>>

Undelivered(t) ==
    First(Limit, Selected(t.ended, {c \in Children : ~t.row[c].delivered}))

OverdueRows(t) == First(Limit, t.overdue)

ExpiringIntents(t) == First(Limit, Selected(t.queue, t.lapsed))

PendingIntents(t) == First(Limit, t.queue)

(***************************************************************************)
(* Ticks.                                                                   *)
(***************************************************************************)
\* The rows one after the other, each on what the ones before it have left.
Through(Handler(_, _), T, rows) ==
    LET after[n \in 0 .. Len(rows)] ==
          IF n = 0 THEN T ELSE UNION {Handler(u, rows[n]) : u \in after[n - 1]}
    IN  after[Len(rows)]

WaitsSwept(T) == UNION {Through(Expired, {t}, OverdueRows(t)) : t \in T}
DeliveriesSwept(T) == UNION {Through(Woken, {t}, Undelivered(t)) : t \in T}

\* ChildRunConsumerApp.tick, in a tick that sweeps (every N-th does) and in others.
ConsumerTick(batch, sweeping) ==
    LET T == Through(Consumed, {db}, batch)
    IN IF sweeping THEN WaitsSwept(DeliveriesSwept(T)) ELSE T

\* Mutant: the intents are adopted first.
AdoptedFirst ==
    UNION {Through(AbandonedIntent, {t}, ExpiringIntents(t)) :
             t \in Through(Adopted, {db}, PendingIntents(db))}

\* RunCancellationService.sweep: it lets go first, then adopts.
SweepTick ==
    UNION {Through(Adopted, {t}, PendingIntents(t)) :
             t \in Through(AbandonedIntent, {db}, ExpiringIntents(db))}

Fault == faults < MaxFaults /\ faults' = faults + 1

Polled == First(Batch, SubSeq(log, position + 1, Len(log)))

\* The position moves on whatever becomes of the tick; the offsets are committed
\* after the transaction, and past the batches of ticks that failed.
Consume(sweeping) ==
    LET T == ConsumerTick(Polled, sweeping)
    IN /\ UNCHANGED <<log, requests>> /\ position' = position + Len(Polled)
       /\ \/ db' \in T /\ committed' = position' /\ UNCHANGED faults
          \/ /\ db' \in T \cup {db} /\ UNCHANGED committed
             /\ IF T = {} THEN UNCHANGED faults ELSE Fault

Others == <<log, position, committed>>

Sweep ==
    /\ UNCHANGED Others /\ UNCHANGED <<requests, faults>>
    /\ LET T == SweepTick IN db' \in IF T = {} THEN {db} ELSE T

RestartConsumer ==
    /\ Fault
    /\ position' = committed
    /\ UNCHANGED <<db, log, committed, requests>>

(***************************************************************************)
(* Runs and requests.                                                       *)
(***************************************************************************)
Table(t) == db' = t /\ UNCHANGED Others
StepTo(T) == (\E t \in T : Table(t)) /\ UNCHANGED <<requests, faults>>

StartRoot(r) == db.snap[r] = "none" /\ StepTo(Driven(db, r))

\* A child in the hands of its spawner has its identity; only a suspension, or its
\* cancellation, leaves a snapshot.
DriveChild(c) ==
    /\ c \in db.driven
    /\ StepTo(IF MustStop(db, c) THEN {ChildStopped(db, c)}
              ELSE {Reported(db, c, status) : status \in Endings}
                   \cup {t \in Stops(db, c) : ~IsTerminal(t, c)})

\* decide() and drive_run(), on a loop that was rebuilt.
DecideAndDrive(r) ==
    /\ db.snap[r] = "gated" /\ r \notin db.stale
    /\ StepTo(Driven(Stopped(db, r, "running"), r))

\* A cancel that is refused leaves its intent: only a 5xx rolls back.
CancelRun(r) ==
    /\ requests < MaxRequests /\ requests' = requests + 1
    /\ ~IsTerminal(db, r)
    /\ IF db.snap[r] = "none" \/ ~CanCancel(db, r) THEN Table(Requested(db, r))
       ELSE \E local \in BOOLEAN : Table(Cancelled(db, r, local))
    /\ UNCHANGED faults

DriverDies(c) ==
    /\ c \in db.driven /\ Fault
    /\ Table([db EXCEPT !.driven = @ \ {c}])
    /\ UNCHANGED requests

\* The outbox keeps the order.
Publish ==
    /\ Len(log) < Len(db.ended)
    /\ log' = Append(log, db.ended[Len(log) + 1])
    /\ UNCHANGED <<db, position, committed, requests, faults>>

(***************************************************************************)
(* Deadlines pass.                                                          *)
(***************************************************************************)
WaitPasses(c) ==
    /\ IsOpen(db, c) /\ ~db.row[c].expired /\ c \notin ToSet(db.overdue)
    /\ StepTo({[db EXCEPT !.overdue = Append(@, c)]})

\* The grace is the same for every intent, so they lapse as they were asked for.
IntentLapses ==
    LET fresh == {i \in DOMAIN db.queue : db.queue[i] \notin db.lapsed}
    IN /\ fresh # {}
       /\ StepTo({[db EXCEPT !.lapsed = @ \cup {db.queue[CHOOSE i \in fresh : \A j \in fresh : i <= j]}]})

GatePasses(r) ==
    /\ db.snap[r] = "gated" /\ r \notin db.stale
    /\ StepTo({[db EXCEPT !.stale = @ \cup {r}]})

Next ==
    \/ Consume(TRUE) \/ Consume(FALSE) \/ Sweep \/ Publish \/ RestartConsumer
    \/ \E r \in Roots : StartRoot(r)
    \/ \E r \in Runs : DecideAndDrive(r) \/ CancelRun(r) \/ GatePasses(r)
    \/ \E c \in Children : DriveChild(c) \/ DriverDies(c) \/ WaitPasses(c)
    \/ IntentLapses

\* The consumer and the sweeper are loops and time passes; the drivers of children
\* may be dead, and nobody has to answer an approval.
Spec ==
    /\ Init /\ [][Next]_vars
    /\ WF_vars(Consume(TRUE)) /\ WF_vars(Sweep)
    /\ WF_vars(IntentLapses) /\ \A c \in Children : WF_vars(WaitPasses(c))
=============================================================================
