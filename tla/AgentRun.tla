------------------------------ MODULE AgentRun ------------------------------
(***************************************************************************)
(* One run of an agent behind the control plane: the loop that plans,       *)
(* decides and executes, the approvals it waits for, the requests that      *)
(* drive, decide and cancel it, and its recovery from the latest snapshot.  *)
(*                                                                          *)
(* An API process keeps the loops it has loaded in memory, mem[p].  A       *)
(* request is one transaction: it changes its own copy of the tables and    *)
(* the loop in memory, and when it fails with a 5xx the tables are put back *)
(* and the loop is not, nor are the copies of executions that the process's *)
(* kernel keeps.  Requests on the run are taken one at a time.              *)
(*                                                                          *)
(* Actions are calls; delegations and what the saga does when the run ends  *)
(* are in RunFamilies and CompensationLedger.                               *)
(***************************************************************************)
EXTENDS Naturals, Sequences, FiniteSets

CONSTANTS
    Replicas,       \* API processes
    Sweeper,        \* the process that carries out the cancellations nobody has
    Nodes,          \* ids of plan nodes
    Plans,          \* plans by their shape: the nodes in the planner's order
    Needs,          \* Needs[n]: the nodes that n depends on
    Defective,      \* plans this runtime cannot carry out
    NoPlan, NoNode,
    MaxSteps,       \* max_steps of the goal's budget
    MaxDenials,     \* max_consecutive_denials
    MaxExecutions,  \* bound: executions that are submitted
    MaxFaults       \* bound: requests that fail, and restarts

ASSUME AgentRunAssumption ==
    /\ IsFiniteSet(Replicas) /\ Sweeper \notin Replicas
    /\ Plans \subseteq Seq(Nodes) /\ Defective \subseteq Plans /\ NoPlan \notin Plans
    /\ Needs \in [Nodes -> SUBSET Nodes] /\ NoNode \notin Nodes
    /\ MaxSteps \in Nat \ {0} /\ MaxDenials \in Nat \ {0}
    /\ MaxExecutions \in Nat /\ MaxFaults \in Nat

VARIABLES
    db,     \* the committed tables: run_snapshots, executions, approvals, run_cancellations
    mem,    \* mem[p]: the loop that p keeps in memory
    req,    \* the request that is being served
    held,   \* held[p][e]: what the kernel of p has of the gate e, never read again
    fresh,  \* executions submitted so far, those rolled back included
    ran,    \* calls the loop carried out, those rolled back included
    faults, \* the bounded counter
    spoiled \* history: gates that a request closed before it was rolled back

vars == <<db, mem, req, held, fresh, ran, faults, spoiled>>
counters == <<fresh, ran, faults, spoiled>>

Processes == Replicas \cup {Sweeper}

ActiveStatuses == {"created", "queued", "running", "suspended"}
TerminalRunStatuses == {"completed", "failed", "cancelled"}
TerminalStepStatuses == {"completed", "failed", "cancelled"}
TerminalExecutionStatuses == {"completed", "failed", "cancelled"}
StopOutcomes == {"finished", "budget_exhausted", "waiting_approval", "deny_loop",
                 "cancelled", "refused"}

NewLoop ==
    [status |-> "created", steps |-> 0, denials |-> 0, plan |-> NoPlan,
     created |-> NoPlan, invalid |-> NoPlan, known |-> {}, failures |-> FALSE,
     book |-> <<>>, current |-> 0, gate |-> 0, copy |-> "none"]

\* Where there is no loop, in memory or in a snapshot.
NoLoop == [status |-> "none"]

\* No request is being served.
NoRequest == [job |-> "none"]

NoTables == [snap |-> NoLoop, execs |-> <<>>, approvals |-> <<>>, intent |-> "none"]

\* The kernel of a process that has just started has no copies.
NoCopies == [e \in 1..MaxExecutions |-> "unread"]

Init ==
    /\ db = NoTables
    /\ mem = [p \in Replicas |-> NoLoop]
    /\ req = NoRequest
    /\ held = [p \in Processes |-> NoCopies]
    /\ fresh = 0 /\ ran = 0 /\ faults = 0 /\ spoiled = {}

(***************************************************************************)
(* Statuses are derived, from executions to steps to the run.               *)
(***************************************************************************)
StepStatus(S) ==
    IF S = {} THEN "pending"
    ELSE IF "suspended" \in S THEN "suspended"
    ELSE IF "pending" \in S THEN "pending"
    ELSE IF "cancelled" \in S THEN "cancelled"
    ELSE IF "failed" \in S THEN "failed"
    ELSE "completed"

RunStatus(S) ==
    IF S = {} THEN "created"
    ELSE IF "suspended" \in S THEN "suspended"
    ELSE IF "pending" \in S THEN "queued"
    ELSE "running"

StatusesOf(book) == {book[i].status : i \in DOMAIN book}

\* Executions whose submission was rolled back are skipped.
Synced(l, t) ==
    LET statuses(s) == {t.execs[e].status : e \in s.execs \cap DOMAIN t.execs}
        book == [i \in DOMAIN l.book |->
                    [l.book[i] EXCEPT !.status = StepStatus(statuses(l.book[i]))]]
    IN [l EXCEPT !.book = book, !.status = RunStatus(StatusesOf(book))]

IsTerminal(l) == l.status \in TerminalRunStatuses

(***************************************************************************)
(* Where the loop is in its plan.                                           *)
(***************************************************************************)
StepIsDone(l) == l.current # 0 /\ l.book[l.current].status \in TerminalStepStatuses
Consumed(l) == {l.book[i].node : i \in DOMAIN l.book}
Satisfied(l) == {l.book[i].node : i \in {j \in DOMAIN l.book : l.book[j].status = "completed"}}
Unconsumed(l) == {i \in DOMAIN l.plan : l.plan[i] \notin Consumed(l)}
Ready(l) == {i \in Unconsumed(l) : Needs[l.plan[i]] \subseteq Satisfied(l)}

NextPlanNode(l) ==
    IF Ready(l) = {} THEN NoNode
    ELSE l.plan[CHOOSE i \in Ready(l) : \A j \in Ready(l) : i <= j]

PlanIsStuck(l) ==
    /\ l.current = 0 \/ StepIsDone(l)
    /\ Unconsumed(l) # {} /\ Ready(l) = {}

\* Steps outside the plan have no node.
EnsureStep(l) ==
    IF l.current # 0 /\ ~StepIsDone(l) THEN l
    ELSE [l EXCEPT !.book = Append(@, [node |-> NextPlanNode(l), execs |-> {}, status |-> "pending"]),
                   !.current = Len(l.book) + 1]

Put(f, k, v) == [x \in DOMAIN f \cup {k} |-> IF x = k THEN v ELSE f[x]]

\* An execution submitted for the current step.
WithTask(l, e) == LET m == EnsureStep(l) IN [m EXCEPT !.book[m.current].execs = @ \cup {e}]
Submitted(t, e, kind, status) ==
    [t EXCEPT !.execs = Put(@, e, [kind |-> kind, status |-> status])]

(***************************************************************************)
(* Plans: what the loop makes of its own observations.                      *)
(***************************************************************************)
\* I-12: the plan is the one that was invalidated.  A plan observed before a
\* restart is no Plan any more, and is not compared.
IsSameAsInvalidated(l, q) == "invalid" \in l.known /\ l.invalid = q

Planned(l, q) ==
    IF l.plan # NoPlan THEN l
    ELSE [l EXCEPT !.plan = q, !.created = q, !.known = @ \cup {"created"}, !.failures = FALSE]

\* Mutant: a new plan costs nothing.
InvalidatedForFree(l) ==
    [l EXCEPT !.plan = NoPlan, !.invalid = l.created,
              !.known = IF "created" \in @ THEN {"created", "invalid"} ELSE {}]

\* I-10: a replan consumes a step of the budget.
Invalidated(l) == [InvalidatedForFree(l) EXCEPT !.steps = @ + 1]

\* What the next step of the loop may plan: the plan it has, or a new one.
PlansFor(l) == IF l.plan # NoPlan THEN {l.plan} ELSE Plans

Record(l, outcome) ==
    [l EXCEPT !.denials = IF outcome = "denied" THEN @ + 1 ELSE 0]

DeclareTerminal(l, status) == [l EXCEPT !.status = status]

(***************************************************************************)
(* Calls, approvals and cancellation.                                       *)
(***************************************************************************)
\* What the kernel has of a call after the worker's run, by what the worker says.
StatusAfter(outcome) == IF outcome = "retrying" THEN "pending" ELSE outcome

\* Mutant: a call that was not carried out to its end is no failure.
FailedLoudly(outcome) == outcome = "failed"

\* I-14: not proven a success.
Failed(outcome) == outcome # "completed"

\* Mutant: only what works is paid for.
ChargedOnSuccess(l, outcome) == IF outcome = "completed" THEN l.steps + 1 ELSE l.steps

Charged(l, outcome) == l.steps + 1

ExecutedLoop(l, t, e, outcome) ==
    LET m == WithTask(l, e)
    IN Synced([m EXCEPT !.steps = Charged(l, outcome), !.failures = @ \/ Failed(outcome)],
              Submitted(t, e, "call", StatusAfter(outcome)))

Executed(outcome) == IF outcome = "completed" THEN "executed" ELSE "failed"

\* _suspend_for_approval: the gate, and the approval that is bound to it.
SuspendedTables(t, e, action) ==
    [Submitted(t, e, "gate", "suspended") EXCEPT
        !.approvals = Put(@, e, [status |-> "pending", overdue |-> FALSE, action |-> action])]
SuspendedLoop(l, t, e) ==
    Synced([WithTask(l, e) EXCEPT !.gate = e, !.copy = "pending"], t)

(***************************************************************************)
(* The kernel of p and a gate.  It asks its own copy, which no rollback puts *)
(* back: "halfway" is one whose resumption or cancellation was not written.  *)
(***************************************************************************)
Copy(p, t, e) ==
    IF held[p][e] # "unread" THEN held[p][e]
    ELSE IF t.execs[e].status = "suspended" THEN "suspended" ELSE "closed"

\* _close_gate and _cancel_gate leave a gate alone that is closed, as the copy has it.
GateIsLeft(p, t, e) == Copy(p, t, e) = "closed"

\* Only cancel() may still close one that was resumed in the copy alone.
GateCloses(p, t, e, verdict) ==
    /\ t.execs[e].status = "suspended"
    /\ Copy(p, t, e) \in IF verdict = "cancelled" THEN {"suspended", "halfway"} ELSE {"suspended"}

\* An illegal transition, or a row of another version than the copy.
GateIsRefused(p, t, e) ==
    \/ Copy(p, t, e) = "halfway"
    \/ Copy(p, t, e) = "suspended" /\ t.execs[e].status # "suspended"

\* Mutant: the gate is closed again.
ClosedAgain(p, t, e, status) == [t EXCEPT !.execs[e].status = status]

ClosedGate(p, t, e, status) ==
    IF GateIsLeft(p, t, e) THEN t ELSE [t EXCEPT !.execs[e].status = status]

Keeps(p, e, copy) == held' = [held EXCEPT ![p][e] = copy]

\* H-6, H-8: nobody has decided it, and it is not too late.  An approval whose
\* request was rolled back is not there.
Decidable(t, e) ==
    /\ e \in DOMAIN t.approvals
    /\ t.approvals[e].status = "pending" /\ ~t.approvals[e].overdue

ApprovalIs(t, e, status) == [t EXCEPT !.approvals[e].status = status]

Decided(p, t, e, status, gate) == ClosedGate(p, ApprovalIs(t, e, status), e, gate)

NoGate(l) == [l EXCEPT !.gate = 0, !.copy = "none"]

\* Whether cancel() gets past the approval that the loop waits for.
CanCancel(l, t) == l.gate # 0 /\ l.copy = "pending" => Decidable(t, l.gate)

\* What cancel() has written when it comes to the gate.
AtTheGate(l, t) ==
    IF l.gate # 0 /\ l.copy = "pending" THEN ApprovalIs(t, l.gate, "cancelled") ELSE t

CancelPasses(p, l, t) ==
    /\ CanCancel(l, t)
    /\ l.gate # 0 => GateIsLeft(p, t, l.gate) \/ GateCloses(p, t, l.gate, "cancelled")

\* The approval is cancelled, the loop has let go of it, and the kernel refuses.
CancelIsRefused(p, l, t) == l.gate # 0 /\ CanCancel(l, t) /\ GateIsRefused(p, t, l.gate)

CancelledLoop(l) == DeclareTerminal(NoGate(l), "cancelled")
CancelledTables(p, l, t) ==
    LET u == AtTheGate(l, t)
        closed == IF l.gate = 0 THEN u ELSE ClosedGate(p, u, l.gate, "cancelled")
    IN [closed EXCEPT !.snap = CancelledLoop(l), !.intent = "settled"]

\* What the kernel of p has of the loop's gate after it.
KeepsGate(p, l, copy) == IF l.gate = 0 THEN UNCHANGED held ELSE Keeps(p, l.gate, copy)

\* restore(): the status is derived again, the approval read from its table.
Restored(t) ==
    [t.snap EXCEPT !.known = {}, !.status = RunStatus(StatusesOf(t.snap.book)),
                   !.copy = IF t.snap.gate = 0 THEN "none" ELSE t.approvals[t.snap.gate].status]

HasSnapshot == db.snap # NoLoop

\* R-1, R-3: neither a run that is over, nor one whose approval was never committed.
Loadable ==
    /\ HasSnapshot /\ ~IsTerminal(db.snap)
    /\ db.snap.gate = 0 \/ db.snap.gate \in DOMAIN db.approvals

(***************************************************************************)
(* Requests, and what the process that serves has of the run.               *)
(***************************************************************************)
Live == mem[req.by]
Draft == req.draft
NextId == fresh + 1
MaySubmit == fresh < MaxExecutions

Stack(p) == IF mem[p] = NoLoop THEN Restored(db) ELSE mem[p]

Begin(p, job) ==
    /\ req = NoRequest
    /\ mem[p] # NoLoop \/ Loadable
    /\ mem' = [mem EXCEPT ![p] = Stack(p)]
    /\ req' = [by |-> p, job |-> job, draft |-> db, out |-> "none"]

Reply(m, u, outcome) ==
    /\ mem' = [mem EXCEPT ![req.by] = m]
    /\ req' = [req EXCEPT !.draft = u, !.out = outcome]

\* POST /runs: no snapshot is taken.  H-7: the guardrail on the input may fail the run.
StartRun(p) ==
    /\ req = NoRequest /\ ~HasSnapshot /\ \A q \in Replicas : mem[q] = NoLoop
    /\ \E status \in {"created", "failed"} :
         mem' = [mem EXCEPT ![p] = [NewLoop EXCEPT !.status = status]]
    /\ UNCHANGED <<db, req, held, counters>>

\* GET /runs/{id} loads the run into memory and keeps it there.
GetRun(p) ==
    /\ req = NoRequest /\ mem[p] = NoLoop /\ Loadable
    /\ mem' = [mem EXCEPT ![p] = Restored(db)]
    /\ UNCHANGED <<db, req, held, counters>>

\* POST /runs/{id}/step and /runs/{id}/run.
BeginAdvance(p) ==
    /\ \E job \in {"step", "run"} : Begin(p, job)
    /\ ~IsTerminal(Stack(p))
    /\ UNCHANGED <<db, held, counters>>

Advancing ==
    /\ req # NoRequest /\ req.job \in {"step", "run"}
    /\ req.out = "none" \/ (req.job = "run" /\ req.out \notin StopOutcomes /\ ~IsTerminal(Live))

\* The safe point: an intent that is not settled yet.
StopRequested == Draft.intent = "requested"

StepCancels ==
    /\ Advancing /\ StopRequested
    /\ \/ /\ CancelPasses(req.by, Live, Draft)
          /\ Reply(Record(CancelledLoop(Live), "cancelled"),
                   CancelledTables(req.by, Live, Draft), "cancelled")
          /\ KeepsGate(req.by, Live, "closed")
       \/ /\ CancelIsRefused(req.by, Live, Draft)
          /\ Reply(NoGate(Live), AtTheGate(Live, Draft), "refused")
          /\ KeepsGate(req.by, Live, "halfway")
       \/ ~CanCancel(Live, Draft) /\ Reply(Live, Draft, "refused") /\ UNCHANGED held
    /\ UNCHANGED <<db, counters>>

StepWaits ==
    /\ Advancing /\ ~StopRequested /\ Live.gate # 0
    /\ Reply(Live, Draft, "waiting_approval")
    /\ UNCHANGED <<db, held, counters>>

Free == Advancing /\ ~StopRequested /\ Live.gate = 0

StepExhausts ==
    /\ Free /\ Live.steps >= MaxSteps
    /\ Reply(Record(DeclareTerminal(Live, "failed"), "budget_exhausted"), Draft, "budget_exhausted")
    /\ UNCHANGED <<db, held, counters>>

InBudget == Free /\ Live.steps < MaxSteps

\* No other plan, or one that cannot be carried out.
StepFailsToPlan ==
    /\ InBudget
    /\ \E q \in PlansFor(Live) :
         \/ /\ Live.plan = NoPlan /\ IsSameAsInvalidated(Live, q)
            /\ Reply(Record(DeclareTerminal(Live, "failed"), "failed"), Draft, "failed")
         \/ /\ Live.plan # NoPlan \/ ~IsSameAsInvalidated(Live, q)
            /\ q \in Defective
            /\ Reply(Record(DeclareTerminal(Planned(Live, q), "failed"), "failed"), Draft, "failed")
    /\ UNCHANGED <<db, held, counters>>

\* The loop after it has planned, for every plan that lets it go on.
PlannedLoops ==
    {Planned(Live, q) : q \in {r \in PlansFor(Live) \ Defective :
                               Live.plan # NoPlan \/ ~IsSameAsInvalidated(Live, r)}}

StepIsStuck ==
    /\ InBudget
    /\ \E m \in PlannedLoops :
         /\ PlanIsStuck(m)
         /\ Reply(Record(Invalidated(m), "replanned"), Draft, "replanned")
    /\ UNCHANGED <<db, held, counters>>

Deciding == {m \in PlannedLoops : ~PlanIsStuck(m)}

\* An action that no task can be made of, or that the plan's node does not allow.
StepRefusesAction ==
    /\ InBudget
    /\ \E m \in Deciding : Reply(Record(DeclareTerminal(m, "failed"), "failed"), Draft, "failed")
    /\ UNCHANGED <<db, held, counters>>

\* The engine asks for another plan, or for the end with failures in this one (I-11).
StepReplans ==
    /\ InBudget
    /\ \E m \in Deciding : Reply(Record(Invalidated(m), "replanned"), Draft, "replanned")
    /\ UNCHANGED <<db, held, counters>>

\* I-11
MayFinish(m) == ~m.failures

\* FINISH: the guardrail on the output lets it pass, refuses it or asks a human.
StepFinishes ==
    /\ InBudget
    /\ \E m \in Deciding :
         /\ MayFinish(m)
         /\ \/ /\ Reply(Record(DeclareTerminal(m, "completed"), "finished"), Draft, "finished")
               /\ UNCHANGED <<held, fresh>>
            \/ /\ Reply(Record(DeclareTerminal(m, "failed"), "failed"), Draft, "failed")
               /\ UNCHANGED <<held, fresh>>
            \/ /\ MaySubmit /\ fresh' = NextId /\ Keeps(req.by, NextId, "suspended")
               /\ LET u == SuspendedTables(Draft, NextId, "finish")
                      n == SuspendedLoop(m, u, NextId)
                  IN Reply(Record(n, "waiting_approval"), [u EXCEPT !.snap = n], "waiting_approval")
    /\ UNCHANGED <<db, ran, faults, spoiled>>

InDenyLoop(m) == m.denials >= MaxDenials

\* L-7: the harness says no.
StepIsDenied ==
    /\ InBudget
    /\ \E m \in Deciding :
         LET n == Record(m, "denied")
         IN IF InDenyLoop(n)
            THEN Reply(Record(DeclareTerminal(n, "failed"), "deny_loop"), Draft, "deny_loop")
            ELSE Reply(n, Draft, "denied")
    /\ UNCHANGED <<db, held, counters>>

StepSuspends ==
    /\ InBudget /\ MaySubmit /\ fresh' = NextId /\ Keeps(req.by, NextId, "suspended")
    /\ \E m \in Deciding :
         LET u == SuspendedTables(Draft, NextId, "call")
             n == SuspendedLoop(m, u, NextId)
         IN Reply(Record(n, "waiting_approval"), [u EXCEPT !.snap = n], "waiting_approval")
    /\ UNCHANGED <<db, ran, faults, spoiled>>

StepExecutes ==
    /\ InBudget /\ MaySubmit /\ fresh' = NextId /\ ran' = ran + 1
    /\ \E m \in Deciding, outcome \in {"completed", "failed", "retrying"} :
         Reply(Record(ExecutedLoop(m, Draft, NextId, outcome), Executed(outcome)),
               Submitted(Draft, NextId, "call", StatusAfter(outcome)), Executed(outcome))
    /\ UNCHANGED <<db, held, faults, spoiled>>

(***************************************************************************)
(* POST /runs/{id}/approvals/{id}/decision: what was suspended is carried   *)
(* out in the same request, and no snapshot is taken.                       *)
(***************************************************************************)
Approve(p, e, m) ==
    LET n == NoGate(m)
        u == Decided(p, db, e, "approved", "completed")
    IN IF db.approvals[e].action = "finish"
       THEN /\ mem' = [mem EXCEPT ![p] = Record(DeclareTerminal(n, "completed"), "finished")]
            /\ req' = [by |-> p, job |-> "decide", draft |-> u, out |-> "finished"]
            /\ UNCHANGED <<fresh, ran>>
       ELSE /\ MaySubmit /\ fresh' = NextId /\ ran' = ran + 1
            /\ \E outcome \in {"completed", "failed", "retrying"} :
                 /\ mem' = [mem EXCEPT ![p] =
                              Record(ExecutedLoop(n, u, NextId, outcome), Executed(outcome))]
                 /\ req' = [by |-> p, job |-> "decide", out |-> Executed(outcome),
                            draft |-> Submitted(u, NextId, "call", StatusAfter(outcome))]

Reject(p, e, m) ==
    LET u == Decided(p, db, e, "rejected", "completed")
    IN /\ mem' = [mem EXCEPT ![p] = Record(Synced(NoGate(m), u), "denied")]
       /\ req' = [by |-> p, job |-> "decide", draft |-> u, out |-> "denied"]
       /\ UNCHANGED <<fresh, ran>>

\* The decision is written, the kernel refuses to close the gate, and the 4xx commits.
DecisionIsRefused(p, e, m) ==
    /\ GateIsRefused(p, db, e) /\ Keeps(p, e, "halfway")
    /\ mem' = [mem EXCEPT ![p] = m]
    /\ \E status \in {"approved", "rejected"} :
         req' = [by |-> p, job |-> "decide", draft |-> ApprovalIs(db, e, status), out |-> "refused"]
    /\ UNCHANGED <<fresh, ran>>

\* A-5: decided by what the store says, for the approval that the loop waits for.
MayDecide(p, e) ==
    /\ req = NoRequest /\ (mem[p] # NoLoop \/ Loadable)
    /\ Decidable(db, e) /\ Stack(p).gate = e

Decide(p) ==
    /\ \E e \in DOMAIN db.approvals :
         /\ MayDecide(p, e)
         /\ \/ /\ GateIsLeft(p, db, e) \/ GateCloses(p, db, e, "completed")
               /\ Approve(p, e, Stack(p)) \/ Reject(p, e, Stack(p))
               /\ Keeps(p, e, "closed")
            \/ DecisionIsRefused(p, e, Stack(p))
    /\ UNCHANGED <<db, faults, spoiled>>

\* POST /runs/{id}/cancel.  The intent is written before the approval is cancelled,
\* and a request that is refused after that is a 4xx, and commits.
MayCancel(p) ==
    req = NoRequest /\ (mem[p] # NoLoop \/ Loadable) /\ ~IsTerminal(Stack(p))

Asked == IF db.intent = "settled" THEN db ELSE [db EXCEPT !.intent = "requested"]

CancelRun(p) ==
    /\ MayCancel(p)
    /\ LET m == Stack(p)
       IN \/ /\ CancelPasses(p, m, db) /\ KeepsGate(p, m, "closed")
             /\ mem' = [mem EXCEPT ![p] = Record(CancelledLoop(m), "cancelled")]
             /\ req' = [by |-> p, job |-> "cancel", out |-> "cancelled",
                        draft |-> CancelledTables(p, m, db)]
          \/ /\ CancelIsRefused(p, m, db) /\ KeepsGate(p, m, "halfway")
             /\ mem' = [mem EXCEPT ![p] = NoGate(m)]
             /\ req' = [by |-> p, job |-> "cancel", out |-> "refused", draft |-> AtTheGate(m, Asked)]
          \/ /\ ~CanCancel(m, db) /\ UNCHANGED held
             /\ mem' = [mem EXCEPT ![p] = m]
             /\ req' = [by |-> p, job |-> "cancel", out |-> "refused", draft |-> Asked]
    /\ UNCHANGED <<db, counters>>

Over == req # NoRequest /\ ~Advancing

\* R-6: a loop that has let go of a gate which is still suspended.
CannotBeCaptured(m) == m.status = "suspended" /\ m.gate = 0

\* Every request that advances or cancels the run leaves a snapshot, unless it was refused
\* or its loop cannot be captured; that is a 4xx, too.
Saved(job, outcome, u, m) ==
    IF job = "decide" \/ outcome = "refused" \/ CannotBeCaptured(m) THEN u ELSE [u EXCEPT !.snap = m]

Commit ==
    /\ Over
    /\ db' = Saved(req.job, req.out, Draft, Live)
    /\ req' = NoRequest
    /\ UNCHANGED <<mem, held, counters>>

ClosedIn(t) == {e \in DOMAIN db.approvals : t.execs[e] # db.execs[e]}

\* A 5xx: the tables are put back, the loop in memory goes on from where it is.
Rollback ==
    /\ req # NoRequest /\ faults < MaxFaults
    /\ faults' = faults + 1 /\ req' = NoRequest
    /\ spoiled' = spoiled \cup ClosedIn(Draft)
    /\ UNCHANGED <<db, mem, held, fresh, ran>>

(***************************************************************************)
(* A 5xx while a gate is being closed: the copy has the verdict, or half of *)
(* it.  A decision still has its approval pending; a cancellation has not.   *)
(***************************************************************************)
GateFails(p, t, e, verdict) ==
    /\ faults < MaxFaults /\ faults' = faults + 1
    /\ GateCloses(p, t, e, verdict)
    /\ \E copy \in {"halfway", "closed"} : Keeps(p, e, copy)
    /\ spoiled' = spoiled \cup ClosedIn(t) \cup {e}
    /\ UNCHANGED <<db, fresh, ran>>

DecideFails(p) ==
    /\ \E e \in DOMAIN db.approvals : MayDecide(p, e) /\ GateFails(p, db, e, "completed")
    /\ mem' = [mem EXCEPT ![p] = Stack(p)]
    /\ UNCHANGED req

CancelFails(p) ==
    /\ MayCancel(p) /\ Stack(p).gate # 0 /\ CanCancel(Stack(p), db)
    /\ GateFails(p, db, Stack(p).gate, "cancelled")
    /\ mem' = [mem EXCEPT ![p] = NoGate(Stack(p))]
    /\ UNCHANGED req

StepCancelFails ==
    /\ Advancing /\ StopRequested /\ Live.gate # 0 /\ CanCancel(Live, Draft)
    /\ GateFails(req.by, Draft, Live.gate, "cancelled")
    /\ mem' = [mem EXCEPT ![req.by] = NoGate(Live)]
    /\ req' = NoRequest

(***************************************************************************)
(* Everybody else.                                                          *)
(***************************************************************************)
Restart(p) ==
    /\ faults < MaxFaults /\ faults' = faults + 1
    /\ mem[p] # NoLoop
    /\ mem' = [mem EXCEPT ![p] = NoLoop]
    /\ held' = [held EXCEPT ![p] = NoCopies]
    /\ req' = IF req # NoRequest /\ req.by = p THEN NoRequest ELSE req
    /\ UNCHANGED <<db, fresh, ran, spoiled>>

\* A parent run that is cancelled, or a process that has never had this run.
Intend ==
    /\ req = NoRequest /\ db.intent = "none" /\ (HasSnapshot \/ \E p \in Replicas : mem[p] # NoLoop)
    /\ db' = [db EXCEPT !.intent = "requested"]
    /\ UNCHANGED <<mem, req, held, counters>>

\* run_cancellation_sweeper: the intents it can take.  One that cannot be rebuilt, or
\* that cancel() refuses, takes the whole tick with it.
Sweep ==
    /\ req = NoRequest /\ db.intent = "requested" /\ HasSnapshot
    /\ \/ IsTerminal(db.snap) /\ db' = [db EXCEPT !.intent = "settled"] /\ UNCHANGED held
       \/ /\ Loadable /\ CancelPasses(Sweeper, Restored(db), db)
          /\ db' = CancelledTables(Sweeper, Restored(db), db)
          /\ KeepsGate(Sweeper, Restored(db), "closed")
    /\ UNCHANGED <<mem, req, counters>>

\* The kernel of the sweeper lives as long as its process, from tick to tick.
SweepFails ==
    /\ req = NoRequest /\ db.intent = "requested" /\ Loadable
    /\ db.snap.gate # 0 /\ CanCancel(Restored(db), db)
    /\ GateFails(Sweeper, db, db.snap.gate, "cancelled")
    /\ UNCHANGED <<mem, req>>

RestartSweeper ==
    /\ faults < MaxFaults /\ faults' = faults + 1
    /\ held[Sweeper] # NoCopies
    /\ held' = [held EXCEPT ![Sweeper] = NoCopies]
    /\ UNCHANGED <<db, mem, req, fresh, ran, spoiled>>

\* The time of an approval is up.  No process runs expire_due().
TimePasses ==
    /\ req = NoRequest
    /\ \E e \in DOMAIN db.approvals :
         /\ Decidable(db, e)
         /\ db' = [db EXCEPT !.approvals[e].overdue = TRUE]
    /\ UNCHANGED <<mem, req, held, counters>>

\* A worker takes the next attempt of a call.
Retry ==
    /\ req = NoRequest
    /\ \E e \in DOMAIN db.execs, status \in {"completed", "failed"} :
         /\ db.execs[e].status = "pending"
         /\ db' = [db EXCEPT !.execs[e].status = status]
    /\ UNCHANGED <<mem, req, held, counters>>

LoopStep ==
    \/ StepCancels \/ StepWaits \/ StepExhausts \/ StepFailsToPlan \/ StepIsStuck
    \/ StepRefusesAction \/ StepReplans \/ StepFinishes \/ StepIsDenied
    \/ StepSuspends \/ StepExecutes

Serve == LoopStep \/ Commit

Next ==
    \/ Serve \/ Rollback \/ StepCancelFails
    \/ \E p \in Replicas :
         \/ StartRun(p) \/ GetRun(p) \/ BeginAdvance(p) \/ Decide(p) \/ CancelRun(p)
         \/ DecideFails(p) \/ CancelFails(p) \/ Restart(p)
    \/ Intend \/ Sweep \/ SweepFails \/ RestartSweeper \/ TimePasses \/ Retry

\* The server goes on with the request it serves.
Spec == Init /\ [][Next]_vars /\ WF_vars(Serve)
=============================================================================
