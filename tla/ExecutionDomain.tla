--------------------------- MODULE ExecutionDomain ---------------------------
(***************************************************************************)
(* The execution aggregate of packages/agent_domain/execution: one          *)
(* Execution row, the list of its Attempts, the events not yet written to   *)
(* the outbox, and the counters the aggregate object keeps in memory.       *)
(*                                                                          *)
(* Everything here is a pure function from an aggregate to an aggregate;    *)
(* who calls it, on which copy, and what is committed is the business of    *)
(* ExecutionKernel.                                                         *)
(***************************************************************************)
EXTENDS Naturals, Sequences

CONSTANTS
    Ttl,          \* KernelConfig.default_lease_ttl, in clock units
    MaxAttempts,  \* RetryPolicy.max_attempts
    RetryBudget   \* RetryPolicy.retry_budget

ASSUME DomainAssumption ==
    /\ Ttl \in Nat \ {0}            \* Lease: expires_at > acquired_at
    /\ MaxAttempts \in Nat \ {0}    \* RetryPolicy: max_attempts >= 1
    /\ RetryBudget \in Nat          \* RetryPolicy: retry_budget >= 0

-----------------------------------------------------------------------------
(* Statuses and the transition tables. *)

Terminal == {"COMPLETED", "FAILED", "CANCELLED"}

ExecutionStatus == {"PENDING", "RUNNING", "STALE", "SUSPENDED"} \cup Terminal

\* TIMEOUT is folded into FAILED: both are the failed end of an attempt.
AttemptStatus == {"RUNNING", "SUCCEEDED", "FAILED", "CANCELLED"}

EXECUTION_TRANSITIONS ==
    [s \in ExecutionStatus |->
        CASE s = "PENDING"   -> {"RUNNING", "CANCELLED"}
          [] s = "RUNNING"   -> {"PENDING", "SUSPENDED", "STALE"} \cup Terminal
          [] s = "STALE"     -> {"FAILED", "CANCELLED"}
          [] s = "SUSPENDED" -> {"PENDING", "FAILED", "CANCELLED"}
          [] OTHER           -> {}]

-----------------------------------------------------------------------------
(* Records. *)

\* execution.lease; tokens start at 1, so token 0 is "no lease".
Lease == [token : Nat, expires : Nat]
NoLease == [token |-> 0, expires |-> 0]
HoldsLease(exec) == exec.lease # NoLease
IsExpired(lease, t) == t > lease.expires

\* One row of the executions table.  Version 0 stands for "no such row".
Execution == [ status    : ExecutionStatus,
               attemptNo : Nat,
               lease     : Lease,
               suspended : BOOLEAN,
               cancelReq : BOOLEAN,
               version   : Nat ]

NoExecution == [ status |-> "PENDING", attemptNo |-> 0, lease |-> NoLease,
                 suspended |-> FALSE, cancelReq |-> FALSE, version |-> 0 ]

\* One execution event: its aggregate_version and the status it leads to.
Event == [version : Nat, to : ExecutionStatus]

\* An aggregate in the memory of a process; store is execution.store_version,
\* retries is the kernel's retries_used entry.  Store 0 means "not loaded".
Aggregate == [ exec     : Execution,
               attempts : Seq(AttemptStatus),
               events   : Seq(Event),
               fencing  : Nat,
               store    : Nat,
               retries  : Nat ]

NoAggregate == [ exec |-> NoExecution, attempts |-> <<>>, events |-> <<>>,
                 fencing |-> 0, store |-> 0, retries |-> 0 ]

-----------------------------------------------------------------------------
(* Building blocks. *)

\* A state change of the execution and the event that reports it.
Emit(agg, to) ==
    [agg EXCEPT !.exec.version = @ + 1,
                !.events = Append(@, [version |-> agg.exec.version + 1, to |-> to])]

Legal(agg, to) == to \in EXECUTION_TRANSITIONS[agg.exec.status]

\* ExecutionStateMachine.transition.
Transition(agg, to) ==
    [Emit(agg, to) EXCEPT !.exec.status = to,
                          !.exec.suspended = (to = "SUSPENDED")]

\* running_attempt: the first RUNNING attempt of the list.
IsRunningAttempt(attempts, i) ==
    /\ attempts[i] = "RUNNING"
    /\ \A j \in 1 .. (i - 1) : attempts[j] # "RUNNING"

HasRunningAttempt(agg) == \E i \in DOMAIN agg.attempts : agg.attempts[i] = "RUNNING"

\* The running attempt, if there is one, ends; the lease goes with it.
CloseAttempt(agg, outcome) ==
    [agg EXCEPT
        !.attempts = [i \in DOMAIN @ |->
                        IF IsRunningAttempt(@, i) THEN outcome ELSE @[i]],
        !.exec.lease = NoLease]

\* A new attempt, a token from the aggregate's own counter and a fresh lease.
OpenAttempt(agg, t) ==
    [Emit(agg, "RUNNING") EXCEPT
        !.attempts = Append(@, "RUNNING"),
        !.fencing = @ + 1,
        !.exec.attemptNo = @ + 1,
        !.exec.lease = [token |-> agg.fencing + 1, expires |-> t + Ttl],
        !.exec.status = "RUNNING"]

\* _require_lease(token, now).
LeaseCovers(agg, token, t) ==
    /\ HoldsLease(agg.exec)
    /\ ~ IsExpired(agg.exec.lease, t)
    /\ token >= agg.exec.lease.token

-----------------------------------------------------------------------------
(* The operations: for each, when it does not raise and what it returns. *)

NewExecution ==
    [NoAggregate EXCEPT !.exec.version = 1, !.store = 1,
                        !.events = <<[version |-> 1, to |-> "PENDING"]>>]

CanClaim(agg) == agg.exec.status = "PENDING" /\ ~ agg.exec.cancelReq
Claim(agg, t) == OpenAttempt(agg, t)

Heartbeat(agg, t) == [agg EXCEPT !.exec.lease.expires = t + Ttl]

CanEnd(agg, token, t) == LeaseCovers(agg, token, t) /\ HasRunningAttempt(agg)
Succeed(agg) == Transition(CloseAttempt(agg, "SUCCEEDED"), "COMPLETED")

\* Mutant: one attempt too many.
ShouldRetryOnceMore(agg, retryable) ==
    retryable /\ agg.exec.attemptNo <= MaxAttempts /\ agg.retries < RetryBudget

ShouldRetry(agg, retryable) ==
    /\ retryable
    /\ agg.exec.attemptNo < MaxAttempts
    /\ agg.retries < RetryBudget

Fail(agg, retryable) ==
    IF ShouldRetry(agg, retryable)
    THEN [Transition(CloseAttempt(agg, "FAILED"), "PENDING") EXCEPT !.retries = @ + 1]
    ELSE Transition(CloseAttempt(agg, "FAILED"), "FAILED")

CanExpireLease(agg, t) == HoldsLease(agg.exec) /\ IsExpired(agg.exec.lease, t)
ExpireLease(agg) == Transition([agg EXCEPT !.exec.lease = NoLease], "STALE")

CanRecover(agg) == agg.exec.status = "STALE"
\* Mutant: back to the queue.
RecoverRequeues(agg, t) == Transition(CloseAttempt(agg, "CANCELLED"), "PENDING")

Recover(agg, t) == OpenAttempt(CloseAttempt(agg, "CANCELLED"), t)

CanSuspend(agg) == agg.exec.status = "RUNNING"
\* Mutant: the attempt and its lease outlive the suspension.
SuspendKeepsAttempt(agg) == Transition(agg, "SUSPENDED")

Suspend(agg) == Transition(CloseAttempt(agg, "CANCELLED"), "SUSPENDED")

CanWakeup(agg) == agg.exec.status = "SUSPENDED"
Wakeup(agg) == Transition(agg, "PENDING")

\* Mutant: a request on a terminal execution is taken.
CanRequestCancelLate(agg) == agg.exec.version > 0

CanRequestCancel(agg) == agg.exec.status \notin Terminal
RequestCancel(agg) ==
    [Emit(agg, agg.exec.status) EXCEPT !.exec.cancelReq = TRUE]

CanCancel(agg) == Legal(agg, "CANCELLED")
Cancel(agg) == Transition(CloseAttempt(agg, "CANCELLED"), "CANCELLED")
=============================================================================
