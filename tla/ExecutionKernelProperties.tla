---------------------- MODULE ExecutionKernelProperties ----------------------
(* What ExecutionKernel is supposed to guarantee. *)
EXTENDS ExecutionKernel

-----------------------------------------------------------------------------
(* Invariants. *)

\* Type invariant: every variable of the kernel stays within its type.
TypeOK ==
    /\ db \in Database
    /\ tx \in [Procs -> Database]
    /\ cache \in [Procs -> Aggregate]
    /\ phase \in [Procs -> Phases]
    /\ token \in [Procs -> Nat]
    /\ fails \in [Procs -> Nat]
    /\ ticks \in [Procs -> Nat]
    /\ now \in Nat
    /\ signal \in BOOLEAN /\ gate \in BOOLEAN
    /\ leaseIndex \in Nat
    /\ requests \in Nat /\ rollbacks \in Nat /\ crashes \in Nat

\* E-5, E-6, E-7, E-9: the two tables agree.  A lease is held exactly while the
\* execution is RUNNING, every attempt has its number, none but the last is
\* open, and the last is open exactly while the execution runs or is STALE.
OpenExactlyWhileRunning(d) ==
    LET n == Len(d.attempts)
    IN  /\ HoldsLease(d.exec) <=> d.exec.status = "RUNNING"
        /\ d.exec.suspended <=> d.exec.status = "SUSPENDED"
        /\ d.exec.attemptNo = n
        /\ \A i \in 1 .. n :
             d.attempts[i] = "RUNNING" <=> i = n /\ d.exec.status \in {"RUNNING", "STALE"}
TablesAgree == OpenExactlyWhileRunning(db)

\* X-3: the committed events are the versions 1, 2, ... of the row without gap
\* or repetition, and the last one leads to the status the row is in.
OutboxTellsTheRow ==
    /\ Len(db.outbox) = db.exec.version
    /\ \A i \in 1 .. Len(db.outbox) : db.outbox[i].version = i
    /\ Exists(db) => db.outbox[Len(db.outbox)].to = db.exec.status

\* Atomic claim (apps/worker/app.py): at any time at most one process has
\* written to the row or runs the executor, so no two workers run one task.
AtomicClaim ==
    \A p, q \in Procs :
        /\ HasWritten(p) \/ phase[p] \in {"claimed", "running"}
        /\ HasWritten(q) \/ phase[q] \in {"claimed", "running"}
        => p = q

\* RetryPolicy.max_attempts: no more attempts fail than the policy allows.
Failed(attempts) == {i \in DOMAIN attempts : attempts[i] = "FAILED"}
FailuresAreBounded == Cardinality(Failed(db.attempts)) <= MaxAttempts

\* E-13, E-25: why the cached aggregates are safe as long as no transaction
\* fails halfway.  A copy is never ahead of the row its process sees, and a copy
\* that the versioned UPDATE would accept knows that the row is terminal.  While
\* a transaction is open the row is not terminal, and its copy is the row.
CopyIsBehind(p) ==
    LET copy == cache[p]
    IN  Loaded(p) =>
          /\ copy.store <= View(p).exec.version
          /\ copy.store <= copy.exec.version
          /\ copy.store = View(p).exec.version /\ View(p).exec.status \in Terminal
             => copy.exec.status \in Terminal
          /\ copy.exec.status \in Terminal => ~ HoldsLease(copy.exec)

WriterAgrees(p) ==
    HasWritten(p) =>
        /\ Loaded(p)
        /\ cache[p].exec = tx[p].exec /\ cache[p].store = tx[p].exec.version
        /\ db.exec.status \notin Terminal /\ db.exec.version < tx[p].exec.version
        /\ \A q \in Procs : HasWritten(q) => q = p
        /\ \/ phase[p] = "picked" /\ p \in Workers /\ CanClaim(cache[p])
           \/ phase[p] \in {"claimed", "running"} /\ cache[p].exec.status = "RUNNING"
           \/ phase[p] = "reviving" /\ cache[p].exec.status = "STALE"
           \/ phase[p] = "cancelling" /\ cache[p].exec.status \notin Terminal
           \/ phase[p] \in {"listing", "done", "decided"}

\* A worker at work has written its claim in this very transaction.
WorksOnOwnClaim(p) == phase[p] \in {"claimed", "running", "cancelling"} => HasWritten(p)

Coherent ==
    /\ \A p \in Procs : CopyIsBehind(p) /\ WriterAgrees(p) /\ WorksOnOwnClaim(p)
    /\ db.exec.status \in Terminal => Exists(db) /\ ~ HoldsLease(db.exec)

-----------------------------------------------------------------------------
(* Action properties. *)

\* E-2: once committed, a terminal execution never changes again, whatever
\* a process with an old aggregate in memory tries.
TerminalIsFinal == [][db.exec.status \in Terminal => db' = db]_vars

\* E-13: no commit undoes another one.  An intent to cancel is never
\* withdrawn, an attempt that ended keeps its end, the outbox only grows.
NothingIsUndone ==
    [][/\ db.exec.cancelReq => db'.exec.cancelReq
       /\ \A i \in DOMAIN db.attempts :
            /\ i \in DOMAIN db'.attempts
            /\ db.attempts[i] # "RUNNING" => db'.attempts[i] = db.attempts[i]
       /\ \A i \in DOMAIN db.outbox :
            i \in DOMAIN db'.outbox /\ db'.outbox[i] = db.outbox[i]]_vars

\* AgentLoop._close_gate: when the request that decides a gate is committed,
\* the execution behind the gate is terminal in the database.
DecidedGateIsClosed ==
    [][\A a \in Apis :
         /\ phase[a] = "decided" /\ phase'[a] = "idle"
         /\ UNCHANGED <<rollbacks, crashes>>
         => db'.exec.status \in Terminal]_vars

-----------------------------------------------------------------------------
(* The history the outbox tells. *)

History == INSTANCE ExecutionHistory
             WITH log <- [i \in DOMAIN db.outbox |-> db.outbox[i].to]

\* The kernel implements ExecutionHistory: what consumers of the outbox see is
\* a growing walk through the documented life cycle.
TellsAHistory == History!HistorySpec

-----------------------------------------------------------------------------
(* Liveness: every process keeps ticking, the clock keeps running.  An     *)
(* executor ends at last: TaskSpec.timeout_seconds bounds it, so heartbeats *)
(* are not progress.                                                        *)

Works(p) ==
    \/ LoadAggregate(p) \/ Commit(p) \/ IdleTick(p)
    \/ /\ p \in Workers
       /\ \/ WorkerSelect(p) \/ WorkerClaim(p) \/ WorkerStart(p)
          \/ WorkerFails(p) \/ WorkerCompletes(p)
    \/ p \in Recoverers /\ RecovererStep(p)
    \/ p \in Sweepers /\ SweeperStep(p)
    \/ p \in Wakers /\ WakerStep(p)

\* A request that has arrived is answered; that one arrives is not promised.
Answers(a) == \/ LoadAggregate(a) \/ Commit(a)
              \/ CancelRequest(a) \/ WithdrawGate(a) \/ CloseGate(a)

FairSpec ==
    /\ Spec
    /\ \A p \in Procs \ Apis : WF_vars(Works(p))
    /\ \A a \in Apis : WF_vars(Answers(a))
    /\ WF_vars(Tick)

\* cancellation.py: an intent to cancel does not stay an intent, though recovery
\* controllers go on reviving the execution.  Left out is a lease granted so late
\* that it does not end while the clock runs.
OutlivesTheClock == HoldsLease(db.exec) /\ ~ IsExpired(db.exec.lease, MaxTime)
CancelReaches ==
    db.exec.cancelReq ~> (db.exec.status \in Terminal \/ []OutlivesTheClock)

\* A task that was submitted does not stay in the queue.
QueuedIsTaken == IsCandidate(db.exec) ~> ~ IsCandidate(db.exec)

\* apps/recovery_controller/app.py: a row whose lease has expired is found,
\* by the Redis index or at the latest by the sweep over PostgreSQL.
LeaseHasExpired == db.exec.status = "RUNNING" /\ IsExpired(db.exec.lease, now)
ExpiredIsFound == LeaseHasExpired ~> ~ LeaseHasExpired

-----------------------------------------------------------------------------
(* What the documentation says and the code does not keep. *)

\* lease.py: fencing tokens increase monotonically; here: every lease that is
\* committed carries a larger token than the lease committed before it.
TokensIncrease ==
    [][HoldsLease(db.exec) /\ HoldsLease(db'.exec) /\ db'.exec.attemptNo > db.exec.attemptNo
       => db'.exec.lease.token > db.exec.lease.token]_vars

\* retry.py: retry_budget is an upper limit on the retries of an execution;
\* a failed attempt that another attempt follows was retried.
RetryBudgetHolds ==
    Cardinality({i \in Failed(db.attempts) : i < Len(db.attempts)}) <= RetryBudget

\* loop.py, 017_execution_cancellation: no CANCELLED without a request that
\* says who wanted it and why.
CancelledIsAttributed == db.exec.status = "CANCELLED" => db.exec.cancelReq
=============================================================================
