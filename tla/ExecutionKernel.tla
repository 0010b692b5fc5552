--------------------------- MODULE ExecutionKernel ---------------------------
(***************************************************************************)
(* One Execution, the PostgreSQL row that is its truth, and the processes   *)
(* that move it: workers, recovery controllers, cancellation sweepers,      *)
(* wake-up controllers and API processes.                                   *)
(*                                                                          *)
(* Every process has its own ExecutionKernel with its own cache of          *)
(* aggregates, filled once and never refreshed.  One tick (or one HTTP      *)
(* request) is one PostgreSQL transaction at READ COMMITTED: the first      *)
(* UPDATE locks the row until commit or rollback, and an UPDATE that finds  *)
(* another version than the aggregate's store_version raises E-13.          *)
(*                                                                          *)
(* A tick that handles several executions is projected on this one: an      *)
(* error on a sibling is a Rollback here.                                   *)
(***************************************************************************)
EXTENDS ExecutionDomain, FiniteSets

CONSTANTS
    Workers,       \* apps/worker processes
    Recoverers,    \* apps/recovery_controller processes
    Sweepers,      \* apps/cancellation_sweeper processes
    Wakers,        \* apps/wakeup_controller processes
    Apis,          \* processes that run AgentLoop or serve requests
    SweepEvery,    \* RecoveryController.sweep_every
    MaxFailures,   \* ProcessRuntime.max_consecutive_failures
    MaxTime,       \* bound: how far the clock goes
    MaxRequests,   \* bound: API requests other than submissions
    MaxRollbacks,  \* bound: transactions that fail after work was done in them
    MaxCrashes     \* bound: processes killed

Procs == Workers \cup Recoverers \cup Sweepers \cup Wakers \cup Apis

\* Only AgentLoop runs a worker in its own process.
ASSUME KernelAssumption ==
    /\ Workers \cap (Recoverers \cup Sweepers \cup Wakers) = {}
    /\ Recoverers \cap (Sweepers \cup Wakers \cup Apis) = {}
    /\ Sweepers \cap (Wakers \cup Apis) = {}
    /\ Wakers \cap Apis = {}
    /\ SweepEvery \in Nat \ {0}
    /\ MaxFailures \in Nat \ {0}
    /\ MaxTime \in Nat
    /\ MaxRequests \in Nat
    /\ MaxRollbacks \in Nat
    /\ MaxCrashes \in Nat

VARIABLES
    db,          \* committed rows: execution, attempts, outbox
    tx,          \* tx[p]: what p's open transaction would commit
    cache,       \* cache[p]: p's ExecutionKernel._aggregates entry
    phase,       \* phase[p]: where p is in its tick
    token,       \* token[p]: the fencing token a worker was given
    fails,       \* fails[p]: ProcessRuntime.consecutive_failures
    ticks,       \* ticks[p]: RecoveryController.ticks modulo SweepEvery
    now,         \* the clock all processes read
    signal,      \* Redis: the cancel signal of the execution
    leaseIndex,  \* Redis: expiry under which the lease is indexed, 0 if absent
    gate,        \* the task is a gate: a wait for a human or for a child run
    requests, rollbacks, crashes   \* the bounded counters

vars == <<db, tx, cache, phase, token, fails, ticks, now, signal, leaseIndex,
          gate, requests, rollbacks, crashes>>

\* Everything a tick's bookkeeping leaves alone.
redis == <<signal, leaseIndex>>
bounds == <<gate, requests, rollbacks, crashes>>

Database == [exec : Execution, attempts : Seq(AttemptStatus), outbox : Seq(Event)]
NoRow == [exec |-> NoExecution, attempts |-> <<>>, outbox |-> <<>>]

\* picked: a candidate was selected; listing: recover() is next; reviving: it
\* has found the execution STALE;
\* requesting, withdrawing, deciding: the requests to cancel an execution, to
\* withdraw a gate and to close a gate; cancelling: a withdrawal's second half;
\* done, decided: the body returned and the commit is next.
Phases == {"idle", "picked", "claimed", "running", "listing", "reviving",
           "requesting", "withdrawing", "cancelling", "deciding", "decided", "done"}

Init ==
    /\ db = NoRow
    /\ tx = [p \in Procs |-> NoRow]
    /\ cache = [p \in Procs |-> NoAggregate]
    /\ phase = [p \in Procs |-> "idle"]
    /\ token = [p \in Procs |-> 0]
    /\ fails = [p \in Procs |-> 0]
    /\ ticks = [p \in Procs |-> 0]
    /\ now = 0
    /\ signal = FALSE
    /\ leaseIndex = 0
    /\ gate = FALSE
    /\ requests = 0 /\ rollbacks = 0 /\ crashes = 0

-----------------------------------------------------------------------------
(* Transactions and the aggregate cache. *)

Exists(d) == d.exec.version > 0
HasWritten(p) == Exists(tx[p])

\* What a SELECT of p returns: its own writes, else what is committed.
View(p) == IF HasWritten(p) THEN tx[p] ELSE db

\* No other transaction holds the row lock.
Unlocked(p) == \A q \in Procs \ {p} : ~ HasWritten(q)

Loaded(p) == cache[p].store > 0

\* Mutant: the mapping forgets cancel_requested_at.
FromRowForgetsCancel(d) ==
    [NoAggregate EXCEPT !.exec = [d.exec EXCEPT !.cancelReq = FALSE],
                        !.attempts = d.attempts, !.store = d.exec.version]

FromRow(d) ==
    [NoAggregate EXCEPT !.exec = d.exec, !.attempts = d.attempts,
                        !.store = d.exec.version]

\* The attempts are upserted by number; rows the aggregate lacks stay.
Upsert(old, new) == new \o SubSeq(old, Len(new) + 1, Len(old))

Written(d, agg) == [ exec     |-> agg.exec,
                     attempts |-> Upsert(d.attempts, agg.attempts),
                     outbox   |-> d.outbox \o agg.events ]

\* Mutants: the events stay for the next save; store_version is not moved.
FlushedKeepsEvents(agg) == [agg EXCEPT !.store = agg.exec.version]
FlushedKeepsStore(agg) == [agg EXCEPT !.events = <<>>]

Flushed(agg) == [agg EXCEPT !.store = agg.exec.version, !.events = <<>>]

Reads(p) == UNCHANGED <<db, tx, fails, now, bounds, redis>>

\* ExecutionKernel.aggregate: the cached aggregate, read from the database
\* only the first time.
LoadAggregate(p) ==
    /\ phase[p] \in {"picked", "reviving", "requesting", "withdrawing", "deciding"}
    /\ ~ Loaded(p) /\ Exists(View(p))
    /\ cache' = [cache EXCEPT ![p] = FromRow(View(p))]
    /\ Reads(p) /\ UNCHANGED <<phase, token, ticks>>

\* Mutants: the UPDATE without its version clause; without the row lock.
CanSaveAnyVersion(p, agg) == Unlocked(p) /\ Exists(View(p)) /\ agg.store > 0
CanSaveUnlocked(p, agg) == View(p).exec.version = agg.store

CanSave(p, agg) == Unlocked(p) /\ View(p).exec.version = agg.store
Clashes(p, agg) == Unlocked(p) /\ View(p).exec.version # agg.store

\* ExecutionKernel._persist, when the versioned UPDATE hits the row.
Persist(p, agg, next) ==
    /\ CanSave(p, agg)
    /\ tx' = [tx EXCEPT ![p] = Written(View(p), agg)]
    /\ cache' = [cache EXCEPT ![p] = Flushed(agg)]
    /\ phase' = [phase EXCEPT ![p] = next]
    /\ leaseIndex' = IF HoldsLease(agg.exec) /\ agg.exec.status \notin Terminal
                     THEN agg.exec.lease.expires ELSE 0
    /\ UNCHANGED <<db, fails, ticks, now, bounds>>

\* The tick ends in an exception: its transaction is rolled back, but the
\* aggregate stays in memory as the failed operation left it.  A process that
\* fails too often in a row exits and is started again with an empty cache.
TickFails(p, agg) ==
    LET givesUp == p \notin Apis /\ fails[p] + 1 >= MaxFailures
    IN  /\ tx' = [tx EXCEPT ![p] = NoRow]
        /\ phase' = [phase EXCEPT ![p] = "idle"]
        /\ token' = [token EXCEPT ![p] = 0]
        /\ cache' = [cache EXCEPT ![p] = IF givesUp THEN NoAggregate ELSE agg]
        /\ fails' = [fails EXCEPT ![p] =
                        IF p \in Apis \/ givesUp THEN 0 ELSE @ + 1]
        /\ ticks' = [ticks EXCEPT ![p] = IF givesUp THEN 0 ELSE @]

Refuses(p) == TickFails(p, cache[p]) /\ UNCHANGED <<db, now, bounds, redis>>

\* _persist raises, and the aggregate keeps what the operation did to it: the
\* UPDATE finds another version (ConcurrentStateError, E-13), or a statement
\* fails, the UPDATE or one after it, when store_version has moved already.
PersistFails(p, agg) ==
    /\ \/ /\ Clashes(p, agg)
          /\ TickFails(p, agg)
          /\ UNCHANGED rollbacks
       \/ /\ rollbacks < MaxRollbacks /\ Unlocked(p)
          /\ \E store \in {agg.store, agg.exec.version} :
               TickFails(p, [agg EXCEPT !.store = store])
          /\ rollbacks' = rollbacks + 1
    /\ UNCHANGED <<db, now, gate, requests, crashes, redis>>

\* An operation that only persists.
Saves(p, agg, next) ==
    \/ Persist(p, agg, next) /\ UNCHANGED <<token, signal>>
    \/ PersistFails(p, agg)

\* kernel.cancel: the signal is cleared as soon as the UPDATE went through.
Cancels(p) ==
    \/ /\ CanCancel(cache[p])
       /\ \/ /\ Persist(p, Cancel(cache[p]), "done")
             /\ signal' = FALSE
             /\ UNCHANGED token
          \/ PersistFails(p, Cancel(cache[p]))
    \/ ~ CanCancel(cache[p]) /\ Refuses(p)

\* A step of the tick that touches no store.
Moves(p, next) ==
    /\ phase' = [phase EXCEPT ![p] = next]
    /\ UNCHANGED <<db, tx, cache, token, fails, ticks, now, bounds, redis>>

Commit(p) ==
    /\ phase[p] \in {"done", "decided"}
    /\ db' = View(p)
    /\ tx' = [tx EXCEPT ![p] = NoRow]
    /\ phase' = [phase EXCEPT ![p] = "idle"]
    /\ token' = [token EXCEPT ![p] = 0]
    /\ fails' = [fails EXCEPT ![p] = 0]
    /\ UNCHANGED <<cache, ticks, now, bounds, redis>>

\* Any other exception in the tick or the request, once it has started.
Rollback(p) ==
    /\ rollbacks < MaxRollbacks
    /\ phase[p] # "idle"
    /\ TickFails(p, cache[p])
    /\ rollbacks' = rollbacks + 1
    /\ UNCHANGED <<db, now, gate, requests, crashes, redis>>

\* The process is killed and started again; its transaction is gone.
Crash(p) ==
    /\ crashes < MaxCrashes
    /\ crashes' = crashes + 1
    /\ tx' = [tx EXCEPT ![p] = NoRow]
    /\ cache' = [cache EXCEPT ![p] = NoAggregate]
    /\ phase' = [phase EXCEPT ![p] = "idle"]
    /\ token' = [token EXCEPT ![p] = 0]
    /\ fails' = [fails EXCEPT ![p] = 0]
    /\ ticks' = [ticks EXCEPT ![p] = 0]
    /\ UNCHANGED <<db, now, gate, requests, rollbacks, redis>>

-----------------------------------------------------------------------------
(* Workers: Scheduler.dispatch, then Worker.run_claimed, in one tick. *)

IsCandidate(exec) == exec.version > 0 /\ exec.status = "PENDING" /\ ~ exec.cancelReq

\* Mutant: an execution that has been tried once is not a candidate again.
WorkerSelectUntried(w) ==
    /\ phase[w] = "idle" /\ IsCandidate(db.exec) /\ db.exec.attemptNo = 0
    /\ Moves(w, "picked")

WorkerSelect(w) ==
    /\ phase[w] = "idle" /\ IsCandidate(db.exec)
    /\ Moves(w, "picked")

WorkerClaim(w) ==
    /\ phase[w] = "picked" /\ Loaded(w)
    /\ LET claimed == Claim(cache[w], now)
       IN  \/ /\ CanClaim(cache[w])
              /\ \/ /\ Persist(w, claimed, "claimed")
                    /\ token' = [token EXCEPT ![w] = claimed.exec.lease.token]
                    /\ UNCHANGED signal
                 \/ PersistFails(w, claimed)
           \/ ~ CanClaim(cache[w]) /\ Refuses(w)

\* CancellationService.is_requested: the signal first, then the row.
IsCancelled(p) == signal \/ View(p).exec.cancelReq

\* The check before the executor starts.
WorkerStart(w) ==
    /\ phase[w] = "claimed"
    /\ \/ IsCancelled(w) /\ Cancels(w)
       \/ ~ IsCancelled(w) /\ Moves(w, "running")

\* StaleWriteError or LeaseRequired: the worker gives up without an error, and
\* the claim it made in this tick is committed.
LosesLease(w) ==
    /\ ~ LeaseCovers(cache[w], token[w], now)
    /\ Moves(w, "done")

\* ctx.heartbeat() at a safe point of the executor.
WorkerHeartbeat(w) ==
    /\ phase[w] = "running"
    /\ \/ /\ LeaseCovers(cache[w], token[w], now)
          /\ Saves(w, Heartbeat(cache[w], now), "running")
       \/ LosesLease(w)

\* The executor raised; cancellation seen inside the executor is one of these.
WorkerFails(w) ==
    /\ phase[w] = "running"
    /\ \/ /\ CanEnd(cache[w], token[w], now)
          /\ \E retryable \in BOOLEAN : Saves(w, Fail(cache[w], retryable), "done")
       \/ LosesLease(w)

\* The executor returned: the last check, then complete().
WorkerCompletes(w) ==
    /\ phase[w] = "running"
    /\ \/ IsCancelled(w) /\ Cancels(w)
       \/ /\ ~ IsCancelled(w)
          /\ \/ /\ CanEnd(cache[w], token[w], now)
                /\ Saves(w, Succeed(cache[w]), "done")
             \/ LosesLease(w)

-----------------------------------------------------------------------------
(* Recovery controllers: RecoveryController.run_once. *)

IndexedAsDue == leaseIndex > 0 /\ leaseIndex <= now

\* _candidates: what the Redis index proposes and the row confirms.
FoundByIndex(r) ==
    IndexedAsDue /\ HoldsLease(View(r).exec) /\ IsExpired(View(r).exec.lease, now)

\* Mutant: the sweep trusts the index.
FoundBySweepOfIndex(r) == FoundByIndex(r) /\ View(r).exec.status = "RUNNING"

\* list_with_expired_lease: the safety net over PostgreSQL.
FoundBySweep(r) ==
    View(r).exec.status = "RUNNING" /\ IsExpired(View(r).exec.lease, now)

\* The rows the tick goes through; a due index entry without a lease is dropped.
RecoveryScan(r) ==
    LET tick == (ticks[r] + 1) % SweepEvery
    IN  /\ phase[r] = "idle"
        /\ ticks' = [ticks EXCEPT ![r] = tick]
        /\ phase' = [phase EXCEPT ![r] =
              IF FoundByIndex(r) \/ (tick = 0 /\ FoundBySweep(r))
              THEN "picked" ELSE "listing"]
        /\ leaseIndex' = IF IndexedAsDue /\ ~ HoldsLease(View(r).exec)
                         THEN 0 ELSE leaseIndex
        /\ UNCHANGED <<db, tx, cache, token, fails, now, signal, bounds>>

\* mark_stale; LeaseRequired is swallowed, a lease still valid is left alone.
MarkStale(r) ==
    /\ phase[r] = "picked" /\ Loaded(r)
    /\ \/ CanExpireLease(cache[r], now)
          /\ Saves(r, ExpireLease(cache[r]), "listing")
       \/ ~ CanExpireLease(cache[r], now) /\ Moves(r, "listing")

\* list_by_status(STALE).
ListStale(r) ==
    /\ phase[r] = "listing"
    /\ Moves(r, IF View(r).exec.status = "STALE" THEN "reviving" ELSE "done")

\* recover() raises on an aggregate that is not STALE in memory.
Revive(r) ==
    /\ phase[r] = "reviving" /\ Loaded(r)
    /\ \/ CanRecover(cache[r]) /\ Saves(r, Recover(cache[r], now), "done")
       \/ ~ CanRecover(cache[r]) /\ Refuses(r)

-----------------------------------------------------------------------------
(* Sweepers and wake-up controllers. *)

\* Mutant: the sweep looks for lost workers only.
MustBeCancelledRunning(exec) ==
    exec.cancelReq /\ exec.status = "RUNNING" /\ IsExpired(exec.lease, now)

\* CancellationService.sweep: only a RUNNING row with a valid lease waits.
MustBeCancelled(exec) ==
    /\ exec.cancelReq /\ exec.status \notin Terminal
    /\ exec.status = "RUNNING" /\ HoldsLease(exec) => IsExpired(exec.lease, now)

SweepSelect(s) ==
    /\ phase[s] = "idle" /\ MustBeCancelled(db.exec)
    /\ Moves(s, "picked")

SweepCancel(s) == phase[s] = "picked" /\ Loaded(s) /\ Cancels(s)

\* Whether the wait condition holds is up to the environment.
WakeSelect(k) ==
    /\ phase[k] = "idle" /\ db.exec.status = "SUSPENDED"
    /\ Moves(k, "picked")

Wake(k) ==
    /\ phase[k] = "picked" /\ Loaded(k)
    /\ \/ CanWakeup(cache[k]) /\ Saves(k, Wakeup(cache[k]), "done")
       \/ ~ CanWakeup(cache[k]) /\ Refuses(k)

-----------------------------------------------------------------------------
(* Requests: AgentLoop and CancellationService.request. *)

\* kernel.submit, under an id that nobody has seen: what a submission that was
\* rolled back leaves in memory is about another execution.  A gate is claimed
\* and suspended in the same transaction, and a process with a worker of its own
\* may go on to run the task in it.
Submit(a) ==
    /\ phase[a] = "idle"
    /\ ~ Exists(db) /\ \A q \in Procs : ~ HasWritten(q) /\ ~ Loaded(q)
    /\ \E isGate \in BOOLEAN :
         LET agg == IF isGate THEN Suspend(Claim(NewExecution, now)) ELSE NewExecution
         IN  /\ gate' = isGate
             /\ tx' = [tx EXCEPT ![a] = Written(NoRow, agg)]
             /\ cache' = [cache EXCEPT ![a] = Flushed(agg)]
             /\ \E next \in {"done"} \cup (IF a \in Workers /\ ~ isGate THEN {"picked"} ELSE {}) :
                  phase' = [phase EXCEPT ![a] = next]
    /\ UNCHANGED <<db, token, fails, ticks, now, requests, rollbacks, crashes, redis>>

\* A request about the execution arrives; gates are decided or withdrawn.
Request(a) ==
    /\ phase[a] = "idle" /\ requests < MaxRequests
    /\ Exists(db)
    /\ \E what \in {"requesting"} \cup (IF gate THEN {"deciding", "withdrawing"} ELSE {}) :
         phase' = [phase EXCEPT ![a] = what]
    /\ requests' = requests + 1
    /\ UNCHANGED <<db, tx, cache, token, fails, ticks, now, gate, rollbacks, crashes, redis>>

\* Mutant: whatever waits no longer counts as closed.
IsClosedOnceAwake(a) == cache[a].exec.status # "SUSPENDED"

IsClosed(a) == cache[a].exec.status \in Terminal

\* kernel.request_cancel: the signal is set after the UPDATE, before the commit.
RequestsCancel(a, next) ==
    /\ CanRequestCancel(cache[a])
    /\ \/ /\ Persist(a, RequestCancel(cache[a]), next)
          /\ signal' = TRUE
          /\ UNCHANGED token
       \/ PersistFails(a, RequestCancel(cache[a]))

CancelRequest(a) ==
    /\ phase[a] = "requesting" /\ Loaded(a)
    /\ \/ RequestsCancel(a, "done")
       \/ ~ CanRequestCancel(cache[a]) /\ Refuses(a)

\* AgentLoop._cancel_gate: request first, then cancel; a gate that is already
\* terminal is left alone.
WithdrawGate(a) ==
    \/ /\ phase[a] = "withdrawing" /\ Loaded(a)
       /\ \/ IsClosed(a) /\ Moves(a, "done")
          \/ ~ IsClosed(a) /\ RequestsCancel(a, "cancelling")
    \/ phase[a] = "cancelling" /\ Cancels(a)

\* AgentLoop._close_gate and _close_child_gate: resume, then complete or fail.
\* resume() raises E-17 after it has already moved the aggregate to PENDING.
CloseGate(a) ==
    LET resumed == Wakeup(cache[a])
        claimed == Claim(resumed, now)
    IN  /\ phase[a] = "deciding" /\ Loaded(a)
        /\ \/ IsClosed(a) /\ Moves(a, "decided")
           \/ ~ IsClosed(a) /\ ~ CanWakeup(cache[a]) /\ Refuses(a)
           \/ /\ CanWakeup(cache[a]) /\ ~ CanClaim(resumed)
              /\ TickFails(a, resumed)
              /\ UNCHANGED <<db, now, bounds, redis>>
           \/ /\ CanWakeup(cache[a]) /\ CanClaim(resumed)
              /\ \/ /\ \E closed \in {Succeed(claimed), Fail(claimed, FALSE)} :
                         Persist(a, closed, "decided")
                    /\ UNCHANGED <<token, signal>>
                 \/ PersistFails(a, claimed)

-----------------------------------------------------------------------------
(* The environment. *)

Tick ==
    /\ now < MaxTime
    /\ now' = now + 1
    /\ UNCHANGED <<db, tx, cache, phase, token, fails, ticks, bounds, redis>>

\* Redis is a cache: it may lose what it holds, or let a key expire.
RedisForgets ==
    /\ signal' = FALSE
    /\ leaseIndex' = 0
    /\ UNCHANGED <<db, tx, cache, phase, token, fails, ticks, now, bounds>>

\* A tick that finds nothing to do succeeds, which ends a series of failures.
IdleTick(p) ==
    /\ phase[p] = "idle" /\ fails[p] > 0
    /\ \/ p \in Workers /\ ~ IsCandidate(db.exec)
       \/ p \in Sweepers /\ ~ MustBeCancelled(db.exec)
       \/ p \in Wakers
    /\ fails' = [fails EXCEPT ![p] = 0]
    /\ UNCHANGED <<db, tx, cache, phase, token, ticks, now, bounds, redis>>

WorkerStep(w) ==
    \/ WorkerSelect(w) \/ WorkerClaim(w) \/ WorkerStart(w)
    \/ WorkerHeartbeat(w) \/ WorkerFails(w) \/ WorkerCompletes(w)

RecovererStep(r) == RecoveryScan(r) \/ MarkStale(r) \/ ListStale(r) \/ Revive(r)
SweeperStep(s) == SweepSelect(s) \/ SweepCancel(s)
WakerStep(k) == WakeSelect(k) \/ Wake(k)
ApiStep(a) == \/ Submit(a) \/ Request(a) \/ CancelRequest(a)
              \/ WithdrawGate(a) \/ CloseGate(a)

Next ==
    \/ \E w \in Workers : WorkerStep(w)
    \/ \E r \in Recoverers : RecovererStep(r)
    \/ \E s \in Sweepers : SweeperStep(s)
    \/ \E k \in Wakers : WakerStep(k)
    \/ \E a \in Apis : ApiStep(a)
    \/ \E p \in Procs : \/ LoadAggregate(p) \/ Commit(p) \/ IdleTick(p)
                       \/ Rollback(p) \/ Crash(p)
    \/ Tick
    \/ RedisForgets

Spec == Init /\ [][Next]_vars
=============================================================================
