# A formal model of Asuka / AgentOS

Asuka runs agents. What an agent decides to do is cut into tasks, every task is
one *Execution*, and the Executions are moved through their life cycle by many
processes that share nothing but PostgreSQL, Redis and Kafka. This directory
holds TLA+ models of that machinery and of the rules around it, the TLC
configurations that check them on small instances, and TLAPS proofs about them
for instances of every size.

All paths below are relative to the repository; `packages/` and `apps/` are left
away where the file's name says enough.

## 1. Inventory

### Processes, rows and messages

| component | code | state it keeps | operations | what is hard | what must hold | module |
|---|---|---|---|---|---|---|
| execution aggregate | `agent_domain/execution` | status, attempts, lease, fencing counter, version, unpublished events | claim, heartbeat, succeed, fail, expire_lease, recover, suspend, resume, request_cancel, cancel | long mixes of retry, expiry, recovery and suspension | attempts, lease and status agree (E-4 … E-9); terminal is final (E-2); one event per change (X-3) | `ExecutionDomain` |
| execution kernel with worker, scheduler, recovery controller, sweeper, wake-up controller | `execution_kernel` | a cache of aggregates per process, `retries_used`, tick counters | the same, each followed by `_persist` | a cache that is never refreshed, rollbacks that it survives, Redis that forgets | optimistic locking makes the cache safe; one executor per execution; queued work, expired leases and cancel intents are found | `ExecutionKernel` |
| process runtime | `apps/_runtime.py` | consecutive failures | one tick = one transaction; exit after too many failures | what a failed tick leaves in memory | a restart is always possible | in all of them |
| outbox publisher | `publisher.py`, `outbox_delivery.py`, `adapters/kafka.py` | delivery rows, attempts, dead letters | claim, publish, isolate, quarantine, account, reopen | replicas, broker failures, poison events | at least once, poison makes way, good events do not die | `OutboxDelivery` |
| agent loop and its approvals | `agent_runtime/loop.py`, `agent_harness/approval.py` | the loop in memory, snapshots, approvals, gates | plan, replan, deny, suspend, execute, approve, reject, cancel, restore | requests that roll back while the loop in memory does not; several copies of one run | gate and approval agree; a run completes with what worked; work is bounded; every request ends | `AgentRun` |
| child runs, run cancellation | `delegation.py`, `child_wake.py`, `child_wait.py`, `cancellation.py`, `apps/child_run_consumer`, `apps/run_cancellation_sweeper` | child registry, snapshots, offsets, intents | spawn, finish, wake, sweep, expire, request, adopt, settle, abandon | at-least-once delivery, dead drivers, late results, offsets against transactions, sweeps with a limit | every delegation ends and no intent blocks the queue; what is settled has stopped; what is closed is in the ledger | `RunFamilies` |
| saga | `agent_runtime/saga.py`, `orphans.py` | compensation ledger | record, claim, settle, release, amend, reopen | two claimers, unknown outcomes, results that come late | a side effect is undone at most once per decision, or somebody is told | `CompensationLedger` |
| control plane | `agent_api`, `apps/api/app.py` | runs in memory, idempotency keys | start, chat, drive, cancel, and their retries | one connection for all requests of a process; look-up and record far apart; restarts | what was told is recorded; what is recorded is not redone | `ControlPlane` |

### Rules and data

| component | code | what is hard | what must hold | module |
|---|---|---|---|---|
| plans, actions, tasks, waits, ports, reducer | `agent_domain/intelligence`, `loop.py`, `task_factory.py`, `delegation.py`, `reducer.py` | cyclic plans, tools nobody has, deadlines from two sides, a planner restored halfway | a plan that is taken can be carried out; a wait is bounded; a restored loop goes on where it was | `LoopRules` |
| statuses, snapshots, trace, views | `business/derive.py`, `run.py`, `snapshot.py`, `trace.py`, `service.py` | what a snapshot leaves out | capturing a restored run gives the same run; lists, views and layers tell the same before and after a restart | `RunViews` |
| harness | `agent_harness` | rules against risk gate, guardrails against policy, budgets at their limits, two deciders | a stricter rule never makes a verdict laxer; budgets stop; one decision per approval; secrets are not texts | `HarnessRules` |
| gateway, tools, sandbox, peers | `model_gateway`, `tool_runtime`, `connectivity`, `executors.py` | fallback chains, answers out of order, delegations that end twice | calls get their own answers; tries are bounded; tools and paths are guarded | `OutboundCalls` |
| context, memory, retrieval | `agent_context` | budgets at the edge, permissions after ranking, versions | what fits is kept in order; nobody reads what is not theirs | `ContextAssembly` |
| index, knowledge base, evaluation, comparisons | `asuka`, `agent_evaluation` | index runs that stop halfway, reports that no longer fit their corpus | what is told was retrieved and measured; what cannot be compared is refused | `KnowledgeIndex`, `AnswerEvaluation`, `ReportComparison` |
| registry, manifest, SDK, CLI, assembly, migrations, probes, data | see section 7 | – | – | – |

Processes talk to each other through rows: a process reads rows in its
tick, changes objects in memory, and commits rows and outbox events
together. Redis holds two hints (lease index, cancel signal) that may vanish;
Kafka carries what the outbox publishes; the API process is the only one that
keeps runs in memory between transactions.

## 2. Plan

1. `ExecutionDomain`, `ExecutionKernel`, `ExecutionHistory`: the aggregate, the
   processes around one row, and the history a reader of events may rely on
   (done).
2. `OutboxDelivery` (done). 3. `CompensationLedger` (done).
4. `RunFamilies`: child runs in full, the consumer with its offsets, the intents
   of run cancellation (done).
5. `AgentRun`: the loop of one run behind its API process, with approvals (done).
6. `ControlPlane`: retries of requests and their keys (done).
7. The rules and the data as operators, checked over bounded inputs (done).
8. Proofs: kernel with its refinement of `ExecutionHistory`, outbox, ledger,
   control plane, the loop of a run, the families of runs and the rules of one run and
   its harness (done, section 6).
   What is left of the invariants are those of the values.

## 3. The modules

`ExecutionDomain` is a set of pure functions from an aggregate to an aggregate,
one per method of `ExecutionAggregate`, each with the condition under which the
method does not raise. An aggregate is the row (`exec`), the attempts, the
events not yet written, the fencing counter, `store_version` and the kernel's
`retries_used` entry. Attempts are their statuses, TIMEOUT folded into FAILED;
results, errors, reasons and workers' names are left out because no property
tells them apart.

`ExecutionKernel` has one row (`db`) and any number of processes. A process has
an open transaction (`tx`, what a commit would write), its cached aggregate
(`cache`), and its place in the tick (`phase`). PostgreSQL at READ COMMITTED is
modelled by its two effects: a statement sees the process' own writes or else
what is committed, and an UPDATE waits until no other transaction has written
the row, then compares versions. The actions are the steps of a tick between
which another process can act: `WorkerSelect`, `LoadAggregate`, `WorkerClaim`,
`WorkerStart`, `WorkerHeartbeat`, `WorkerFails`, `WorkerCompletes`;
`RecoveryScan`, `MarkStale`, `ListStale`, `Revive`; `SweepSelect`,
`SweepCancel`; `WakeSelect`, `Wake`; `Submit`, `Request`, `CancelRequest`,
`WithdrawGate`, `CloseGate`; then `Commit`, or one of the failures
(`PersistFails`, `Refuses`, `Rollback`, `Crash`). A refused or failed tick rolls
the transaction back and leaves the aggregate in memory as the failed operation
left it, because that is what the code does.

`OutboxDelivery` has the two tables (`appended`, `published`, `delivery`), the
log of the broker, and any number of publishers. A publisher's `drain` is cut
where another process can act: `Scan` reads the candidates; every claim is an
UPDATE (`ClaimByUpdate`) and, if that found no row, an INSERT
(`ClaimByInsert`); `Publish` hands over the batch; each event is `Accepted`,
`Named` by the broker (`_quarantine`), or makes the batch raise (`BatchRaises`,
`_isolate`) and then fails alone (`IsolatedRaises`); the tick ends in
`ClaimsNothing`, `Commit`, `RaiseLast` or `Abort`. A tick is one transaction, so
`claimed_by` and `claimed_until` never leave it: what excludes others is the row
lock, which an UPDATE of a visible row and an INSERT of a conflicting key wait
for. `dead_ids` and `pending` are read in one step: a death that commits between
them only makes the second list contain an event that cannot be claimed, which
is also what a death after both does. The first deliveries of an event set
`FirstOnLog`; consumers drop the others (`IdempotentConsumer`). The operator
`Limited` returns every order SQL may return, ties included.

`CompensationLedger` is about one run. `run` and `pending` are the status and
the gate of its latest snapshot, `fwd` the executions, `row` the table
`compensations`, `child` the table `child_runs`, `queued` the undoes the kernel
is going to try again. A process runs ticks, one transaction each, of the kinds
`JobsOf` gives it: `drive` starts or resumes the run, `wake` brings the result of
a child, `expire` gives up waiting, `cancel` stops the run. What a tick writes
stays in `tick[p]` and locks its rows until `Commit`; `Abort` and `Raise` throw
it away, but what was undone outside stays undone (`lost` counts that). A tick
starts with `Rebuild`; the gate is closed by `DeliverResult`, `DeclareUnknown`
or `CancelRun`, or found closed (`AlreadyClosed`); then the loop runs (`Drive`,
`CallTool`, `Delegate`, `Pause`) until it gives a verdict: `Complete` releases
the open rows one by one (`Release`), `Fail` claims and undoes them one by one
(`Claim`, `CallUndo`). A run that is over is not rebuilt: `WakeLate`, `WakeOver`,
`ExpireOver` and `AbandonChild` write the ledger alone. Each of these is one
step, because it decides by one row and the statement that writes it. The world
outside acts as well: `ChildFinishes`, `UndoIsRetried`, `CallIsRetried`, and a
human who reopens a row (`Reopen`). Arguments of an undo are either there or
not: `materialize()` finds all keys in the result or raises. Clocks are left
out: any wait may be over, and the snapshot a tick saves last becomes the latest
when it commits, except where `Drive` says otherwise. One tick handles one
child; a sweep that handles several has them share one fate.

`AgentRun` is one run behind its API processes. `db` holds the committed tables
(latest snapshot, executions, approvals, the intent to cancel), `mem[p]` the loop a
process keeps, `req` the request being served with its own draft of the tables, and
`held[p]` what the kernel of a process has cached of the executions that wait for an
approval: `_close_gate` and `_cancel_gate` ask `status_of()`, which never reads a row
again. A gate whose copy is closed is left alone (`GateIsLeft`), one whose copy and row
are suspended is closed (`GateCloses`), everything else is an illegal transition or a
stale version (`GateIsRefused`), a 4xx that commits what was written before it
(`DecisionIsRefused`, `CancelIsRefused`). A 5xx may come between the resumption and the
completion of a gate (`GateFails`), and leaves the copy halfway or closed.
`LoopStep` is `AgentLoop._step` cut by its branches, in their order:
`StepCancels`, `StepWaits`, `StepExhausts`, `StepFailsToPlan`, `StepIsStuck`,
`StepRefusesAction`, `StepReplans`, `StepFinishes`, `StepIsDenied`,
`StepSuspends`, `StepExecutes`. `Decide`, `CancelRun`, `GetRun` and `StartRun` are
the other requests. `Commit` saves the snapshot the service would save, `Rollback`
puts the tables back and leaves the loop in memory, and the cached executions, where
they got to; `spoiled` remembers the gates that a request had closed by then. The sweeper,
a process with copies of its own, a worker that retries a call, time and restarts act
between requests. Requests on the one run are served one at a time; the threads of one
process that meet inside one loop are not modelled. Statuses of
steps and of the run are derived, never set.

`RunFamilies` has a root and children that may delegate in turn. A handler of the
code is an operator from the tables to the *set* of tables it may leave, since the
runs it drives may stop anywhere; the empty set means that it raises, and then the
tick is rolled back. `Through` folds a handler over the rows of a sweep. A tick of
the consumer (`ConsumerTick`) or of the sweeper (`SweepTick`) is one action;
`Consume(FALSE)` and `Sweep` with a fault are the ticks that fail, which rewinds
nothing but loses what was polled. Deadlines pass on their own. A child that is told
to stop while its spawner still has its loop in memory, suspended, stops at once in the
code (`_stacks`, `delegation.py:938-944`); here it is asked to, as by any other process.

`ControlPlane` has calls that are received, look their key up, do their work and
are answered, each step an action, with other calls and restarts between them.
`pending[p]` is what the one connection of a process has not committed; `Respond`
is the middleware that commits or rolls back all of it, whoever wrote it: the handlers
run in a pool of threads, so a process may be working on any number of calls. A
statement that fails aborts the transaction (`aborted`), and the next statement of any
call of the process fails, too (`FindsAborted`), until a response ends it; a COMMIT of
an aborted transaction keeps nothing. `around[c]` records that another call committed
or lost the transaction that `c` was in.

The value modules have no state of their own: `LoopRules`, `RunViews`,
`HarnessRules`, `OutboundCalls`, `ContextAssembly`, `KnowledgeIndex`,
`AnswerEvaluation` and `ReportComparison` translate functions of the code, and state
next to them what the functions promise for one input. `RuleClaims` gathers the promises
of the first three: a behaviour picks one part and one input of it, the sets of inputs
are constants, and `RuleClaimsAssumption` says what an input may be (a loop whose status
was derived from its steps and whose entries are numbered, a store of such loops and of
what was captured of them, a policy, a document, ...). `MCRuleClaims` gives bounded sets
to TLC, `RuleClaimsProofs` speaks of any. `MCValues` adds the parts of the other modules
with inputs of their own, so that one run picks one input of any part. Where a function of the code tests one condition after
the other, the translation is an IF chain; the arms of a CASE exclude each other. Texts are numbers of characters or sets of phrases, scores are small
numbers, files and peers are sequences of what they answer. State that these parts
do keep (a registry, an index, a budget, approvals, a delegation) is folded over a
sequence of operations that belongs to the input.

`ExecutionHistory` is the abstract specification: a log of statuses that only
grows, along the documented life cycle. The `...Properties` modules state the
properties, the `MC...` modules give process names, inputs and symmetry, and
the `...Proofs` modules hold the proofs. Operators
marked *Mutant*, and those `PROJECT.json` lists as mutants, are bugs somebody might
have written in the operator that follows them; no specification uses them, they
document that the properties notice.

## 4. What the runs show

| run | instance | shows |
|---|---|---|
| `kernel_safety` | 2 workers, recoverer, sweeper, waker, 2 APIs, 2 requests; clock to 2; no failed transaction | `TablesAgree`, `OutboxTellsTheRow`, `Coherent`, `TerminalIsFinal`, `NothingIsUndone`, `DecidedGateIsClosed`, refinement of `ExecutionHistory` (`TellsAHistory`) |
| `kernel_faults` | worker, in-process worker of an API, recoverer, waker; 1 request, 1 rollback, 1 crash | what survives a transaction that fails halfway: `AtomicClaim`, `FailuresAreBounded` |
| `kernel_live` | worker, recoverer, sweeper, API; 2 requests, 1 crash, Redis forgets, clock to 3 | `CancelReaches`, `QueuedIsTaken`, `ExpiredIsFound` |
| `outbox` | 2 publishers, 3 events of one aggregate, the first poison, named by the broker or not; 2 refusals, 1 abort, 1 reopening | `PublishedIsOnLog`, `TerritoriesAreDisjoint`, `OnlyPoisonDies`, `FirstDeliveriesInOrder`, `DeadLettersStay`, `GoodIsDelivered`, `NamedPoisonDies` |
| `ledger` | a tool call, a delegation, 2 processes that bring results, one of which drives and cancels the run while the other gives up waiting; 1 failed tick or 1 reopened row | `UndoneOncePerDecision`, `BlindOnlyByHand`, `NoClaimIsLeft`, `UndoneInReverse`, `NothingIsSkipped`, `TruthReachesTheLedger`, `LedgerNeverFlowsBack`, `Delivery` |
| `run` | 1 API process and the sweeper; plans `<<a, b>>`, `<<b>>` and one that cannot be carried out; 2 steps, 2 denials, 3 executions; 1 rollback, failure inside a decision or restart | `GateTellsTheDecision`, `CompletedIsEarned`, `WorkIsBounded`, `RequestEnds` |
| `families` | a root and 2 children that may delegate in turn; sweeps and polls of one row; 2 requests, 1 failed tick | `SettledMeansStopped`, `ClosedIsAccounted`, `DelegationsClose`, `QueueMovesOn` |
| `plane` | 2 API processes, 1 key, 2 bodies, 3 calls, any of them at a time; 1 restart or failure, of a statement or of the code | `KeysTellTheTruth`, `RecordedIsNotRedone` |
| `values` | 35 parts, about 740,000 inputs | `RunsAreRead`, `ActionsAreGated`, `AnswersAreTold` |

**Bounds of the kernel.** Ttl = 1 with a clock up to 2 or 3 lets a lease expire, be recovered and
expire again; two attempts and a retry budget of one give a retry that is
allowed and one that is not; `SweepEvery = 2` gives ticks with and without the
sweep; `MaxFailures = 2` lets a process fail without exiting and exit. One
execution is enough because no operation of the kernel reads another
execution's row in order to change this one; errors on siblings in one tick are
`Rollback`. The clock of `kernel_live` stops: `CancelReaches` excuses a lease
that is granted so late that it does not expire before (`OutlivesTheClock`).

**Bounds of the outbox.** Two publishers give every race over one delivery row.
Three events with batches of two leave one event outside the first batch, so
that ticks overlap and batches differ. `MaxAttempts = 1` lets
a good event die within two refusals, one of the batch and one of its own, so
that stale candidates meet dead letters that could be sent. `OnlyPoisonDies` speaks
of states with fewer refusals than `MaxAttempts`: a broker that refuses one event
`max_attempts` times while it accepts others cannot be told from poison.
`DeadLimit = 3` is above the number of dead letters, as the code means it to be.

**Bounds of the ledger.** Two rows are the fewest that have an order, and the call
and the delegation reach the ledger in both orders. Two processes that bring the
result of the same child, one of which also drives and cancels the run, are
every pair of ticks that race over one run. One fault is enough for each
property, because it counts what it excuses: a rolled-back undo (`lost`) or a
reopened row (`reopened`).

**Bounds of the run.** Two nodes, one of which needs the other, give a plan that
runs half; the shorter plan is what is left after a denial, the defective one is
refused. With budgets of two both end a run within the bound on executions. The
sweeper is the second process that has a copy of the run and of its gates, and both
may come to a gate that the other one has closed. `GateTellsTheDecision` excepts the gates
in `spoiled`, and only those: what the code does to them is in section 5. `WorkIsBounded` allows
`max_steps` calls for each process that has loaded the run and for each failed
request or restart, because every copy counts its own steps from the snapshot it was
restored from.

**Bounds of the families.** A chain and a fork are the two shapes of three runs.
Sweeps and polls that take one row at a time make the limit matter: what is at
the front decides who is served. Two requests and sweeps that take one row put an
intent behind another one, so that the second waits for the first to be adopted or
abandoned. Runs end by themselves as completed only (`Endings`): no handler tells
completed from failed. `QueueMovesOn` assumes that from some time on a sweep that lets
go of what it can gets through: there are no more intents than one sweep takes, or
every run in the queue can be cancelled. Section 5 shows what happens otherwise.

**Bounds of the control plane.** Three calls are a first one, its retry and a
second retry that comes while or after one of them is refused; two bodies let a
key be used again for something else. All three may be in one process at a time, and
each may be answered, or fail, between any two steps of the others, which is the fewest
that lets one call's rollback take what a second has told its client and a third retry.
`KeysTellTheTruth` therefore says of each call whether another one ended its transaction
(`around`), and excepts nothing else; `RecordedIsNotRedone` excepts nothing.

**Bounds of the values.** For each part the inputs are all combinations of few
items, numbers at and next to each limit, and every answer a peer may give.
Each part is checked alone, so its inputs need not grow with the others.

**Fairness of the kernel.** `FairSpec` assumes that every background process goes on ticking
(`ProcessRuntime.run` is a loop, and a process that exits is restarted), that a
request that has arrived is answered, that executors end (`timeout_seconds`)
and that the clock advances. It does not assume that requests arrive, that
crashes happen, or that Redis forgets. Weak fairness is enough: while a row
stays as it is, the step of the process that would handle it stays enabled.

**Fairness of the outbox.** `FairSpec` is weak fairness of each publisher's tick:
the process loops and is restarted. Refusals and aborts are bounded, events
need not be written. While a publisher waits for a row lock its step is
disabled, and the holder, which never waits for an event it has yet to
claim in the opposite order of `occurred_at`, goes on.

**Fairness of the ledger.** `FairSpec` is weak fairness of the steps of each
process: `ProcessRuntime.run` loops, and PostgreSQL lets a tick that waits for a
row go on when the other one ends. Nothing says that a child ends, that a wait is
over or that anybody drives, cancels or reopens.

**Fairness of the run.** A request that is being served goes on (`Serve`); no
request need come, and no human need decide.

**Fairness of the families.** The consumer and the sweeper go on ticking, and
deadlines pass (`IntentLapses`, `WaitPasses`) because clocks do. Nobody else has
to act: children may stay silent and drivers dead.

## 5. Where the code departs from its documents

Three runs end in a counterexample on purpose; each is a finding in
`PROJECT.json`.

| run | property | instance | in short |
|---|---|---|---|
| `kernel_lostupdate` | `TerminalIsFinal` | 1 worker, 2 recoverers, sweeper, API; 3 requests, 1 rollback | `store_version` survives a rollback, and another process reaches the same number |
| `ledger_unbooked` | `DelegationsAreBooked` | one delegation, the processes that cancel and wake, no faults | a wake-up that races a cancellation delivers a result nobody books |
| `plane_twice` | `OneRunPerKey` | that of `plane` | two processes look a key up before either records it |

`kernel_lostupdate` needs one failed transaction: the aggregate cache outlives
it. The proofs make the same point from the other side: without failed
transactions the cache is provably safe.

`ledger_unbooked` needs no failure at all. The wake-up rebuilds the run, the
sweeper cancels the run and commits, and leaves the finished child to the
wake-up, as `_cancel_pending_child` says it should; the wake-up goes on with the
run it rebuilt, finds the execution CANCELLED, therefore closes no gate, records
nothing and marks the result delivered. Nothing holds a run between `rebuild()`
and the snapshot that a tick saves last.

`plane_twice` is a retry that reaches another process while the first call is
still at work. Both find no record, both open a run, and the `INSERT … ON CONFLICT
DO NOTHING` of the second tells nobody that its row is not there. Each client
gets a 201 with a run of its own; only one run answers to the key.

Other statements are kept next to the properties although they do not hold, and
other instances of the same modules end in a counterexample; they are not among
the runs because they show weaker departures or the same cause again.

| statement | why it does not hold |
|---|---|
| `TokensIncrease` (`ExecutionKernelProperties`) | fencing tokens start again at 1 in every process |
| `RetryBudgetHolds` | with three attempts and two processes: the retry budget is counted per process |
| `CancelledIsAttributed` | the cancel signal is visible before the request is committed (`kernel.py:302`) |
| `ExpiredIsFound` with a rollback and one controller | after a rolled-back recovery the controller's own aggregate has no lease, and `_mark` swallows what it raises |
| `ClosedWithTheDecision` (`AgentRunProperties`); `DecidedGateIsClosed` with a rollback and two requests of one API | the close of a rolled-back decision is still in the kernel's cache, so the one that tries again skips the gate (`loop.py:3001`): the approval is decided and its execution suspended for ever |
| `OutboxTellsTheRow` with a rollback | the events of a rolled-back change are committed later |
| `SentOnce` (`OutboxDeliveryProperties`) | a replica with stale candidates sends again what another has published |
| `RowsAreInFlight` | with two refusals a stale claim leaves a row for a published event |
| `PublishedIsOnLog` with drops | delivery reports of the Kafka client are not read (`kafka.py:179`) |
| poison is buried whoever names it | the Kafka adapter names no event, and a rollback takes the counted attempt along: alone in a batch it is tried for ever (`publisher.py:159`) |
| `FirstDeliveriesInOrder` with skewed clocks | the order is that of several processes' clocks |
| `GoodIsDelivered` with `DeadLimit` below the number of dead letters | dead letters beyond the limit of `dead_ids` fill the batch |
| `TruthReachesTheLedger` with two processes that drive | the second process resumed the run from an older snapshot, and saves that nothing is pending over the delegation of the first: the wait is then marked expired without a row, and the late result finds none to complete. `LateResultsArrive` (section 6) shows that this crossing is the only way |
| a final `run` stays final (R-3), in the ledger | the wake-up of `ledger_unbooked` may save a running snapshot after the cancelled one |
| a completed execution has a row (S-1) | a call that the kernel retries is completed after the loop has looked at it (`CallIsRetried`) |
| `DependentsHaveProducts` (`AgentRunProperties`) | a node a human rejected counts as completed for those that need it (`loop.py:1634–1647`) |
| `CancelledStays` | the sweeper cancels and settles a run that another process keeps in memory and drives on |
| `EndedChildrenTell` (`RunFamiliesProperties`) | a child that was rebuilt ends without telling the registry (`loop.py:2842`); the consumer's sweeps make up for it |
| `QueueAlwaysMovesOn` | an intent whose run has an approval out of time raises when it is adopted, and the tick takes along what it had abandoned (`cancellation.py:392-450`): behind a full sweep of abandoned intents it blocks the queue for ever, which R-11 says cannot be (`cancellation.py:422`). In production a sweep takes 64 |
| `FailureLeavesNothing` (`ControlPlane`) | "a 5xx leaves not a word" (`app.py:333`): requests of one process share a connection, and the key of a chat that will answer 500 is committed by another one's 200. In the same way a 500 takes along the key of a call that answers 201 |
| `RerankIsKept` (`ContextAssembly`) | what was reranked is sorted by score again (`retrieval.py:162`) |
| `RetriedOnlyIfRetryable` (`OutboundCalls`) | the gateway goes by a fixed list of codes, whatever each deployment said of its failure (`gateway.py:201`) |
| `MessageIsAnAnswer` | a message of a peer does not end a delegation (`a2a.py:301`) |
| `LoadableMeansLoadable` (`RunViews`) | a run that asking for it would load is listed as one that cannot be opened (`service.py:455`) |
| `IndexHolds` (`KnowledgeIndex`) with two embedders whose names have one slug | they share a collection (`vectorstore.py:69-76`), so a run of one that stops halfway leaves its vectors among those the manifest says are the other's; the inputs of `values` have a slug each |
| `SearchTellsTheCorpus` (`KnowledgeIndex`) | points of chunks that are gone stay in the collection unless it is recreated, and the manifest does not tell (`vectorstore.py:375–431`) |

Smaller things met while translating, for whoever reads the code next:

* a chat whose drive answers 500 rolls its key back, while the run stays in memory;
  `start_run` saves no snapshot, so that after a restart its key answers 409; a 5xx
  leaves the loop in memory ahead of its rows;
* nobody calls `expire_due()`; a run that waits for an overdue approval cannot be
  cancelled, and the sweeper's tick that meets it is rolled back;
* a delegation without a target raises after `kernel.submit()` and leaves an
  execution nobody drives;
* `Harness.default(require_approval_for={})` still asks for approval of high risks; a
  `PolicyRule` without a reason is refused only when it matches; `register_mcp_tools`
  replaces a tool of the same name;
* `StdioTransport` takes a notification for the answer and waits without a limit;
* BM25 cuts its list before permissions are looked at; recall with an empty subject
  reads everybody's memories.

## 6. Proofs

The theorems hold for every set of processes and every value of the bounds.

`ExecutionKernelProofs` begins with the operations of `ExecutionDomain`: every one keeps
the type of an aggregate and moves its version forward. Then:

* `TypeCorrect`: `Spec => []TypeOK`.
* `ClaimIsAtomic`: `Spec => []AtomicClaim`. The inductive invariant says that
  at most one process has written the row and that a process that runs an
  executor has written its claim in this transaction; the row lock
  (`Unlocked`) is all it needs, so it holds with failed transactions too.
* `CopiesAreCoherent`: `Spec => []Coherent`, assuming `MaxRollbacks = 0`.
  `Coherent` is itself inductive. It is needed because `TerminalIsFinal` is
  about the committed row while writes are decided on cached copies: a copy
  whose `store_version` equals the row's version must know when that row is
  terminal, and the copy of a process that has written must be what it wrote.
* `TerminalStaysFinal`: `Spec => TerminalIsFinal`, assuming
  `MaxRollbacks = 0`; `kernel_lostupdate` shows the assumption is needed.

`ExecutionHistoryProofs` goes on from there to what the tables and the outbox tell,
for every number of processes of each kind:

* `TruthIsTold` is the inductive invariant `Truthful`. The committed row, and what
  an open transaction would commit, are `Honest`: attempts fit the status, a failure
  at the limit is the last attempt, and the events are the versions of the row, one
  by one, along the life cycle. Every aggregate in memory is sound in itself, and a
  copy that the versioned UPDATE would accept *continues* the row its process sees:
  the row's outbox followed by the events the copy has not written tells the copy's
  status. That is the point of the optimistic lock, and it is what one process
  cannot see of another.
* The operations of the aggregate enter by one relation, `Carries`: whatever row the
  aggregate continued, the result continues. Each operation is proved once to carry
  (as one `Evolves` step after another), so that the steps of
  the processes reduce to eight forms (`Forms`) and none looks at a status.
* From it follow `TablesStayInAgreement` (`TablesAgree`), `OutboxKeepsTelling`
  (`OutboxTellsTheRow`), `FailuresStayBounded` (`FailuresAreBounded`),
  `CommitsUndoNothing` (`NothingIsUndone`), `DecisionsAreCommittedClosed`
  (`DecidedGateIsClosed`) and the refinement `KernelTellsAHistory`
  (`Spec => TellsAHistory`): `Init` maps to an empty history, every commit extends
  the history by a walk, and every other step is a stutter.
* All but `FailuresStayBounded` assume `MaxRollbacks = 0`. A rollback leaves the
  aggregate in memory ahead of its row, and section 5 lists what that breaks.
* `FailuresAreBounded` survives it, as `kernel_faults` checks. Its invariant, `Counted`
  (`AttemptsAreCounted`), says nothing of what copies know of each other. In every
  aggregate, cached, written or committed, an attempt that failed has a number that the
  policy lets fail (`MayFail`), and the attempts are at most half the version (`Fits`); an
  attempt is in hand only under such a number (`InHand`). It is no bound on the attempts:
  `recover()` opens as many as leases expire, and those time out. A copy that a
  rollback left ahead of its row is wrong about the row, but has counted its own attempts;
  a row may get attempts of two copies, and the version, which grows with both, keeps the
  count from being undercut.

`OutboxDeliveryProofs`, for every set of publishers and events:

* `TypeCorrect`, `OnePublisherPerEvent` (`TerritoriesAreDisjoint`) and
  `DeadLettersAreFinal` (`DeadLettersStay`) follow from one inductive invariant:
  a claimed event is in nobody else's claim, has a row that is alive or none,
  and what is still to be sent, sent or failed is among the claimed. It is
  needed because a publisher commits failures and deletions by event id, long
  after it looked at the row.
* `AtLeastOnce` (`PublishedIsOnLog`), assuming `MaxDrops = 0`: what is accounted
  as sent is on the log, and the log only grows. With drops TLC finds a
  counterexample, because delivery reports are not read.
* `GoodEventsSurvive` (`OnlyPoisonDies`): every attempt on the account of a good
  event, whether in its row or still in a publisher's list of failures, stands for a
  refusal that has happened (`GoodFailsByRefusal`). A list that was read earlier
  counts once, because an event that is being failed is in one publisher's claim.
* `DeliveriesComeInOrder` (`FirstDeliveriesInOrder`): while nothing is refused or
  lost, every sequence an event is in (the outbox, the candidates, a claim, what is
  still to be sent, the log) has its predecessors in front of it or already on the
  log (`SendsInOrder`). Candidates may be old and claims may leave gaps: a
  predecessor that was skipped is on the log, or held by somebody whose lock the
  claim had to wait for. The hypothesis `ClocksAgree` says that the processes that
  write one aggregate have clocks that agree with the order of its events, which the
  code relies on (`ORDER BY occurred_at`) and section 5 shows to be needed.

`CompensationLedgerProofs`, for every set of processes, calls and delegations:

* `TypeCorrect` (`TypeOK`), `ClaimsAreSettled` (`NoClaimIsLeft`) and
  `FinalRowsStay` (`LedgerNeverFlowsBack`) follow from one inductive invariant,
  `IInv`. What is committed (`TablesFollow`): no row is `running`, and nothing is
  booked or registered before its execution is begun. What a transaction holds
  (`TickInv`): a row it has written is in no other transaction, is newer than the
  committed one and replaces nothing final; the only `running` row among its
  writes is the one whose undo it is calling, so none can be committed; and what
  its verdict has read is older than the row or the row has not changed. The
  last part is what `release()` relies on: it saves what it has read, and only
  the version in the WHERE clause tells that the row is still pending.
* The argument is by two lemmas that every action comes down to: `LocalStep` (a
  step inside a transaction needs only that the transaction is in order
  afterwards) and `ForeignStep` (rows that others replace by newer ones, and that
  the transaction has not written, leave it in order). `CallTool` takes no row
  lock; that its booking meets no other one follows from `fwd`: nobody else has
  begun that execution.
* A second invariant, `PInv`, keeps accounts. Each row may cost one undo more, two if
  it lacks its arguments, and the undoes that were called, those the kernel is to
  repeat and this cost never exceed one plus the times that a human reopened the row
  or a tick that had undone it was rolled back (`RowPaid`; `WrittenPaid` for rows that
  a transaction holds). Next to the accounts it says that the list a verdict works
  through is the youngest first and still has everything that was pending then
  (`OrderOK`). Booking, claiming, upgrading, late results and repeated calls each move
  cost from one place to another; only `Reopen` and a rollback add to the credit.
* It gives `UndoneOnce` (`UndoneOncePerDecision`), `BlindUndoIsADecision`
  (`BlindOnlyByHand`), `YoungestIsUndoneFirst` (`UndoneInReverse`) and
  `EverythingIsTried` (`NothingIsSkipped`).
* `LateResultsArrive` (`TruthReachesTheLedger`) has a third invariant, `TInv`. A
  delegation whose wait was ended has a row (`EndsBooked`, `Tracks`), because whoever
  ends it came upon the gate of a delegation that the snapshot tells of. That is what a
  tick from an older snapshot breaks: it saves that nothing is pending. The theorem
  therefore assumes `DelegatesAlone`: while a tick has delegated and is not committed,
  no other tick brings the run on and leaves it running. Nothing in the code enforces
  this; it holds when one process resumes the run, and TLC finds the
  counterexample without it (section 5).
* Its two corollaries assume nothing of the order of steps. `OneResumerIsTrue`: one
  process starts, wakes and gives up waiting, the others only cancel, with any number
  of delegations. `OneDelegationIsTrue`: one process starts the run, any number of
  them bring its one result or give up on it, as in the run `ledger`. They rest on
  `JInv`, an invariant on what ticks do of the jobs of their processes.
* The assumptions are those of `LedgerAssumption`: the sets are finite and calls
  are not delegations.

`AgentRunProofs`, for every number of API processes, every set of nodes and plans and
all budgets:

* `CopiesRelyOnTheTables` is the inductive invariant `Inv`. The tables fit
  (`RowsFit`): an approval and the execution of its gate have matching statuses. A
  copy of the loop, be it the snapshot, a process's memory or the loop of the request
  being served, may be as old as it likes, but it agrees with the tables
  (`Agrees`): a copy that never replanned and knows of no failure has none among its
  executions, one that waits for its end has none either; and with a decision it has
  seen (`Knows`). It agrees both with what is committed and with the draft of the
  request, so that neither a commit nor a rollback needs to look at the other
  processes. Tables only move so that old copies still agree (`Follows`): what has
  proven well stays so, what is decided stays decided.
* `StateHasItsShape` (`TypeOK`) and `CompletionIsEarned` (`CompletedIsEarned`) follow.
* `ApprovalsAndGatesAgree` (`GateTellsTheDecision`) has an invariant of its own,
  `GateInv`, about the copies of executions: for a gate that no rolled-back request had
  closed, approval and row agree in the tables and in the draft, and no copy is ahead of the
  row (`SoundAt`). So a decision that leaves the gate
  alone finds it closed, and one that closes it has row and copy suspended. The
  processes but the one that serves are sound with respect to the committed tables, so
  a rollback only has to put the gates it had touched among the `spoiled`.
* `BudgetBoundsTheWork` (`WorkIsBounded`) counts seats: the pairs of a process and a
  step its copy has been charged for. A call takes a seat; a process that forgets its
  copy does so by a fault, which pays for at most `MaxSteps` seats.
* The assumptions are those of `AgentRunAssumption`; that the replicas are finitely
  many is there so that they can be counted.

`ControlPlaneProofs`, for every set of processes, keys, bodies and calls, with any
number of restarts:

* `KeysTellTheTruthAlways` (`KeysTellTheTruth`) and `RecordedIsNotRedoneAlways`
  (`RecordedIsNotRedone`) follow from one inductive invariant, `Inv`, which assumes
  nothing of how many calls a process works on. A key that is written and not committed
  belongs to a call of that process which cannot end in a refusal any more (`WritesOK`),
  is in no other transaction and not in the table (`UniqueOK`). A committed key belongs
  to a call that was answered with a success, unless another call's answer committed it
  (`TableOK`). A call that is about to succeed sees its key, unless another
  call lost the transaction it was in (`PromiseOK`). A key that was known when a call
  arrived is still there, the call has not begun, and the run it works on is the key's
  (`KnownOK`, `PromiseOK`).
* The work is in `RespondStep` and `BreakStep`, which end a transaction under every call
  of the process at once: that a key is in the table once and for all, whoever commits
  it, is what the calls that arrive later rely on, and it does not depend on the marks.
* The only assumption is `PlaneAssumption`.

`RunFamiliesProofs`, for every set of roots and children, any depth of delegation, any
limits of sweeps and batches, and any number of requests and faults:

* `FamiliesStayTogether` is the inductive invariant. What the tables must satisfy is
  `Fit`. Its core is `DebtsFit`: a child that was started and has no row in the ledger
  is the one its parent waits for, or its parent was cancelled and left the
  outcome to the child's own delivery. With it, a handler that finds a parent gone on
  or completed knows that the outcome is booked, although it does not look. `Fit(t, X)`
  also describes tables in which a handler is in the middle of resuming the runs `X`.
* A handler takes tables to sets of tables, and a sweep hands it row after row.
  `Advances` is what one row must not spoil for the next: nothing is unborn, unbooked
  or un-asked, and nobody starts to wait for a child that was there before. Each
  handler is proved to keep `Fit` and to advance; five lemmas (`ConsumedThrough`, …)
  carry that over batches of any length, by counting with the library's
  well-foundedness of the naturals; `QueriesFit` says that the queries select rows of
  children that were started and of runs that were asked to stop.
* `TypeCorrect` (`TypeOK`), `SettledRunsHaveStopped` (`SettledMeansStopped`) and
  `ClosedDelegationsAreAccounted` (`ClosedIsAccounted`) follow.
* The queries are written with `Selected`, a recursive function, because what
  `SelectSeq` returns cannot be unfolded by the provers.

`RuleClaimsProofs`, for plans, books, histories, stores, policies and sequences of calls
of any size:

* `RunsAreAlwaysRead` (`RunsAreRead`) and `ActionsAreAlwaysGated` (`ActionsAreGated`). The
  inductive invariant is small, `CaseIsGiven`: the input is one of those that there may
  be. The work is in one lemma for each part.
* Much of what is promised is computed step by step: the layers of a plan that are taken
  away, the state after each observation, what was spent after each call, the request
  after each decision. `Counting` (what holds at 0 and is handed on from each number to
  the next holds up to N) follows from the well-foundedness of the naturals, with a set
  in the place of the predicate, and `Iteration` gives the function that such a
  definition denotes. With the two, `StatesAreFolded`, `BudgetsHold` and `DecidesOnce`
  are proved as invariants of a machine whose steps are the elements of the input:
  `Sound`, for instance, says that a request is pending and nobody was told, or that it
  was decided and one was told so, and that whoever is about to write that it expired
  had seen that it was overdue.
* `PlansRunOut`: in a plan that can be built every group of nodes has one that waits for
  none of the group (`NoKnots`), because `assert_acyclic` takes nodes away in rounds and
  the first of the group to go needed none of the others. So something is ready until
  all is done.
* `ListsTellGets` counts: the runs that are listed are the memory's, by name, and the
  newest snapshots of others, by age. `Ranks` gives every place in a finite order to
  exactly one element, which is what paging by `Lowest` and `Highest` needs.
* `HarnessesAreStrict` and `DocumentsDecide` come down to what `PolicyVerdict` depends on:
  the best of the rules that match, which a rule that does not match cannot change, nor
  the order of rules whose priorities differ.
* The only hypothesis is `RuleClaimsAssumption`, which TLC evaluates for the bounded
  inputs of the run `values`.

Only model-checked: all liveness properties and implications from fairness, which are
beyond the prover; `TruthReachesTheLedger` for several delegations and several processes
that drive, which is not true (above); and `AnswersAreTold`, whose parts fold over answers,
texts and scores in ways that have not been brought into the form of `Iteration`.

## 7. Not modelled

In all modules: payloads, results and error texts; back-off delays, heartbeat files
and health reports; rendering, logging and command lines; the in-memory stores,
which stand in for the tables in tests.

Of the kernel: the scheduler's scores and its limit per tenant, which need a batch of
executions; checkpoints, which are written and never read to decide anything; the
idempotency guard, which no application wires, so that there is no environment to
model.

Of the outbox: `release` on shutdown, which runs
between ticks, when no claim is committed, and so changes nothing; topics and
partitions, of which only the order within one aggregate matters. The log is
external and stands for the Kafka client with its broker.

Of the ledger: actions that declare no inverse, which have no row; compensation
and cancellation events, which nothing consumes; children that run in the process
of their parent; the budget and policy that decide how a run ends, which are in
`AgentRun` and `HarnessRules`.

Of the run and its families: actions that become several tasks, which `LoopRules`
treats as a rule; several approvals of one run at a time, which the loop does not
ask for; contents of handles, results and summaries.

Of the control plane: identity, metrics, the console, and the lists of agents and
tools, which read constants.

Of the values: model providers' formats and HTTP clients, the patterns guardrails
look for, and skill texts, which are choices of the environment; scores, which are
inputs; markup parsing and printed layouts.

Not at all: registry, manifest, SDK, CLI and the assembly in `_bootstrap.py`, which
build objects once and change nothing afterwards; migrations, which run alone under
an advisory lock, and probes, which read the age of a file; the question lists of
`asuka/datasets` and its markup parsers, which are data without control.
