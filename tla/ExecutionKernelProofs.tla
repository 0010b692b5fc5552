------------------------ MODULE ExecutionKernelProofs ------------------------
(***************************************************************************)
(* Theorems about ExecutionKernel, for any number of processes and every    *)
(* value of the bounds.                                                     *)
(***************************************************************************)
EXTENDS ExecutionKernelProperties, SequenceTheorems, TLAPS

-----------------------------------------------------------------------------
(* The operations of the aggregate: what type they return and how they move *)
(* status and version.                                                      *)

\* _event(): reporting a change keeps the aggregate well formed.
LEMMA EmitType ==
    ASSUME NEW agg \in Aggregate, NEW to \in ExecutionStatus
    PROVE  /\ Emit(agg, to) \in Aggregate
           /\ Emit(agg, to).exec = [agg.exec EXCEPT !.version = @ + 1]
           /\ Emit(agg, to).attempts = agg.attempts
           /\ Emit(agg, to).store = agg.store
           /\ Emit(agg, to).fencing = agg.fencing
           /\ Emit(agg, to).retries = agg.retries
<1>1. agg.exec \in Execution
  BY DEF Aggregate
<1>2. agg.exec.version + 1 \in Nat /\ [agg.exec EXCEPT !.version = @ + 1] \in Execution
  BY <1>1 DEF Execution
<1>3. [version |-> agg.exec.version + 1, to |-> to] \in Event
  BY <1>2 DEF Event
<1>4. Append(agg.events, [version |-> agg.exec.version + 1, to |-> to]) \in Seq(Event)
  BY <1>3, AppendProperties DEF Aggregate
<1> QED
  BY <1>2, <1>4 DEF Emit, Aggregate

\* ExecutionStateMachine.transition: the status is the target, the version one
\* higher, and lease, attempts and stored version are those of before.
LEMMA TransitionType ==
    ASSUME NEW agg \in Aggregate, NEW to \in ExecutionStatus
    PROVE  /\ Transition(agg, to) \in Aggregate
           /\ Transition(agg, to).exec.status = to
           /\ Transition(agg, to).exec.version = agg.exec.version + 1
           /\ Transition(agg, to).exec.lease = agg.exec.lease
           /\ Transition(agg, to).exec.cancelReq = agg.exec.cancelReq
           /\ Transition(agg, to).store = agg.store
<1>1. /\ Emit(agg, to) \in Aggregate
      /\ Emit(agg, to).exec = [agg.exec EXCEPT !.version = @ + 1]
      /\ Emit(agg, to).store = agg.store
  BY EmitType
<1>2. agg.exec \in Execution /\ agg.exec.version + 1 \in Nat
  BY DEF Aggregate, Execution
<1> DEFINE moved == [[agg.exec EXCEPT !.version = @ + 1] EXCEPT
                        !.status = to, !.suspended = (to = "SUSPENDED")]
<1>3. /\ moved \in Execution
      /\ moved.status = to
      /\ moved.version = agg.exec.version + 1
      /\ moved.lease = agg.exec.lease
      /\ moved.cancelReq = agg.exec.cancelReq
  BY <1>2 DEF Execution
<1>4. Transition(agg, to) \in Aggregate /\ Transition(agg, to).exec = moved
      /\ Transition(agg, to).store = agg.store
  BY <1>1, <1>3 DEF Transition, Aggregate
<1> QED
  BY <1>3, <1>4

\* Closing the running attempt drops the lease and touches no status.
LEMMA CloseAttemptType ==
    ASSUME NEW agg \in Aggregate, NEW outcome \in AttemptStatus
    PROVE  /\ CloseAttempt(agg, outcome) \in Aggregate
           /\ CloseAttempt(agg, outcome).exec = [agg.exec EXCEPT !.lease = NoLease]
           /\ CloseAttempt(agg, outcome).store = agg.store
           /\ CloseAttempt(agg, outcome).retries = agg.retries
<1> DEFINE closed == [i \in DOMAIN agg.attempts |->
                        IF IsRunningAttempt(agg.attempts, i) THEN outcome ELSE agg.attempts[i]]
<1>1. agg.attempts \in Seq(AttemptStatus)
  BY DEF Aggregate
<1>2. DOMAIN agg.attempts = 1 .. Len(agg.attempts) /\ Len(agg.attempts) \in Nat
      /\ \A i \in DOMAIN agg.attempts : agg.attempts[i] \in AttemptStatus
  BY <1>1, LenProperties, ElementOfSeq
<1>3. closed \in Seq(AttemptStatus)
  BY <1>2, IsASeq
<1>4. NoLease \in Lease
  BY DEF NoLease, Lease
<1>5. agg.exec \in Execution
  BY DEF Aggregate
<1>6. [agg.exec EXCEPT !.lease = NoLease] \in Execution
  BY <1>4, <1>5 DEF Execution
<1>7. CloseAttempt(agg, outcome) = [agg EXCEPT !.attempts = closed, !.exec.lease = NoLease]
  BY DEF CloseAttempt
<1> HIDE DEF closed
<1> QED
  BY <1>3, <1>6, <1>7 DEF Aggregate

\* A new attempt: RUNNING, one version higher, under a lease.
LEMMA OpenAttemptType ==
    ASSUME NEW agg \in Aggregate, NEW t \in Nat
    PROVE  /\ OpenAttempt(agg, t) \in Aggregate
           /\ OpenAttempt(agg, t).exec.status = "RUNNING"
           /\ OpenAttempt(agg, t).exec.version = agg.exec.version + 1
           /\ OpenAttempt(agg, t).exec.cancelReq = agg.exec.cancelReq
           /\ OpenAttempt(agg, t).store = agg.store
<1> "RUNNING" \in ExecutionStatus /\ "RUNNING" \in AttemptStatus
  BY DEF ExecutionStatus, AttemptStatus
<1>1. /\ Emit(agg, "RUNNING") \in Aggregate
      /\ Emit(agg, "RUNNING").exec = [agg.exec EXCEPT !.version = @ + 1]
      /\ Emit(agg, "RUNNING").store = agg.store
      /\ Emit(agg, "RUNNING").attempts = agg.attempts
      /\ Emit(agg, "RUNNING").fencing = agg.fencing
  BY EmitType
<1>2. Append(agg.attempts, "RUNNING") \in Seq(AttemptStatus)
  BY AppendProperties DEF Aggregate
<1>3. [token |-> agg.fencing + 1, expires |-> t + Ttl] \in Lease
  BY DomainAssumption DEF Aggregate, Lease
<1>4. /\ agg.exec \in Execution /\ agg.fencing + 1 \in Nat
      /\ agg.exec.version + 1 \in Nat /\ agg.exec.attemptNo + 1 \in Nat
  BY DEF Aggregate, Execution
<1>5. Emit(agg, "RUNNING").exec.attemptNo = agg.exec.attemptNo
  BY <1>1, <1>4 DEF Execution
<1> DEFINE lease == [token |-> agg.fencing + 1, expires |-> t + Ttl]
           opened == [[agg.exec EXCEPT !.version = @ + 1] EXCEPT
                        !.attemptNo = agg.exec.attemptNo + 1, !.lease = lease, !.status = "RUNNING"]
<1>6. /\ opened \in Execution
      /\ opened.status = "RUNNING"
      /\ opened.version = agg.exec.version + 1
      /\ opened.cancelReq = agg.exec.cancelReq
      /\ opened.lease = lease
  BY <1>3, <1>4 DEF Execution
<1>7. /\ OpenAttempt(agg, t) \in Aggregate
      /\ OpenAttempt(agg, t).exec = opened
      /\ OpenAttempt(agg, t).store = agg.store
  BY <1>1, <1>2, <1>4, <1>5, <1>6 DEF OpenAttempt, Aggregate
<1> QED
  BY <1>6, <1>7
-----------------------------------------------------------------------------
(* What every operation does to status and version. *)

\* An operation raises the version, leaves the stored version to the kernel, and
\* never ends an execution that still holds a lease.
Advances(new, old) ==
    /\ new \in Aggregate
    /\ new.store = old.store
    /\ new.exec.version > old.exec.version
    /\ new.exec.status \in Terminal => ~ HoldsLease(new.exec)

\* submit(): the aggregate that is inserted.
LEMMA NewExecutionType ==
    /\ NoAggregate \in Aggregate
    /\ NewExecution \in Aggregate
    /\ NewExecution.exec.status = "PENDING" /\ ~ NewExecution.exec.cancelReq
    /\ NewExecution.exec.version = 1 /\ NewExecution.store = 1
    /\ CanClaim(NewExecution)
<1>1. NoExecution \in Execution
  BY DEF NoExecution, Execution, NoLease, Lease, ExecutionStatus
<1>2. [NoExecution EXCEPT !.version = 1] \in Execution
  BY <1>1 DEF Execution
<1>3. <<[version |-> 1, to |-> "PENDING"]>> \in Seq(Event)
  BY DEF Event, ExecutionStatus
<1>4. NoAggregate \in Aggregate /\ NoAggregate.exec = NoExecution
  BY <1>1 DEF NoAggregate, Aggregate
<1>5. /\ NewExecution \in Aggregate /\ NewExecution.store = 1
      /\ NewExecution.exec = [NoExecution EXCEPT !.version = 1]
  BY <1>2, <1>3, <1>4 DEF NewExecution, Aggregate
<1> QED
  BY <1>4, <1>5 DEF NoExecution, CanClaim

\* claim() and recover() open an attempt; the execution runs.
LEMMA ClaimAdvances ==
    ASSUME NEW agg \in Aggregate, NEW t \in Nat
    PROVE  /\ Advances(Claim(agg, t), agg)
           /\ Claim(agg, t).exec.status = "RUNNING"
<1>1. agg.exec.version \in Nat
  BY DEF Aggregate, Execution
<1>2. /\ OpenAttempt(agg, t) \in Aggregate /\ OpenAttempt(agg, t).exec.status = "RUNNING"
      /\ OpenAttempt(agg, t).store = agg.store
      /\ OpenAttempt(agg, t).exec.version = agg.exec.version + 1
  BY OpenAttemptType
<1> QED
  BY <1>1, <1>2 DEF Claim, Advances, Terminal

\* recover() moves an execution forward: version and status as its transitions allow.
LEMMA RecoverAdvances ==
    ASSUME NEW agg \in Aggregate, NEW t \in Nat
    PROVE  /\ Advances(Recover(agg, t), agg)
           /\ Recover(agg, t).exec.status = "RUNNING"
<1> DEFINE closed == CloseAttempt(agg, "CANCELLED")
<1>1. /\ closed \in Aggregate /\ closed.store = agg.store
      /\ closed.exec.version = agg.exec.version /\ agg.exec.version \in Nat
  <2>1. agg.exec \in Execution
    BY DEF Aggregate
  <2> QED
    BY <2>1, CloseAttemptType DEF AttemptStatus, Execution
<1> HIDE DEF closed
<1>2. /\ OpenAttempt(closed, t) \in Aggregate /\ OpenAttempt(closed, t).exec.status = "RUNNING"
      /\ OpenAttempt(closed, t).store = closed.store
      /\ OpenAttempt(closed, t).exec.version = closed.exec.version + 1
  BY <1>1, OpenAttemptType
<1> QED
  BY <1>1, <1>2 DEF Recover, Advances, Terminal, closed

\* Closing the attempt and then moving on: succeed, fail, suspend and cancel.
LEMMA EndAttemptAdvances ==
    ASSUME NEW agg \in Aggregate, NEW outcome \in AttemptStatus, NEW to \in ExecutionStatus
    PROVE  /\ Advances(Transition(CloseAttempt(agg, outcome), to), agg)
           /\ Transition(CloseAttempt(agg, outcome), to).exec.status = to
<1> DEFINE closed == CloseAttempt(agg, outcome)
<1>1. /\ closed \in Aggregate /\ closed.store = agg.store /\ closed.exec.lease = NoLease
      /\ closed.exec.version = agg.exec.version /\ agg.exec.version \in Nat
  <2>1. agg.exec \in Execution
    BY DEF Aggregate
  <2> QED
    BY <2>1, CloseAttemptType DEF Execution
<1> HIDE DEF closed
<1> QED
  <2>1. /\ Transition(closed, to) \in Aggregate
        /\ Transition(closed, to).exec.status = to
        /\ Transition(closed, to).exec.version = closed.exec.version + 1
        /\ Transition(closed, to).exec.lease = closed.exec.lease
        /\ Transition(closed, to).store = closed.store
    BY <1>1, TransitionType
  <2> QED
    BY <1>1, <2>1 DEF Advances, HoldsLease, closed

\* complete().
LEMMA SucceedAdvances ==
    ASSUME NEW agg \in Aggregate
    PROVE  Advances(Succeed(agg), agg) /\ Succeed(agg).exec.status = "COMPLETED"
BY EndAttemptAdvances DEF Succeed, AttemptStatus, ExecutionStatus, Terminal

\* fail(), with or without another attempt to come.
LEMMA FailAdvances ==
    ASSUME NEW agg \in Aggregate, NEW retryable \in BOOLEAN
    PROVE  /\ Advances(Fail(agg, retryable), agg)
           /\ Fail(agg, retryable).exec.status \in {"PENDING", "FAILED"}
<1> DEFINE again == Transition(CloseAttempt(agg, "FAILED"), "PENDING")
           over == Transition(CloseAttempt(agg, "FAILED"), "FAILED")
<1>1. /\ Advances(again, agg) /\ again.exec.status = "PENDING"
      /\ Advances(over, agg) /\ over.exec.status = "FAILED"
  BY EndAttemptAdvances DEF AttemptStatus, ExecutionStatus, Terminal
<1> HIDE DEF again, over
<1>2. /\ [again EXCEPT !.retries = @ + 1] \in Aggregate
      /\ [again EXCEPT !.retries = @ + 1].exec = again.exec
      /\ [again EXCEPT !.retries = @ + 1].store = again.store
  <2>1. again \in Aggregate
    BY <1>1 DEF Advances
  <2>2. again.retries + 1 \in Nat
    BY <2>1 DEF Aggregate
  <2> QED
    BY <2>1, <2>2 DEF Aggregate
<1>3. CASE ShouldRetry(agg, retryable)
  BY <1>1, <1>2, <1>3 DEF Fail, Advances, again
<1>4. CASE ~ ShouldRetry(agg, retryable)
  BY <1>1, <1>4 DEF Fail, over
<1> QED
  BY <1>3, <1>4

\* expire_lease().
LEMMA ExpireLeaseAdvances ==
    ASSUME NEW agg \in Aggregate
    PROVE  Advances(ExpireLease(agg), agg) /\ ExpireLease(agg).exec.status = "STALE"
<1> DEFINE freed == [agg EXCEPT !.exec.lease = NoLease]
<1>1. agg.exec \in Execution /\ NoLease \in Lease
  BY DEF Aggregate, NoLease, Lease
<1>2. /\ [agg.exec EXCEPT !.lease = NoLease] \in Execution
      /\ [agg.exec EXCEPT !.lease = NoLease].version = agg.exec.version
      /\ agg.exec.version \in Nat
  BY <1>1 DEF Execution
<1>3. /\ freed \in Aggregate /\ freed.store = agg.store
      /\ freed.exec.version = agg.exec.version
  BY <1>2 DEF Aggregate
<1> HIDE DEF freed
<1>4. /\ Transition(freed, "STALE") \in Aggregate
      /\ Transition(freed, "STALE").exec.status = "STALE"
      /\ Transition(freed, "STALE").exec.version = freed.exec.version + 1
      /\ Transition(freed, "STALE").store = freed.store
  BY <1>3, TransitionType DEF ExecutionStatus
<1> QED
  BY <1>2, <1>3, <1>4 DEF ExpireLease, Advances, Terminal, freed

\* suspend().
LEMMA SuspendAdvances ==
    ASSUME NEW agg \in Aggregate
    PROVE  Advances(Suspend(agg), agg) /\ Suspend(agg).exec.status = "SUSPENDED"
BY EndAttemptAdvances DEF Suspend, AttemptStatus, ExecutionStatus, Terminal

\* wakeup().
LEMMA WakeupAdvances ==
    ASSUME NEW agg \in Aggregate
    PROVE  /\ Advances(Wakeup(agg), agg) /\ Wakeup(agg).exec.status = "PENDING"
           /\ Wakeup(agg).exec.cancelReq = agg.exec.cancelReq
<1>1. agg.exec.version \in Nat
  BY DEF Aggregate, Execution
<1>2. /\ Transition(agg, "PENDING") \in Aggregate
      /\ Transition(agg, "PENDING").exec.status = "PENDING"
      /\ Transition(agg, "PENDING").exec.version = agg.exec.version + 1
      /\ Transition(agg, "PENDING").exec.cancelReq = agg.exec.cancelReq
      /\ Transition(agg, "PENDING").store = agg.store
  BY TransitionType DEF ExecutionStatus
<1> QED
  BY <1>1, <1>2 DEF Wakeup, Advances, Terminal

\* request_cancel(): the status stays what it is.
LEMMA RequestCancelAdvances ==
    ASSUME NEW agg \in Aggregate, CanRequestCancel(agg)
    PROVE  /\ Advances(RequestCancel(agg), agg)
           /\ RequestCancel(agg).exec.status = agg.exec.status
<1> DEFINE told == Emit(agg, agg.exec.status)
<1>1. agg.exec \in Execution
  BY DEF Aggregate
<1>2. agg.exec.status \in ExecutionStatus /\ agg.exec.version \in Nat
  BY <1>1 DEF Execution
<1>3. /\ told \in Aggregate /\ told.store = agg.store
      /\ told.exec = [agg.exec EXCEPT !.version = @ + 1]
  BY <1>2, EmitType
<1> HIDE DEF told
<1>4. /\ told.exec \in Execution
      /\ told.exec.version = agg.exec.version + 1
      /\ told.exec.status = agg.exec.status
  BY <1>1, <1>2, <1>3 DEF Execution
<1>5. /\ [told.exec EXCEPT !.cancelReq = TRUE] \in Execution
      /\ [told.exec EXCEPT !.cancelReq = TRUE].version = agg.exec.version + 1
      /\ [told.exec EXCEPT !.cancelReq = TRUE].status = agg.exec.status
  BY <1>4 DEF Execution
<1>6. /\ RequestCancel(agg) \in Aggregate /\ RequestCancel(agg).store = told.store
      /\ RequestCancel(agg).exec = [told.exec EXCEPT !.cancelReq = TRUE]
  BY <1>3, <1>5 DEF RequestCancel, Aggregate, told
<1> QED
  BY <1>2, <1>3, <1>5, <1>6 DEF Advances, CanRequestCancel

\* cancel().
LEMMA CancelAdvances ==
    ASSUME NEW agg \in Aggregate
    PROVE  Advances(Cancel(agg), agg) /\ Cancel(agg).exec.status = "CANCELLED"
BY EndAttemptAdvances DEF Cancel, AttemptStatus, ExecutionStatus, Terminal

\* heartbeat(): nothing but the lease's end moves.
LEMMA HeartbeatType ==
    ASSUME NEW agg \in Aggregate, NEW t \in Nat
    PROVE  /\ Heartbeat(agg, t) \in Aggregate
           /\ Heartbeat(agg, t).store = agg.store
           /\ Heartbeat(agg, t).exec.version = agg.exec.version
           /\ Heartbeat(agg, t).exec.status = agg.exec.status
<1>1. agg.exec \in Execution /\ t + Ttl \in Nat
  BY DomainAssumption DEF Aggregate
<1>2. agg.exec.lease \in Lease
  BY <1>1 DEF Execution
<1>3. [agg.exec.lease EXCEPT !.expires = t + Ttl] \in Lease
  BY <1>1, <1>2 DEF Lease
<1> DEFINE kept == [agg.exec EXCEPT !.lease = [agg.exec.lease EXCEPT !.expires = t + Ttl]]
<1>4. /\ kept \in Execution /\ kept.version = agg.exec.version
      /\ kept.status = agg.exec.status
  BY <1>1, <1>3 DEF Execution
<1>5. Heartbeat(agg, t) = [agg EXCEPT !.exec = kept]
  BY <1>1 DEF Heartbeat, Aggregate
<1> HIDE DEF kept
<1> QED
  BY <1>4, <1>5 DEF Aggregate

-----------------------------------------------------------------------------
(* Types of the rows. *)

\* The empty row and what a SELECT returns are rows.
LEMMA RowTypes ==
    /\ NoRow \in Database /\ NoAggregate \in Aggregate
    /\ TypeOK => \A p \in Procs : View(p) \in Database
<1>1. NoExecution \in Execution
  BY DEF NoExecution, Execution, NoLease, Lease, ExecutionStatus
<1>2. NoRow \in Database
  BY <1>1 DEF NoRow, Database
<1>3. ASSUME TypeOK, NEW p \in Procs
      PROVE  View(p) \in Database
  BY <1>3 DEF View, TypeOK
<1> QED
  BY <1>2, <1>3, NewExecutionType

\* Upserting attempts and appending events gives a row again.
LEMMA WrittenType ==
    ASSUME NEW d \in Database, NEW agg \in Aggregate
    PROVE  Written(d, agg) \in Database /\ Written(d, agg).exec = agg.exec
<1>1. /\ d.attempts \in Seq(AttemptStatus) /\ d.outbox \in Seq(Event)
      /\ agg.attempts \in Seq(AttemptStatus) /\ agg.events \in Seq(Event)
      /\ agg.exec \in Execution
  BY DEF Database, Aggregate
<1>2. SubSeq(d.attempts, Len(agg.attempts) + 1, Len(d.attempts)) \in Seq(AttemptStatus)
  <2>1. Len(agg.attempts) \in Nat /\ Len(d.attempts) \in Nat
    BY <1>1, LenProperties
  <2>2. \A i \in Len(agg.attempts) + 1 .. Len(d.attempts) : d.attempts[i] \in AttemptStatus
    BY <1>1, <2>1, ElementOfSeq
  <2> QED
    BY <2>1, <2>2, SubSeqProperties
<1>3. Upsert(d.attempts, agg.attempts) \in Seq(AttemptStatus)
  BY <1>1, <1>2, ConcatProperties DEF Upsert
<1>4. d.outbox \o agg.events \in Seq(Event)
  BY <1>1, ConcatProperties
<1> QED
  BY <1>1, <1>3, <1>4 DEF Written, Database

\* What save() leaves in memory is an aggregate, and so is what a load makes.
LEMMA CacheTypes ==
    /\ \A agg \in Aggregate : Flushed(agg) \in Aggregate
    /\ \A agg \in Aggregate, n \in Nat : [agg EXCEPT !.store = n] \in Aggregate
    /\ \A d \in Database : FromRow(d) \in Aggregate
<1>1. ASSUME NEW agg \in Aggregate
      PROVE  Flushed(agg) \in Aggregate
  <2>1. agg.exec.version \in Nat
    BY DEF Aggregate, Execution
  <2>2. <<>> \in Seq(Event)
    BY EmptySeq
  <2> QED
    BY <2>1, <2>2 DEF Flushed, Aggregate
<1>2. ASSUME NEW agg \in Aggregate, NEW n \in Nat
      PROVE  [agg EXCEPT !.store = n] \in Aggregate
  BY DEF Aggregate
<1>3. ASSUME NEW d \in Database
      PROVE  FromRow(d) \in Aggregate
  <2>1. d.exec \in Execution /\ d.attempts \in Seq(AttemptStatus)
    BY DEF Database
  <2>2. d.exec.version \in Nat
    BY <2>1 DEF Execution
  <2> QED
    BY <2>1, <2>2, NewExecutionType DEF FromRow, Aggregate
<1> QED
  BY <1>1, <1>2, <1>3

\* _persist keeps the types.
LEMMA PersistType ==
    ASSUME TypeOK, NEW p \in Procs, NEW agg \in Aggregate, NEW next \in Phases,
           Persist(p, agg, next), token' \in [Procs -> Nat], signal' \in BOOLEAN
    PROVE  TypeOK'
<1>1. Written(View(p), agg) \in Database
  BY RowTypes, WrittenType
<1>2. Flushed(agg) \in Aggregate
  BY CacheTypes
<1>3. agg.exec.lease.expires \in Nat
  BY DEF Aggregate, Execution, Lease
<1> QED
  BY <1>1, <1>2, <1>3 DEF TypeOK, Persist, bounds

\* A tick that fails keeps the types.
LEMMA TickFailsType ==
    ASSUME TypeOK, NEW p \in Procs, NEW agg \in Aggregate, TickFails(p, agg),
           UNCHANGED <<db, now, gate, requests, crashes, redis>>, rollbacks' \in Nat
    PROVE  TypeOK'
<1>1. NoRow \in Database /\ NoAggregate \in Aggregate
  BY RowTypes
<1>2. "idle" \in Phases
  BY DEF Phases
<1> QED
  BY <1>1, <1>2 DEF TypeOK, TickFails, redis

\* Refusing, and failing to persist, keep the types.
LEMMA RefusesType ==
    ASSUME TypeOK, NEW p \in Procs, Refuses(p)
    PROVE  TypeOK'
<1>1. cache[p] \in Aggregate /\ rollbacks' \in Nat
  BY DEF TypeOK, Refuses, bounds
<1> QED
  BY <1>1, TickFailsType DEF Refuses, bounds

\* A save that fails halfway keeps the type invariant.
LEMMA PersistFailsType ==
    ASSUME TypeOK, NEW p \in Procs, NEW agg \in Aggregate, PersistFails(p, agg)
    PROVE  TypeOK'
<1>1. UNCHANGED <<db, now, gate, requests, crashes, redis>> /\ rollbacks' \in Nat
  BY DEF PersistFails, TypeOK
<1>2. CASE TickFails(p, agg)
  BY <1>1, <1>2, TickFailsType
<1>3. ASSUME NEW n \in {agg.store, agg.exec.version},
             TickFails(p, [agg EXCEPT !.store = n])
      PROVE  TypeOK'
  <2>1. n \in Nat
    BY DEF Aggregate, Execution
  <2>2. [agg EXCEPT !.store = n] \in Aggregate
    BY <2>1, CacheTypes
  <2> QED
    BY <1>1, <1>3, <2>2, TickFailsType
<1> QED
  BY <1>2, <1>3 DEF PersistFails

\* A transaction that saves a new value of the aggregate keeps the type invariant.
LEMMA SavesType ==
    ASSUME TypeOK, NEW p \in Procs, NEW agg \in Aggregate, NEW next \in Phases,
           Saves(p, agg, next)
    PROVE  TypeOK'
BY PersistType, PersistFailsType DEF Saves, TypeOK

\* A change of the aggregate in memory keeps the type invariant.
LEMMA MovesType ==
    ASSUME TypeOK, NEW p \in Procs, NEW next \in Phases, Moves(p, next)
    PROVE  TypeOK'
BY DEF TypeOK, Moves, bounds, redis

\* A cancellation of the aggregate keeps the type invariant.
LEMMA CancelsType ==
    ASSUME TypeOK, NEW p \in Procs, Cancels(p)
    PROVE  TypeOK'
<1>1. Cancel(cache[p]) \in Aggregate /\ "done" \in Phases
  BY CancelAdvances DEF TypeOK, Advances, Phases
<1>2. CASE Persist(p, Cancel(cache[p]), "done") /\ signal' = FALSE /\ UNCHANGED token
  BY <1>1, <1>2, PersistType DEF TypeOK
<1>3. CASE PersistFails(p, Cancel(cache[p]))
  BY <1>1, <1>3, PersistFailsType
<1>4. CASE Refuses(p)
  BY <1>4, RefusesType
<1> QED
  BY <1>2, <1>3, <1>4 DEF Cancels

\* Transactions, failures and crashes.
LEMMA TransactionStepType ==
    ASSUME TypeOK, NEW p \in Procs,
           LoadAggregate(p) \/ Commit(p) \/ IdleTick(p) \/ Rollback(p) \/ Crash(p)
    PROVE  TypeOK'
<1>1. NoRow \in Database /\ NoAggregate \in Aggregate /\ "idle" \in Phases
      /\ View(p) \in Database
  BY RowTypes DEF Phases
<1>2. CASE LoadAggregate(p)
  <2>1. FromRow(View(p)) \in Aggregate
    BY <1>1, CacheTypes
  <2> QED
    BY <1>2, <2>1 DEF TypeOK, LoadAggregate, Reads, bounds, redis
<1>3. CASE Commit(p)
  BY <1>1, <1>3 DEF TypeOK, Commit, bounds, redis
<1>4. CASE IdleTick(p)
  BY <1>4 DEF TypeOK, IdleTick, bounds, redis
<1>5. CASE Rollback(p)
  <2>1. cache[p] \in Aggregate /\ rollbacks' \in Nat
    BY <1>5 DEF TypeOK, Rollback
  <2>2. /\ TickFails(p, cache[p])
        /\ UNCHANGED <<db, now, gate, requests, crashes, redis>>
    BY <1>5 DEF Rollback
  <2> QED
    BY <2>1, <2>2, TickFailsType
<1>6. CASE Crash(p)
  BY <1>1, <1>6 DEF TypeOK, Crash, redis
<1> QED
  BY <1>2, <1>3, <1>4, <1>5, <1>6

\* Scheduler and worker.
LEMMA WorkerStepType ==
    ASSUME TypeOK, NEW w \in Workers, WorkerStep(w)
    PROVE  TypeOK'
<1>1. w \in Procs /\ cache[w] \in Aggregate /\ now \in Nat
  BY DEF Procs, TypeOK
<1>2. {"picked", "claimed", "running", "done"} \subseteq Phases
  BY DEF Phases
<1>3. CASE WorkerSelect(w)
  BY <1>1, <1>2, <1>3, MovesType DEF WorkerSelect
<1>4. CASE WorkerClaim(w)
  <2>1. Claim(cache[w], now) \in Aggregate
    BY <1>1, ClaimAdvances DEF Advances
  <2>2. CASE /\ Persist(w, Claim(cache[w], now), "claimed")
             /\ token' = [token EXCEPT ![w] = Claim(cache[w], now).exec.lease.token]
             /\ UNCHANGED signal
    <3>1. Claim(cache[w], now).exec.lease.token \in Nat
      BY <2>1 DEF Aggregate, Execution, Lease
    <3>2. token' \in [Procs -> Nat] /\ signal' \in BOOLEAN
      BY <2>2, <3>1 DEF TypeOK
    <3> QED
      BY <1>1, <1>2, <2>1, <2>2, <3>2, PersistType
  <2>3. CASE PersistFails(w, Claim(cache[w], now))
    BY <1>1, <2>1, <2>3, PersistFailsType
  <2>4. CASE Refuses(w)
    BY <1>1, <2>4, RefusesType
  <2> QED
    BY <1>4, <2>2, <2>3, <2>4 DEF WorkerClaim
<1>5. CASE WorkerStart(w)
  BY <1>1, <1>2, <1>5, CancelsType, MovesType DEF WorkerStart
<1>6. CASE WorkerHeartbeat(w)
  <2>1. Heartbeat(cache[w], now) \in Aggregate
    BY <1>1, HeartbeatType
  <2> QED
    BY <1>1, <1>2, <1>6, <2>1, SavesType, MovesType DEF WorkerHeartbeat, LosesLease
<1>7. CASE WorkerFails(w)
  <2>1. \A retryable \in BOOLEAN : Fail(cache[w], retryable) \in Aggregate
    BY <1>1, FailAdvances DEF Advances
  <2> QED
    BY <1>1, <1>2, <1>7, <2>1, SavesType, MovesType DEF WorkerFails, LosesLease
<1>8. CASE WorkerCompletes(w)
  <2>1. Succeed(cache[w]) \in Aggregate
    BY <1>1, SucceedAdvances DEF Advances
  <2> QED
    BY <1>1, <1>2, <1>8, <2>1, SavesType, CancelsType, MovesType
    DEF WorkerCompletes, LosesLease
<1> QED
  BY <1>3, <1>4, <1>5, <1>6, <1>7, <1>8 DEF WorkerStep

\* Recovery controller.
LEMMA RecovererStepType ==
    ASSUME TypeOK, NEW r \in Recoverers, RecovererStep(r)
    PROVE  TypeOK'
<1>1. r \in Procs /\ cache[r] \in Aggregate /\ now \in Nat
  BY DEF Procs, TypeOK
<1>2. {"picked", "listing", "reviving", "done"} \subseteq Phases
  BY DEF Phases
<1>3. CASE RecoveryScan(r)
  <2>1. (ticks[r] + 1) % SweepEvery \in Nat
    BY <1>1, KernelAssumption DEF TypeOK
  <2> QED
    BY <1>1, <1>2, <1>3, <2>1 DEF RecoveryScan, TypeOK, bounds
<1>4. CASE MarkStale(r)
  <2>1. ExpireLease(cache[r]) \in Aggregate
    BY <1>1, ExpireLeaseAdvances DEF Advances
  <2> QED
    BY <1>1, <1>2, <1>4, <2>1, SavesType, MovesType DEF MarkStale
<1>5. CASE ListStale(r)
  BY <1>1, <1>2, <1>5, MovesType DEF ListStale
<1>6. CASE Revive(r)
  <2>1. Recover(cache[r], now) \in Aggregate
    BY <1>1, RecoverAdvances DEF Advances
  <2> QED
    BY <1>1, <1>2, <1>6, <2>1, SavesType, RefusesType DEF Revive
<1> QED
  BY <1>3, <1>4, <1>5, <1>6 DEF RecovererStep

\* Sweeper and wake-up controller.
LEMMA SweeperStepType ==
    ASSUME TypeOK, NEW s \in Sweepers, SweeperStep(s)
    PROVE  TypeOK'
<1>1. s \in Procs /\ "picked" \in Phases
  BY DEF Procs, Phases
<1> QED
  BY <1>1, CancelsType, MovesType DEF SweeperStep, SweepSelect, SweepCancel

\* A step of the wake-up controller keeps the type invariant.
LEMMA WakerStepType ==
    ASSUME TypeOK, NEW k \in Wakers, WakerStep(k)
    PROVE  TypeOK'
<1>1. k \in Procs /\ cache[k] \in Aggregate /\ {"picked", "done"} \subseteq Phases
  BY DEF Procs, Phases, TypeOK
<1>2. Wakeup(cache[k]) \in Aggregate
  BY <1>1, WakeupAdvances DEF Advances
<1> QED
  BY <1>1, <1>2, SavesType, RefusesType, MovesType DEF WakerStep, WakeSelect, Wake

\* A request to cancel keeps the type invariant.
LEMMA RequestsCancelType ==
    ASSUME TypeOK, NEW a \in Procs, NEW next \in Phases, RequestsCancel(a, next)
    PROVE  TypeOK'
<1>1. RequestCancel(cache[a]) \in Aggregate
  BY RequestCancelAdvances DEF TypeOK, Advances, RequestsCancel
<1>2. CASE Persist(a, RequestCancel(cache[a]), next) /\ signal' = TRUE /\ UNCHANGED token
  BY <1>1, <1>2, PersistType DEF TypeOK
<1>3. CASE PersistFails(a, RequestCancel(cache[a]))
  BY <1>1, <1>3, PersistFailsType
<1> QED
  BY <1>2, <1>3 DEF RequestsCancel

\* Requests.
LEMMA ApiStepType ==
    ASSUME TypeOK, NEW a \in Apis, ApiStep(a)
    PROVE  TypeOK'
<1>1. a \in Procs /\ cache[a] \in Aggregate /\ now \in Nat
  BY DEF Procs, TypeOK
<1>2. {"picked", "requesting", "deciding", "withdrawing", "cancelling", "decided", "done"}
        \subseteq Phases
  BY DEF Phases
<1>3. CASE Submit(a)
  <2> DEFINE opened(isGate) == IF isGate THEN Suspend(Claim(NewExecution, now))
                               ELSE NewExecution
  <2>1. \A isGate \in BOOLEAN : opened(isGate) \in Aggregate
    <3>1. Claim(NewExecution, now) \in Aggregate
      BY <1>1, ClaimAdvances, NewExecutionType DEF Advances
    <3> QED
      BY <3>1, SuspendAdvances, NewExecutionType DEF Advances
  <2>2. PICK isGate \in BOOLEAN :
          /\ gate' = isGate
          /\ tx' = [tx EXCEPT ![a] = Written(NoRow, opened(isGate))]
          /\ cache' = [cache EXCEPT ![a] = Flushed(opened(isGate))]
          /\ \E next \in Phases : phase' = [phase EXCEPT ![a] = next]
    BY <1>2, <1>3 DEF Submit
  <2>3. /\ Written(NoRow, opened(isGate)) \in Database
        /\ Flushed(opened(isGate)) \in Aggregate
    BY <2>1, RowTypes, WrittenType, CacheTypes
  <2> QED
    BY <1>1, <1>3, <2>2, <2>3 DEF Submit, TypeOK, redis
<1>4. CASE Request(a)
  BY <1>1, <1>2, <1>4 DEF Request, TypeOK, redis
<1>5. CASE CancelRequest(a)
  BY <1>1, <1>2, <1>5, RequestsCancelType, RefusesType DEF CancelRequest
<1>6. CASE WithdrawGate(a)
  BY <1>1, <1>2, <1>6, RequestsCancelType, CancelsType, MovesType DEF WithdrawGate
<1>7. CASE CloseGate(a)
  <2> DEFINE resumed == Wakeup(cache[a])
             claimed == Claim(resumed, now)
  <2>1. resumed \in Aggregate
    BY <1>1, WakeupAdvances DEF Advances
  <2> HIDE DEF resumed
  <2>2. claimed \in Aggregate
    BY <1>1, <2>1, ClaimAdvances DEF Advances
  <2> HIDE DEF claimed
  <2>3. Succeed(claimed) \in Aggregate /\ Fail(claimed, FALSE) \in Aggregate
    BY <2>2, SucceedAdvances, FailAdvances DEF Advances
  <2>4. CASE Moves(a, "decided")
    BY <1>1, <1>2, <2>4, MovesType
  <2>5. CASE Refuses(a)
    BY <1>1, <2>5, RefusesType
  <2>6. CASE TickFails(a, resumed) /\ UNCHANGED <<db, now, bounds, redis>>
    <3>1. rollbacks' \in Nat /\ UNCHANGED <<db, now, gate, requests, crashes, redis>>
      BY <2>6 DEF TypeOK, bounds
    <3> QED
      BY <1>1, <2>1, <2>6, <3>1, TickFailsType
  <2>7. ASSUME NEW closed \in {Succeed(claimed), Fail(claimed, FALSE)},
               Persist(a, closed, "decided"), UNCHANGED <<token, signal>>
        PROVE  TypeOK'
    BY <1>1, <1>2, <2>3, <2>7, PersistType DEF TypeOK
  <2>8. CASE PersistFails(a, claimed)
    BY <1>1, <2>2, <2>8, PersistFailsType
  <2> QED
    BY <1>7, <2>4, <2>5, <2>6, <2>7, <2>8 DEF CloseGate, resumed, claimed
<1> QED
  BY <1>3, <1>4, <1>5, <1>6, <1>7 DEF ApiStep

\* Init and Next keep the types.
LEMMA TypeInit == Init => TypeOK
<1>1. NoRow \in Database /\ NoAggregate \in Aggregate /\ "idle" \in Phases
  BY RowTypes DEF Phases
<1> SUFFICES ASSUME Init PROVE TypeOK
  OBVIOUS
<1>2. db \in Database /\ tx \in [Procs -> Database]
  BY <1>1 DEF Init
<1>3. cache \in [Procs -> Aggregate] /\ phase \in [Procs -> Phases]
  BY <1>1 DEF Init
<1>4. token \in [Procs -> Nat] /\ fails \in [Procs -> Nat] /\ ticks \in [Procs -> Nat]
  BY DEF Init
<1>5. signal \in BOOLEAN /\ gate \in BOOLEAN
  BY DEF Init
<1> QED
  BY <1>2, <1>3, <1>4, <1>5 DEF Init, TypeOK

\* Every step keeps the type invariant.
LEMMA TypeStep == TypeOK /\ [Next]_vars => TypeOK'
<1> SUFFICES ASSUME TypeOK, [Next]_vars
             PROVE  TypeOK'
  OBVIOUS
<1>1. CASE UNCHANGED vars
  BY <1>1 DEF TypeOK, vars
<1>2. CASE Tick
  BY <1>2 DEF TypeOK, Tick, bounds, redis
<1>3. CASE RedisForgets
  BY <1>3 DEF TypeOK, RedisForgets, bounds
<1> QED
  BY <1>1, <1>2, <1>3, WorkerStepType, RecovererStepType, SweeperStepType, WakerStepType,
     ApiStepType, TransactionStepType DEF Next

\* Every variable of the kernel stays within its type.
THEOREM TypeCorrect == Spec => []TypeOK
BY TypeInit, TypeStep, PTL DEF Spec

-----------------------------------------------------------------------------
(* The row lock: one writer, and a worker at work is that writer. *)

\* The inductive form of AtomicClaim: whoever has written holds the lock, and a
\* worker that runs has written an aggregate that exists.
Exclusive ==
    \A p \in Procs :
        /\ HasWritten(p) => Unlocked(p)
        /\ phase[p] \in {"claimed", "running"} => HasWritten(p) /\ cache[p].exec.version > 0

\* A save takes the lock.
LEMMA PersistExclusive ==
    ASSUME TypeOK, Exclusive, NEW p \in Procs, NEW agg \in Aggregate, NEW next \in Phases,
           agg.exec.version > 0, Persist(p, agg, next)
    PROVE  Exclusive'
<1>1. tx'[p].exec.version > 0 /\ \A q \in Procs \ {p} : tx'[q] = tx[q]
  BY RowTypes, WrittenType DEF TypeOK, Persist
<1>2. cache'[p].exec = agg.exec /\ \A q \in Procs \ {p} : cache'[q] = cache[q]
  BY DEF TypeOK, Persist, Flushed, Aggregate
<1>3. \A q \in Procs \ {p} : phase'[q] = phase[q] /\ ~ HasWritten(q)
  BY DEF TypeOK, Persist, CanSave, Unlocked
<1> QED
  BY <1>1, <1>2, <1>3 DEF Exclusive, HasWritten, Exists, Unlocked

\* The end of a transaction gives the lock up.
LEMMA EndsExclusive ==
    ASSUME TypeOK, Exclusive, NEW p \in Procs, tx' = [tx EXCEPT ![p] = NoRow],
           phase' = [phase EXCEPT ![p] = "idle"],
           \A q \in Procs \ {p} : cache'[q] = cache[q]
    PROVE  Exclusive'
<1>1. tx'[p].exec.version = 0 /\ \A q \in Procs \ {p} : tx'[q] = tx[q]
  BY DEF TypeOK, NoRow, NoExecution
<1>2. phase'[p] = "idle" /\ \A q \in Procs \ {p} : phase'[q] = phase[q]
  BY DEF TypeOK
<1> QED
  BY <1>1, <1>2 DEF Exclusive, HasWritten, Exists, Unlocked

\* A tick that is rolled back leaves at most one process inside the row.
LEMMA TickFailsExclusive ==
    ASSUME TypeOK, Exclusive, NEW p \in Procs, NEW agg \in Aggregate, TickFails(p, agg)
    PROVE  Exclusive'
<1>1. \A q \in Procs \ {p} : cache'[q] = cache[q]
  BY DEF TickFails, TypeOK
<1> QED
  BY <1>1, EndsExclusive DEF TickFails

\* A save that fails halfway leaves at most one process inside the row.
LEMMA PersistFailsExclusive ==
    ASSUME TypeOK, Exclusive, NEW p \in Procs, NEW agg \in Aggregate, PersistFails(p, agg)
    PROVE  Exclusive'
<1>1. \A n \in {agg.store, agg.exec.version} : [agg EXCEPT !.store = n] \in Aggregate
  BY CacheTypes DEF Aggregate, Execution
<1> QED
  BY <1>1, TickFailsExclusive DEF PersistFails

\* A refused save leaves at most one process inside the row.
LEMMA RefusesExclusive ==
    ASSUME TypeOK, Exclusive, NEW p \in Procs, Refuses(p)
    PROVE  Exclusive'
BY TickFailsExclusive DEF Refuses, TypeOK

\* A step that leaves the stores alone must not start a worker without a claim.
LEMMA MovesExclusive ==
    ASSUME TypeOK, Exclusive, NEW p \in Procs, NEW next \in Phases, Moves(p, next),
           next = "running" => phase[p] = "claimed", next # "claimed"
    PROVE  Exclusive'
<1>1. phase'[p] = next /\ \A q \in Procs \ {p} : phase'[q] = phase[q]
  BY DEF Moves, TypeOK
<1>2. tx' = tx /\ cache' = cache
  BY DEF Moves
<1> QED
  BY <1>1, <1>2 DEF Exclusive, HasWritten, Exists, Unlocked

\* A transaction that saves a new value of the aggregate leaves at most one process inside the row.
LEMMA SavesExclusive ==
    ASSUME TypeOK, Exclusive, NEW p \in Procs, NEW agg \in Aggregate, NEW next \in Phases,
           agg.exec.version > 0, Saves(p, agg, next)
    PROVE  Exclusive'
BY PersistExclusive, PersistFailsExclusive DEF Saves

\* An operation that advances the aggregate saves one that exists.
LEMMA AdvancedExists ==
    ASSUME TypeOK, NEW p \in Procs, NEW agg, Advances(agg, cache[p])
    PROVE  agg \in Aggregate /\ agg.exec.version > 0
<1>1. agg \in Aggregate /\ cache[p].exec.version \in Nat
  BY DEF TypeOK, Advances, Aggregate, Execution
<1>2. agg.exec.version \in Nat
  BY <1>1 DEF Aggregate, Execution
<1> QED
  BY <1>1, <1>2 DEF Advances

\* A cancellation of the aggregate leaves at most one process inside the row.
LEMMA CancelsExclusive ==
    ASSUME TypeOK, Exclusive, NEW p \in Procs, Cancels(p)
    PROVE  Exclusive'
<1>1. Cancel(cache[p]) \in Aggregate /\ Cancel(cache[p]).exec.version > 0
  BY CancelAdvances, AdvancedExists DEF TypeOK
<1>2. "done" \in Phases
  BY DEF Phases
<1> QED
  BY <1>1, <1>2, PersistExclusive, PersistFailsExclusive, RefusesExclusive DEF Cancels

\* A commit, a rollback or a failing statement leaves at most one process inside the row.
LEMMA TransactionStepExclusive ==
    ASSUME TypeOK, Exclusive, NEW p \in Procs,
           LoadAggregate(p) \/ Commit(p) \/ IdleTick(p) \/ Rollback(p) \/ Crash(p)
    PROVE  Exclusive'
<1>1. CASE LoadAggregate(p)
  <2>1. \A q \in Procs \ {p} : cache'[q] = cache[q]
    BY <1>1 DEF TypeOK, LoadAggregate
  <2> QED
    BY <1>1, <2>1 DEF Exclusive, LoadAggregate, Reads, HasWritten, Exists, Unlocked
<1>2. CASE Commit(p)
  BY <1>2, EndsExclusive DEF Commit
<1>3. CASE IdleTick(p)
  BY <1>3 DEF Exclusive, IdleTick, HasWritten, Exists, Unlocked
<1>4. CASE Rollback(p)
  BY <1>4, TickFailsExclusive DEF Rollback, TypeOK
<1>5. CASE Crash(p)
  BY <1>5, EndsExclusive DEF Crash, TypeOK
<1> QED
  BY <1>1, <1>2, <1>3, <1>4, <1>5

\* A step of a worker leaves at most one process inside the row.
LEMMA WorkerStepExclusive ==
    ASSUME TypeOK, Exclusive, NEW w \in Workers, WorkerStep(w)
    PROVE  Exclusive'
<1>1. w \in Procs /\ cache[w] \in Aggregate /\ now \in Nat
  BY DEF Procs, TypeOK
<1>2. {"picked", "claimed", "running", "done"} \subseteq Phases
  BY DEF Phases
<1>3. CASE WorkerSelect(w)
  BY <1>1, <1>2, <1>3, MovesExclusive DEF WorkerSelect
<1>4. CASE WorkerClaim(w)
  <2>1. Claim(cache[w], now) \in Aggregate /\ Claim(cache[w], now).exec.version > 0
    BY <1>1, ClaimAdvances, AdvancedExists
  <2> QED
    BY <1>1, <1>2, <1>4, <2>1, PersistExclusive, PersistFailsExclusive, RefusesExclusive
    DEF WorkerClaim
<1>5. CASE WorkerStart(w)
  BY <1>1, <1>2, <1>5, CancelsExclusive, MovesExclusive DEF WorkerStart
<1>6. CASE WorkerHeartbeat(w)
  <2>1. Heartbeat(cache[w], now) \in Aggregate /\ Heartbeat(cache[w], now).exec.version > 0
    BY <1>1, <1>6, HeartbeatType DEF Exclusive, WorkerHeartbeat
  <2> QED
    BY <1>1, <1>2, <1>6, <2>1, SavesExclusive, MovesExclusive
    DEF WorkerHeartbeat, LosesLease
<1>7. CASE WorkerFails(w)
  <2>1. \A retryable \in BOOLEAN : /\ Fail(cache[w], retryable) \in Aggregate
                                   /\ Fail(cache[w], retryable).exec.version > 0
    BY <1>1, FailAdvances, AdvancedExists
  <2> QED
    BY <1>1, <1>2, <1>7, <2>1, SavesExclusive, MovesExclusive DEF WorkerFails, LosesLease
<1>8. CASE WorkerCompletes(w)
  <2>1. Succeed(cache[w]) \in Aggregate /\ Succeed(cache[w]).exec.version > 0
    BY <1>1, SucceedAdvances, AdvancedExists
  <2> QED
    BY <1>1, <1>2, <1>8, <2>1, SavesExclusive, CancelsExclusive, MovesExclusive
    DEF WorkerCompletes, LosesLease
<1> QED
  BY <1>3, <1>4, <1>5, <1>6, <1>7, <1>8 DEF WorkerStep

\* A step of a controller process leaves at most one process inside the row.
LEMMA ControllerStepExclusive ==
    ASSUME TypeOK, Exclusive, NEW p \in Procs,
           \/ p \in Recoverers /\ RecovererStep(p)
           \/ p \in Sweepers /\ SweeperStep(p)
           \/ p \in Wakers /\ WakerStep(p)
    PROVE  Exclusive'
<1>1. cache[p] \in Aggregate /\ now \in Nat
  BY DEF TypeOK
<1>2. {"picked", "listing", "reviving", "done"} \subseteq Phases
  BY DEF Phases
<1>3. CASE RecoveryScan(p)
  <2>1. /\ phase'[p] \notin {"claimed", "running"}
        /\ \A q \in Procs \ {p} : phase'[q] = phase[q]
    BY <1>3 DEF RecoveryScan, TypeOK
  <2> QED
    BY <1>3, <2>1 DEF Exclusive, RecoveryScan, HasWritten, Exists, Unlocked
<1>4. CASE MarkStale(p)
  <2>1. ExpireLease(cache[p]) \in Aggregate /\ ExpireLease(cache[p]).exec.version > 0
    BY <1>1, ExpireLeaseAdvances, AdvancedExists
  <2> QED
    BY <1>2, <1>4, <2>1, SavesExclusive, MovesExclusive DEF MarkStale
<1>5. CASE ListStale(p)
  BY <1>2, <1>5, MovesExclusive DEF ListStale
<1>6. CASE Revive(p)
  <2>1. Recover(cache[p], now) \in Aggregate /\ Recover(cache[p], now).exec.version > 0
    BY <1>1, RecoverAdvances, AdvancedExists
  <2> QED
    BY <1>2, <1>6, <2>1, SavesExclusive, RefusesExclusive DEF Revive
<1>7. CASE SweeperStep(p)
  BY <1>2, <1>7, CancelsExclusive, MovesExclusive DEF SweeperStep, SweepSelect, SweepCancel
<1>8. CASE WakerStep(p)
  <2>1. Wakeup(cache[p]) \in Aggregate /\ Wakeup(cache[p]).exec.version > 0
    BY <1>1, WakeupAdvances, AdvancedExists
  <2> QED
    BY <1>2, <1>8, <2>1, SavesExclusive, RefusesExclusive, MovesExclusive
    DEF WakerStep, WakeSelect, Wake
<1> QED
  BY <1>3, <1>4, <1>5, <1>6, <1>7, <1>8 DEF RecovererStep

\* A request to cancel leaves at most one process inside the row.
LEMMA RequestsCancelExclusive ==
    ASSUME TypeOK, Exclusive, NEW a \in Procs, NEW next \in Phases, RequestsCancel(a, next)
    PROVE  Exclusive'
<1>1. /\ RequestCancel(cache[a]) \in Aggregate
      /\ RequestCancel(cache[a]).exec.version > 0
  <2>1. cache[a] \in Aggregate /\ CanRequestCancel(cache[a])
    BY DEF TypeOK, RequestsCancel
  <2> QED
    BY <2>1, RequestCancelAdvances, AdvancedExists
<1> QED
  BY <1>1, PersistExclusive, PersistFailsExclusive DEF RequestsCancel

\* resume() and then complete() or fail(): every aggregate on the way exists.
LEMMA GateAdvances ==
    ASSUME TypeOK, NEW a \in Procs
    PROVE  LET resumed == Wakeup(cache[a])
               claimed == Claim(resumed, now)
           IN  /\ Advances(resumed, cache[a])
               /\ Advances(claimed, cache[a]) /\ claimed.exec.status = "RUNNING"
               /\ \A closed \in {Succeed(claimed), Fail(claimed, FALSE)} :
                    Advances(closed, cache[a])
<1> DEFINE resumed == Wakeup(cache[a])
           claimed == Claim(resumed, now)
<1>1. /\ cache[a] \in Aggregate /\ now \in Nat
      /\ cache[a].exec.version \in Nat
  BY DEF TypeOK, Aggregate, Execution
<1>2. Advances(resumed, cache[a])
  BY <1>1, WakeupAdvances
<1> HIDE DEF resumed
<1>3. resumed \in Aggregate /\ resumed.exec.version \in Nat
  BY <1>2 DEF Advances, Aggregate, Execution
<1>4. Advances(claimed, resumed) /\ claimed.exec.status = "RUNNING"
  BY <1>1, <1>3, ClaimAdvances
<1> HIDE DEF claimed
<1>5. claimed \in Aggregate /\ claimed.exec.version \in Nat
  BY <1>4 DEF Advances, Aggregate, Execution
<1>6. Advances(claimed, cache[a])
  BY <1>1, <1>2, <1>3, <1>4, <1>5 DEF Advances
<1>7. ASSUME NEW closed \in {Succeed(claimed), Fail(claimed, FALSE)}
      PROVE  Advances(closed, cache[a])
  <2>1. Advances(closed, claimed)
    BY <1>5, SucceedAdvances, FailAdvances
  <2>2. closed.exec.version \in Nat
    BY <2>1 DEF Advances, Aggregate, Execution
  <2> QED
    BY <1>1, <1>5, <1>6, <2>1, <2>2 DEF Advances
<1> QED
  BY <1>2, <1>4, <1>6, <1>7 DEF resumed, claimed

\* The aggregate a submission inserts.
Opened(isGate) == IF isGate THEN Suspend(Claim(NewExecution, now)) ELSE NewExecution

\* What a submission inserts is a live aggregate that exists.
LEMMA OpenedExists ==
    ASSUME TypeOK, NEW isGate \in BOOLEAN
    PROVE  /\ Opened(isGate) \in Aggregate /\ Opened(isGate).exec.version > 0
           /\ Opened(isGate).exec.status \notin Terminal
           /\ ~ isGate => CanClaim(Opened(isGate))
<1>1. CASE ~ isGate
  BY <1>1, NewExecutionType DEF Opened, Terminal
<1>2. CASE isGate
  <2> DEFINE claimed == Claim(NewExecution, now)
  <2>1. claimed \in Aggregate /\ claimed.exec.version > 1 /\ claimed.exec.version \in Nat
    BY NewExecutionType, ClaimAdvances DEF TypeOK, Advances, Aggregate, Execution
  <2> HIDE DEF claimed
  <2>2. Advances(Suspend(claimed), claimed) /\ Suspend(claimed).exec.status = "SUSPENDED"
    BY <2>1, SuspendAdvances
  <2>3. Suspend(claimed).exec.version \in Nat
    BY <2>2 DEF Advances, Aggregate, Execution
  <2> QED
    BY <1>2, <2>1, <2>2, <2>3 DEF Advances, Opened, Terminal, claimed
<1> QED
  BY <1>1, <1>2

\* What submit() does, in terms of Opened.
LEMMA SubmitOpens ==
    ASSUME NEW a \in Apis, Submit(a)
    PROVE  \E isGate \in BOOLEAN :
             /\ tx' = [tx EXCEPT ![a] = Written(NoRow, Opened(isGate))]
             /\ cache' = [cache EXCEPT ![a] = Flushed(Opened(isGate))]
             /\ \/ phase' = [phase EXCEPT ![a] = "done"]
                \/ a \in Workers /\ ~ isGate /\ phase' = [phase EXCEPT ![a] = "picked"]
BY DEF Submit, Opened

\* A step of the API leaves at most one process inside the row.
LEMMA ApiStepExclusive ==
    ASSUME TypeOK, Exclusive, NEW a \in Apis, ApiStep(a)
    PROVE  Exclusive'
<1>1. a \in Procs /\ cache[a] \in Aggregate /\ now \in Nat
  BY DEF Procs, TypeOK
<1>2. {"picked", "requesting", "deciding", "withdrawing", "cancelling", "decided", "done"}
        \subseteq Phases
  BY DEF Phases
<1>3. CASE Submit(a)
  <2>1. PICK isGate \in BOOLEAN :
          /\ tx' = [tx EXCEPT ![a] = Written(NoRow, Opened(isGate))]
          /\ cache' = [cache EXCEPT ![a] = Flushed(Opened(isGate))]
          /\ \/ phase' = [phase EXCEPT ![a] = "done"]
             \/ a \in Workers /\ ~ isGate /\ phase' = [phase EXCEPT ![a] = "picked"]
    BY <1>3, SubmitOpens
  <2>2. tx'[a].exec.version > 0 /\ \A q \in Procs \ {a} : tx'[q] = tx[q]
    BY <1>1, <2>1, OpenedExists, RowTypes, WrittenType DEF TypeOK
  <2>3. \A q \in Procs : ~ HasWritten(q)
    BY <1>3 DEF Submit
  <2>4. /\ phase'[a] \notin {"claimed", "running"}
        /\ \A q \in Procs \ {a} : phase'[q] = phase[q] /\ cache'[q] = cache[q]
    BY <1>1, <2>1 DEF TypeOK
  <2> QED
    BY <2>2, <2>3, <2>4 DEF Exclusive, HasWritten, Exists, Unlocked
<1>4. CASE Request(a)
  <2>1. /\ phase'[a] \notin {"claimed", "running"}
        /\ \A q \in Procs \ {a} : phase'[q] = phase[q]
    BY <1>1, <1>4 DEF Request, TypeOK
  <2> QED
    BY <1>4, <2>1 DEF Exclusive, Request, HasWritten, Exists, Unlocked
<1>5. CASE CancelRequest(a)
  BY <1>1, <1>2, <1>5, RequestsCancelExclusive, RefusesExclusive DEF CancelRequest
<1>6. CASE WithdrawGate(a)
  BY <1>1, <1>2, <1>6, RequestsCancelExclusive, CancelsExclusive, MovesExclusive
  DEF WithdrawGate
<1>7. CASE CloseGate(a)
  <2> DEFINE resumed == Wakeup(cache[a])
             claimed == Claim(resumed, now)
  <2>1. /\ Advances(resumed, cache[a]) /\ Advances(claimed, cache[a])
        /\ \A closed \in {Succeed(claimed), Fail(claimed, FALSE)} : Advances(closed, cache[a])
    BY <1>1, GateAdvances
  <2>2. /\ resumed \in Aggregate /\ claimed \in Aggregate
        /\ \A closed \in {Succeed(claimed), Fail(claimed, FALSE)} :
             closed \in Aggregate /\ closed.exec.version > 0
    BY <1>1, <2>1, AdvancedExists
  <2>3. \/ Moves(a, "decided") \/ Refuses(a) \/ TickFails(a, resumed)
        \/ \E closed \in {Succeed(claimed), Fail(claimed, FALSE)} : Persist(a, closed, "decided")
        \/ PersistFails(a, claimed)
    BY <1>7 DEF CloseGate
  <2> HIDE DEF resumed, claimed
  <2> QED
    BY <1>1, <1>2, <2>2, <2>3, MovesExclusive, RefusesExclusive, TickFailsExclusive,
       PersistExclusive, PersistFailsExclusive
<1> QED
  BY <1>3, <1>4, <1>5, <1>6, <1>7 DEF ApiStep

\* At the start nobody is inside the row.
LEMMA ExclusiveInit == Init => Exclusive
BY DEF Init, Exclusive, HasWritten, Exists, NoRow, NoExecution

\* Every step leaves at most one process inside the row.
LEMMA ExclusiveStep == TypeOK /\ Exclusive /\ [Next]_vars => Exclusive'
<1> SUFFICES ASSUME TypeOK, Exclusive, [Next]_vars
             PROVE  Exclusive'
  OBVIOUS
<1>1. CASE UNCHANGED vars
  BY <1>1 DEF Exclusive, vars, HasWritten, Exists, Unlocked
<1>2. CASE Tick \/ RedisForgets
  BY <1>2 DEF Exclusive, Tick, RedisForgets, HasWritten, Exists, Unlocked
<1> QED
  BY <1>1, <1>2, WorkerStepExclusive, ControllerStepExclusive, ApiStepExclusive,
     TransactionStepExclusive DEF Next, Procs

\* Atomic claim: whatever fails, no two processes write to the row or run the
\* task at the same time.
THEOREM ClaimIsAtomic == Spec => []AtomicClaim
<1>1. Exclusive => AtomicClaim
  BY DEF Exclusive, AtomicClaim, Unlocked
<1> QED
  BY <1>1, TypeInit, TypeStep, ExclusiveInit, ExclusiveStep, PTL DEF Spec

-----------------------------------------------------------------------------
(* E-2 and E-13: the versioned UPDATE protects a terminal row, as long as no *)
(* transaction fails after work was done in it.  MaxRollbacks = 0 says so;   *)
(* the premises of the lemmas say what a copy may be when its tick fails.    *)

\* What CopyIsBehind asks of an aggregate agg that faces the row d.
IsBehind(agg, d) ==
    agg.store > 0 =>
        /\ agg.store <= d.exec.version
        /\ agg.store <= agg.exec.version
        /\ agg.store = d.exec.version /\ d.exec.status \in Terminal
           => agg.exec.status \in Terminal
        /\ agg.exec.status \in Terminal => ~ HoldsLease(agg.exec)

\* Where a process may be while its transaction holds the row.
WriterPhase(p, where, agg) ==
    \/ where = "picked" /\ p \in Workers /\ CanClaim(agg)
    \/ where \in {"claimed", "running"} /\ agg.exec.status = "RUNNING"
    \/ where = "reviving" /\ agg.exec.status = "STALE"
    \/ where = "cancelling" /\ agg.exec.status \notin Terminal
    \/ where \in {"listing", "done", "decided"}

\* The conjuncts of Coherent, by name.
LEMMA CoherentParts ==
    Coherent <=>
      /\ db.exec.status \in Terminal => Exists(db) /\ ~ HoldsLease(db.exec)
      /\ \A p \in Procs :
        /\ IsBehind(cache[p], View(p))
        /\ WorksOnOwnClaim(p)
        /\ HasWritten(p) =>
             /\ Loaded(p)
             /\ cache[p].exec = tx[p].exec /\ cache[p].store = tx[p].exec.version
             /\ db.exec.status \notin Terminal /\ db.exec.version < tx[p].exec.version
             /\ \A q \in Procs : HasWritten(q) => q = p
             /\ WriterPhase(p, phase[p], cache[p])
BY DEF Coherent, CopyIsBehind, WriterAgrees, IsBehind, WriterPhase, Loaded

\* A process without a write has nothing in its transaction.
LEMMA ViewOf ==
    ASSUME NEW p \in Procs
    PROVE  /\ HasWritten(p) => View(p) = tx[p]
           /\ ~ HasWritten(p) => View(p) = db
BY DEF View

\* The end of a transaction that wrote nothing, or whose writes are the row now:
\* the others see the same row as before, or a newer one.
LEMMA EndsCoherent ==
    ASSUME TypeOK, Coherent, NEW p \in Procs, NEW agg \in Aggregate,
           db' = View(p), tx' = [tx EXCEPT ![p] = NoRow],
           phase' = [phase EXCEPT ![p] = "idle"],
           cache' = [cache EXCEPT ![p] = agg], IsBehind(agg, View(p))
    PROVE  Coherent'
<1>1. ~ HasWritten(p)' /\ \A q \in Procs \ {p} : tx'[q] = tx[q]
  BY DEF TypeOK, NoRow, NoExecution, HasWritten, Exists
<1>2. /\ phase'[p] = "idle" /\ cache'[p] = agg
      /\ \A q \in Procs \ {p} : phase'[q] = phase[q] /\ cache'[q] = cache[q]
  BY DEF TypeOK
<1>3. CASE HasWritten(p)
  <2>1. /\ db' = tx[p] /\ db.exec.version < db'.exec.version
        /\ \A q \in Procs \ {p} : ~ HasWritten(q)
    BY <1>3, ViewOf DEF Coherent, WriterAgrees
  <2>2. \A q \in Procs : ~ HasWritten(q)'
    BY <1>1, <2>1 DEF HasWritten, Exists
  <2>3. ASSUME NEW q \in Procs \ {p}
        PROVE  IsBehind(cache[q], db') /\ phase[q] \notin {"claimed", "running", "cancelling"}
    <3>1. IsBehind(cache[q], db) /\ WorksOnOwnClaim(q)
      BY <2>1, CoherentParts, ViewOf
    <3>2. /\ db.exec.version \in Nat /\ db'.exec.version \in Nat /\ cache[q].store \in Nat
      BY <2>1 DEF TypeOK, Database, Execution, Aggregate
    <3> QED
      BY <2>1, <3>1, <3>2 DEF IsBehind, WorksOnOwnClaim
  <2>4. \A q \in Procs : View(q)' = db'
    BY <2>2 DEF View
  <2>5. db'.exec.status \in Terminal => Exists(db') /\ ~ HoldsLease(db'.exec)
    <3>1. cache[p].exec = db'.exec /\ Loaded(p) /\ IsBehind(cache[p], View(p))
      BY <1>3, <2>1, CoherentParts
    <3> QED
      BY <1>3, <2>1, <3>1 DEF IsBehind, Loaded, HasWritten
  <2> QED
    BY <1>2, <2>2, <2>3, <2>4, <2>5
    DEF Coherent, CopyIsBehind, WriterAgrees, WorksOnOwnClaim, IsBehind, Loaded
<1>4. CASE ~ HasWritten(p)
  <2>1. db' = db
    BY <1>4, ViewOf
  <2>2. \A q \in Procs \ {p} : (HasWritten(q)' <=> HasWritten(q)) /\ View(q)' = View(q)
    BY <1>1, <2>1 DEF HasWritten, Exists, View
  <2>3. View(p)' = db /\ View(p) = db
    BY <1>1, <1>4, <2>1 DEF View
  <2> QED
    BY <1>1, <1>2, <2>1, <2>2, <2>3
    DEF Coherent, CopyIsBehind, WriterAgrees, WorksOnOwnClaim, IsBehind, Loaded
<1> QED
  BY <1>3, <1>4

\* What an operation may leave in memory: the aggregate it started from, further on.
FollowsCopy(agg, p) ==
    /\ Loaded(p) /\ agg \in Aggregate /\ agg.store = cache[p].store
    /\ \/ agg.exec.version > cache[p].exec.version
       \/ agg.exec.version = cache[p].exec.version /\ HasWritten(p)
    /\ agg.exec.status \in Terminal => ~ HoldsLease(agg.exec)

\* What an operation of the aggregate does is a legal move from the status it found.
LEMMA AdvancesFollows ==
    ASSUME NEW p \in Procs, NEW agg, Loaded(p), Advances(agg, cache[p])
    PROVE  FollowsCopy(agg, p)
BY DEF Advances, FollowsCopy

\* A tick that is rolled back leaves no process with a copy ahead of the row.
LEMMA TickFailsCoherent ==
    ASSUME TypeOK, Coherent, NEW p \in Procs, NEW agg \in Aggregate, ~ HasWritten(p),
           IsBehind(agg, db), TickFails(p, agg), db' = db
    PROVE  Coherent'
<1>1. View(p) = db
  BY ViewOf
<1>2. PICK left \in {agg, NoAggregate} : cache' = [cache EXCEPT ![p] = left]
  BY DEF TickFails
<1>3. left \in Aggregate /\ IsBehind(left, db)
  BY RowTypes DEF IsBehind, NoAggregate
<1> QED
  BY <1>1, <1>2, <1>3, EndsCoherent DEF TickFails

\* A refused save leaves no process with a copy ahead of the row.
LEMMA RefusesCoherent ==
    ASSUME TypeOK, Coherent, NEW p \in Procs, ~ HasWritten(p), Refuses(p)
    PROVE  Coherent'
<1>1. IsBehind(cache[p], db) /\ cache[p] \in Aggregate
  BY CoherentParts, ViewOf DEF TypeOK
<1> QED
  BY <1>1, TickFailsCoherent DEF Refuses

\* A clash shows that the copy is older than the row, and it stays so.
LEMMA PersistFailsCoherent ==
    ASSUME MaxRollbacks = 0, TypeOK, Coherent, NEW p \in Procs, NEW agg,
           FollowsCopy(agg, p), PersistFails(p, agg)
    PROVE  Coherent'
<1>1. Clashes(p, agg) /\ TickFails(p, agg) /\ db' = db
  BY DEF PersistFails, TypeOK
<1>2. ~ HasWritten(p) /\ View(p) = db
  BY <1>1, CoherentParts, ViewOf DEF Clashes, FollowsCopy
<1>3. IsBehind(cache[p], db)
  BY <1>2, CoherentParts
<1>4. /\ agg \in Aggregate /\ agg.store \in Nat /\ db.exec.version \in Nat
      /\ agg.exec.version \in Nat /\ cache[p].exec.version \in Nat
  BY DEF FollowsCopy, TypeOK, Aggregate, Execution, Database
<1>5. IsBehind(agg, db)
  BY <1>1, <1>2, <1>3, <1>4 DEF IsBehind, FollowsCopy, Clashes, Loaded
<1> QED
  BY <1>1, <1>2, <1>4, <1>5, TickFailsCoherent

\* A save makes copy and row one.
LEMMA PersistCoherent ==
    ASSUME TypeOK, Coherent, NEW p \in Procs, NEW agg, NEW next,
           FollowsCopy(agg, p), cache[p].exec.status \notin Terminal,
           WriterPhase(p, next, agg), Persist(p, agg, next)
    PROVE  Coherent'
<1>1. /\ agg \in Aggregate /\ View(p) \in Database
      /\ agg.exec.version \in Nat /\ agg.store \in Nat
      /\ cache[p].exec.version \in Nat /\ db.exec.version \in Nat
  BY RowTypes DEF FollowsCopy, TypeOK, Aggregate, Execution, Database
<1>2. /\ tx'[p].exec = agg.exec /\ \A q \in Procs \ {p} : tx'[q] = tx[q] /\ ~ HasWritten(q)
  BY <1>1, WrittenType DEF TypeOK, Persist, CanSave, Unlocked
<1>3. /\ cache'[p].exec = agg.exec /\ cache'[p].store = agg.exec.version
      /\ \A q \in Procs \ {p} : cache'[q] = cache[q]
  BY <1>1 DEF TypeOK, Persist, Flushed, Aggregate
<1>4. phase'[p] = next /\ \A q \in Procs \ {p} : phase'[q] = phase[q]
  BY DEF TypeOK, Persist
<1>5. db' = db
  BY DEF Persist
<1>6. IsBehind(cache[p], View(p)) /\ View(p).exec.version = cache[p].store /\ cache[p].store > 0
  BY CoherentParts DEF Persist, CanSave, FollowsCopy, Loaded
<1>7. /\ View(p).exec.version <= cache[p].exec.version
      /\ View(p).exec.status \notin Terminal
  BY <1>6 DEF IsBehind
<1>8. db.exec.status \notin Terminal /\ db.exec.version < agg.exec.version
  <2>1. CASE HasWritten(p)
    BY <1>1, <1>7, <2>1, CoherentParts, ViewOf DEF FollowsCopy
  <2>2. CASE ~ HasWritten(p)
    BY <1>1, <1>7, <2>2, ViewOf DEF FollowsCopy
  <2> QED
    BY <2>1, <2>2
<1>9. HasWritten(p)' /\ \A q \in Procs \ {p} : ~ HasWritten(q)' /\ View(q)' = View(q)
  BY <1>1, <1>2, <1>5, <1>8 DEF HasWritten, Exists, View
<1>10. View(p)'.exec = agg.exec
  BY <1>2, <1>9 DEF View
<1>11. WriterPhase(p, next, cache[p])'
  BY <1>3 DEF WriterPhase, CanClaim
<1>12. /\ IsBehind(cache[p], View(p))' /\ Loaded(p)'
  BY <1>1, <1>3, <1>8, <1>10 DEF IsBehind, Loaded, FollowsCopy
<1>13. ASSUME NEW q \in Procs \ {p}
       PROVE  IsBehind(cache[q], View(q))' /\ WorksOnOwnClaim(q)'
  <2>1. IsBehind(cache[q], View(q)) /\ WorksOnOwnClaim(q)
    BY CoherentParts
  <2> QED
    BY <1>2, <1>3, <1>4, <1>9, <2>1 DEF IsBehind, WorksOnOwnClaim
<1> QED
  BY <1>2, <1>3, <1>4, <1>5, <1>8, <1>9, <1>11, <1>12, <1>13
  DEF Coherent, CopyIsBehind, WriterAgrees, WorksOnOwnClaim, IsBehind, WriterPhase, Loaded

\* A step that leaves the stores alone.
LEMMA MovesCoherent ==
    ASSUME TypeOK, Coherent, NEW p \in Procs, NEW next,
           UNCHANGED <<db, tx, cache>>, phase' = [phase EXCEPT ![p] = next],
           HasWritten(p) => WriterPhase(p, next, cache[p]),
           next \in {"claimed", "running", "cancelling"} => HasWritten(p)
    PROVE  Coherent'
<1>1. phase'[p] = next /\ \A q \in Procs \ {p} : phase'[q] = phase[q]
  BY DEF TypeOK
<1>2. \A q \in Procs : (HasWritten(q)' <=> HasWritten(q)) /\ View(q)' = View(q)
  BY DEF HasWritten, Exists, View
<1> QED
  BY <1>1, <1>2
  DEF Coherent, CopyIsBehind, WriterAgrees, WorksOnOwnClaim, WriterPhase, Loaded

\* An operation that only persists.
LEMMA SavesCoherent ==
    ASSUME MaxRollbacks = 0, TypeOK, Coherent, NEW p \in Procs, NEW agg, NEW next,
           FollowsCopy(agg, p), cache[p].exec.status \notin Terminal,
           WriterPhase(p, next, agg), Saves(p, agg, next)
    PROVE  Coherent'
BY PersistCoherent, PersistFailsCoherent DEF Saves

\* cancel() is legal from every status that is not terminal.
LEMMA CanCancelLive ==
    ASSUME NEW agg \in Aggregate
    PROVE  CanCancel(agg) <=> agg.exec.status \notin Terminal
<1>1. agg.exec.status \in ExecutionStatus
  BY DEF Aggregate, Execution
<1> QED
  BY <1>1 DEF CanCancel, Legal, EXECUTION_TRANSITIONS, ExecutionStatus, Terminal

\* A cancellation of the aggregate leaves no process with a copy ahead of the row.
LEMMA CancelsCoherent ==
    ASSUME MaxRollbacks = 0, TypeOK, Coherent, NEW p \in Procs, Loaded(p),
           HasWritten(p) => cache[p].exec.status \notin Terminal, Cancels(p)
    PROVE  Coherent'
<1>1. CanCancel(cache[p]) <=> cache[p].exec.status \notin Terminal
  BY CanCancelLive DEF TypeOK
<1>2. FollowsCopy(Cancel(cache[p]), p)
  BY CancelAdvances, AdvancesFollows DEF TypeOK
<1>3. WriterPhase(p, "done", Cancel(cache[p]))
  BY DEF WriterPhase
<1>4. CASE CanCancel(cache[p]) /\ Persist(p, Cancel(cache[p]), "done")
  BY <1>1, <1>2, <1>3, <1>4, PersistCoherent
<1>5. CASE PersistFails(p, Cancel(cache[p]))
  BY <1>2, <1>5, PersistFailsCoherent
<1>6. CASE ~ CanCancel(cache[p]) /\ Refuses(p)
  BY <1>1, <1>6, RefusesCoherent
<1> QED
  BY <1>4, <1>5, <1>6 DEF Cancels

\* A commit, a rollback or a failing statement leaves no process with a copy ahead of the row.
LEMMA TransactionStepCoherent ==
    ASSUME MaxRollbacks = 0, TypeOK, Coherent, NEW p \in Procs,
           LoadAggregate(p) \/ Commit(p) \/ IdleTick(p) \/ Rollback(p) \/ Crash(p)
    PROVE  Coherent'
<1>1. CASE LoadAggregate(p)
  <2>1. ~ HasWritten(p) /\ View(p) = db
    BY <1>1, CoherentParts, ViewOf DEF LoadAggregate
  <2>2. cache' = [cache EXCEPT ![p] = FromRow(db)] /\ UNCHANGED <<db, tx, phase>>
    BY <1>1, <2>1 DEF LoadAggregate, Reads
  <2>3. /\ FromRow(db).exec = db.exec /\ FromRow(db).store = db.exec.version
        /\ db.exec.version \in Nat
    BY DEF FromRow, NoAggregate, TypeOK, Database, Execution
  <2>4. IsBehind(FromRow(db), db)
    BY <2>3 DEF Coherent, IsBehind
  <2>5. /\ \A q \in Procs : (HasWritten(q)' <=> HasWritten(q)) /\ View(q)' = View(q)
        /\ cache'[p] = FromRow(db)
        /\ \A q \in Procs \ {p} : cache'[q] = cache[q]
    BY <2>2 DEF HasWritten, Exists, View, TypeOK
  <2> QED
    BY <2>1, <2>2, <2>4, <2>5
    DEF Coherent, CopyIsBehind, WriterAgrees, WorksOnOwnClaim, IsBehind, Loaded
<1>2. CASE Commit(p)
  <2>1. cache' = [cache EXCEPT ![p] = cache[p]] /\ cache[p] \in Aggregate
    BY <1>2 DEF Commit, TypeOK
  <2>2. IsBehind(cache[p], View(p))
    BY CoherentParts
  <2> QED
    BY <1>2, <2>1, <2>2, EndsCoherent DEF Commit
<1>3. CASE IdleTick(p)
  BY <1>3 DEF IdleTick, Coherent, CopyIsBehind, WriterAgrees, WorksOnOwnClaim,
              HasWritten, Exists, View, Loaded
<1>4. CASE Rollback(p)
  BY <1>4 DEF Rollback, TypeOK
<1>5. CASE Crash(p)
  <2>1. ~ HasWritten(p)' /\ \A q \in Procs \ {p} : tx'[q] = tx[q]
    BY <1>5 DEF Crash, TypeOK, NoRow, NoExecution, HasWritten, Exists
  <2>2. /\ phase'[p] = "idle" /\ cache'[p] = NoAggregate /\ db' = db
        /\ \A q \in Procs \ {p} : phase'[q] = phase[q] /\ cache'[q] = cache[q]
    BY <1>5 DEF Crash, TypeOK
  <2>3. ~ Loaded(p)'
    BY <2>2 DEF Loaded, NoAggregate
  <2>4. \A q \in Procs \ {p} : (HasWritten(q)' <=> HasWritten(q)) /\ View(q)' = View(q)
    BY <2>1, <2>2 DEF HasWritten, Exists, View
  <2> QED
    BY <2>1, <2>2, <2>3, <2>4
    DEF Coherent, CopyIsBehind, WriterAgrees, WorksOnOwnClaim, Loaded
<1> QED
  BY <1>1, <1>2, <1>3, <1>4, <1>5

\* A step of a worker leaves no process with a copy ahead of the row.
LEMMA WorkerStepCoherent ==
    ASSUME MaxRollbacks = 0, TypeOK, Coherent, NEW w \in Workers, WorkerStep(w)
    PROVE  Coherent'
<1>1. w \in Procs /\ cache[w] \in Aggregate /\ now \in Nat
      /\ cache[w].exec.version \in Nat
  BY DEF Procs, TypeOK, Aggregate, Execution
<1>2. CASE WorkerSelect(w)
  <2>1. ~ HasWritten(w)
    BY <1>1, <1>2, CoherentParts DEF WorkerSelect, WriterPhase
  <2> QED
    BY <1>1, <1>2, <2>1, MovesCoherent DEF WorkerSelect, Moves
<1>3. CASE WorkerClaim(w)
  <2> DEFINE claimed == Claim(cache[w], now)
  <2>1. FollowsCopy(claimed, w) /\ WriterPhase(w, "claimed", claimed)
    BY <1>1, <1>3, ClaimAdvances, AdvancesFollows DEF WorkerClaim, WriterPhase
  <2> HIDE DEF claimed
  <2>2. CASE CanClaim(cache[w]) /\ Persist(w, claimed, "claimed")
    BY <1>1, <2>1, <2>2, PersistCoherent DEF CanClaim, Terminal
  <2>3. CASE PersistFails(w, claimed)
    BY <1>1, <2>1, <2>3, PersistFailsCoherent
  <2>4. CASE ~ CanClaim(cache[w]) /\ Refuses(w)
    <3>1. ~ HasWritten(w)
      BY <1>1, <1>3, <2>4, CoherentParts DEF WorkerClaim, WriterPhase
    <3> QED
      BY <1>1, <2>4, <3>1, RefusesCoherent
  <2> QED
    BY <1>3, <2>2, <2>3, <2>4 DEF WorkerClaim, claimed
<1>4. ASSUME phase[w] \in {"claimed", "running"}
      PROVE  /\ HasWritten(w) /\ Loaded(w)
             /\ cache[w].exec.status = "RUNNING" /\ cache[w].exec.status \notin Terminal
  <2>1. HasWritten(w)
    BY <1>1, <1>4, CoherentParts DEF WorksOnOwnClaim
  <2> QED
    BY <1>1, <1>4, <2>1, CoherentParts DEF WriterPhase, Terminal
<1>5. CASE WorkerStart(w)
  <2>1. CASE Cancels(w)
    BY <1>1, <1>4, <1>5, <2>1, CancelsCoherent DEF WorkerStart
  <2>2. CASE Moves(w, "running")
    BY <1>1, <1>4, <1>5, <2>2, MovesCoherent DEF WorkerStart, Moves, WriterPhase
  <2> QED
    BY <1>5, <2>1, <2>2 DEF WorkerStart
<1>6. ASSUME LosesLease(w)
      PROVE  Coherent'
  BY <1>1, <1>6, MovesCoherent DEF LosesLease, Moves, WriterPhase
<1>7. CASE WorkerHeartbeat(w)
  <2> DEFINE kept == Heartbeat(cache[w], now)
  <2>1. /\ kept \in Aggregate /\ kept.store = cache[w].store
        /\ kept.exec.version = cache[w].exec.version
        /\ kept.exec.status = cache[w].exec.status
    BY <1>1, HeartbeatType
  <2> HIDE DEF kept
  <2>2. FollowsCopy(kept, w) /\ WriterPhase(w, "running", kept)
    BY <1>4, <1>7, <2>1 DEF WorkerHeartbeat, FollowsCopy, WriterPhase
  <2>3. CASE Saves(w, kept, "running")
    BY <1>1, <1>4, <1>7, <2>2, <2>3, SavesCoherent DEF WorkerHeartbeat
  <2> QED
    BY <1>6, <1>7, <2>3 DEF WorkerHeartbeat, kept
<1>8. CASE WorkerFails(w)
  <2>1. ASSUME NEW retryable \in BOOLEAN, Saves(w, Fail(cache[w], retryable), "done")
        PROVE  Coherent'
    <3>1. FollowsCopy(Fail(cache[w], retryable), w)
      BY <1>1, <1>4, <1>8, FailAdvances, AdvancesFollows DEF WorkerFails
    <3>2. WriterPhase(w, "done", Fail(cache[w], retryable))
      BY DEF WriterPhase
    <3> QED
      BY <1>1, <1>4, <1>8, <2>1, <3>1, <3>2, SavesCoherent DEF WorkerFails
  <2> QED
    BY <1>6, <1>8, <2>1 DEF WorkerFails
<1>9. CASE WorkerCompletes(w)
  <2>1. CASE Saves(w, Succeed(cache[w]), "done")
    <3>1. FollowsCopy(Succeed(cache[w]), w)
      BY <1>1, <1>4, <1>9, SucceedAdvances, AdvancesFollows DEF WorkerCompletes
    <3>2. WriterPhase(w, "done", Succeed(cache[w]))
      BY DEF WriterPhase
    <3> QED
      BY <1>1, <1>4, <1>9, <2>1, <3>1, <3>2, SavesCoherent DEF WorkerCompletes
  <2>2. CASE Cancels(w)
    BY <1>1, <1>4, <1>9, <2>2, CancelsCoherent DEF WorkerCompletes
  <2> QED
    BY <1>6, <1>9, <2>1, <2>2 DEF WorkerCompletes
<1> QED
  BY <1>2, <1>3, <1>5, <1>7, <1>8, <1>9 DEF WorkerStep

\* A step of the recovery controller leaves no process with a copy ahead of the row.
LEMMA RecovererStepCoherent ==
    ASSUME MaxRollbacks = 0, TypeOK, Coherent, NEW r \in Recoverers, RecovererStep(r)
    PROVE  Coherent'
<1>1. r \in Procs /\ cache[r] \in Aggregate /\ now \in Nat /\ r \notin Workers
  BY KernelAssumption DEF Procs, TypeOK
<1>2. CASE RecoveryScan(r)
  <2>1. ~ HasWritten(r)
    BY <1>1, <1>2, CoherentParts DEF RecoveryScan, WriterPhase
  <2>2. PICK next \in {"picked", "listing"} : phase' = [phase EXCEPT ![r] = next]
    BY <1>2 DEF RecoveryScan
  <2> QED
    BY <1>1, <1>2, <2>1, <2>2, MovesCoherent DEF RecoveryScan
<1>3. CASE MarkStale(r)
  <2>1. CASE CanExpireLease(cache[r], now) /\ Saves(r, ExpireLease(cache[r]), "listing")
    <3>1. Loaded(r) /\ FollowsCopy(ExpireLease(cache[r]), r)
      BY <1>1, <1>3, ExpireLeaseAdvances, AdvancesFollows DEF MarkStale
    <3>2. cache[r].exec.status \notin Terminal
      BY <1>1, <2>1, <3>1, CoherentParts DEF CanExpireLease, IsBehind, Loaded
    <3>3. WriterPhase(r, "listing", ExpireLease(cache[r]))
      BY DEF WriterPhase
    <3> QED
      BY <1>1, <2>1, <3>1, <3>2, <3>3, SavesCoherent
  <2>2. CASE Moves(r, "listing")
    BY <1>1, <2>2, MovesCoherent DEF Moves, WriterPhase
  <2> QED
    BY <1>3, <2>1, <2>2 DEF MarkStale
<1>4. CASE ListStale(r)
  <2> DEFINE next == IF View(r).exec.status = "STALE" THEN "reviving" ELSE "done"
  <2>1. HasWritten(r) => cache[r].exec = View(r).exec
    BY <1>1, CoherentParts, ViewOf
  <2>2. HasWritten(r) => WriterPhase(r, next, cache[r])
    BY <2>1 DEF WriterPhase
  <2> QED
    BY <1>1, <1>4, <2>2, MovesCoherent DEF ListStale, Moves
<1>5. CASE Revive(r)
  <2>1. CASE CanRecover(cache[r]) /\ Saves(r, Recover(cache[r], now), "done")
    <3>1. FollowsCopy(Recover(cache[r], now), r)
      BY <1>1, <1>5, RecoverAdvances, AdvancesFollows DEF Revive
    <3>2. WriterPhase(r, "done", Recover(cache[r], now))
      BY DEF WriterPhase
    <3> QED
      BY <1>1, <2>1, <3>1, <3>2, SavesCoherent DEF CanRecover, Terminal
  <2>2. CASE ~ CanRecover(cache[r]) /\ Refuses(r)
    <3>1. ~ HasWritten(r)
      BY <1>1, <1>5, <2>2, CoherentParts DEF Revive, CanRecover, WriterPhase
    <3> QED
      BY <1>1, <2>2, <3>1, RefusesCoherent
  <2> QED
    BY <1>5, <2>1, <2>2 DEF Revive
<1> QED
  BY <1>2, <1>3, <1>4, <1>5 DEF RecovererStep

\* A step of the cancellation sweeper leaves no process with a copy ahead of the row.
LEMMA SweeperStepCoherent ==
    ASSUME MaxRollbacks = 0, TypeOK, Coherent, NEW s \in Sweepers, SweeperStep(s)
    PROVE  Coherent'
<1>1. s \in Procs /\ s \notin Workers
  BY KernelAssumption DEF Procs
<1>2. ~ HasWritten(s)
  BY <1>1, CoherentParts DEF SweeperStep, SweepSelect, SweepCancel, WriterPhase
<1>3. CASE SweepSelect(s)
  BY <1>1, <1>2, <1>3, MovesCoherent DEF SweepSelect, Moves
<1>4. CASE SweepCancel(s)
  BY <1>1, <1>2, <1>4, CancelsCoherent DEF SweepCancel
<1> QED
  BY <1>3, <1>4 DEF SweeperStep

\* A step of the wake-up controller leaves no process with a copy ahead of the row.
LEMMA WakerStepCoherent ==
    ASSUME MaxRollbacks = 0, TypeOK, Coherent, NEW k \in Wakers, WakerStep(k)
    PROVE  Coherent'
<1>1. k \in Procs /\ k \notin Workers /\ cache[k] \in Aggregate
  BY KernelAssumption DEF Procs, TypeOK
<1>2. ~ HasWritten(k)
  BY <1>1, CoherentParts DEF WakerStep, WakeSelect, Wake, WriterPhase
<1>3. CASE WakeSelect(k)
  BY <1>1, <1>2, <1>3, MovesCoherent DEF WakeSelect, Moves
<1>4. CASE Wake(k)
  <2>1. FollowsCopy(Wakeup(cache[k]), k)
    BY <1>1, <1>4, WakeupAdvances, AdvancesFollows DEF Wake
  <2>2. WriterPhase(k, "done", Wakeup(cache[k]))
    BY DEF WriterPhase
  <2>3. CASE CanWakeup(cache[k]) /\ Saves(k, Wakeup(cache[k]), "done")
    BY <1>1, <2>1, <2>2, <2>3, SavesCoherent DEF CanWakeup, Terminal
  <2>4. CASE Refuses(k)
    BY <1>1, <1>2, <2>4, RefusesCoherent
  <2> QED
    BY <1>4, <2>3, <2>4 DEF Wake
<1> QED
  BY <1>3, <1>4 DEF WakerStep

\* A request to cancel leaves no process with a copy ahead of the row.
LEMMA RequestsCancelCoherent ==
    ASSUME MaxRollbacks = 0, TypeOK, Coherent, NEW a \in Procs, Loaded(a),
           NEW next \in {"done", "cancelling"}, RequestsCancel(a, next)
    PROVE  Coherent'
<1> DEFINE asked == RequestCancel(cache[a])
<1>1. cache[a] \in Aggregate /\ CanRequestCancel(cache[a])
  BY DEF TypeOK, RequestsCancel
<1>2. Advances(asked, cache[a]) /\ asked.exec.status = cache[a].exec.status
  BY <1>1, RequestCancelAdvances
<1>3. RequestsCancel(a, next) => Persist(a, asked, next) \/ PersistFails(a, asked)
  BY DEF RequestsCancel
<1> HIDE DEF asked
<1>4. FollowsCopy(asked, a) /\ WriterPhase(a, next, asked)
  BY <1>1, <1>2, AdvancesFollows DEF WriterPhase, CanRequestCancel
<1> QED
  BY <1>1, <1>3, <1>4, PersistCoherent, PersistFailsCoherent DEF CanRequestCancel

\* submit() finds no row; so nobody has a copy.
LEMMA SubmitCoherent ==
    ASSUME MaxRollbacks = 0, TypeOK, Coherent, NEW a \in Apis, Submit(a)
    PROVE  Coherent'
<1>1. a \in Procs
  BY DEF Procs
<1>2. PICK isGate \in BOOLEAN :
        /\ tx' = [tx EXCEPT ![a] = Written(NoRow, Opened(isGate))]
        /\ cache' = [cache EXCEPT ![a] = Flushed(Opened(isGate))]
        /\ \/ phase' = [phase EXCEPT ![a] = "done"]
           \/ a \in Workers /\ ~ isGate /\ phase' = [phase EXCEPT ![a] = "picked"]
  BY SubmitOpens
<1> DEFINE agg == Opened(isGate)
<1>3. /\ agg \in Aggregate /\ agg.exec.version > 0 /\ agg.exec.version \in Nat
      /\ agg.exec.status \notin Terminal
      /\ ~ isGate => CanClaim(agg)
  BY OpenedExists DEF Aggregate, Execution
<1> HIDE DEF agg
<1>4. /\ db' = db /\ db.exec.version = 0 /\ \A q \in Procs : ~ HasWritten(q)
  BY DEF Submit, Exists, TypeOK, Database, Execution
<1>5. tx'[a].exec = agg.exec /\ \A q \in Procs \ {a} : tx'[q] = tx[q]
  BY <1>1, <1>2, <1>3, RowTypes, WrittenType DEF TypeOK, agg
<1>6. /\ cache'[a].exec = agg.exec /\ cache'[a].store = agg.exec.version
      /\ \A q \in Procs \ {a} : cache'[q] = cache[q]
  BY <1>1, <1>2, <1>3 DEF TypeOK, Flushed, Aggregate, agg
<1>7. \A q \in Procs \ {a} : phase'[q] = phase[q]
  BY <1>1, <1>2 DEF TypeOK
<1>8. HasWritten(a)' /\ \A q \in Procs \ {a} : ~ HasWritten(q)' /\ View(q)' = View(q)
  BY <1>1, <1>3, <1>4, <1>5 DEF HasWritten, Exists, View
<1>9. View(a)'.exec = agg.exec
  BY <1>5, <1>8 DEF View
<1>10. db.exec.status \notin Terminal
  BY <1>4 DEF Coherent, Exists
<1>11. IsBehind(cache[a], View(a))' /\ Loaded(a)' /\ WriterPhase(a, phase[a], cache[a])'
  <2>1. phase'[a] = "done" \/ (phase'[a] = "picked" /\ a \in Workers /\ ~ isGate)
    BY <1>1, <1>2 DEF TypeOK
  <2> QED
    BY <1>3, <1>6, <1>9, <2>1 DEF IsBehind, Loaded, WriterPhase, CanClaim
<1>12. ASSUME NEW q \in Procs \ {a}
       PROVE  IsBehind(cache[q], View(q))' /\ WorksOnOwnClaim(q)'
  <2>1. IsBehind(cache[q], View(q)) /\ WorksOnOwnClaim(q)
    BY CoherentParts
  <2> QED
    BY <1>4, <1>6, <1>7, <1>8, <2>1 DEF IsBehind, WorksOnOwnClaim
<1> QED
  BY <1>3, <1>4, <1>5, <1>6, <1>7, <1>8, <1>10, <1>11, <1>12
  DEF Coherent, CopyIsBehind, WriterAgrees, WorksOnOwnClaim, IsBehind, WriterPhase, Loaded

\* A step of the API leaves no process with a copy ahead of the row.
LEMMA ApiStepCoherent ==
    ASSUME MaxRollbacks = 0, TypeOK, Coherent, NEW a \in Apis, ApiStep(a)
    PROVE  Coherent'
<1>1. a \in Procs /\ cache[a] \in Aggregate /\ now \in Nat
  BY DEF Procs, TypeOK
<1>2. CASE Submit(a)
  BY <1>2, SubmitCoherent
<1>3. ASSUME phase[a] \in {"idle", "requesting", "withdrawing", "deciding"}
      PROVE  ~ HasWritten(a)
  BY <1>1, <1>3, CoherentParts DEF WriterPhase
<1>4. CASE Request(a)
  <2>1. PICK next \in {"requesting", "deciding", "withdrawing"} :
          phase' = [phase EXCEPT ![a] = next]
    BY <1>4 DEF Request
  <2> QED
    BY <1>1, <1>3, <1>4, <2>1, MovesCoherent DEF Request
<1>5. CASE CancelRequest(a)
  BY <1>1, <1>3, <1>5, RequestsCancelCoherent, RefusesCoherent DEF CancelRequest
<1>6. CASE WithdrawGate(a)
  <2>1. CASE phase[a] = "withdrawing" /\ Loaded(a) /\ Moves(a, "done")
    BY <1>1, <2>1, MovesCoherent DEF Moves, WriterPhase
  <2>2. CASE phase[a] = "withdrawing" /\ Loaded(a) /\ RequestsCancel(a, "cancelling")
    BY <1>1, <2>2, RequestsCancelCoherent
  <2>3. CASE phase[a] = "cancelling" /\ Cancels(a)
    <3>1. HasWritten(a)
      BY <1>1, <2>3, CoherentParts DEF WorksOnOwnClaim
    <3>2. Loaded(a) /\ cache[a].exec.status \notin Terminal
      BY <1>1, <2>3, <3>1, CoherentParts DEF WriterPhase
    <3> QED
      BY <1>1, <2>3, <3>2, CancelsCoherent
  <2> QED
    BY <1>6, <2>1, <2>2, <2>3 DEF WithdrawGate
<1>7. CASE CloseGate(a)
  <2> DEFINE resumed == Wakeup(cache[a])
             claimed == Claim(resumed, now)
             ends == {Succeed(claimed), Fail(claimed, FALSE)}
  <2>1. /\ Advances(resumed, cache[a]) /\ Advances(claimed, cache[a])
        /\ \A closed \in ends : Advances(closed, cache[a])
    BY <1>1, GateAdvances
  <2>2. ~ HasWritten(a) /\ Loaded(a)
    BY <1>3, <1>7 DEF CloseGate
  <2>3. \/ Moves(a, "decided") \/ Refuses(a)
        \/ CanWakeup(cache[a]) /\ TickFails(a, resumed) /\ db' = db
        \/ CanWakeup(cache[a]) /\ \E closed \in ends : Persist(a, closed, "decided")
        \/ PersistFails(a, claimed)
    BY <1>7 DEF CloseGate
  <2> HIDE DEF resumed, claimed, ends
  <2>4. CASE Moves(a, "decided")
    BY <1>1, <2>2, <2>4, MovesCoherent DEF Moves
  <2>5. CASE Refuses(a)
    BY <1>1, <2>2, <2>5, RefusesCoherent
  <2>6. CASE CanWakeup(cache[a]) /\ TickFails(a, resumed) /\ db' = db
    <3>1. IsBehind(cache[a], db)
      BY <1>1, <2>2, CoherentParts, ViewOf
    <3>2. /\ resumed \in Aggregate /\ resumed.store = cache[a].store
          /\ resumed.exec.version \in Nat /\ cache[a].exec.version \in Nat
          /\ cache[a].store \in Nat /\ cache[a].exec.version < resumed.exec.version
          /\ resumed.exec.status \in Terminal => ~ HoldsLease(resumed.exec)
      BY <1>1, <2>1 DEF Advances, Aggregate, Execution
    <3>3. cache[a].exec.status \notin Terminal
      BY <2>6 DEF CanWakeup, Terminal
    <3>4. IsBehind(resumed, db)
      BY <2>2, <3>1, <3>2, <3>3 DEF IsBehind, Loaded
    <3> QED
      BY <1>1, <2>2, <2>6, <3>2, <3>4, TickFailsCoherent
  <2>7. ASSUME CanWakeup(cache[a]), NEW closed \in ends, Persist(a, closed, "decided")
        PROVE  Coherent'
    <3>1. FollowsCopy(closed, a) /\ WriterPhase(a, "decided", closed)
      BY <1>1, <2>1, <2>2, AdvancesFollows DEF WriterPhase
    <3>2. cache[a].exec.status \notin Terminal
      BY <2>7 DEF CanWakeup, Terminal
    <3> QED
      BY <1>1, <2>7, <3>1, <3>2, PersistCoherent
  <2>8. CASE PersistFails(a, claimed)
    BY <1>1, <2>1, <2>2, <2>8, AdvancesFollows, PersistFailsCoherent
  <2> QED
    BY <2>3, <2>4, <2>5, <2>6, <2>7, <2>8
<1> QED
  BY <1>2, <1>4, <1>5, <1>6, <1>7 DEF ApiStep

\* At the start every copy agrees with the row.
LEMMA CoherentInit == Init => Coherent
<1> SUFFICES ASSUME Init
             PROVE  Coherent
  OBVIOUS
<1>1. \A p \in Procs : ~ HasWritten(p) /\ ~ Loaded(p) /\ phase[p] = "idle"
  BY DEF Init, HasWritten, Exists, NoRow, NoExecution, Loaded, NoAggregate
<1>2. db.exec.status \notin Terminal
  BY DEF Init, NoRow, NoExecution, Terminal
<1> QED
  BY <1>1, <1>2 DEF Coherent, CopyIsBehind, WriterAgrees, WorksOnOwnClaim

\* Every step keeps copies and row coherent.
LEMMA CoherentStep ==
    ASSUME MaxRollbacks = 0
    PROVE  TypeOK /\ Coherent /\ [Next]_vars => Coherent'
<1> SUFFICES ASSUME TypeOK, Coherent, [Next]_vars
             PROVE  Coherent'
  OBVIOUS
<1>1. ASSUME UNCHANGED <<db, tx, cache, phase>>
      PROVE  Coherent'
  BY <1>1 DEF Coherent, CopyIsBehind, WriterAgrees, WorksOnOwnClaim,
              HasWritten, Exists, View, Loaded
<1>2. CASE UNCHANGED vars \/ Tick \/ RedisForgets
  BY <1>1, <1>2 DEF vars, Tick, RedisForgets
<1> QED
  BY <1>2, WorkerStepCoherent, RecovererStepCoherent, SweeperStepCoherent,
     WakerStepCoherent, ApiStepCoherent, TransactionStepCoherent DEF Next

\* The invariant behind E-13: copies are never ahead of the row.
THEOREM CopiesAreCoherent ==
    ASSUME MaxRollbacks = 0
    PROVE  Spec => []Coherent
BY TypeInit, TypeStep, CoherentInit, CoherentStep, PTL DEF Spec

\* Nothing but a commit writes to the tables.
LEMMA OnlyCommitWrites ==
    Next => db' = db \/ \E p \in Procs : Commit(p)
<1>2. ASSUME NEW w \in Workers, WorkerStep(w)
      PROVE  db' = db
  BY <1>2 DEF WorkerStep, WorkerSelect, WorkerClaim, WorkerStart, WorkerHeartbeat,
              WorkerFails, WorkerCompletes, LosesLease, Moves, Saves, Persist,
              PersistFails, Cancels, Refuses
<1>3. ASSUME NEW r \in Recoverers, RecovererStep(r)
      PROVE  db' = db
  BY <1>3 DEF RecovererStep, RecoveryScan, MarkStale, ListStale, Revive, Moves, Saves,
              Persist, PersistFails, Refuses
<1>4. ASSUME NEW p \in Procs, SweeperStep(p) \/ WakerStep(p)
      PROVE  db' = db
  BY <1>4 DEF SweeperStep, SweepSelect, SweepCancel, WakerStep, WakeSelect, Wake, Moves,
              Saves, Persist, PersistFails, Cancels, Refuses
<1>5. ASSUME NEW a \in Apis, ApiStep(a)
      PROVE  db' = db
  BY <1>5 DEF ApiStep, Submit, Request, CancelRequest, WithdrawGate, CloseGate, Moves,
              RequestsCancel, Persist, PersistFails, Cancels, Refuses
<1>6. ASSUME NEW p \in Procs, LoadAggregate(p) \/ IdleTick(p) \/ Rollback(p) \/ Crash(p)
      PROVE  db' = db
  BY <1>6 DEF LoadAggregate, Reads, IdleTick, Rollback, Crash
<1>7. ASSUME Tick \/ RedisForgets
      PROVE  db' = db
  BY <1>7 DEF Tick, RedisForgets
<1> QED
  BY <1>2, <1>3, <1>4, <1>5, <1>6, <1>7 DEF Next, Procs

\* E-2: while no transaction fails halfway, whatever the number of processes and
\* however they crash and race, a terminal execution never changes again.
THEOREM TerminalStaysFinal ==
    ASSUME MaxRollbacks = 0
    PROVE  Spec => TerminalIsFinal
<1>1. TypeOK /\ Coherent /\ [Next]_vars => [db.exec.status \in Terminal => db' = db]_vars
  <2> SUFFICES ASSUME TypeOK, Coherent, Next, db.exec.status \in Terminal
               PROVE  db' = db
    BY DEF vars
  <2>1. ASSUME NEW p \in Procs, Commit(p)
        PROVE  db' = db
    <3>1. ~ HasWritten(p)
      BY CoherentParts
    <3> QED
      BY <2>1, <3>1, ViewOf DEF Commit
  <2> QED
    BY <2>1, OnlyCommitWrites
<1> QED
  BY <1>1, TypeInit, TypeStep, CoherentInit, CoherentStep, PTL DEF Spec, TerminalIsFinal
=============================================================================
