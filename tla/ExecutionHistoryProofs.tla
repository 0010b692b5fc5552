------------------------ MODULE ExecutionHistoryProofs ------------------------
(***************************************************************************)
(* What the tables and the outbox tell, for every number of processes: the  *)
(* row, its attempts and its events agree, nothing committed is undone, and *)
(* the outbox is a walk through the documented life cycle, as long as no    *)
(* transaction fails after work was done in it; and, whatever fails, no     *)
(* execution has more failed attempts than the retry policy allows.         *)
(*                                                                          *)
(* The argument for the first part: every aggregate in memory has a sound   *)
(* row, and a copy that the versioned UPDATE would accept goes on where the *)
(* row of its process stopped.  What an operation does to an aggregate goes *)
(* on where the aggregate was, so what is saved tells the row's story to its*)
(* end.  The argument for the second is a count of attempts and versions; it*)
(* stands at the end of the module.                                         *)
(***************************************************************************)
EXTENDS ExecutionKernelProofs, FiniteSetTheorems

-----------------------------------------------------------------------------
(* Definitions. *)

\* An attempt that fails when no other is allowed is the last one, and the
\* execution fails with it.
FailuresAreLast(d) ==
    \A i \in 1 .. Len(d.attempts) :
        d.attempts[i] = "FAILED" /\ i >= MaxAttempts
        => i = Len(d.attempts) /\ d.exec.status = "FAILED"

\* What a row and an aggregate alike say of themselves.
Sound(d) == OpenExactlyWhileRunning(d) /\ FailuresAreLast(d)

\* The events are the versions 1, 2, ... of the row, they walk through the life
\* cycle, and the last one leads to the status the row is in.
Story(outbox, exec) ==
    /\ Len(outbox) = exec.version
    /\ \A i \in 1 .. Len(outbox) :
         /\ outbox[i].version = i
         /\ i = 1 => outbox[i].to = "PENDING"
         /\ i > 1 => History!Follows(outbox[i - 1].to, outbox[i].to)
    /\ exec.version > 0 => outbox[Len(outbox)].to = exec.status

Honest(d) == Sound(d) /\ Story(d.outbox, d.exec)

\* No attempt is missing, and one that ended keeps its end.
KeepsAttempts(new, old) ==
    /\ Len(new) >= Len(old)
    /\ \A i \in 1 .. Len(old) : old[i] # "RUNNING" => new[i] = old[i]

\* One row after another, none of what the older says undone.
Later(new, old) ==
    /\ old.exec.cancelReq => new.exec.cancelReq
    /\ KeepsAttempts(new.attempts, old.attempts)
    /\ Len(new.outbox) >= Len(old.outbox)
    /\ \A i \in 1 .. Len(old.outbox) : new.outbox[i] = old.outbox[i]

\* The aggregate goes on where the row stops.
Continues(agg, row) ==
    /\ agg.exec.version > 0
    /\ row.exec.cancelReq => agg.exec.cancelReq
    /\ KeepsAttempts(agg.attempts, row.attempts)
    /\ Story(row.outbox \o agg.events, agg.exec)

\* One step of the life cycle: the version goes up by one, one event tells it.
Evolves(new, old) ==
    /\ new \in Aggregate
    /\ new.store = old.store
    /\ new.exec.version = old.exec.version + 1
    /\ old.exec.cancelReq => new.exec.cancelReq
    /\ KeepsAttempts(new.attempts, old.attempts)
    /\ new.events = Append(old.events, [version |-> old.exec.version + 1,
                                        to |-> new.exec.status])
    /\ History!Follows(old.exec.status, new.exec.status)
    /\ Sound(new)

\* What any number of steps keep: whatever row the old aggregate continued,
\* the new one continues.
Carries(new, old) ==
    /\ new \in Aggregate
    /\ new.store = old.store
    /\ Sound(new)
    /\ \A row \in Database : Continues(old, row) => Continues(new, row)

-----------------------------------------------------------------------------
(* Aggregates and rows. *)

\* The components of rows and aggregates, with their types.
LEMMA Parts ==
    /\ \A d \in Database : /\ d.attempts \in Seq(AttemptStatus) /\ Len(d.attempts) \in Nat
                           /\ d.outbox \in Seq(Event) /\ Len(d.outbox) \in Nat
                           /\ d.exec \in Execution
    /\ \A agg \in Aggregate : /\ agg.attempts \in Seq(AttemptStatus) /\ Len(agg.attempts) \in Nat
                              /\ agg.events \in Seq(Event) /\ Len(agg.events) \in Nat
                              /\ agg.exec \in Execution /\ agg.store \in Nat
    /\ \A exec \in Execution : /\ exec.version \in Nat /\ exec.attemptNo \in Nat
                               /\ exec.status \in ExecutionStatus /\ exec.lease \in Lease
                               /\ exec.cancelReq \in BOOLEAN /\ exec.suspended \in BOOLEAN
<1>1. \A S : \A s \in Seq(S) : Len(s) \in Nat
  BY LenProperties
<1> QED
  BY <1>1 DEF Database, Aggregate, Execution

\* A story told to its end goes on with one more version.
LEMMA StoryGrows ==
    ASSUME NEW log \in Seq(Event), NEW old \in Execution, NEW new \in Execution,
           Story(log, old), old.version > 0, new.version = old.version + 1,
           History!Follows(old.status, new.status)
    PROVE  Story(Append(log, [version |-> old.version + 1, to |-> new.status]), new)
<1> DEFINE e == [version |-> old.version + 1, to |-> new.status]
           longer == Append(log, e)
<1>1. old.version \in Nat /\ new.status \in ExecutionStatus /\ Len(log) \in Nat
  BY Parts, LenProperties
<1>2. e \in Event /\ e.version = old.version + 1 /\ e.to = new.status
  BY <1>1 DEF Event
<1> HIDE DEF e
<1>3. /\ Len(longer) = Len(log) + 1
      /\ \A i \in 1 .. Len(log) : longer[i] = log[i]
      /\ longer[Len(log) + 1] = e
  BY <1>2, AppendProperties
<1> HIDE DEF longer
<1>4. Len(log) = old.version /\ log[Len(log)].to = old.status
  BY DEF Story
<1>5. ASSUME NEW i \in 1 .. Len(longer)
      PROVE  /\ longer[i].version = i
             /\ i = 1 => longer[i].to = "PENDING"
             /\ i > 1 => History!Follows(longer[i - 1].to, longer[i].to)
  <2>1. CASE i <= Len(log)
    <3>1. i \in 1 .. Len(log) /\ (i > 1 => i - 1 \in 1 .. Len(log))
      BY <1>1, <2>1
    <3> QED
      BY <1>3, <3>1 DEF Story
  <2>2. CASE i = Len(log) + 1
    <3>1. i > 1 /\ i - 1 = Len(log) /\ Len(log) \in 1 .. Len(log)
      BY <1>1, <1>4, <2>2
    <3>2. longer[i] = e /\ longer[i - 1] = log[Len(log)]
      BY <1>3, <2>2, <3>1
    <3>3. e.version = i
      BY <1>2, <1>4, <2>2
    <3>4. History!Follows(longer[i - 1].to, longer[i].to)
      BY <1>2, <1>4, <3>2
    <3> QED
      BY <3>1, <3>2, <3>3, <3>4
  <2> QED
    BY <1>1, <1>3, <2>1, <2>2
<1>6. longer[Len(longer)].to = new.status /\ Len(longer) = new.version
  BY <1>1, <1>2, <1>3, <1>4
<1>7. Story(longer, new)
  BY <1>5, <1>6 DEF Story
<1> QED
  BY <1>7 DEF longer, e

\* An event appended to the last part is appended to the whole.
LEMMA AppendToConcat ==
    ASSUME NEW S, NEW r \in Seq(S), NEW s \in Seq(S), NEW e \in S
    PROVE  r \o Append(s, e) = Append(r \o s, e)
<1>1. r \o s \in Seq(S) /\ <<e>> \in Seq(S)
  BY ConcatProperties
<1>2. Append(s, e) = s \o <<e>> /\ Append(r \o s, e) = (r \o s) \o <<e>>
  BY <1>1, AppendIsConcat
<1>3. \A a, b, c \in Seq(S) : (a \o b) \o c = a \o (b \o c)
  BY ConcatAssociative, SMTT(20)
<1> DEFINE one == <<e>>
<1>4. one \in Seq(S)
  BY <1>1
<1> HIDE DEF one
<1>5. (r \o s) \o one = r \o (s \o one)
  BY <1>3, <1>4, Zenon
<1>6. Append(s, e) = s \o one /\ Append(r \o s, e) = (r \o s) \o one
  BY <1>2 DEF one
<1> QED
  BY <1>5, <1>6, Zenon

\* Keeping attempts is transitive.
LEMMA KeepsTransitive ==
    ASSUME NEW a \in Seq(AttemptStatus), NEW b \in Seq(AttemptStatus), NEW c \in Seq(AttemptStatus),
           KeepsAttempts(a, b), KeepsAttempts(b, c)
    PROVE  KeepsAttempts(a, c)
<1>1. Len(a) \in Nat /\ Len(b) \in Nat /\ Len(c) \in Nat
  BY LenProperties
<1> QED
  BY <1>1 DEF KeepsAttempts

\* Being later is transitive.
LEMMA LaterTransitive ==
    ASSUME NEW a \in Database, NEW b \in Database, NEW c \in Database, Later(a, b), Later(b, c)
    PROVE  Later(a, c)
<1>1. KeepsAttempts(a.attempts, c.attempts)
  BY Parts, KeepsTransitive DEF Later
<1>2. Len(a.outbox) \in Nat /\ Len(b.outbox) \in Nat /\ Len(c.outbox) \in Nat
  BY Parts
<1> QED
  BY <1>1, <1>2 DEF Later

\* A step of the life cycle carries the aggregate on.
LEMMA EvolvesCarries ==
    ASSUME NEW new, NEW old \in Aggregate, Evolves(new, old)
    PROVE  Carries(new, old)
<1> DEFINE e == [version |-> old.exec.version + 1, to |-> new.exec.status]
<1>1. new \in Aggregate /\ new.exec \in Execution /\ old.exec \in Execution
      /\ old.exec.version \in Nat /\ new.exec.version = old.exec.version + 1
      /\ new.exec.status \in ExecutionStatus
  BY Parts DEF Evolves
<1>2. e \in Event
  BY <1>1 DEF Event
<1> HIDE DEF e
<1>3. ASSUME NEW row \in Database, Continues(old, row)
      PROVE  Continues(new, row)
  <2>1. KeepsAttempts(new.attempts, row.attempts)
    BY <1>1, <1>3, Parts, KeepsTransitive DEF Evolves, Continues
  <2>2. row.outbox \in Seq(Event) /\ old.events \in Seq(Event) /\ new.events = Append(old.events, e)
    BY Parts DEF Evolves, e
  <2> DEFINE log == row.outbox \o old.events
  <2>3. log \in Seq(Event)
    BY <2>2, ConcatProperties
  <2>4. row.outbox \o new.events = Append(log, e)
    <3>1. \A r, s \in Seq(Event) : r \o Append(s, e) = Append(r \o s, e)
      BY <1>2, AppendToConcat
    <3> QED
      BY <2>2, <3>1, Zenon
  <2>5. Story(Append(log, e), new.exec)
    <3>1. Story(log, old.exec) /\ old.exec.version > 0
      BY <1>3 DEF Continues
    <3> HIDE DEF log
    <3> QED
      BY <1>1, <2>3, <3>1, StoryGrows DEF Evolves, e
  <2> HIDE DEF log
  <2>6. Story(row.outbox \o new.events, new.exec)
    BY <2>4, <2>5
  <2>7. new.exec.version > 0 /\ (row.exec.cancelReq => new.exec.cancelReq)
    BY <1>1, <1>3 DEF Continues, Evolves
  <2> QED
    BY <2>1, <2>6, <2>7 DEF Continues
<1> QED
  BY <1>1, <1>3 DEF Carries, Evolves

-----------------------------------------------------------------------------
(* The operations, one by one. *)

\* The execution after a transition, and the event that tells it.
Moved(exec, to) == [exec EXCEPT !.version = @ + 1, !.status = to,
                                !.suspended = (to = "SUSPENDED")]
Told(exec, to) == [version |-> exec.version + 1, to |-> to]

\* ExecutionStateMachine.transition, field by field.
LEMMA TransitionParts ==
    ASSUME NEW agg \in Aggregate, NEW to \in ExecutionStatus
    PROVE  /\ Transition(agg, to) \in Aggregate
           /\ Transition(agg, to).exec = Moved(agg.exec, to)
           /\ Transition(agg, to).attempts = agg.attempts
           /\ Transition(agg, to).events = Append(agg.events, Told(agg.exec, to))
           /\ Transition(agg, to).store = agg.store
<1>1. Transition(agg, to) \in Aggregate /\ agg.exec \in Execution
  BY TransitionType DEF Aggregate
<1>2. /\ Emit(agg, to) \in Aggregate
      /\ Emit(agg, to).exec = [agg.exec EXCEPT !.version = @ + 1]
      /\ Emit(agg, to).attempts = agg.attempts
      /\ Emit(agg, to).store = agg.store
  BY EmitType
<1>3. Emit(agg, to).events = Append(agg.events, [version |-> agg.exec.version + 1, to |-> to])
  BY DEF Emit, Aggregate
<1>4. /\ Transition(agg, to).attempts = Emit(agg, to).attempts
      /\ Transition(agg, to).events = Emit(agg, to).events
      /\ Transition(agg, to).store = Emit(agg, to).store
      /\ Transition(agg, to).exec = [Emit(agg, to).exec EXCEPT !.status = to,
                                                               !.suspended = (to = "SUSPENDED")]
  BY <1>2 DEF Transition, Aggregate
<1> QED
  BY <1>1, <1>2, <1>3, <1>4 DEF Execution, Moved, Told

\* On a sound aggregate the attempt that is closed is the open one, if any.
LEMMA CloseAttemptParts ==
    ASSUME NEW agg \in Aggregate, NEW outcome \in AttemptStatus, OpenExactlyWhileRunning(agg)
    PROVE  LET closed == CloseAttempt(agg, outcome)
           IN  /\ closed \in Aggregate
               /\ closed.exec = [agg.exec EXCEPT !.lease = NoLease]
               /\ closed.events = agg.events
               /\ closed.store = agg.store
               /\ closed.fencing = agg.fencing
               /\ Len(closed.attempts) = Len(agg.attempts)
               /\ \A i \in 1 .. Len(agg.attempts) :
                    closed.attempts[i] = IF agg.attempts[i] = "RUNNING" THEN outcome
                                         ELSE agg.attempts[i]
<1> DEFINE closed == CloseAttempt(agg, outcome)
<1>1. closed \in Aggregate /\ closed.exec = [agg.exec EXCEPT !.lease = NoLease]
      /\ closed.store = agg.store
  BY CloseAttemptType
<1>2. closed.events = agg.events /\ closed.fencing = agg.fencing
      /\ closed.attempts = [i \in DOMAIN agg.attempts |->
              IF IsRunningAttempt(agg.attempts, i) THEN outcome ELSE agg.attempts[i]]
  BY DEF CloseAttempt, Aggregate
<1>3. /\ Len(agg.attempts) \in Nat /\ DOMAIN agg.attempts = 1 .. Len(agg.attempts)
      /\ Len(closed.attempts) \in Nat /\ DOMAIN closed.attempts = 1 .. Len(closed.attempts)
  BY <1>1, Parts, LenProperties
<1> HIDE DEF closed
<1>4. Len(closed.attempts) = Len(agg.attempts)
  <2>1. 1 .. Len(closed.attempts) = 1 .. Len(agg.attempts)
    BY <1>2, <1>3
  <2> QED
    BY <1>3, <2>1
<1>5. ASSUME NEW i \in 1 .. Len(agg.attempts)
      PROVE  IsRunningAttempt(agg.attempts, i) <=> agg.attempts[i] = "RUNNING"
  BY <1>3 DEF OpenExactlyWhileRunning, IsRunningAttempt
<1> QED
  BY <1>1, <1>2, <1>3, <1>4, <1>5 DEF closed

\* complete(), fail(), suspend() and cancel(): the open attempt ends and the
\* execution moves to a status in which it does not run.
LEMMA EndAttemptEvolves ==
    ASSUME NEW agg \in Aggregate, Sound(agg), NEW outcome \in AttemptStatus \ {"RUNNING"},
           NEW to \in ExecutionStatus \ {"RUNNING", "STALE"},
           to \in EXECUTION_TRANSITIONS[agg.exec.status],
           outcome = "FAILED" /\ Len(agg.attempts) >= MaxAttempts => to = "FAILED"
    PROVE  Evolves(Transition(CloseAttempt(agg, outcome), to), agg)
<1> DEFINE closed == CloseAttempt(agg, outcome)
           moved == Transition(closed, to)
           n == Len(agg.attempts)
<1>1. /\ closed \in Aggregate /\ closed.exec = [agg.exec EXCEPT !.lease = NoLease]
      /\ closed.events = agg.events /\ closed.store = agg.store /\ Len(closed.attempts) = n
      /\ \A i \in 1 .. n : closed.attempts[i] = IF agg.attempts[i] = "RUNNING" THEN outcome
                                                ELSE agg.attempts[i]
  BY CloseAttemptParts DEF Sound
<1> HIDE DEF closed
<1>2. /\ moved \in Aggregate
      /\ moved.exec = Moved(closed.exec, to)
      /\ moved.attempts = closed.attempts /\ moved.store = closed.store
      /\ moved.events = Append(closed.events, Told(closed.exec, to))
  <2>1. to \in ExecutionStatus
    OBVIOUS
  <2> QED
    BY <1>1, <2>1, TransitionParts, Zenon
<1> HIDE DEF moved
<1>3. agg.exec \in Execution /\ n \in Nat /\ MaxAttempts \in Nat /\ agg.exec.attemptNo = n
  BY Parts, DomainAssumption DEF Sound, OpenExactlyWhileRunning
<1>4. /\ moved.exec.version = agg.exec.version + 1 /\ closed.exec.version = agg.exec.version
      /\ moved.exec.status = to /\ moved.exec.suspended = (to = "SUSPENDED")
      /\ moved.exec.cancelReq = agg.exec.cancelReq /\ moved.exec.lease = NoLease
      /\ moved.exec.attemptNo = n
  BY <1>1, <1>2, <1>3 DEF Execution, Moved
<1>5. agg.exec.status \notin Terminal /\ agg.exec.status \in ExecutionStatus
  BY <1>3, Parts DEF EXECUTION_TRANSITIONS, Terminal, ExecutionStatus
<1>6. OpenExactlyWhileRunning(moved)
  <2>1. \A i \in 1 .. n : moved.attempts[i] # "RUNNING"
    BY <1>1, <1>2
  <2>2. Len(moved.attempts) = n /\ moved.exec.status \notin {"RUNNING", "STALE"}
    BY <1>1, <1>2, <1>4
  <2>3. ~ HoldsLease(moved.exec)
    BY <1>4 DEF HoldsLease
  <2> QED
    BY <1>4, <2>1, <2>2, <2>3 DEF OpenExactlyWhileRunning
<1>7. FailuresAreLast(moved)
  <2>1. \A i \in 1 .. n : agg.attempts[i] = "RUNNING" => i = n
    BY DEF Sound, OpenExactlyWhileRunning
  <2>2. \A i \in 1 .. n : i >= MaxAttempts => agg.attempts[i] # "FAILED"
    BY <1>5 DEF Sound, FailuresAreLast, Terminal
  <2> QED
    BY <1>1, <1>2, <1>3, <1>4, <2>1, <2>2 DEF FailuresAreLast
<1>8. KeepsAttempts(moved.attempts, agg.attempts)
  BY <1>1, <1>2, <1>3 DEF KeepsAttempts
<1>9. History!Follows(agg.exec.status, to)
  BY DEF History!Follows, History!EXECUTION_TRANSITIONS, EXECUTION_TRANSITIONS,
         History!ExecutionStatus, ExecutionStatus, History!Terminal, Terminal
<1> QED
  BY <1>1, <1>2, <1>4, <1>6, <1>7, <1>8, <1>9 DEF Evolves, Sound, Told, moved, closed

\* The execution after an attempt was opened.
Running(agg, t) == [agg.exec EXCEPT !.version = @ + 1, !.attemptNo = @ + 1, !.status = "RUNNING",
                                    !.lease = [token |-> agg.fencing + 1, expires |-> t + Ttl]]

\* A new attempt, field by field.
LEMMA OpenAttemptParts ==
    ASSUME NEW agg \in Aggregate, NEW t \in Nat
    PROVE  /\ OpenAttempt(agg, t) \in Aggregate
           /\ OpenAttempt(agg, t).exec = Running(agg, t)
           /\ OpenAttempt(agg, t).attempts = Append(agg.attempts, "RUNNING")
           /\ OpenAttempt(agg, t).events = Append(agg.events, Told(agg.exec, "RUNNING"))
           /\ OpenAttempt(agg, t).store = agg.store
<1>1. OpenAttempt(agg, t) \in Aggregate /\ agg.exec \in Execution
  BY OpenAttemptType DEF Aggregate
<1>2. /\ Emit(agg, "RUNNING") \in Aggregate
      /\ Emit(agg, "RUNNING").exec = [agg.exec EXCEPT !.version = @ + 1]
      /\ Emit(agg, "RUNNING").attempts = agg.attempts
      /\ Emit(agg, "RUNNING").store = agg.store
      /\ Emit(agg, "RUNNING").fencing = agg.fencing
  BY EmitType DEF ExecutionStatus
<1>3. Emit(agg, "RUNNING").events = Append(agg.events, Told(agg.exec, "RUNNING"))
  BY DEF Emit, Aggregate, Told
<1> DEFINE told == Emit(agg, "RUNNING")
<1>4. /\ OpenAttempt(agg, t).attempts = Append(told.attempts, "RUNNING")
      /\ OpenAttempt(agg, t).events = told.events
      /\ OpenAttempt(agg, t).store = told.store
      /\ OpenAttempt(agg, t).exec =
           [told.exec EXCEPT !.attemptNo = @ + 1, !.status = "RUNNING",
                             !.lease = [token |-> agg.fencing + 1, expires |-> t + Ttl]]
  BY <1>2 DEF OpenAttempt, Aggregate
<1> QED
  BY <1>1, <1>2, <1>3, <1>4 DEF Execution, Running

\* claim() and recover(): what is opened is the only open attempt.  The aggregate
\* mid is the old one, its open attempt closed if it had one.
LEMMA OpenAttemptEvolves ==
    ASSUME NEW old \in Aggregate, Sound(old), NEW mid \in Aggregate, NEW t \in Nat,
           old.exec.status \in {"PENDING", "STALE"},
           mid.exec = [old.exec EXCEPT !.lease = NoLease],
           mid.events = old.events, mid.store = old.store,
           Len(mid.attempts) = Len(old.attempts),
           \A i \in 1 .. Len(old.attempts) :
              mid.attempts[i] = IF old.attempts[i] = "RUNNING" THEN "CANCELLED" ELSE old.attempts[i]
    PROVE  Evolves(OpenAttempt(mid, t), old)
<1> DEFINE open == OpenAttempt(mid, t)
           n == Len(old.attempts)
<1>1. /\ open \in Aggregate /\ open.exec = Running(mid, t)
      /\ open.attempts = Append(mid.attempts, "RUNNING")
      /\ open.events = Append(mid.events, Told(mid.exec, "RUNNING"))
      /\ open.store = mid.store
  BY OpenAttemptParts
<1> HIDE DEF open
<1>2. /\ old.exec \in Execution /\ n \in Nat /\ MaxAttempts \in Nat /\ mid.fencing \in Nat
      /\ mid.attempts \in Seq(AttemptStatus) /\ "RUNNING" \in AttemptStatus
  BY Parts, DomainAssumption DEF Aggregate, AttemptStatus
<1>3. /\ Len(open.attempts) = n + 1 /\ open.attempts[n + 1] = "RUNNING"
      /\ \A i \in 1 .. n : open.attempts[i] = mid.attempts[i]
  BY <1>1, <1>2, AppendProperties
<1>4. /\ open.exec.version = old.exec.version + 1 /\ open.exec.attemptNo = old.exec.attemptNo + 1
      /\ open.exec.status = "RUNNING" /\ open.exec.suspended = old.exec.suspended
      /\ open.exec.cancelReq = old.exec.cancelReq
      /\ open.exec.lease = [token |-> mid.fencing + 1, expires |-> t + Ttl]
      /\ mid.exec.version = old.exec.version
  BY <1>1, <1>2 DEF Execution, Running
<1>5. HoldsLease(open.exec)
  BY <1>2, <1>4 DEF HoldsLease, NoLease
<1>6. ~ old.exec.suspended /\ old.exec.attemptNo = n
  BY DEF Sound, OpenExactlyWhileRunning
<1>7. \A i \in 1 .. n : open.attempts[i] # "RUNNING"
  BY <1>3
<1>8. OpenExactlyWhileRunning(open)
  BY <1>2, <1>3, <1>4, <1>5, <1>6, <1>7 DEF OpenExactlyWhileRunning
<1>9. FailuresAreLast(open)
  <2>1. \A i \in 1 .. n : i >= MaxAttempts => old.attempts[i] # "FAILED"
    BY DEF Sound, FailuresAreLast
  <2> QED
    BY <1>2, <1>3, <2>1 DEF FailuresAreLast
<1>10. KeepsAttempts(open.attempts, old.attempts)
  BY <1>2, <1>3 DEF KeepsAttempts
<1>11. History!Follows(old.exec.status, "RUNNING")
  BY DEF History!Follows, History!EXECUTION_TRANSITIONS, History!ExecutionStatus, History!Terminal
<1> QED
  BY <1>1, <1>4, <1>8, <1>9, <1>10, <1>11 DEF Evolves, Sound, Told, open

\* wakeup() and mark_stale(): the attempts stay as they are.
LEMMA TransitionEvolves ==
    ASSUME NEW old \in Aggregate, Sound(old), NEW mid \in Aggregate,
           mid = old \/ mid = [old EXCEPT !.exec.lease = NoLease],
           NEW to \in {"PENDING", "STALE"},
           to = "PENDING" => old.exec.status = "SUSPENDED" /\ mid = old,
           to = "STALE" => old.exec.status = "RUNNING" /\ ~ HoldsLease(mid.exec)
    PROVE  Evolves(Transition(mid, to), old)
<1> DEFINE moved == Transition(mid, to)
<1>1. to \in ExecutionStatus
  BY DEF ExecutionStatus
<1>2. /\ moved \in Aggregate /\ moved.exec = Moved(mid.exec, to) /\ moved.attempts = mid.attempts
      /\ moved.events = Append(mid.events, Told(mid.exec, to)) /\ moved.store = mid.store
  BY <1>1, TransitionParts
<1> HIDE DEF moved
<1>3. /\ mid.events = old.events /\ mid.store = old.store /\ mid.attempts = old.attempts
      /\ mid.exec = old.exec \/ mid.exec = [old.exec EXCEPT !.lease = NoLease]
  BY DEF Aggregate
<1>4. old.exec \in Execution /\ mid.exec \in Execution /\ Len(old.attempts) \in Nat
  BY Parts
<1>5. /\ moved.exec.version = old.exec.version + 1 /\ moved.exec.status = to
      /\ moved.exec.attemptNo = old.exec.attemptNo /\ ~ moved.exec.suspended
      /\ moved.exec.cancelReq = old.exec.cancelReq /\ mid.exec.version = old.exec.version
      /\ moved.exec.lease = mid.exec.lease
  <2>1. /\ mid.exec.version = old.exec.version /\ mid.exec.attemptNo = old.exec.attemptNo
        /\ mid.exec.cancelReq = old.exec.cancelReq
    BY <1>3, <1>4 DEF Execution
  <2> DEFINE x == mid.exec
  <2>2. x \in Execution /\ moved.exec = Moved(x, to)
    BY <1>2, <1>4
  <2> HIDE DEF x
  <2>3. /\ moved.exec.version = x.version + 1 /\ moved.exec.status = to
        /\ moved.exec.attemptNo = x.attemptNo /\ ~ moved.exec.suspended
        /\ moved.exec.cancelReq = x.cancelReq /\ moved.exec.lease = x.lease
    BY <2>2 DEF Execution, Moved
  <2> QED
    BY <2>1, <2>3 DEF x
<1>6. ~ HoldsLease(moved.exec)
  BY <1>5 DEF Sound, OpenExactlyWhileRunning, HoldsLease
<1>7. OpenExactlyWhileRunning(moved)
  BY <1>2, <1>3, <1>4, <1>5, <1>6 DEF Sound, OpenExactlyWhileRunning
<1>8. FailuresAreLast(moved)
  BY <1>2, <1>3 DEF Sound, FailuresAreLast
<1>9. KeepsAttempts(moved.attempts, old.attempts)
  BY <1>2, <1>3, <1>4 DEF KeepsAttempts
<1>10. History!Follows(old.exec.status, to)
  BY DEF History!Follows, History!EXECUTION_TRANSITIONS, History!ExecutionStatus, History!Terminal
<1> QED
  BY <1>2, <1>3, <1>5, <1>7, <1>8, <1>9, <1>10 DEF Evolves, Sound, Told, moved

\* request_cancel(): the intent is noted, the status stays.
LEMMA RequestCancelEvolves ==
    ASSUME NEW old \in Aggregate, Sound(old), CanRequestCancel(old)
    PROVE  Evolves(RequestCancel(old), old)
<1> DEFINE asked == RequestCancel(old)
           told == Emit(old, old.exec.status)
<1>1. old.exec \in Execution /\ old.exec.status \in ExecutionStatus /\ Len(old.attempts) \in Nat
  BY Parts
<1>2. asked \in Aggregate /\ asked.store = old.store
  BY RequestCancelAdvances DEF Advances
<1>3. /\ told \in Aggregate /\ told.exec = [old.exec EXCEPT !.version = @ + 1]
      /\ told.attempts = old.attempts
  BY <1>1, EmitType
<1>4. told.events = Append(old.events, Told(old.exec, old.exec.status))
  BY DEF Emit, Aggregate, Told
<1>5. /\ asked.exec = [told.exec EXCEPT !.cancelReq = TRUE]
      /\ asked.attempts = told.attempts /\ asked.events = told.events
  BY <1>3 DEF RequestCancel, Aggregate
<1> HIDE DEF asked, told
<1>6. /\ asked.exec.version = old.exec.version + 1 /\ asked.exec.status = old.exec.status
      /\ asked.exec.attemptNo = old.exec.attemptNo /\ asked.exec.lease = old.exec.lease
      /\ asked.exec.suspended = old.exec.suspended /\ asked.exec.cancelReq
  BY <1>1, <1>3, <1>5 DEF Execution
<1>7. Sound(asked)
  BY <1>3, <1>5, <1>6 DEF Sound, OpenExactlyWhileRunning, FailuresAreLast, HoldsLease
<1>8. KeepsAttempts(asked.attempts, old.attempts)
  BY <1>1, <1>3, <1>5 DEF KeepsAttempts
<1>9. History!Follows(old.exec.status, old.exec.status)
  BY DEF CanRequestCancel, History!Follows, History!Terminal, Terminal
<1> QED
  BY <1>2, <1>4, <1>5, <1>6, <1>7, <1>8, <1>9 DEF Evolves, Told, asked

\* heartbeat(): a longer lease is no event.
LEMMA HeartbeatCarries ==
    ASSUME NEW old \in Aggregate, Sound(old), NEW t \in Nat, HoldsLease(old.exec)
    PROVE  Carries(Heartbeat(old, t), old)
<1> DEFINE kept == Heartbeat(old, t)
<1>1. kept \in Aggregate /\ kept.store = old.store
  BY HeartbeatType
<1>2. /\ kept.attempts = old.attempts /\ kept.events = old.events
      /\ kept.exec = [old.exec EXCEPT !.lease.expires = t + Ttl]
  BY DEF Heartbeat, Aggregate
<1> HIDE DEF kept
<1>3. old.exec \in Execution /\ old.exec.lease \in Lease
  BY Parts
<1>4. /\ kept.exec.version = old.exec.version /\ kept.exec.status = old.exec.status
      /\ kept.exec.attemptNo = old.exec.attemptNo /\ kept.exec.suspended = old.exec.suspended
      /\ kept.exec.cancelReq = old.exec.cancelReq /\ kept.exec.lease.expires = t + Ttl
  BY <1>2, <1>3 DEF Execution, Lease
<1>5. HoldsLease(kept.exec)
  BY <1>4, DomainAssumption DEF HoldsLease, NoLease
<1>6. Sound(kept)
  BY <1>2, <1>4, <1>5 DEF Sound, OpenExactlyWhileRunning, FailuresAreLast
<1>7. ASSUME NEW row \in Database, Continues(old, row)
      PROVE  Continues(kept, row)
  <2> DEFINE log == row.outbox \o old.events
  <2>1. Story(log, old.exec) /\ row.outbox \o kept.events = log
    BY <1>2, <1>7 DEF Continues
  <2> HIDE DEF log
  <2>2. Story(row.outbox \o kept.events, kept.exec)
    BY <1>4, <2>1 DEF Story
  <2> QED
    BY <1>2, <1>4, <1>7, <2>2 DEF Continues
<1> QED
  BY <1>1, <1>6, <1>7 DEF Carries, kept

\* claim().
LEMMA ClaimCarries ==
    ASSUME NEW agg \in Aggregate, Sound(agg), NEW t \in Nat, CanClaim(agg)
    PROVE  Carries(Claim(agg, t), agg)
<1>1. agg.exec \in Execution /\ agg.exec.status = "PENDING" /\ Len(agg.attempts) \in Nat
  BY Parts DEF CanClaim
<1>2. agg.exec = [agg.exec EXCEPT !.lease = NoLease]
  BY <1>1 DEF Sound, OpenExactlyWhileRunning, HoldsLease, Execution
<1>3. \A i \in 1 .. Len(agg.attempts) : agg.attempts[i] # "RUNNING"
  BY <1>1 DEF Sound, OpenExactlyWhileRunning
<1>4. Evolves(OpenAttempt(agg, t), agg)
  BY <1>1, <1>2, <1>3, OpenAttemptEvolves
<1> QED
  BY <1>4, EvolvesCarries DEF Claim

\* recover().
LEMMA RecoverCarries ==
    ASSUME NEW agg \in Aggregate, Sound(agg), NEW t \in Nat, CanRecover(agg)
    PROVE  Carries(Recover(agg, t), agg)
<1>1. "CANCELLED" \in AttemptStatus /\ OpenExactlyWhileRunning(agg) /\ agg.exec.status = "STALE"
  BY DEF AttemptStatus, Sound, CanRecover
<1>2. Evolves(OpenAttempt(CloseAttempt(agg, "CANCELLED"), t), agg)
  BY <1>1, CloseAttemptParts, OpenAttemptEvolves
<1> QED
  BY <1>2, EvolvesCarries DEF Recover

\* complete(), on an execution that runs.
LEMMA SucceedCarries ==
    ASSUME NEW agg \in Aggregate, Sound(agg), agg.exec.status = "RUNNING"
    PROVE  Carries(Succeed(agg), agg)
<1>1. Evolves(Transition(CloseAttempt(agg, "SUCCEEDED"), "COMPLETED"), agg)
  BY EndAttemptEvolves DEF AttemptStatus, ExecutionStatus, Terminal, EXECUTION_TRANSITIONS
<1> QED
  BY <1>1, EvolvesCarries DEF Succeed

\* fail(): another attempt is granted only below the limit.
LEMMA FailCarries ==
    ASSUME NEW agg \in Aggregate, Sound(agg), agg.exec.status = "RUNNING",
           NEW retryable \in BOOLEAN
    PROVE  Carries(Fail(agg, retryable), agg)
<1> DEFINE again == Transition(CloseAttempt(agg, "FAILED"), "PENDING")
<1>1. CASE ShouldRetry(agg, retryable)
  <2>1. /\ Len(agg.attempts) \in Nat /\ MaxAttempts \in Nat
        /\ Len(agg.attempts) < MaxAttempts
    BY <1>1, Parts, DomainAssumption DEF ShouldRetry, Sound, OpenExactlyWhileRunning
  <2>2. Evolves(again, agg)
    <3>1. /\ "PENDING" \in EXECUTION_TRANSITIONS[agg.exec.status]
          /\ "PENDING" \in ExecutionStatus \ {"RUNNING", "STALE"}
          /\ "FAILED" \in AttemptStatus \ {"RUNNING"}
      BY DEF AttemptStatus, ExecutionStatus, EXECUTION_TRANSITIONS
    <3>2. ~ (Len(agg.attempts) >= MaxAttempts)
      BY <2>1
    <3> QED
      BY <3>1, <3>2, EndAttemptEvolves
  <2> HIDE DEF again
  <2>3. Carries(again, agg) /\ again \in Aggregate
    BY <2>2, EvolvesCarries DEF Evolves
  <2> DEFINE counted == [again EXCEPT !.retries = @ + 1]
  <2>4. /\ counted \in Aggregate /\ counted.exec = again.exec /\ counted.attempts = again.attempts
        /\ counted.events = again.events /\ counted.store = again.store
    <3>1. again.retries + 1 \in Nat
      BY <2>3 DEF Aggregate
    <3> QED
      BY <2>3, <3>1 DEF Aggregate
  <2>5. Fail(agg, retryable) = counted
    BY <1>1 DEF Fail, again
  <2> HIDE DEF counted
  <2>6. Sound(counted)
    BY <2>3, <2>4 DEF Carries, Sound, OpenExactlyWhileRunning, FailuresAreLast
  <2>7. \A row \in Database : Continues(again, row) => Continues(counted, row)
    BY <2>4 DEF Continues
  <2> QED
    BY <2>3, <2>4, <2>5, <2>6, <2>7 DEF Carries
<1>2. CASE ~ ShouldRetry(agg, retryable)
  <2>1. Evolves(Transition(CloseAttempt(agg, "FAILED"), "FAILED"), agg)
    BY EndAttemptEvolves DEF AttemptStatus, ExecutionStatus, Terminal, EXECUTION_TRANSITIONS
  <2> QED
    BY <1>2, <2>1, EvolvesCarries DEF Fail
<1> QED
  BY <1>1, <1>2

\* suspend().
LEMMA SuspendCarries ==
    ASSUME NEW agg \in Aggregate, Sound(agg), CanSuspend(agg)
    PROVE  Carries(Suspend(agg), agg)
<1>1. Evolves(Transition(CloseAttempt(agg, "CANCELLED"), "SUSPENDED"), agg)
  BY EndAttemptEvolves
  DEF CanSuspend, AttemptStatus, ExecutionStatus, Terminal, EXECUTION_TRANSITIONS
<1> QED
  BY <1>1, EvolvesCarries DEF Suspend

\* cancel().
LEMMA CancelCarries ==
    ASSUME NEW agg \in Aggregate, Sound(agg), CanCancel(agg)
    PROVE  Carries(Cancel(agg), agg)
<1>1. Evolves(Transition(CloseAttempt(agg, "CANCELLED"), "CANCELLED"), agg)
  BY EndAttemptEvolves DEF CanCancel, Legal, AttemptStatus, ExecutionStatus, Terminal
<1> QED
  BY <1>1, EvolvesCarries DEF Cancel

\* wakeup().
LEMMA WakeupCarries ==
    ASSUME NEW agg \in Aggregate, Sound(agg), CanWakeup(agg)
    PROVE  Carries(Wakeup(agg), agg)
<1>1. Evolves(Transition(agg, "PENDING"), agg)
  BY TransitionEvolves DEF CanWakeup
<1> QED
  BY <1>1, EvolvesCarries DEF Wakeup

\* expire_lease().
LEMMA ExpireLeaseCarries ==
    ASSUME NEW agg \in Aggregate, Sound(agg), NEW t \in Nat, CanExpireLease(agg, t)
    PROVE  Carries(ExpireLease(agg), agg)
<1> DEFINE freed == [agg EXCEPT !.exec.lease = NoLease]
<1>1. agg.exec.status = "RUNNING" /\ agg.exec \in Execution /\ NoLease \in Lease
  BY Parts DEF CanExpireLease, Sound, OpenExactlyWhileRunning, NoLease, Lease
<1>2. [agg.exec EXCEPT !.lease = NoLease] \in Execution
  BY <1>1 DEF Execution
<1>3. freed \in Aggregate /\ ~ HoldsLease(freed.exec)
  BY <1>1, <1>2 DEF Aggregate, HoldsLease, Execution
<1>4. Evolves(Transition(freed, "STALE"), agg)
  BY <1>1, <1>3, TransitionEvolves
<1> QED
  BY <1>4, EvolvesCarries DEF ExpireLease

\* request_cancel().
LEMMA RequestCancelCarries ==
    ASSUME NEW agg \in Aggregate, Sound(agg), CanRequestCancel(agg)
    PROVE  Carries(RequestCancel(agg), agg)
BY RequestCancelEvolves, EvolvesCarries

\* One after the other.
LEMMA CarriesTransitive ==
    ASSUME NEW a, NEW b, NEW c, Carries(a, b), Carries(b, c)
    PROVE  Carries(a, c)
BY DEF Carries

-----------------------------------------------------------------------------
(* Saving, reading and submitting. *)

\* What is written when the aggregate goes on where the row stops.
LEMMA WrittenParts ==
    ASSUME NEW row \in Database, NEW agg \in Aggregate, Len(agg.attempts) >= Len(row.attempts)
    PROVE  /\ Written(row, agg) \in Database
           /\ Written(row, agg).exec = agg.exec
           /\ Written(row, agg).attempts = agg.attempts
           /\ Written(row, agg).outbox = row.outbox \o agg.events
<1>1. /\ agg.attempts \in Seq(AttemptStatus) /\ Len(agg.attempts) \in Nat
      /\ Len(row.attempts) \in Nat
  BY Parts
<1>2. SubSeq(row.attempts, Len(agg.attempts) + 1, Len(row.attempts)) = <<>>
  <2>1. Len(row.attempts) < Len(agg.attempts) + 1 /\ Len(agg.attempts) + 1 \in Int
        /\ Len(row.attempts) \in Int
    BY <1>1
  <2> QED
    BY <2>1, SubSeqEmpty
<1>3. agg.attempts \o <<>> = agg.attempts
  BY <1>1, ConcatEmptySeq
<1>4. Upsert(row.attempts, agg.attempts) = agg.attempts
  BY <1>2, <1>3, Zenon DEF Upsert
<1>5. Written(row, agg) \in Database
  BY WrittenType
<1> QED
  BY <1>4, <1>5 DEF Written

\* A save tells the truth, undoes nothing, and leaves an aggregate in memory that
\* goes on where the new row stops.
LEMMA SaveIsHonest ==
    ASSUME NEW row \in Database, NEW agg \in Aggregate, Sound(agg), Continues(agg, row)
    PROVE  /\ Written(row, agg) \in Database
           /\ Written(row, agg).exec = agg.exec
           /\ Honest(Written(row, agg))
           /\ Later(Written(row, agg), row)
           /\ Sound(Flushed(agg))
           /\ Continues(Flushed(agg), Written(row, agg))
<1> DEFINE new == Written(row, agg)
           log == row.outbox \o agg.events
<1>1. /\ row.outbox \in Seq(Event) /\ agg.events \in Seq(Event)
      /\ agg.attempts \in Seq(AttemptStatus) /\ Len(agg.attempts) \in Nat
      /\ Len(row.outbox) \in Nat /\ Len(agg.events) \in Nat
  BY Parts
<1>2. Len(agg.attempts) >= Len(row.attempts)
  BY DEF Continues, KeepsAttempts
<1>3. /\ new \in Database /\ new.exec = agg.exec /\ new.attempts = agg.attempts
      /\ new.outbox = log
  BY <1>2, WrittenParts
<1>4. Story(log, agg.exec)
  BY DEF Continues
<1>5. /\ log \in Seq(Event) /\ Len(log) >= Len(row.outbox)
      /\ \A i \in 1 .. Len(row.outbox) : log[i] = row.outbox[i]
  <2>1. \A r, s \in Seq(Event) :
          /\ r \o s \in Seq(Event) /\ Len(r \o s) >= Len(r)
          /\ \A i \in 1 .. Len(r) : (r \o s)[i] = r[i]
    <3>1. ASSUME NEW r \in Seq(Event), NEW s \in Seq(Event)
          PROVE  /\ r \o s \in Seq(Event) /\ Len(r \o s) >= Len(r)
                 /\ \A i \in 1 .. Len(r) : (r \o s)[i] = r[i]
      <4>1. Len(r) \in Nat /\ Len(s) \in Nat
        BY LenProperties
      <4>2. \A i \in 1 .. Len(r) : i \in 1 .. Len(r) + Len(s) /\ i <= Len(r)
        BY <4>1
      <4> QED
        BY <4>1, <4>2, ConcatProperties
    <3> QED
      BY <3>1
  <2> QED
    BY <1>1, <2>1, Zenon
<1>6. log \o <<>> = log
  BY <1>5, ConcatEmptySeq
<1>7. /\ Flushed(agg).exec = agg.exec /\ Flushed(agg).attempts = agg.attempts
      /\ Flushed(agg).events = <<>>
  BY DEF Flushed, Aggregate
<1> HIDE DEF new, log
<1>8. Honest(new)
  BY <1>3, <1>4 DEF Honest, Sound, OpenExactlyWhileRunning, FailuresAreLast
<1>9. Later(new, row)
  <2>1. (row.exec.cancelReq => agg.exec.cancelReq) /\ KeepsAttempts(agg.attempts, row.attempts)
    BY DEF Continues
  <2>2. Len(new.outbox) >= Len(row.outbox)
    BY <1>3, <1>5, Zenon
  <2>3. \A i \in 1 .. Len(row.outbox) : new.outbox[i] = row.outbox[i]
    BY <1>3, <1>5, Zenon
  <2> QED
    BY <1>3, <2>1, <2>2, <2>3, Zenon DEF Later
<1>10. Sound(Flushed(agg))
  BY <1>7 DEF Sound, OpenExactlyWhileRunning, FailuresAreLast
<1>11. Continues(Flushed(agg), new)
  <2>1. KeepsAttempts(agg.attempts, agg.attempts)
    BY <1>1 DEF KeepsAttempts
  <2>2. new.outbox \o Flushed(agg).events = log
    BY <1>3, <1>6, <1>7
  <2> QED
    BY <1>3, <1>4, <1>7, <2>1, <2>2 DEF Continues
<1> QED
  BY <1>3, <1>8, <1>9, <1>10, <1>11 DEF new

\* A copy read from an honest row goes on where the row stops.
LEMMA ReadIsHonest ==
    ASSUME NEW row \in Database, Honest(row), Exists(row)
    PROVE  Sound(FromRow(row)) /\ Continues(FromRow(row), row)
<1>1. /\ FromRow(row).exec = row.exec /\ FromRow(row).attempts = row.attempts
      /\ FromRow(row).events = <<>>
  BY DEF FromRow, NoAggregate
<1>2. row.outbox \in Seq(Event) /\ Len(row.attempts) \in Nat
  BY Parts
<1>3. row.outbox \o <<>> = row.outbox
  BY <1>2, ConcatEmptySeq
<1>4. Sound(FromRow(row))
  BY <1>1 DEF Honest, Sound, OpenExactlyWhileRunning, FailuresAreLast
<1>5. KeepsAttempts(row.attempts, row.attempts)
  BY <1>2 DEF KeepsAttempts
<1>6. Story(row.outbox \o FromRow(row).events, row.exec)
  BY <1>1, <1>3 DEF Honest
<1> QED
  BY <1>1, <1>4, <1>5, <1>6 DEF Continues, Exists

\* Nothing stored and nothing loaded is honest.
LEMMA NothingIsHonest == Honest(NoRow) /\ Sound(NoAggregate)
<1>1. Len(<<>>) = 0
  BY EmptySeq
<1>2. /\ NoRow.exec = NoExecution /\ NoRow.attempts = <<>> /\ NoRow.outbox = <<>>
      /\ NoAggregate.exec = NoExecution /\ NoAggregate.attempts = <<>>
  BY DEF NoRow, NoAggregate
<1>3. /\ NoExecution.version = 0 /\ NoExecution.attemptNo = 0 /\ NoExecution.lease = NoLease
      /\ NoExecution.status = "PENDING" /\ ~ NoExecution.suspended
  BY DEF NoExecution
<1>4. Sound(NoRow) /\ Sound(NoAggregate)
  BY <1>1, <1>2, <1>3 DEF Sound, OpenExactlyWhileRunning, FailuresAreLast, HoldsLease
<1>5. Story(NoRow.outbox, NoRow.exec)
  BY <1>1, <1>2, <1>3 DEF Story
<1> QED
  BY <1>4, <1>5 DEF Honest

\* submit(): what is inserted continues the empty row, a gate's three events too.
LEMMA OpenedIsHonest ==
    ASSUME NEW isGate \in BOOLEAN, now \in Nat
    PROVE  Sound(Opened(isGate)) /\ Continues(Opened(isGate), NoRow)
<1> DEFINE first == [version |-> 1, to |-> "PENDING"]
<1>1. /\ NewExecution \in Aggregate /\ NoRow \in Database /\ CanClaim(NewExecution)
  BY NewExecutionType, RowTypes
<1>2. /\ NewExecution.exec = [NoExecution EXCEPT !.version = 1]
      /\ NewExecution.attempts = <<>> /\ NewExecution.events = <<first>>
  BY DEF NewExecution, NoAggregate
<1>3. /\ NoRow.attempts = <<>> /\ NoRow.outbox = <<>> /\ ~ NoRow.exec.cancelReq
      /\ Len(<<>>) = 0
  BY EmptySeq DEF NoRow, NoExecution
<1>4. /\ NewExecution.exec.version = 1 /\ NewExecution.exec.attemptNo = 0
      /\ NewExecution.exec.lease = NoLease /\ NewExecution.exec.status = "PENDING"
      /\ ~ NewExecution.exec.suspended
  BY <1>2 DEF NoExecution
<1>5. Sound(NewExecution)
  BY <1>2, <1>3, <1>4 DEF Sound, OpenExactlyWhileRunning, FailuresAreLast, HoldsLease
<1>6. Continues(NewExecution, NoRow)
  <2>1. <<first>> \in Seq(Event) /\ Len(<<first>>) = 1 /\ <<first>>[1] = first
    BY DEF Event, ExecutionStatus
  <2>2. <<>> \o <<first>> = <<first>>
    BY <2>1, ConcatEmptySeq
  <2>3. NoRow.outbox \o NewExecution.events = <<first>>
    BY <1>2, <1>3, <2>2
  <2>4. first.version = 1 /\ first.to = "PENDING"
    OBVIOUS
  <2> HIDE DEF first
  <2>5. Story(<<first>>, NewExecution.exec)
    BY <1>4, <2>1, <2>4 DEF Story
  <2>6. KeepsAttempts(NewExecution.attempts, NoRow.attempts)
    BY <1>2, <1>3 DEF KeepsAttempts
  <2> QED
    BY <1>3, <1>4, <2>3, <2>5, <2>6 DEF Continues
<1>7. CASE ~ isGate
  BY <1>5, <1>6, <1>7 DEF Opened
<1>8. CASE isGate
  <2> DEFINE claimed == Claim(NewExecution, now)
  <2>1. Carries(claimed, NewExecution) /\ claimed.exec.status = "RUNNING"
    BY <1>1, <1>5, ClaimCarries, ClaimAdvances
  <2> HIDE DEF claimed
  <2>2. claimed \in Aggregate /\ Sound(claimed) /\ CanSuspend(claimed)
    BY <2>1 DEF Carries, CanSuspend
  <2>3. Carries(Suspend(claimed), claimed)
    BY <2>2, SuspendCarries
  <2> QED
    BY <1>1, <1>6, <1>8, <2>1, <2>3 DEF Carries, Opened, claimed
<1> QED
  BY <1>7, <1>8

-----------------------------------------------------------------------------
(* The invariants, and the forms a step can take. *)

\* What memory and transaction of one process say.
TellsTruth(p) ==
    /\ Sound(cache[p])
    /\ HasWritten(p) => Honest(tx[p]) /\ Later(tx[p], db)
    /\ Loaded(p) /\ cache[p].store = View(p).exec.version => Continues(cache[p], View(p))

Truthful ==
    /\ Honest(db)
    /\ ~ Exists(db) => db = NoRow
    /\ \A p \in Procs : TellsTruth(p)

\* An API process that holds a terminal copy sees a terminal row, and so does one
\* whose decision is about to be committed.
Stands(p) ==
    /\ p \in Apis /\ Loaded(p) /\ cache[p].exec.status \in Terminal
       => View(p).exec.status \in Terminal
    /\ phase[p] = "decided" => View(p).exec.status \in Terminal

DecisionsStand == \A p \in Procs : Stands(p)

\* Where a process is while it has something to do.
Busy == Phases \ {"idle"}

\* Nothing happens to any process.
Idles == UNCHANGED <<db, tx, cache, phase>>

\* The process moves on in its tick.
Turns(p) ==
    /\ UNCHANGED <<db, tx, cache>>
    /\ \E next \in Busy :
         /\ phase' = [phase EXCEPT ![p] = next]
         /\ next = "decided" => p \in Apis /\ Loaded(p) /\ cache[p].exec.status \in Terminal

\* It reads the row.
LoadsRow(p) ==
    /\ ~ HasWritten(p) /\ ~ Loaded(p) /\ Exists(db)
    /\ cache' = [cache EXCEPT ![p] = FromRow(db)]
    /\ UNCHANGED <<db, tx, phase>>

\* It saves what an operation made of its copy.
Stores(p) ==
    \E agg \in Aggregate, next \in Busy :
        /\ Loaded(p) /\ CanSave(p, agg) /\ Carries(agg, cache[p])
        /\ tx' = [tx EXCEPT ![p] = Written(View(p), agg)]
        /\ cache' = [cache EXCEPT ![p] = Flushed(agg)]
        /\ phase' = [phase EXCEPT ![p] = next]
        /\ next = "decided" => agg.exec.status \in Terminal
        /\ UNCHANGED db

\* Its tick fails before it has written anything; a copy that an operation has
\* changed may stay in memory.
Drops(p) ==
    \E agg \in Aggregate :
        /\ ~ HasWritten(p) /\ phase[p] # "decided"
        /\ \/ agg = NoAggregate
           \/ agg = cache[p]
           \/ /\ Loaded(p) /\ Carries(agg, cache[p])
              /\ p \in Apis => agg.exec.status \notin Terminal
        /\ tx' = [tx EXCEPT ![p] = NoRow]
        /\ cache' = [cache EXCEPT ![p] = agg]
        /\ phase' = [phase EXCEPT ![p] = "idle"]
        /\ UNCHANGED db

\* It inserts the row.
Inserts(p) ==
    \E isGate \in BOOLEAN, next \in {"done", "picked"} :
        /\ ~ Exists(db) /\ \A q \in Procs : ~ HasWritten(q)
        /\ tx' = [tx EXCEPT ![p] = Written(NoRow, Opened(isGate))]
        /\ cache' = [cache EXCEPT ![p] = Flushed(Opened(isGate))]
        /\ phase' = [phase EXCEPT ![p] = next]
        /\ UNCHANGED db

\* Whatever a process does to the tables and to its copy has one of these forms.
Forms(p) ==
    \/ Idles \/ Turns(p) \/ LoadsRow(p) \/ Stores(p) \/ Drops(p) \/ Inserts(p)
    \/ Commit(p) \/ Crash(p)

-----------------------------------------------------------------------------
(* Every form keeps the invariants. *)

\* A process that nothing happens to goes on telling the truth.
LEMMA OthersTell ==
    ASSUME NEW q \in Procs, TellsTruth(q), db' = db, tx'[q] = tx[q], cache'[q] = cache[q]
    PROVE  TellsTruth(q)'
BY DEF TellsTruth, HasWritten, Exists, View, Loaded

\* What a save leaves behind.
LEMMA StoresTruthful ==
    ASSUME TypeOK, Coherent, Truthful, NEW p \in Procs, Stores(p)
    PROVE  Truthful'
<1>1. PICK agg \in Aggregate :
        /\ Loaded(p) /\ CanSave(p, agg) /\ Carries(agg, cache[p])
        /\ tx' = [tx EXCEPT ![p] = Written(View(p), agg)]
        /\ cache' = [cache EXCEPT ![p] = Flushed(agg)]
        /\ UNCHANGED db
  BY DEF Stores
<1> DEFINE row == View(p)
<1>2. row \in Database /\ db \in Database
  BY RowTypes DEF TypeOK
<1>3. Continues(cache[p], row) /\ TellsTruth(p)
  BY <1>1 DEF Carries, CanSave, Truthful, TellsTruth
<1>4. Continues(agg, row) /\ Sound(agg)
  BY <1>1, <1>2, <1>3 DEF Carries
<1> DEFINE new == Written(row, agg)
<1>5. /\ new \in Database /\ new.exec = agg.exec /\ Honest(new) /\ Later(new, row)
      /\ Sound(Flushed(agg)) /\ Continues(Flushed(agg), new)
  BY <1>2, <1>4, SaveIsHonest
<1>6. new.exec.version > 0
  BY <1>4, <1>5 DEF Continues
<1>7. tx'[p] = new /\ cache'[p] = Flushed(agg)
  BY <1>1 DEF TypeOK
<1>8. \A q \in Procs \ {p} : tx'[q] = tx[q] /\ cache'[q] = cache[q]
  BY <1>1 DEF TypeOK
<1>9. Later(new, db)
  <2>1. CASE HasWritten(p)
    <3>1. row = tx[p] /\ Later(tx[p], db)
      BY <1>3, <2>1, ViewOf DEF TellsTruth
    <3> HIDE DEF row, new
    <3> QED
      BY <1>2, <1>5, <3>1, LaterTransitive
  <2>2. CASE ~ HasWritten(p)
    <3>1. row = db
      BY <2>2, ViewOf
    <3> QED
      BY <1>5, <3>1
  <2> QED
    BY <2>1, <2>2
<1> HIDE DEF new, row
<1>10. TellsTruth(p)'
  <2>1. HasWritten(p)' /\ View(p)' = new
    BY <1>6, <1>7 DEF HasWritten, Exists, View
  <2> QED
    BY <1>1, <1>5, <1>7, <1>9, <2>1 DEF TellsTruth
<1> QED
  BY <1>1, <1>8, <1>10, OthersTell DEF Truthful, Exists

\* The copy that is left after a tick without a write is as good as before.
LEMMA DropsTruthful ==
    ASSUME TypeOK, Truthful, NEW p \in Procs, Drops(p)
    PROVE  Truthful'
<1>1. PICK agg \in Aggregate :
        /\ ~ HasWritten(p)
        /\ agg = NoAggregate \/ agg = cache[p] \/ Carries(agg, cache[p])
        /\ Loaded(p) \/ agg = NoAggregate \/ agg = cache[p]
        /\ tx' = [tx EXCEPT ![p] = NoRow]
        /\ cache' = [cache EXCEPT ![p] = agg]
        /\ UNCHANGED db
  BY DEF Drops
<1>2. tx'[p] = NoRow /\ cache'[p] = agg
      /\ \A q \in Procs \ {p} : tx'[q] = tx[q] /\ cache'[q] = cache[q]
  BY <1>1 DEF TypeOK
<1>3. ~ HasWritten(p)' /\ View(p)' = db /\ View(p) = db
  BY <1>1, <1>2, ViewOf DEF HasWritten, Exists, View, NoRow, NoExecution
<1>4. TellsTruth(p) /\ db \in Database
  BY DEF Truthful, TypeOK
<1>5. Sound(agg)
  BY <1>1, <1>4, NothingIsHonest DEF TellsTruth, Carries
<1>6. ASSUME agg.store > 0, agg.store = db.exec.version
      PROVE  Continues(agg, db)
  <2>1. CASE agg = NoAggregate
    BY <1>6, <2>1 DEF NoAggregate
  <2>2. CASE agg = cache[p]
    BY <1>3, <1>4, <1>6, <2>2 DEF TellsTruth, Loaded
  <2>3. CASE Loaded(p) /\ Carries(agg, cache[p])
    BY <1>3, <1>4, <1>6, <2>3 DEF TellsTruth, Carries
  <2> QED
    BY <1>1, <2>1, <2>2, <2>3
<1>7. TellsTruth(p)'
  BY <1>2, <1>3, <1>5, <1>6 DEF TellsTruth, Loaded
<1> QED
  BY <1>1, <1>2, <1>7, OthersTell DEF Truthful, Exists

\* The first row.
LEMMA InsertsTruthful ==
    ASSUME TypeOK, Truthful, NEW p \in Procs, Inserts(p)
    PROVE  Truthful'
<1>1. PICK isGate \in BOOLEAN :
        /\ ~ Exists(db)
        /\ tx' = [tx EXCEPT ![p] = Written(NoRow, Opened(isGate))]
        /\ cache' = [cache EXCEPT ![p] = Flushed(Opened(isGate))]
        /\ UNCHANGED db
  BY DEF Inserts
<1> DEFINE agg == Opened(isGate)
           new == Written(NoRow, agg)
<1>2. agg \in Aggregate /\ NoRow \in Database /\ db \in Database
  BY OpenedExists, RowTypes DEF TypeOK
<1>3. Sound(agg) /\ Continues(agg, NoRow)
  BY OpenedIsHonest DEF TypeOK
<1> HIDE DEF agg
<1>4. /\ new \in Database /\ new.exec = agg.exec /\ Honest(new) /\ Sound(Flushed(agg))
      /\ Continues(Flushed(agg), new) /\ Later(new, NoRow)
  BY <1>2, <1>3, SaveIsHonest
<1>5. new.exec.version > 0
  BY <1>3, <1>4 DEF Continues
<1> HIDE DEF new
<1>6. Later(new, db)
  BY <1>1, <1>4 DEF Truthful
<1>7. tx'[p] = new /\ cache'[p] = Flushed(agg)
      /\ \A q \in Procs \ {p} : tx'[q] = tx[q] /\ cache'[q] = cache[q]
  BY <1>1 DEF TypeOK, new, agg
<1>8. HasWritten(p)' /\ View(p)' = new
  BY <1>5, <1>7 DEF HasWritten, Exists, View
<1>9. TellsTruth(p)'
  BY <1>1, <1>4, <1>6, <1>7, <1>8 DEF TellsTruth
<1> QED
  BY <1>1, <1>7, <1>9, OthersTell DEF Truthful, Exists

\* A commit makes the row of one process everybody's row; a copy that was as new
\* as the old row is out of date now.
LEMMA CommitTruthful ==
    ASSUME TypeOK, Coherent, Truthful, NEW p \in Procs, Commit(p)
    PROVE  Truthful'
<1>1. db' = View(p) /\ tx' = [tx EXCEPT ![p] = NoRow] /\ cache' = cache
  BY DEF Commit
<1>2. tx'[p] = NoRow /\ \A q \in Procs \ {p} : tx'[q] = tx[q]
  BY <1>1 DEF TypeOK
<1>3. ~ HasWritten(p)' /\ View(p)' = db'
  BY <1>2 DEF HasWritten, Exists, View, NoRow, NoExecution
<1>4. TellsTruth(p)'
  BY <1>1, <1>3 DEF Truthful, TellsTruth, Loaded
<1>5. CASE HasWritten(p)
  <2>1. /\ db' = tx[p] /\ db.exec.version < db'.exec.version /\ Honest(db')
        /\ \A q \in Procs \ {p} : ~ HasWritten(q)
    BY <1>1, <1>5, ViewOf, CoherentParts DEF Truthful, TellsTruth
  <2>2. ASSUME NEW q \in Procs \ {p}
        PROVE  TellsTruth(q)'
    <3>1. ~ HasWritten(q)' /\ View(q)' = db' /\ ~ HasWritten(q) /\ View(q) = db
      BY <1>2, <2>1, ViewOf DEF HasWritten, Exists, View
    <3>2. Loaded(q) => cache[q].store <= db.exec.version
      BY <3>1, CoherentParts DEF IsBehind, Loaded
    <3>3. cache[q].store \in Nat /\ db.exec.version \in Nat /\ db'.exec.version \in Nat
      BY <2>1, Parts DEF TypeOK
    <3>4. ~ (Loaded(q)' /\ cache'[q].store = View(q)'.exec.version)
      BY <1>1, <2>1, <3>1, <3>2, <3>3 DEF Loaded
    <3>5. Sound(cache'[q])
      BY <1>1 DEF Truthful, TellsTruth
    <3> QED
      BY <3>1, <3>4, <3>5 DEF TellsTruth
  <2>3. Exists(db)'
    BY <1>5, <2>1 DEF HasWritten, Exists
  <2> QED
    BY <1>4, <2>1, <2>2, <2>3 DEF Truthful
<1>6. CASE ~ HasWritten(p)
  <2>1. db' = db
    BY <1>1, <1>6, ViewOf
  <2>2. \A q \in Procs \ {p} : TellsTruth(q)'
    BY <1>1, <1>2, <2>1, OthersTell DEF Truthful
  <2> QED
    BY <1>4, <2>1, <2>2 DEF Truthful, Exists
<1> QED
  BY <1>5, <1>6

\* A crash leaves no copy behind.
LEMMA CrashTruthful ==
    ASSUME TypeOK, Truthful, NEW p \in Procs, Crash(p)
    PROVE  Truthful'
<1>1. /\ tx' = [tx EXCEPT ![p] = NoRow] /\ cache' = [cache EXCEPT ![p] = NoAggregate]
      /\ db' = db
  BY DEF Crash
<1>2. tx'[p] = NoRow /\ cache'[p] = NoAggregate
      /\ \A q \in Procs \ {p} : tx'[q] = tx[q] /\ cache'[q] = cache[q]
  BY <1>1 DEF TypeOK
<1>3. TellsTruth(p)'
  BY <1>2, NothingIsHonest
  DEF TellsTruth, HasWritten, Exists, Loaded, NoRow, NoExecution, NoAggregate
<1> QED
  BY <1>1, <1>2, <1>3, OthersTell DEF Truthful, Exists

\* A copy just read is the row.
LEMMA LoadsTruthful ==
    ASSUME TypeOK, Truthful, NEW p \in Procs, LoadsRow(p)
    PROVE  Truthful'
<1>1. /\ cache' = [cache EXCEPT ![p] = FromRow(db)] /\ UNCHANGED <<db, tx>>
      /\ ~ HasWritten(p) /\ Exists(db)
  BY DEF LoadsRow
<1>2. cache'[p] = FromRow(db) /\ \A q \in Procs \ {p} : cache'[q] = cache[q]
  BY <1>1 DEF TypeOK
<1>3. Sound(FromRow(db)) /\ Continues(FromRow(db), db)
  BY <1>1, ReadIsHonest DEF TypeOK, Truthful
<1>4. ~ HasWritten(p)' /\ View(p)' = db
  BY <1>1 DEF HasWritten, View
<1>5. TellsTruth(p)'
  BY <1>2, <1>3, <1>4 DEF TellsTruth
<1> QED
  BY <1>1, <1>2, <1>5, OthersTell DEF Truthful, Exists

\* Whatever form a step has, the truth is told after it.
LEMMA FormsTruthful ==
    ASSUME TypeOK, Coherent, Truthful, NEW p \in Procs, Forms(p)
    PROVE  Truthful'
<1>1. CASE Idles \/ Turns(p)
  BY <1>1, OthersTell DEF Idles, Turns, Truthful, Exists
<1> QED
  BY <1>1, LoadsTruthful, StoresTruthful, DropsTruthful, InsertsTruthful, CommitTruthful,
     CrashTruthful DEF Forms

\* Nothing is told at the start.
LEMMA TruthfulInit == Init => Truthful
<1> SUFFICES ASSUME Init
             PROVE  Truthful
  OBVIOUS
<1>1. db = NoRow /\ \A p \in Procs : tx[p] = NoRow /\ cache[p] = NoAggregate
  BY DEF Init
<1>2. ~ Exists(NoRow) /\ NoAggregate.store = 0
  BY DEF Exists, NoRow, NoExecution, NoAggregate
<1> QED
  BY <1>1, <1>2, NothingIsHonest DEF Truthful, TellsTruth, HasWritten, Loaded

-----------------------------------------------------------------------------
(* Decisions. *)

\* Whatever form a step has, an API process that takes the execution for over is
\* right: its row is terminal, and a terminal row stays.
LEMMA FormsStand ==
    ASSUME TypeOK, Coherent, Truthful, DecisionsStand, NEW p \in Procs, Forms(p)
    PROVE  DecisionsStand'
<1>1. ASSUME NEW q \in Procs, db' = db, tx'[q] = tx[q], cache'[q] = cache[q],
             phase'[q] = phase[q]
      PROVE  Stands(q)'
  BY <1>1 DEF DecisionsStand, Stands, HasWritten, Exists, View, Loaded
<1>2. CASE Idles
  BY <1>1, <1>2 DEF Idles, DecisionsStand
<1>3. CASE Turns(p)
  <2>1. PICK next \in Busy :
          /\ phase' = [phase EXCEPT ![p] = next]
          /\ next = "decided" => p \in Apis /\ Loaded(p) /\ cache[p].exec.status \in Terminal
          /\ UNCHANGED <<db, tx, cache>>
    BY <1>3 DEF Turns
  <2>2. phase'[p] = next /\ \A q \in Procs \ {p} : phase'[q] = phase[q]
    BY <2>1 DEF TypeOK
  <2>3. Stands(p)'
    BY <2>1, <2>2 DEF DecisionsStand, Stands, HasWritten, View, Loaded
  <2> QED
    BY <1>1, <2>1, <2>2, <2>3 DEF DecisionsStand
<1>4. CASE LoadsRow(p)
  <2>1. /\ cache'[p] = FromRow(db) /\ \A q \in Procs \ {p} : cache'[q] = cache[q]
        /\ UNCHANGED <<db, tx, phase>> /\ ~ HasWritten(p)
    BY <1>4 DEF LoadsRow, TypeOK
  <2>2. View(p)' = db /\ View(p) = db /\ FromRow(db).exec = db.exec
    BY <2>1 DEF View, HasWritten, FromRow, NoAggregate
  <2>3. Stands(p)'
    BY <2>1, <2>2 DEF DecisionsStand, Stands
  <2> QED
    BY <1>1, <2>1, <2>3 DEF DecisionsStand
<1>5. CASE Stores(p)
  <2>1. PICK agg \in Aggregate, next \in Busy :
          /\ Loaded(p) /\ CanSave(p, agg) /\ Carries(agg, cache[p])
          /\ tx' = [tx EXCEPT ![p] = Written(View(p), agg)]
          /\ cache' = [cache EXCEPT ![p] = Flushed(agg)]
          /\ phase' = [phase EXCEPT ![p] = next]
          /\ next = "decided" => agg.exec.status \in Terminal
          /\ UNCHANGED db
    BY <1>5 DEF Stores
  <2>2. /\ tx'[p] = Written(View(p), agg) /\ cache'[p] = Flushed(agg) /\ phase'[p] = next
        /\ \A q \in Procs \ {p} : tx'[q] = tx[q] /\ cache'[q] = cache[q] /\ phase'[q] = phase[q]
    BY <2>1 DEF TypeOK
  <2>3. tx'[p].exec = agg.exec /\ cache'[p].exec = agg.exec
    BY <2>2 DEF Written, Flushed, Aggregate
  <2>4. agg.exec.version > 0
    <3>1. View(p) \in Database
      BY RowTypes
    <3>2. Continues(cache[p], View(p))
      BY <2>1 DEF Truthful, TellsTruth, CanSave, Carries
    <3> QED
      BY <2>1, <3>1, <3>2 DEF Carries, Continues
  <2>5. View(p)'.exec = agg.exec
    BY <2>2, <2>3, <2>4 DEF View, HasWritten, Exists
  <2>6. Stands(p)'
    BY <2>1, <2>2, <2>3, <2>5 DEF Stands
  <2> QED
    BY <1>1, <2>1, <2>2, <2>6 DEF DecisionsStand
<1>6. CASE Drops(p)
  <2>1. PICK agg \in Aggregate :
          /\ ~ HasWritten(p)
          /\ \/ agg = NoAggregate
             \/ agg = cache[p]
             \/ p \in Apis => agg.exec.status \notin Terminal
          /\ tx' = [tx EXCEPT ![p] = NoRow]
          /\ cache' = [cache EXCEPT ![p] = agg]
          /\ phase' = [phase EXCEPT ![p] = "idle"]
          /\ UNCHANGED db
    BY <1>6 DEF Drops
  <2>2. /\ tx'[p] = NoRow /\ cache'[p] = agg /\ phase'[p] = "idle"
        /\ \A q \in Procs \ {p} : tx'[q] = tx[q] /\ cache'[q] = cache[q] /\ phase'[q] = phase[q]
    BY <2>1 DEF TypeOK
  <2>3. View(p)' = db /\ View(p) = db
    BY <2>1, <2>2 DEF View, HasWritten, Exists, NoRow, NoExecution
  <2>4. Stands(p)'
    BY <2>1, <2>2, <2>3 DEF DecisionsStand, Stands, Loaded, NoAggregate
  <2> QED
    BY <1>1, <2>1, <2>2, <2>4 DEF DecisionsStand
<1>7. CASE Inserts(p)
  <2>1. PICK isGate \in BOOLEAN, next \in {"done", "picked"} :
          /\ tx' = [tx EXCEPT ![p] = Written(NoRow, Opened(isGate))]
          /\ cache' = [cache EXCEPT ![p] = Flushed(Opened(isGate))]
          /\ phase' = [phase EXCEPT ![p] = next]
          /\ UNCHANGED db
    BY <1>7 DEF Inserts
  <2>2. /\ tx'[p] = Written(NoRow, Opened(isGate)) /\ cache'[p] = Flushed(Opened(isGate))
        /\ phase'[p] = next
        /\ \A q \in Procs \ {p} : tx'[q] = tx[q] /\ cache'[q] = cache[q] /\ phase'[q] = phase[q]
    BY <2>1 DEF TypeOK
  <2>3. /\ Opened(isGate) \in Aggregate /\ Opened(isGate).exec.status \notin Terminal
    BY OpenedExists
  <2>4. cache'[p].exec = Opened(isGate).exec
    BY <2>2, <2>3 DEF Flushed, Aggregate
  <2>5. Stands(p)'
    BY <2>2, <2>3, <2>4 DEF Stands
  <2> QED
    BY <1>1, <2>1, <2>2, <2>5 DEF DecisionsStand
<1>8. CASE Commit(p)
  <2>1. /\ db' = View(p) /\ tx'[p] = NoRow /\ cache' = cache /\ phase'[p] = "idle"
        /\ \A q \in Procs \ {p} : tx'[q] = tx[q] /\ phase'[q] = phase[q]
    BY <1>8 DEF Commit, TypeOK
  <2>2. View(p)' = View(p)
    BY <2>1 DEF View, HasWritten, Exists, NoRow, NoExecution
  <2>3. Stands(p)'
    BY <2>1, <2>2 DEF DecisionsStand, Stands, Loaded
  <2>4. CASE HasWritten(p)
    <3>1. db.exec.status \notin Terminal /\ \A q \in Procs \ {p} : ~ HasWritten(q)
      BY <2>4, CoherentParts
    <3>2. ASSUME NEW q \in Procs \ {p}
          PROVE  Stands(q)'
      <4>1. View(q) = db
        BY <3>1, ViewOf
      <4> QED
        BY <2>1, <3>1, <4>1 DEF DecisionsStand, Stands, Loaded
    <3> QED
      BY <2>3, <3>2 DEF DecisionsStand
  <2>5. CASE ~ HasWritten(p)
    <3>1. db' = db
      BY <2>1, <2>5, ViewOf
    <3> QED
      BY <1>1, <2>1, <2>3, <3>1 DEF DecisionsStand
  <2> QED
    BY <2>4, <2>5
<1>9. CASE Crash(p)
  <2>1. /\ db' = db /\ tx'[p] = NoRow /\ cache'[p] = NoAggregate /\ phase'[p] = "idle"
        /\ \A q \in Procs \ {p} : tx'[q] = tx[q] /\ cache'[q] = cache[q] /\ phase'[q] = phase[q]
    BY <1>9 DEF Crash, TypeOK
  <2>2. Stands(p)'
    BY <2>1 DEF Stands, Loaded, NoAggregate
  <2> QED
    BY <1>1, <2>1, <2>2 DEF DecisionsStand
<1> QED
  BY <1>2, <1>3, <1>4, <1>5, <1>6, <1>7, <1>8, <1>9 DEF Forms

-----------------------------------------------------------------------------
(* Every step has one of the forms. *)

\* A save whose UPDATE hits the row.
LEMMA PersistStores ==
    ASSUME TypeOK, NEW p \in Procs, NEW agg, NEW next \in Busy, Loaded(p),
           Carries(agg, cache[p]), Persist(p, agg, next),
           next = "decided" => agg.exec.status \in Terminal
    PROVE  Stores(p)
BY DEF Persist, Stores, Carries

\* A tick that fails before anything was written.
LEMMA TickFailsDrops ==
    ASSUME TypeOK, NEW p \in Procs, NEW agg \in Aggregate, ~ HasWritten(p), phase[p] # "decided",
           \/ agg = cache[p]
           \/ Loaded(p) /\ Carries(agg, cache[p]) /\ (p \in Apis => agg.exec.status \notin Terminal),
           TickFails(p, agg), db' = db
    PROVE  Drops(p)
<1>1. PICK left \in {agg, NoAggregate} : cache' = [cache EXCEPT ![p] = left]
  BY DEF TickFails
<1>2. left \in Aggregate
  BY <1>1, RowTypes
<1> QED
  BY <1>1, <1>2 DEF Drops, TickFails

\* A refusal.
LEMMA RefusesDrops ==
    ASSUME TypeOK, NEW p \in Procs, ~ HasWritten(p), phase[p] # "decided", Refuses(p)
    PROVE  Drops(p)
<1>1. cache[p] \in Aggregate
  BY DEF TypeOK
<1> QED
  BY <1>1, TickFailsDrops DEF Refuses

\* While no transaction fails halfway, only a clash makes a save fail, and whoever
\* has written does not clash.
LEMMA PersistFailsDrops ==
    ASSUME MaxRollbacks = 0, TypeOK, Coherent, NEW p \in Procs, NEW agg, Loaded(p),
           Carries(agg, cache[p]), phase[p] # "decided", PersistFails(p, agg),
           ~ HasWritten(p) => (p \in Apis => agg.exec.status \notin Terminal)
    PROVE  Drops(p)
<1>1. Clashes(p, agg) /\ TickFails(p, agg) /\ db' = db
  BY DEF PersistFails, TypeOK
<1>2. agg \in Aggregate /\ agg.store = cache[p].store
  BY DEF Carries
<1>3. ~ HasWritten(p)
  BY <1>1, <1>2, CoherentParts, ViewOf DEF Clashes
<1> QED
  BY <1>1, <1>2, <1>3, TickFailsDrops

\* A move within the tick.
LEMMA MovesTurns ==
    ASSUME NEW p \in Procs, NEW next \in Busy, Moves(p, next),
           next = "decided" => p \in Apis /\ Loaded(p) /\ cache[p].exec.status \in Terminal
    PROVE  Turns(p)
BY DEF Moves, Turns

\* An operation that only persists, on a copy that is sound.
LEMMA SavesForm ==
    ASSUME MaxRollbacks = 0, TypeOK, Coherent, NEW p \in Procs, NEW agg, NEW next \in Busy,
           Loaded(p), Carries(agg, cache[p]), phase[p] # "decided", next # "decided",
           Saves(p, agg, next),
           ~ HasWritten(p) => (p \in Apis => agg.exec.status \notin Terminal)
    PROVE  Forms(p)
BY PersistStores, PersistFailsDrops DEF Saves, Forms

\* kernel.cancel: an API process cancels only what it has just written.
LEMMA CancelsForm ==
    ASSUME MaxRollbacks = 0, TypeOK, Coherent, Truthful, NEW p \in Procs, Loaded(p),
           phase[p] # "decided", p \in Apis => HasWritten(p),
           HasWritten(p) => cache[p].exec.status \notin Terminal, Cancels(p)
    PROVE  Forms(p)
<1>1. cache[p] \in Aggregate /\ Sound(cache[p]) /\ "done" \in Busy
  BY DEF TypeOK, Truthful, TellsTruth, Busy, Phases
<1>2. CASE CanCancel(cache[p])
  <2> DEFINE agg == Cancel(cache[p])
  <2>1. Carries(agg, cache[p])
    BY <1>1, <1>2, CancelCarries
  <2>2. Persist(p, agg, "done") \/ PersistFails(p, agg)
    BY <1>2 DEF Cancels
  <2> HIDE DEF agg
  <2> QED
    BY <1>1, <2>1, <2>2, PersistStores, PersistFailsDrops DEF Forms
<1>3. CASE ~ CanCancel(cache[p])
  BY <1>1, <1>3, CanCancelLive, RefusesDrops DEF Cancels, Forms
<1> QED
  BY <1>2, <1>3

\* Workers.
LEMMA WorkerForm ==
    ASSUME MaxRollbacks = 0, TypeOK, Coherent, Truthful, NEW w \in Workers, WorkerStep(w)
    PROVE  Forms(w)
<1>1. /\ w \in Procs /\ cache[w] \in Aggregate /\ Sound(cache[w]) /\ now \in Nat
      /\ {"picked", "claimed", "running", "done"} \subseteq Busy
  BY DEF Procs, TypeOK, Truthful, TellsTruth, Busy, Phases
<1>2. CASE WorkerSelect(w)
  BY <1>1, <1>2, MovesTurns DEF WorkerSelect, Forms
<1>3. CASE WorkerClaim(w)
  <2> DEFINE claimed == Claim(cache[w], now)
  <2>1. CASE CanClaim(cache[w])
    <3>1. Carries(claimed, cache[w]) /\ claimed.exec.status = "RUNNING"
      BY <1>1, <2>1, ClaimCarries, ClaimAdvances
    <3>2. Persist(w, claimed, "claimed") \/ PersistFails(w, claimed)
      BY <1>3, <2>1 DEF WorkerClaim
    <3> HIDE DEF claimed
    <3> QED
      BY <1>1, <1>3, <3>1, <3>2, PersistStores, PersistFailsDrops DEF WorkerClaim, Forms, Terminal
  <2>2. CASE ~ CanClaim(cache[w])
    <3>1. ~ HasWritten(w)
      BY <1>1, <1>3, <2>2, CoherentParts DEF WorkerClaim, WriterPhase
    <3> QED
      BY <1>1, <1>3, <2>2, <3>1, RefusesDrops DEF WorkerClaim, Forms
  <2> QED
    BY <2>1, <2>2
<1>4. ASSUME phase[w] \in {"claimed", "running"}
      PROVE  /\ HasWritten(w) /\ Loaded(w) /\ phase[w] # "decided"
             /\ cache[w].exec.status = "RUNNING" /\ cache[w].exec.status \notin Terminal
  <2>1. HasWritten(w)
    BY <1>1, <1>4, CoherentParts DEF WorksOnOwnClaim
  <2> QED
    BY <1>1, <1>4, <2>1, CoherentParts DEF WriterPhase, Terminal
<1>5. CASE WorkerStart(w)
  BY <1>1, <1>4, <1>5, CancelsForm, MovesTurns DEF WorkerStart, Forms
<1>6. ASSUME LosesLease(w)
      PROVE  Forms(w)
  BY <1>1, <1>6, MovesTurns DEF LosesLease, Forms
<1>7. CASE WorkerHeartbeat(w)
  <2> DEFINE kept == Heartbeat(cache[w], now)
  <2>1. CASE LeaseCovers(cache[w], token[w], now) /\ Saves(w, kept, "running")
    <3>1. Carries(kept, cache[w])
      BY <1>1, <2>1, HeartbeatCarries DEF LeaseCovers
    <3> HIDE DEF kept
    <3> QED
      BY <1>1, <1>4, <1>7, <2>1, <3>1, SavesForm DEF WorkerHeartbeat
  <2> QED
    BY <1>6, <1>7, <2>1 DEF WorkerHeartbeat
<1>8. CASE WorkerFails(w)
  <2>1. ASSUME NEW retryable \in BOOLEAN, Saves(w, Fail(cache[w], retryable), "done")
        PROVE  Forms(w)
    <3>1. Carries(Fail(cache[w], retryable), cache[w])
      BY <1>1, <1>4, <1>8, FailCarries DEF WorkerFails
    <3> QED
      BY <1>1, <1>4, <1>8, <2>1, <3>1, SavesForm DEF WorkerFails
  <2> QED
    BY <1>6, <1>8, <2>1 DEF WorkerFails
<1>9. CASE WorkerCompletes(w)
  <2>1. CASE Saves(w, Succeed(cache[w]), "done")
    <3>1. Carries(Succeed(cache[w]), cache[w])
      BY <1>1, <1>4, <1>9, SucceedCarries DEF WorkerCompletes
    <3> QED
      BY <1>1, <1>4, <1>9, <2>1, <3>1, SavesForm DEF WorkerCompletes
  <2>2. CASE Cancels(w)
    BY <1>1, <1>4, <1>9, <2>2, CancelsForm DEF WorkerCompletes
  <2> QED
    BY <1>6, <1>9, <2>1, <2>2 DEF WorkerCompletes
<1> QED
  BY <1>2, <1>3, <1>5, <1>7, <1>8, <1>9 DEF WorkerStep

\* Recovery controllers.
LEMMA RecovererForm ==
    ASSUME MaxRollbacks = 0, TypeOK, Coherent, Truthful, NEW r \in Recoverers, RecovererStep(r)
    PROVE  Forms(r)
<1>1. /\ r \in Procs /\ r \notin Apis /\ cache[r] \in Aggregate /\ Sound(cache[r]) /\ now \in Nat
      /\ {"picked", "listing", "reviving", "done"} \subseteq Busy
  BY KernelAssumption DEF Procs, TypeOK, Truthful, TellsTruth, Busy, Phases
<1>2. CASE RecoveryScan(r)
  <2>1. PICK next \in {"picked", "listing"} : phase' = [phase EXCEPT ![r] = next]
    BY <1>2 DEF RecoveryScan
  <2> QED
    BY <1>1, <1>2, <2>1 DEF RecoveryScan, Turns, Forms
<1>3. CASE MarkStale(r)
  <2>1. CASE CanExpireLease(cache[r], now) /\ Saves(r, ExpireLease(cache[r]), "listing")
    <3>1. Carries(ExpireLease(cache[r]), cache[r])
      BY <1>1, <2>1, ExpireLeaseCarries
    <3> QED
      BY <1>1, <1>3, <2>1, <3>1, SavesForm DEF MarkStale
  <2>2. CASE Moves(r, "listing")
    BY <1>1, <2>2, MovesTurns DEF Forms
  <2> QED
    BY <1>3, <2>1, <2>2 DEF MarkStale
<1>4. CASE ListStale(r)
  <2>1. PICK next \in {"reviving", "done"} : Moves(r, next)
    BY <1>4 DEF ListStale
  <2> QED
    BY <1>1, <2>1, MovesTurns DEF Forms
<1>5. CASE Revive(r)
  <2>1. CASE CanRecover(cache[r]) /\ Saves(r, Recover(cache[r], now), "done")
    <3>1. Carries(Recover(cache[r], now), cache[r])
      BY <1>1, <2>1, RecoverCarries
    <3> QED
      BY <1>1, <1>5, <2>1, <3>1, SavesForm DEF Revive
  <2>2. CASE ~ CanRecover(cache[r]) /\ Refuses(r)
    <3>1. ~ HasWritten(r)
      BY <1>1, <1>5, <2>2, CoherentParts DEF Revive, WriterPhase, CanRecover
    <3> QED
      BY <1>1, <1>5, <2>2, <3>1, RefusesDrops DEF Revive, Forms
  <2> QED
    BY <1>5, <2>1, <2>2 DEF Revive
<1> QED
  BY <1>2, <1>3, <1>4, <1>5 DEF RecovererStep

\* Sweepers and wake-up controllers.
LEMMA SweeperForm ==
    ASSUME MaxRollbacks = 0, TypeOK, Coherent, Truthful, NEW s \in Sweepers, SweeperStep(s)
    PROVE  Forms(s)
<1>1. s \in Procs /\ s \notin Apis /\ s \notin Workers /\ "picked" \in Busy
  BY KernelAssumption DEF Procs, Busy, Phases
<1>2. CASE SweepSelect(s)
  BY <1>1, <1>2, MovesTurns DEF SweepSelect, Forms
<1>3. CASE SweepCancel(s)
  <2>1. ~ HasWritten(s)
    BY <1>1, <1>3, CoherentParts DEF SweepCancel, WriterPhase
  <2> QED
    BY <1>1, <1>3, <2>1, CancelsForm DEF SweepCancel
<1> QED
  BY <1>2, <1>3 DEF SweeperStep

\* A wake-up controller, likewise.
LEMMA WakerForm ==
    ASSUME MaxRollbacks = 0, TypeOK, Coherent, Truthful, NEW k \in Wakers, WakerStep(k)
    PROVE  Forms(k)
<1>1. /\ k \in Procs /\ k \notin Apis /\ k \notin Workers /\ {"picked", "done"} \subseteq Busy
      /\ cache[k] \in Aggregate /\ Sound(cache[k])
  BY KernelAssumption DEF Procs, Busy, Phases, TypeOK, Truthful, TellsTruth
<1>2. CASE WakeSelect(k)
  BY <1>1, <1>2, MovesTurns DEF WakeSelect, Forms
<1>3. CASE Wake(k)
  <2>1. ~ HasWritten(k)
    BY <1>1, <1>3, CoherentParts DEF Wake, WriterPhase
  <2>2. CASE CanWakeup(cache[k]) /\ Saves(k, Wakeup(cache[k]), "done")
    <3>1. Carries(Wakeup(cache[k]), cache[k])
      BY <1>1, <2>2, WakeupCarries
    <3> QED
      BY <1>1, <1>3, <2>2, <3>1, SavesForm DEF Wake
  <2>3. CASE ~ CanWakeup(cache[k]) /\ Refuses(k)
    BY <1>1, <1>3, <2>1, <2>3, RefusesDrops DEF Wake, Forms
  <2> QED
    BY <1>3, <2>2, <2>3 DEF Wake
<1> QED
  BY <1>2, <1>3 DEF WakerStep

\* A request to cancel.
LEMMA RequestsCancelForm ==
    ASSUME MaxRollbacks = 0, TypeOK, Coherent, Truthful, NEW a \in Procs, Loaded(a),
           phase[a] # "decided", NEW next \in {"done", "cancelling"}, RequestsCancel(a, next)
    PROVE  Forms(a)
<1> DEFINE asked == RequestCancel(cache[a])
<1>1. cache[a] \in Aggregate /\ Sound(cache[a]) /\ CanRequestCancel(cache[a]) /\ next \in Busy
  BY DEF TypeOK, Truthful, TellsTruth, RequestsCancel, Busy, Phases
<1>2. Carries(asked, cache[a]) /\ asked.exec.status \notin Terminal
  BY <1>1, RequestCancelCarries, RequestCancelAdvances DEF CanRequestCancel
<1>3. Persist(a, asked, next) \/ PersistFails(a, asked)
  BY DEF RequestsCancel
<1> HIDE DEF asked
<1> QED
  BY <1>1, <1>2, <1>3, PersistStores, PersistFailsDrops DEF Forms

\* A decision: the gate is woken, claimed and ended in one save.
LEMMA CloseGateForm ==
    ASSUME MaxRollbacks = 0, TypeOK, Coherent, Truthful, NEW a \in Apis, CloseGate(a)
    PROVE  Forms(a)
<1> DEFINE resumed == Wakeup(cache[a])
           claimed == Claim(resumed, now)
<1>1. /\ a \in Procs /\ cache[a] \in Aggregate /\ Sound(cache[a]) /\ now \in Nat
      /\ "decided" \in Busy
  BY DEF Procs, Busy, Phases, TypeOK, Truthful, TellsTruth
<1>2. phase[a] = "deciding" /\ Loaded(a)
  BY DEF CloseGate
<1>3. ~ HasWritten(a)
  BY <1>1, <1>2, CoherentParts DEF WriterPhase
<1>4. CASE IsClosed(a) /\ Moves(a, "decided")
  BY <1>1, <1>2, <1>4, MovesTurns DEF IsClosed, Forms
<1>5. CASE Refuses(a)
  BY <1>1, <1>2, <1>3, <1>5, RefusesDrops DEF Forms
<1>6. ASSUME CanWakeup(cache[a])
      PROVE  Carries(resumed, cache[a]) /\ resumed.exec.status \notin Terminal
  BY <1>1, <1>6, WakeupCarries, WakeupAdvances DEF Terminal
<1>7. ASSUME CanWakeup(cache[a]), CanClaim(resumed)
      PROVE  /\ Carries(claimed, cache[a]) /\ claimed.exec.status = "RUNNING"
             /\ \A closed \in {Succeed(claimed), Fail(claimed, FALSE)} :
                  Carries(closed, cache[a]) /\ closed.exec.status \in Terminal
  <2> HIDE DEF resumed
  <2>1. resumed \in Aggregate /\ Sound(resumed)
    BY <1>6, <1>7 DEF Carries
  <2>2. Carries(claimed, resumed) /\ claimed.exec.status = "RUNNING"
    BY <1>1, <1>7, <2>1, ClaimCarries, ClaimAdvances
  <2> HIDE DEF claimed
  <2>3. claimed \in Aggregate /\ Sound(claimed)
    BY <2>2 DEF Carries
  <2>4. Carries(Succeed(claimed), claimed) /\ Carries(Fail(claimed, FALSE), claimed)
    BY <2>2, <2>3, SucceedCarries, FailCarries
  <2>5. Succeed(claimed).exec.status = "COMPLETED"
    BY <2>3, SucceedAdvances
  <2>6. Fail(claimed, FALSE).exec.status = "FAILED"
    <3>1. Fail(claimed, FALSE) = Transition(CloseAttempt(claimed, "FAILED"), "FAILED")
      BY DEF Fail, ShouldRetry
    <3>2. "FAILED" \in AttemptStatus /\ "FAILED" \in ExecutionStatus
      BY DEF AttemptStatus, ExecutionStatus, Terminal
    <3>3. Transition(CloseAttempt(claimed, "FAILED"), "FAILED").exec.status = "FAILED"
      BY <2>3, <3>2, EndAttemptAdvances
    <3> QED
      BY <3>1, <3>3
  <2> QED
    BY <1>6, <1>7, <2>2, <2>4, <2>5, <2>6, CarriesTransitive DEF Terminal
<1>8. CASE CanWakeup(cache[a]) /\ TickFails(a, resumed) /\ db' = db
  <2> HIDE DEF resumed
  <2>1. resumed \in Aggregate
    BY <1>6, <1>8 DEF Carries
  <2> QED
    BY <1>1, <1>2, <1>3, <1>6, <1>8, <2>1, TickFailsDrops DEF Forms
<1>9. ASSUME CanWakeup(cache[a]), CanClaim(resumed),
             NEW closed \in {Succeed(claimed), Fail(claimed, FALSE)}, Persist(a, closed, "decided")
      PROVE  Forms(a)
  <2> HIDE DEF claimed, resumed
  <2> QED
    BY <1>1, <1>2, <1>7, <1>9, PersistStores DEF Forms
<1>10. CASE CanWakeup(cache[a]) /\ CanClaim(resumed) /\ PersistFails(a, claimed)
  <2> HIDE DEF claimed, resumed
  <2> QED
    BY <1>1, <1>2, <1>7, <1>10, PersistFailsDrops DEF Forms, Terminal
<1>11. \/ IsClosed(a) /\ Moves(a, "decided")
       \/ Refuses(a)
       \/ CanWakeup(cache[a]) /\ TickFails(a, resumed) /\ db' = db
       \/ /\ CanWakeup(cache[a]) /\ CanClaim(resumed)
          /\ \/ \E closed \in {Succeed(claimed), Fail(claimed, FALSE)} : Persist(a, closed, "decided")
             \/ PersistFails(a, claimed)
  BY DEF CloseGate
<1> HIDE DEF claimed, resumed
<1> QED
  BY <1>4, <1>5, <1>8, <1>9, <1>10, <1>11

\* Requests.
LEMMA ApiForm ==
    ASSUME MaxRollbacks = 0, TypeOK, Coherent, Truthful, NEW a \in Apis, ApiStep(a)
    PROVE  Forms(a)
<1>1. /\ a \in Procs
      /\ {"done", "requesting", "deciding", "withdrawing", "cancelling"} \subseteq Busy
  BY DEF Procs, Busy, Phases
<1>2. CASE Submit(a)
  <2>1. /\ ~ Exists(db) /\ (\A q \in Procs : ~ HasWritten(q)) /\ db' = db
    BY <1>2 DEF Submit
  <2>2. \E isGate \in BOOLEAN, next \in {"done", "picked"} :
          /\ tx' = [tx EXCEPT ![a] = Written(NoRow, Opened(isGate))]
          /\ cache' = [cache EXCEPT ![a] = Flushed(Opened(isGate))]
          /\ phase' = [phase EXCEPT ![a] = next]
    BY <1>2, SubmitOpens
  <2> QED
    BY <2>1, <2>2 DEF Inserts, Forms
<1>3. CASE Request(a)
  <2>1. PICK next \in {"requesting", "deciding", "withdrawing"} :
          phase' = [phase EXCEPT ![a] = next]
    BY <1>3 DEF Request
  <2> QED
    BY <1>1, <1>3, <2>1 DEF Request, Turns, Forms
<1>4. CASE CancelRequest(a)
  <2>1. ~ HasWritten(a)
    BY <1>1, <1>4, CoherentParts DEF CancelRequest, WriterPhase
  <2> QED
    BY <1>1, <1>4, <2>1, RequestsCancelForm, RefusesDrops DEF CancelRequest, Forms
<1>5. CASE WithdrawGate(a)
  <2>1. CASE phase[a] = "withdrawing" /\ Moves(a, "done")
    BY <1>1, <2>1, MovesTurns DEF Forms
  <2>2. CASE phase[a] = "withdrawing" /\ Loaded(a) /\ RequestsCancel(a, "cancelling")
    BY <1>1, <2>2, RequestsCancelForm
  <2>3. CASE phase[a] = "cancelling" /\ Cancels(a)
    <3>1. HasWritten(a)
      BY <1>1, <2>3, CoherentParts DEF WorksOnOwnClaim
    <3>2. Loaded(a) /\ cache[a].exec.status \notin Terminal
      BY <1>1, <2>3, <3>1, CoherentParts DEF WriterPhase
    <3> QED
      BY <1>1, <2>3, <3>1, <3>2, CancelsForm
  <2> QED
    BY <1>5, <2>1, <2>2, <2>3 DEF WithdrawGate
<1>6. CASE CloseGate(a)
  BY <1>6, CloseGateForm
<1> QED
  BY <1>2, <1>3, <1>4, <1>5, <1>6 DEF ApiStep

\* Every step is a step of some process that has one of the forms, or idle.
LEMMA EveryStepHasAForm ==
    ASSUME MaxRollbacks = 0, TypeOK, Coherent, Truthful, [Next]_vars
    PROVE  Idles \/ \E p \in Procs : Forms(p)
<1>1. CASE UNCHANGED vars \/ Tick \/ RedisForgets
  BY <1>1 DEF vars, Tick, RedisForgets, Idles
<1>2. ASSUME NEW p \in Procs, LoadAggregate(p)
      PROVE  Forms(p)
  <2>1. ~ HasWritten(p) /\ View(p) = db
    BY <1>2, CoherentParts, ViewOf DEF LoadAggregate
  <2> QED
    BY <1>2, <2>1 DEF LoadAggregate, Reads, LoadsRow, Forms
<1>3. ASSUME NEW p \in Procs, IdleTick(p)
      PROVE  Forms(p)
  BY <1>3 DEF IdleTick, Idles, Forms
<1>4. ASSUME NEW p \in Procs
      PROVE  ~ Rollback(p)
  BY DEF Rollback, TypeOK
<1>5. ASSUME NEW p \in Procs, Commit(p) \/ Crash(p)
      PROVE  Forms(p)
  BY <1>5 DEF Forms
<1> QED
  BY <1>1, <1>2, <1>3, <1>4, <1>5, WorkerForm, RecovererForm, SweeperForm, WakerForm, ApiForm
  DEF Next, Procs

-----------------------------------------------------------------------------
(* The theorems. *)

\* The truth is told by every step.
LEMMA TruthfulStep ==
    ASSUME MaxRollbacks = 0
    PROVE  TypeOK /\ Coherent /\ Truthful /\ [Next]_vars => Truthful'
<1> SUFFICES ASSUME TypeOK, Coherent, Truthful, [Next]_vars
             PROVE  Truthful'
  OBVIOUS
<1>1. CASE Idles
  BY <1>1, OthersTell DEF Idles, Truthful, Exists
<1> QED
  BY <1>1, EveryStepHasAForm, FormsTruthful

\* Decisions stand after every step.
LEMMA StandsStep ==
    ASSUME MaxRollbacks = 0
    PROVE  TypeOK /\ Coherent /\ Truthful /\ DecisionsStand /\ [Next]_vars => DecisionsStand'
<1> SUFFICES ASSUME TypeOK, Coherent, Truthful, DecisionsStand, [Next]_vars
             PROVE  DecisionsStand'
  OBVIOUS
<1>1. CASE Idles
  BY <1>1 DEF Idles, DecisionsStand, Stands, HasWritten, Exists, View, Loaded
<1> QED
  BY <1>1, EveryStepHasAForm, FormsStand

\* Nothing is decided at the start.
LEMMA StandsInit == Init => DecisionsStand
<1> SUFFICES ASSUME Init
             PROVE  DecisionsStand
  OBVIOUS
<1>1. \A p \in Procs : cache[p] = NoAggregate /\ phase[p] = "idle"
  BY DEF Init
<1> QED
  BY <1>1 DEF DecisionsStand, Stands, Loaded, NoAggregate

\* The invariant behind what the tables tell.
THEOREM TruthIsTold ==
    ASSUME MaxRollbacks = 0
    PROVE  Spec => []Truthful
BY TypeInit, TypeStep, CoherentInit, CoherentStep, TruthfulInit, TruthfulStep, PTL DEF Spec

\* E-5, E-6, E-7, E-9: row and attempts agree, whatever process wrote them.
THEOREM TablesStayInAgreement ==
    ASSUME MaxRollbacks = 0
    PROVE  Spec => []TablesAgree
<1>1. Truthful => TablesAgree
  BY DEF Truthful, Honest, Sound, TablesAgree
<1> QED
  BY <1>1, TruthIsTold, PTL

\* X-3: the outbox tells every version of the row once, up to the status it is in.
THEOREM OutboxKeepsTelling ==
    ASSUME MaxRollbacks = 0
    PROVE  Spec => []OutboxTellsTheRow
<1>1. Truthful => OutboxTellsTheRow
  BY DEF Truthful, Honest, Story, OutboxTellsTheRow, Exists
<1> QED
  BY <1>1, TruthIsTold, PTL

\* What a step does to the committed row: nothing, or it commits a later one.
LEMMA RowsFollowEachOther ==
    ASSUME MaxRollbacks = 0, TypeOK, Coherent, Truthful, Next, db' # db
    PROVE  /\ db' \in Database /\ Honest(db') /\ Later(db', db)
           /\ db.exec.version < db'.exec.version
<1>1. PICK p \in Procs : Commit(p)
  BY OnlyCommitWrites
<1>2. HasWritten(p) /\ db' = tx[p]
  BY <1>1, ViewOf DEF Commit
<1> QED
  BY <1>2, CoherentParts DEF TypeOK, Truthful, TellsTruth

\* E-13: no commit undoes another one, whatever copy its process worked on.
THEOREM CommitsUndoNothing ==
    ASSUME MaxRollbacks = 0
    PROVE  Spec => NothingIsUndone
<1> DEFINE A == /\ db.exec.cancelReq => db'.exec.cancelReq
                /\ \A i \in DOMAIN db.attempts :
                     /\ i \in DOMAIN db'.attempts
                     /\ db.attempts[i] # "RUNNING" => db'.attempts[i] = db.attempts[i]
                /\ \A i \in DOMAIN db.outbox :
                     i \in DOMAIN db'.outbox /\ db'.outbox[i] = db.outbox[i]
<1>1. TypeOK /\ Coherent /\ Truthful /\ [Next]_vars => [A]_vars
  <2> SUFFICES ASSUME TypeOK, Coherent, Truthful, Next
               PROVE  A
    OBVIOUS
  <2>1. CASE db' = db
    BY <2>1
  <2>2. CASE db' # db
    <3>1. Later(db', db) /\ db \in Database /\ db' \in Database
      BY <2>2, RowsFollowEachOther DEF TypeOK
    <3>2. /\ DOMAIN db.attempts = 1 .. Len(db.attempts) /\ DOMAIN db.outbox = 1 .. Len(db.outbox)
          /\ DOMAIN db'.attempts = 1 .. Len(db'.attempts) /\ DOMAIN db'.outbox = 1 .. Len(db'.outbox)
          /\ Len(db.attempts) \in Nat /\ Len(db'.attempts) \in Nat
          /\ Len(db.outbox) \in Nat /\ Len(db'.outbox) \in Nat
      BY <3>1, Parts, LenProperties
    <3> QED
      BY <3>1, <3>2 DEF Later, KeepsAttempts
  <2> QED
    BY <2>1, <2>2
<1> QED
  BY <1>1, TypeCorrect, CopiesAreCoherent, TruthIsTold, PTL DEF Spec, NothingIsUndone

\* AgentLoop._close_gate: a decision is committed on a terminal row only.
THEOREM DecisionsAreCommittedClosed ==
    ASSUME MaxRollbacks = 0
    PROVE  Spec => DecidedGateIsClosed
<1> DEFINE A == \A a \in Apis :
                  /\ phase[a] = "decided" /\ phase'[a] = "idle"
                  /\ UNCHANGED <<rollbacks, crashes>>
                  => db'.exec.status \in Terminal
<1>1. TypeOK /\ Coherent /\ Truthful /\ DecisionsStand /\ [Next]_vars => [A]_vars
  <2> SUFFICES ASSUME TypeOK, Coherent, Truthful, DecisionsStand, Next,
                      NEW a \in Apis, phase[a] = "decided", phase'[a] = "idle",
                      UNCHANGED <<rollbacks, crashes>>
               PROVE  db'.exec.status \in Terminal
    OBVIOUS
  <2>1. a \in Procs /\ View(a).exec.status \in Terminal
    BY DEF Procs, DecisionsStand, Stands
  <2>2. PICK p \in Procs : Forms(p)
    BY EveryStepHasAForm, <2>1 DEF Idles
  <2>3. p = a
    <3>1. \E next \in Phases : phase' = [phase EXCEPT ![p] = next] \/ phase' = phase
      BY <2>2 DEF Forms, Idles, Turns, LoadsRow, Stores, Drops, Inserts, Commit, Crash, Busy, Phases
    <3> QED
      BY <2>1, <3>1 DEF TypeOK
  <2>4. Commit(a)
    <3>1. ~ Crash(a) /\ ~ Drops(a)
      BY DEF Crash, Drops, TypeOK
    <3>2. ~ Idles /\ ~ LoadsRow(a)
      BY DEF Idles, LoadsRow
    <3>3. ~ Turns(a) /\ ~ Stores(a) /\ ~ Inserts(a)
      BY <2>1 DEF Turns, Stores, Inserts, Busy, TypeOK
    <3> QED
      BY <2>2, <2>3, <3>1, <3>2, <3>3 DEF Forms
  <2> QED
    BY <2>1, <2>4 DEF Commit
<1>2. Spec => []DecisionsStand
  BY TypeInit, TypeStep, CoherentInit, CoherentStep, TruthfulInit, TruthfulStep,
     StandsInit, StandsStep, PTL DEF Spec
<1> QED
  BY <1>1, <1>2, TypeCorrect, CopiesAreCoherent, TruthIsTold, PTL DEF Spec, DecidedGateIsClosed

\* The statuses the events tell.
Walk(outbox) == [i \in DOMAIN outbox |-> outbox[i].to]

\* The walk is as long as the outbox.
LEMMA WalkType ==
    ASSUME NEW outbox \in Seq(Event)
    PROVE  /\ Walk(outbox) \in Seq(ExecutionStatus)
           /\ Len(Walk(outbox)) = Len(outbox) /\ Len(outbox) \in Nat
           /\ \A i \in 1 .. Len(outbox) : Walk(outbox)[i] = outbox[i].to
<1>1. DOMAIN outbox = 1 .. Len(outbox) /\ Len(outbox) \in Nat
  BY LenProperties
<1>2. \A i \in 1 .. Len(outbox) : outbox[i].to \in ExecutionStatus
  <2>1. \A i \in 1 .. Len(outbox) : outbox[i] \in Event
    BY ElementOfSeq
  <2> QED
    BY <2>1 DEF Event
<1>3. Walk(outbox) \in Seq(ExecutionStatus)
  BY <1>1, <1>2, IsASeq DEF Walk
<1>4. DOMAIN Walk(outbox) = 1 .. Len(Walk(outbox)) /\ Len(Walk(outbox)) \in Nat
  BY <1>3, LenProperties
<1>5. 1 .. Len(Walk(outbox)) = 1 .. Len(outbox)
  BY <1>1, <1>4 DEF Walk
<1> QED
  BY <1>1, <1>3, <1>4, <1>5 DEF Walk

\* A later honest row extends the walk.
LEMMA LaterExtends ==
    ASSUME NEW new \in Database, NEW old \in Database, Honest(new), Honest(old), Later(new, old),
           old.exec.version < new.exec.version
    PROVE  History!Extends(Walk(new.outbox), Walk(old.outbox))
<1> DEFINE w == Walk(new.outbox)
           v == Walk(old.outbox)
<1>1. /\ Len(w) = Len(new.outbox) /\ Len(w) \in Nat /\ \A i \in 1 .. Len(w) : w[i] = new.outbox[i].to
      /\ Len(v) = Len(old.outbox) /\ Len(v) \in Nat /\ \A i \in 1 .. Len(v) : v[i] = old.outbox[i].to
      /\ w \in Seq(ExecutionStatus) /\ v \in Seq(ExecutionStatus)
  BY WalkType, Parts
<1>2. Len(w) > Len(v)
  BY <1>1 DEF Honest, Story
<1> HIDE DEF w, v
<1>3. \A i \in 1 .. Len(v) : w[i] = v[i] /\ w[i] \in ExecutionStatus
  <2>1. \A i \in 1 .. Len(v) : i \in 1 .. Len(w) /\ new.outbox[i] = old.outbox[i]
    BY <1>1, <1>2 DEF Later
  <2>2. \A i \in 1 .. Len(w) : w[i] \in ExecutionStatus
    BY <1>1, ElementOfSeq
  <2> QED
    BY <1>1, <2>1, <2>2
<1>4. SubSeq(w, 1, Len(v)) = v
  <2> DEFINE u == SubSeq(w, 1, Len(v))
  <2>1. /\ u \in Seq(ExecutionStatus) /\ Len(u) = Len(v)
        /\ \A i \in 1 .. Len(v) : u[i] = w[i]
    BY <1>1, <1>3, SubSeqProperties
  <2> HIDE DEF u
  <2>2. u = v
    BY <1>1, <1>3, <2>1, SeqEqual
  <2> QED
    BY <2>2 DEF u
<1>5. w[1] = "PENDING"
  BY <1>1, <1>2 DEF Honest, Story
<1>6. \A i \in 1 .. Len(w) - 1 : History!Follows(w[i], w[i + 1])
  <2>1. ASSUME NEW i \in 1 .. Len(w) - 1
        PROVE  History!Follows(w[i], w[i + 1])
    <3>1. i \in 1 .. Len(w) /\ i + 1 \in 1 .. Len(w) /\ i + 1 > 1 /\ (i + 1) - 1 = i
      BY <1>1
    <3>2. History!Follows(new.outbox[i].to, new.outbox[i + 1].to)
      BY <1>1, <3>1 DEF Honest, Story
    <3> QED
      BY <1>1, <3>1, <3>2
  <2> QED
    BY <2>1
<1>7. History!Extends(w, v)
  BY <1>2, <1>4, <1>5, <1>6 DEF History!Extends
<1> QED
  BY <1>7 DEF w, v

\* What consumers of the outbox see is a growing walk through the life cycle.
THEOREM KernelTellsAHistory ==
    ASSUME MaxRollbacks = 0
    PROVE  Spec => TellsAHistory
<1> DEFINE log == Walk(db.outbox)
<1>1. Init => History!HistoryInit
  <2> SUFFICES ASSUME Init
               PROVE  History!HistoryInit
    OBVIOUS
  <2>1. db.outbox = <<>> /\ <<>> \in Seq(Event) /\ Len(<<>>) = 0
    BY EmptySeq DEF Init, NoRow
  <2>2. Walk(<<>>) = <<>>
    BY <2>1, WalkType, EmptySeq
  <2> QED
    BY <2>1, <2>2 DEF History!HistoryInit, Walk
<1>2. TypeOK /\ Coherent /\ Truthful /\ [Next]_vars => [History!Extends(log', log)]_log
  <2> SUFFICES ASSUME TypeOK, Coherent, Truthful, [Next]_vars, log' # log
               PROVE  History!Extends(log', log)
    OBVIOUS
  <2>1. db' # db
    OBVIOUS
  <2>2. Next
    BY <2>1 DEF vars
  <2>3. /\ db' \in Database /\ Honest(db') /\ Later(db', db) /\ db.exec.version < db'.exec.version
        /\ db \in Database /\ Honest(db)
    BY <2>1, <2>2, RowsFollowEachOther DEF TypeOK, Truthful
  <2> QED
    BY <2>3, LaterExtends
<1> QED
  BY <1>1, <1>2, TypeCorrect, CopiesAreCoherent, TruthIsTold, PTL
  DEF Spec, TellsAHistory, History!HistorySpec, Walk

-----------------------------------------------------------------------------
(* The retry bound, whatever fails.  A transaction that is rolled back leaves  *)
(* in memory an aggregate that no longer agrees with the tables, and a row may  *)
(* end up with attempts of two copies.  What still holds is a count: an         *)
(* operation adds at most one attempt and raises the version by one, and an     *)
(* attempt ends only with another operation, so there are never more attempts   *)
(* than half the version; a copy that the UPDATE accepts is therefore no        *)
(* shorter than the row when another attempt is about to be granted.            *)

\* An attempt under this number may fail; a gate is claimed once by the
\* submission and once by the decision, whatever the policy says.
MayFail(i, isGate) == i <= MaxAttempts \/ (isGate /\ i = 2)

\* A row or an aggregate that no operation can lead beyond the policy.
Fits(d, isGate) ==
    /\ d.exec.version >= 2 * Len(d.attempts)
    /\ d.exec.status # "RUNNING" => d.exec.version > 2 * Len(d.attempts)
    /\ isGate => Len(d.attempts) >= 1 /\ d.attempts[1] = "CANCELLED"
    /\ \A i \in 1 .. Len(d.attempts) : d.attempts[i] = "FAILED" => MayFail(i, isGate)
    /\ d.exec.status = "SUSPENDED" /\ ~ d.exec.cancelReq =>
         isGate /\ d.exec.version = 3 /\ Len(d.attempts) = 1 /\ d.exec.attemptNo = 1
    /\ d.exec.status = "PENDING" /\ ~ d.exec.cancelReq =>
         /\ d.exec.version <= 2 * Len(d.attempts) + 2
         /\ d.exec.attemptNo = Len(d.attempts)
         /\ MayFail(Len(d.attempts) + 1, isGate)

\* The copy of a worker at work: its attempt is the last and may fail.
InHand(agg, isGate) ==
    /\ Fits(agg, isGate)
    /\ agg.exec.status = "RUNNING" /\ ~ agg.exec.cancelReq
    /\ agg.exec.attemptNo = Len(agg.attempts)
    /\ agg.exec.version <= 2 * Len(agg.attempts) + 1
    /\ MayFail(Len(agg.attempts), isGate)

\* What one process remembers and has written.
Accounts(p) ==
    /\ HasWritten(p) => Fits(tx[p], gate)
    /\ Loaded(p) => Fits(cache[p], gate) /\ cache[p].store <= cache[p].exec.version
    /\ phase[p] \in {"claimed", "running"} => Loaded(p) /\ InHand(cache[p], gate)
    /\ phase[p] = "cancelling" => Loaded(p)

Counted ==
    /\ Exists(db) => Fits(db, gate)
    /\ ~ Exists(db) => db = NoRow
    /\ \A p \in Procs : Accounts(p)

\* What operations make of an aggregate.
Grows(new, old, isGate) ==
    /\ new \in Aggregate
    /\ new.store = old.store
    /\ Fits(new, isGate)
    /\ new.exec.version >= old.exec.version
    /\ new.exec.status # "RUNNING" => new.exec.version > old.exec.version

\* Fits reads nothing but the status, the counters and the attempts.
LEMMA FitsAlike ==
    ASSUME NEW d, NEW e, NEW isGate, Fits(d, isGate), e.exec = d.exec, e.attempts = d.attempts
    PROVE  Fits(e, isGate)
BY DEF Fits

\* Closing an attempt ends at most one that was open.
LEMMA CloseAttemptKeeps ==
    ASSUME NEW agg \in Aggregate, NEW outcome \in AttemptStatus
    PROVE  LET closed == CloseAttempt(agg, outcome)
           IN  /\ closed \in Aggregate
               /\ closed.exec = [agg.exec EXCEPT !.lease = NoLease]
               /\ closed.store = agg.store
               /\ Len(closed.attempts) = Len(agg.attempts)
               /\ \A i \in 1 .. Len(agg.attempts) :
                    \/ closed.attempts[i] = agg.attempts[i]
                    \/ agg.attempts[i] = "RUNNING" /\ closed.attempts[i] = outcome
<1> DEFINE closed == CloseAttempt(agg, outcome)
<1>1. closed \in Aggregate /\ closed.exec = [agg.exec EXCEPT !.lease = NoLease]
      /\ closed.store = agg.store
  BY CloseAttemptType
<1>2. closed.attempts = [i \in DOMAIN agg.attempts |->
              IF IsRunningAttempt(agg.attempts, i) THEN outcome ELSE agg.attempts[i]]
  BY DEF CloseAttempt, Aggregate
<1>3. /\ Len(agg.attempts) \in Nat /\ DOMAIN agg.attempts = 1 .. Len(agg.attempts)
      /\ Len(closed.attempts) \in Nat /\ DOMAIN closed.attempts = 1 .. Len(closed.attempts)
  BY <1>1, Parts, LenProperties
<1> HIDE DEF closed
<1>4. Len(closed.attempts) = Len(agg.attempts)
  <2>1. 1 .. Len(closed.attempts) = 1 .. Len(agg.attempts)
    BY <1>2, <1>3
  <2> QED
    BY <1>3, <2>1
<1> QED
  BY <1>1, <1>2, <1>3, <1>4 DEF closed, IsRunningAttempt

\* A transition that ends nothing, or ends the open attempt, is one version more.
LEMMA EndAttemptGrows ==
    ASSUME NEW agg \in Aggregate, NEW isGate \in BOOLEAN, Fits(agg, isGate),
           NEW outcome \in AttemptStatus \ {"RUNNING"}, NEW to \in ExecutionStatus \ {"RUNNING"},
           outcome = "FAILED" => InHand(agg, isGate),
           to \in {"PENDING", "SUSPENDED"} =>
             \/ agg.exec.cancelReq
             \/ /\ to = "PENDING" /\ InHand(agg, isGate)
                /\ MayFail(Len(agg.attempts) + 1, isGate)
    PROVE  Grows(Transition(CloseAttempt(agg, outcome), to), agg, isGate)
<1> DEFINE closed == CloseAttempt(agg, outcome)
           ended == Transition(closed, to)
<1>1. /\ closed \in Aggregate /\ closed.store = agg.store
      /\ closed.exec = [agg.exec EXCEPT !.lease = NoLease]
      /\ Len(closed.attempts) = Len(agg.attempts)
      /\ \A i \in 1 .. Len(agg.attempts) :
           \/ closed.attempts[i] = agg.attempts[i]
           \/ agg.attempts[i] = "RUNNING" /\ closed.attempts[i] = outcome
  BY CloseAttemptKeeps
<1> HIDE DEF closed
<1>2. /\ ended \in Aggregate /\ ended.exec = Moved(closed.exec, to)
      /\ ended.attempts = closed.attempts /\ ended.store = closed.store
  BY <1>1, TransitionParts
<1> HIDE DEF ended
<1>3. agg.exec \in Execution /\ Len(agg.attempts) \in Nat /\ agg.exec.version \in Nat
  BY Parts
<1>4. /\ ended.exec.version = agg.exec.version + 1 /\ ended.exec.status = to
      /\ ended.exec.attemptNo = agg.exec.attemptNo
      /\ ended.exec.cancelReq = agg.exec.cancelReq
  BY <1>1, <1>2, <1>3 DEF Moved, Execution
<1>5. Len(ended.attempts) = Len(agg.attempts)
  BY <1>1, <1>2
<1>6. isGate => Len(ended.attempts) >= 1 /\ ended.attempts[1] = "CANCELLED"
  BY <1>1, <1>2, <1>3, <1>5 DEF Fits
<1>7. ASSUME NEW i \in 1 .. Len(agg.attempts), ended.attempts[i] = "FAILED"
      PROVE  MayFail(i, isGate)
  <2>1. CASE closed.attempts[i] = agg.attempts[i]
    BY <1>2, <1>7, <2>1 DEF Fits
  <2>2. CASE agg.attempts[i] = "RUNNING" /\ closed.attempts[i] = outcome
    <3>1. outcome = "FAILED" /\ MayFail(Len(agg.attempts), isGate)
      BY <1>2, <1>7, <2>2 DEF InHand
    <3>2. isGate => i # 1
      BY <2>2 DEF Fits
    <3>3. i \in Nat /\ i <= Len(agg.attempts) /\ i >= 1
      BY <1>3
    <3>4. CASE isGate /\ Len(agg.attempts) = 2
      BY <3>2, <3>3, <3>4 DEF MayFail
    <3>5. CASE Len(agg.attempts) <= MaxAttempts
      BY <1>3, <3>3, <3>5, DomainAssumption DEF MayFail
    <3> QED
      BY <3>1, <3>4, <3>5 DEF MayFail
  <2> QED
    BY <1>1, <2>1, <2>2
<1>8. ended.exec.version > 2 * Len(ended.attempts)
  BY <1>3, <1>4, <1>5 DEF Fits
<1>9. to = "PENDING" /\ ~ agg.exec.cancelReq =>
        /\ ended.exec.version <= 2 * Len(ended.attempts) + 2
        /\ ended.exec.attemptNo = Len(ended.attempts)
        /\ MayFail(Len(ended.attempts) + 1, isGate)
  BY <1>3, <1>4, <1>5 DEF InHand
<1>10. Fits(ended, isGate)
  BY <1>3, <1>4, <1>5, <1>6, <1>7, <1>8, <1>9 DEF Fits
<1> QED
  BY <1>1, <1>2, <1>3, <1>4, <1>10 DEF Grows, closed, ended

\* A transition without an attempt to close.
LEMMA TransitionGrows ==
    ASSUME NEW agg \in Aggregate, NEW isGate \in BOOLEAN, Fits(agg, isGate),
           NEW to \in ExecutionStatus \ {"RUNNING", "SUSPENDED"},
           to = "PENDING" => agg.exec.status = "SUSPENDED"
    PROVE  Grows(Transition(agg, to), agg, isGate)
<1> DEFINE moved == Transition(agg, to)
<1>1. /\ moved \in Aggregate /\ moved.exec = Moved(agg.exec, to)
      /\ moved.attempts = agg.attempts /\ moved.store = agg.store
  BY TransitionParts
<1> HIDE DEF moved
<1>2. agg.exec \in Execution /\ Len(agg.attempts) \in Nat /\ agg.exec.version \in Nat
  BY Parts
<1>3. /\ moved.exec.version = agg.exec.version + 1 /\ moved.exec.status = to
      /\ moved.exec.attemptNo = agg.exec.attemptNo
      /\ moved.exec.cancelReq = agg.exec.cancelReq
  BY <1>1, <1>2 DEF Moved, Execution
<1>4. to = "PENDING" /\ ~ agg.exec.cancelReq =>
        /\ moved.exec.version <= 2 * Len(moved.attempts) + 2
        /\ moved.exec.attemptNo = Len(moved.attempts)
        /\ MayFail(Len(moved.attempts) + 1, isGate)
  BY <1>1, <1>2, <1>3 DEF Fits, MayFail
<1>5. Fits(moved, isGate)
  BY <1>1, <1>2, <1>3, <1>4 DEF Fits
<1> QED
  BY <1>1, <1>2, <1>3, <1>5 DEF Grows, moved

\* A new attempt takes two versions of room: the one it is opened with and the
\* one that the status it is opened from has left.
LEMMA OpenAttemptGrows ==
    ASSUME NEW agg \in Aggregate, NEW isGate \in BOOLEAN, NEW t \in Nat,
           Fits(agg, isGate), agg.exec.status # "RUNNING"
    PROVE  /\ Grows(OpenAttempt(agg, t), agg, isGate)
           /\ agg.exec.status = "PENDING" /\ ~ agg.exec.cancelReq
              => InHand(OpenAttempt(agg, t), isGate)
<1> DEFINE opened == OpenAttempt(agg, t)
<1>1. /\ opened \in Aggregate /\ opened.exec = Running(agg, t)
      /\ opened.attempts = Append(agg.attempts, "RUNNING") /\ opened.store = agg.store
  BY OpenAttemptParts
<1> HIDE DEF opened
<1>2. /\ agg.exec \in Execution /\ agg.exec.version \in Nat /\ agg.exec.attemptNo \in Nat
      /\ agg.attempts \in Seq(AttemptStatus) /\ Len(agg.attempts) \in Nat
  BY Parts
<1>3. /\ opened.exec.version = agg.exec.version + 1 /\ opened.exec.status = "RUNNING"
      /\ opened.exec.attemptNo = agg.exec.attemptNo + 1
      /\ opened.exec.cancelReq = agg.exec.cancelReq
  BY <1>1, <1>2 DEF Running, Execution
<1>4. /\ Len(opened.attempts) = Len(agg.attempts) + 1
      /\ \A i \in 1 .. Len(agg.attempts) : opened.attempts[i] = agg.attempts[i]
      /\ opened.attempts[Len(agg.attempts) + 1] = "RUNNING"
  BY <1>1, <1>2, AppendProperties DEF AttemptStatus
<1>5. isGate => Len(opened.attempts) >= 1 /\ opened.attempts[1] = "CANCELLED"
  BY <1>2, <1>4 DEF Fits
<1>6. ASSUME NEW i \in 1 .. Len(opened.attempts), opened.attempts[i] = "FAILED"
      PROVE  MayFail(i, isGate)
  <2>1. i \in 1 .. Len(agg.attempts)
    BY <1>2, <1>4, <1>6
  <2> QED
    BY <1>4, <1>6, <2>1 DEF Fits
<1>7. opened.exec.version >= 2 * Len(opened.attempts)
  BY <1>2, <1>3, <1>4 DEF Fits
<1>8. Fits(opened, isGate)
  BY <1>3, <1>5, <1>6, <1>7 DEF Fits
<1>9. ASSUME agg.exec.status = "PENDING", ~ agg.exec.cancelReq
      PROVE  InHand(opened, isGate)
  BY <1>2, <1>3, <1>4, <1>8, <1>9 DEF Fits, InHand
<1> QED
  BY <1>1, <1>2, <1>3, <1>8, <1>9 DEF Grows, opened

\* What grows twice grows.
LEMMA GrowsTransitive ==
    ASSUME NEW old \in Aggregate, NEW mid, NEW new, NEW isGate,
           Grows(mid, old, isGate), Grows(new, mid, isGate)
    PROVE  Grows(new, old, isGate)
<1>1. /\ old.exec.version \in Nat /\ mid.exec.version \in Nat /\ new.exec.version \in Nat
  BY Parts DEF Grows
<1> QED
  BY <1>1 DEF Grows


-----------------------------------------------------------------------------
(* The operations grow what fits. *)

\* heartbeat(): the lease alone.
LEMMA HeartbeatGrows ==
    ASSUME NEW agg \in Aggregate, NEW isGate \in BOOLEAN, InHand(agg, isGate), NEW t \in Nat
    PROVE  Grows(Heartbeat(agg, t), agg, isGate) /\ InHand(Heartbeat(agg, t), isGate)
<1> DEFINE kept == Heartbeat(agg, t)
<1>1. kept \in Aggregate /\ kept.store = agg.store
  BY HeartbeatType
<1>2. /\ kept.attempts = agg.attempts
      /\ kept.exec = [agg.exec EXCEPT !.lease.expires = t + Ttl]
  BY DEF Heartbeat, Aggregate
<1> HIDE DEF kept
<1>3. agg.exec \in Execution /\ agg.exec.version \in Nat
  BY Parts
<1>4. /\ kept.exec.version = agg.exec.version /\ kept.exec.status = agg.exec.status
      /\ kept.exec.attemptNo = agg.exec.attemptNo /\ kept.exec.cancelReq = agg.exec.cancelReq
  BY <1>2, <1>3 DEF Execution
<1>5. InHand(kept, isGate) /\ Fits(kept, isGate)
  BY <1>2, <1>4 DEF InHand, Fits
<1> QED
  BY <1>1, <1>3, <1>4, <1>5 DEF Grows, InHand, kept

\* fail(): the policy grants another attempt by the number of the last one.
LEMMA FailGrows ==
    ASSUME NEW agg \in Aggregate, NEW isGate \in BOOLEAN, InHand(agg, isGate),
           NEW retryable \in BOOLEAN
    PROVE  Grows(Fail(agg, retryable), agg, isGate)
<1> DEFINE again == Transition(CloseAttempt(agg, "FAILED"), "PENDING")
           over == Transition(CloseAttempt(agg, "FAILED"), "FAILED")
<1>1. /\ "FAILED" \in AttemptStatus \ {"RUNNING"} /\ "FAILED" \in ExecutionStatus \ {"RUNNING"}
      /\ "PENDING" \in ExecutionStatus \ {"RUNNING"} /\ Fits(agg, isGate)
  BY DEF AttemptStatus, ExecutionStatus, Terminal, InHand
<1>2. CASE ShouldRetry(agg, retryable)
  <2>1. MayFail(Len(agg.attempts) + 1, isGate)
    BY <1>2, Parts, DomainAssumption DEF ShouldRetry, InHand, MayFail
  <2>2. Grows(again, agg, isGate)
    BY <1>1, <2>1, EndAttemptGrows
  <2> HIDE DEF again
  <2>3. again \in Aggregate /\ again.retries + 1 \in Nat
    BY <2>2 DEF Grows, Aggregate
  <2>4. /\ [again EXCEPT !.retries = @ + 1] \in Aggregate
        /\ [again EXCEPT !.retries = @ + 1].exec = again.exec
        /\ [again EXCEPT !.retries = @ + 1].attempts = again.attempts
        /\ [again EXCEPT !.retries = @ + 1].store = again.store
    BY <2>3 DEF Aggregate
  <2>5. Grows([again EXCEPT !.retries = @ + 1], agg, isGate)
    BY <2>2, <2>4, FitsAlike DEF Grows
  <2> QED
    BY <1>2, <2>5 DEF Fail, again
<1>3. CASE ~ ShouldRetry(agg, retryable)
  BY <1>1, <1>3, EndAttemptGrows DEF Fail
<1> QED
  BY <1>2, <1>3

\* complete() and cancel() end the execution.
LEMMA EndingGrows ==
    ASSUME NEW agg \in Aggregate, NEW isGate \in BOOLEAN, Fits(agg, isGate)
    PROVE  Grows(Succeed(agg), agg, isGate) /\ Grows(Cancel(agg), agg, isGate)
<1>1. {"SUCCEEDED", "CANCELLED"} \subseteq AttemptStatus \ {"RUNNING", "FAILED"}
  BY DEF AttemptStatus
<1>2. {"COMPLETED", "CANCELLED"} \subseteq ExecutionStatus \ {"RUNNING", "PENDING", "SUSPENDED"}
  BY DEF ExecutionStatus, Terminal
<1> QED
  BY <1>1, <1>2, EndAttemptGrows DEF Succeed, Cancel

\* claim().
LEMMA ClaimGrows ==
    ASSUME NEW agg \in Aggregate, NEW isGate \in BOOLEAN, Fits(agg, isGate), NEW t \in Nat,
           CanClaim(agg)
    PROVE  Grows(Claim(agg, t), agg, isGate) /\ InHand(Claim(agg, t), isGate)
BY OpenAttemptGrows DEF Claim, CanClaim

\* expire_lease(): the attempt stays open, the version goes up.
LEMMA ExpireLeaseGrows ==
    ASSUME NEW agg \in Aggregate, NEW isGate \in BOOLEAN, Fits(agg, isGate)
    PROVE  Grows(ExpireLease(agg), agg, isGate)
<1> DEFINE freed == [agg EXCEPT !.exec.lease = NoLease]
<1>1. agg.exec \in Execution /\ NoLease \in Lease
  BY Parts DEF NoLease, Lease
<1>2. /\ [agg.exec EXCEPT !.lease = NoLease] \in Execution
      /\ [agg.exec EXCEPT !.lease = NoLease].version = agg.exec.version
      /\ [agg.exec EXCEPT !.lease = NoLease].status = agg.exec.status
      /\ [agg.exec EXCEPT !.lease = NoLease].attemptNo = agg.exec.attemptNo
      /\ [agg.exec EXCEPT !.lease = NoLease].cancelReq = agg.exec.cancelReq
  BY <1>1 DEF Execution
<1>3. /\ freed \in Aggregate /\ freed.store = agg.store /\ freed.attempts = agg.attempts
      /\ freed.exec = [agg.exec EXCEPT !.lease = NoLease]
  BY <1>2 DEF Aggregate
<1> HIDE DEF freed
<1>4. Fits(freed, isGate)
  BY <1>2, <1>3 DEF Fits
<1>5. Grows(Transition(freed, "STALE"), freed, isGate)
  BY <1>3, <1>4, TransitionGrows DEF ExecutionStatus, Terminal
<1> QED
  BY <1>2, <1>3, <1>5 DEF Grows, ExpireLease, freed

\* recover(): the attempt of the lost worker is closed and another one opened, out
\* of the version that expire_lease() has added.
LEMMA RecoverGrows ==
    ASSUME NEW agg \in Aggregate, NEW isGate \in BOOLEAN, Fits(agg, isGate), NEW t \in Nat,
           CanRecover(agg)
    PROVE  Grows(Recover(agg, t), agg, isGate)
<1> DEFINE closed == CloseAttempt(agg, "CANCELLED")
<1>1. agg.exec \in Execution /\ agg.exec.status = "STALE" /\ Len(agg.attempts) \in Nat
  BY Parts DEF CanRecover
<1>2. /\ closed \in Aggregate /\ closed.exec = [agg.exec EXCEPT !.lease = NoLease]
      /\ closed.store = agg.store /\ Len(closed.attempts) = Len(agg.attempts)
      /\ \A i \in 1 .. Len(agg.attempts) :
           \/ closed.attempts[i] = agg.attempts[i]
           \/ agg.attempts[i] = "RUNNING" /\ closed.attempts[i] = "CANCELLED"
  BY CloseAttemptKeeps DEF AttemptStatus
<1> HIDE DEF closed
<1>3. closed.exec.version = agg.exec.version /\ closed.exec.status = "STALE"
  BY <1>1, <1>2 DEF Execution
<1>4. Fits(closed, isGate)
  BY <1>1, <1>2, <1>3 DEF Fits
<1>5. Grows(OpenAttempt(closed, t), closed, isGate)
  BY <1>2, <1>3, <1>4, OpenAttemptGrows
<1> QED
  BY <1>2, <1>3, <1>5 DEF Grows, Recover, closed

\* wakeup(): a gate is PENDING for the second time, anything else is cancelled.
LEMMA WakeupGrows ==
    ASSUME NEW agg \in Aggregate, NEW isGate \in BOOLEAN, Fits(agg, isGate), CanWakeup(agg)
    PROVE  Grows(Wakeup(agg), agg, isGate)
BY TransitionGrows DEF Wakeup, CanWakeup, ExecutionStatus

\* request_cancel(): whatever is asked to stop is not claimed again.
LEMMA RequestCancelGrows ==
    ASSUME NEW agg \in Aggregate, NEW isGate \in BOOLEAN, Fits(agg, isGate),
           CanRequestCancel(agg)
    PROVE  Grows(RequestCancel(agg), agg, isGate)
<1> DEFINE told == Emit(agg, agg.exec.status)
           asked == RequestCancel(agg)
<1>1. agg.exec \in Execution /\ agg.exec.version \in Nat /\ Len(agg.attempts) \in Nat
  BY Parts
<1>2. Advances(asked, agg) /\ asked.exec.status = agg.exec.status
  BY RequestCancelAdvances
<1>3. /\ told \in Aggregate /\ told.exec = [agg.exec EXCEPT !.version = @ + 1]
      /\ told.attempts = agg.attempts
  BY <1>1, EmitType DEF Execution
<1> HIDE DEF told
<1>4. told.exec \in Execution /\ told.exec.version = agg.exec.version + 1
  BY <1>1, <1>3, Parts DEF Execution
<1>5. asked.attempts = told.attempts /\ asked.exec = [told.exec EXCEPT !.cancelReq = TRUE]
  BY <1>3 DEF RequestCancel, Aggregate, told
<1>6. asked.exec.cancelReq /\ asked.exec.version = agg.exec.version + 1
  BY <1>4, <1>5 DEF Execution
<1> HIDE DEF asked
<1>7. Fits(asked, isGate)
  BY <1>1, <1>2, <1>3, <1>5, <1>6 DEF Fits
<1> QED
  BY <1>1, <1>2, <1>6, <1>7 DEF Grows, Advances, asked

\* The list that results from an upsert of fewer attempts than there are rows.
LEMMA UpsertParts ==
    ASSUME NEW S, NEW old \in Seq(S), NEW new \in Seq(S), Len(new) < Len(old)
    PROVE  LET all == Upsert(old, new)
           IN  /\ Len(all) = Len(old)
               /\ \A i \in 1 .. Len(old) : all[i] = IF i <= Len(new) THEN new[i] ELSE old[i]
<1> DEFINE m == Len(new) + 1
           n == Len(old)
           rest == SubSeq(old, m, n)
           all == new \o rest
<1>1. m \in Int /\ n \in Int /\ Len(new) \in Nat /\ Len(old) \in Nat
  BY LenProperties
<1>2. \A i \in m .. n : old[i] \in S
  <2>1. \A i \in m .. n : i \in 1 .. Len(old)
    BY <1>1
  <2> QED
    BY <2>1, ElementOfSeq
<1>3. m <= n /\ m = Len(new) + 1 /\ n = Len(old)
  BY <1>1
<1> HIDE DEF m, n
<1>4. /\ rest \in Seq(S) /\ Len(rest) = IF m <= n THEN n - m + 1 ELSE 0
      /\ \A i \in 1 .. n - m + 1 : rest[i] = old[m + i - 1]
  BY <1>1, <1>2, SubSeqProperties
<1> HIDE DEF rest
<1>5. Len(rest) = Len(old) - Len(new)
  BY <1>1, <1>3, <1>4
<1>6. /\ Len(all) = Len(new) + Len(rest)
      /\ \A i \in 1 .. Len(new) + Len(rest) :
           all[i] = IF i <= Len(new) THEN new[i] ELSE rest[i - Len(new)]
  BY <1>4, ConcatProperties
<1> HIDE DEF all
<1>7. ASSUME NEW i \in 1 .. Len(old)
      PROVE  all[i] = IF i <= Len(new) THEN new[i] ELSE old[i]
  <2>1. i \in 1 .. Len(new) + Len(rest)
    BY <1>1, <1>5
  <2>2. CASE i <= Len(new)
    BY <1>6, <2>1, <2>2
  <2>3. CASE ~ i <= Len(new)
    <3>1. i - Len(new) \in 1 .. n - m + 1 /\ m + (i - Len(new)) - 1 = i
      BY <1>1, <1>3, <2>3
    <3> QED
      BY <1>4, <1>6, <2>1, <2>3, <3>1
  <2> QED
    BY <2>2, <2>3
<1>8. Len(all) = Len(old)
  BY <1>1, <1>5, <1>6
<1> QED
  BY <1>7, <1>8 DEF all, rest, m, n, Upsert

\* A copy that the UPDATE accepts leaves a row that fits, with whatever attempts
\* of the old row it lacks; a copy about to be tried again, or at work, lacks none.
LEMMA WrittenFits ==
    ASSUME NEW row \in Database, NEW agg \in Aggregate, NEW old \in Aggregate,
           NEW isGate \in BOOLEAN, Fits(row, isGate), Grows(agg, old, isGate),
           row.exec.version <= old.exec.version
    PROVE  Fits(Written(row, agg), isGate)
<1> DEFINE all == Upsert(row.attempts, agg.attempts)
<1>1. /\ agg.attempts \in Seq(AttemptStatus) /\ Len(agg.attempts) \in Nat
      /\ row.attempts \in Seq(AttemptStatus) /\ Len(row.attempts) \in Nat
      /\ row.exec.version \in Nat /\ old.exec.version \in Nat /\ agg.exec.version \in Nat
  BY Parts
<1>2. Fits(agg, isGate) /\ agg.exec.version >= row.exec.version
  BY <1>1 DEF Grows
<1>3. Written(row, agg).exec = agg.exec /\ Written(row, agg).attempts = all
  BY DEF Written
<1>4. CASE Len(agg.attempts) >= Len(row.attempts)
  BY <1>2, <1>4, WrittenParts, FitsAlike
<1>5. CASE Len(agg.attempts) < Len(row.attempts)
  <2>3. /\ Len(all) = Len(row.attempts)
        /\ \A i \in 1 .. Len(row.attempts) :
             all[i] = IF i <= Len(agg.attempts) THEN agg.attempts[i] ELSE row.attempts[i]
    BY <1>1, <1>5, UpsertParts
  <2> HIDE DEF all
  <2>4. agg.exec.version >= 2 * Len(all)
    BY <1>1, <1>2, <2>3 DEF Fits
  <2>5. agg.exec.status # "RUNNING" => agg.exec.version > 2 * Len(all)
    BY <1>1, <1>2, <2>3 DEF Fits, Grows
  <2>6. isGate => Len(all) >= 1 /\ all[1] = "CANCELLED"
    BY <1>1, <1>2, <1>5, <2>3 DEF Fits
  <2>7. ASSUME NEW i \in 1 .. Len(all), all[i] = "FAILED"
        PROVE  MayFail(i, isGate)
    <3>1. CASE i <= Len(agg.attempts)
      BY <1>1, <1>2, <2>3, <2>7, <3>1 DEF Fits
    <3>2. CASE i > Len(agg.attempts)
      <4>1. i \in 1 .. Len(row.attempts) /\ row.attempts[i] = "FAILED"
        BY <1>1, <2>3, <2>7, <3>2
      <4> QED
        BY <4>1 DEF Fits
    <3> QED
      BY <1>1, <2>3, <3>1, <3>2
  <2>8. ASSUME agg.exec.status \in {"PENDING", "SUSPENDED"}, ~ agg.exec.cancelReq
        PROVE  FALSE
    <3>1. agg.exec.version > row.exec.version
      <4>1. agg.exec.version > old.exec.version
        BY <2>8 DEF Grows
      <4> QED
        BY <1>1, <4>1
    <3>3. row.exec.version >= 2 * Len(row.attempts)
      BY DEF Fits
    <3>2. agg.exec.version <= 2 * Len(agg.attempts) + 2
      <4>1. CASE agg.exec.status = "PENDING"
        BY <1>2, <2>8, <4>1, Zenon DEF Fits
      <4>2. CASE agg.exec.status = "SUSPENDED"
        <5>1. agg.exec.version = 3 /\ Len(agg.attempts) = 1
          BY <1>2, <2>8, <4>2, Zenon DEF Fits
        <5> QED
          BY <5>1
      <4> QED
        BY <2>8, <4>1, <4>2
    <3> QED
      BY <1>1, <1>5, <3>1, <3>2, <3>3
  <2> QED
    BY <1>3, <2>4, <2>5, <2>6, <2>7, <2>8 DEF Fits
<1> QED
  BY <1>1, <1>4, <1>5


-----------------------------------------------------------------------------
(* The forms of a step, failures included. *)

\* A phase in which the process has the execution in its hands.
AtWork == {"claimed", "running"}

\* The process moves on in its tick.
GoesOn(p) ==
    /\ UNCHANGED <<db, tx, cache, gate>>
    /\ \E next \in Phases \ {"cancelling"} :
         /\ phase' = [phase EXCEPT ![p] = next]
         /\ next \in AtWork => phase[p] \in AtWork

\* It saves what operations made of its copy.
SavesGrown(p) ==
    \E agg \in Aggregate, next \in Phases :
        /\ Loaded(p) /\ CanSave(p, agg) /\ Grows(agg, cache[p], gate)
        /\ tx' = [tx EXCEPT ![p] = Written(View(p), agg)]
        /\ cache' = [cache EXCEPT ![p] = Flushed(agg)]
        /\ phase' = [phase EXCEPT ![p] = next]
        /\ next \in AtWork => InHand(agg, gate)
        /\ UNCHANGED <<db, gate>>

\* Its transaction is rolled back; what stays in memory still fits.
IsLeft(agg, p) == \/ agg = NoAggregate \/ agg = cache[p]
                  \/ Fits(agg, gate) /\ agg.store <= agg.exec.version

GoesBack(p) ==
    \E agg \in Aggregate :
        /\ IsLeft(agg, p)
        /\ tx' = [tx EXCEPT ![p] = NoRow]
        /\ cache' = [cache EXCEPT ![p] = agg]
        /\ phase' = [phase EXCEPT ![p] = "idle"]
        /\ UNCHANGED <<db, gate>>

AccountForms(p) ==
    \/ UNCHANGED <<db, tx, cache, phase, gate>>
    \/ GoesOn(p) \/ SavesGrown(p) \/ GoesBack(p)
    \/ LoadAggregate(p) \/ Commit(p) \/ Crash(p) \/ (p \in Apis /\ Submit(p))

\* Nothing changes for a process that does not move.
LEMMA OthersAccount ==
    ASSUME NEW q \in Procs, Accounts(q), tx'[q] = tx[q], cache'[q] = cache[q],
           phase'[q] = phase[q], gate' = gate
    PROVE  Accounts(q)'
BY DEF Accounts, HasWritten, Exists, Loaded

\* What a SELECT returns fits.
LEMMA ViewFits ==
    ASSUME Counted, NEW p \in Procs, Exists(View(p))
    PROVE  Fits(View(p), gate)
BY DEF Counted, Accounts, View, HasWritten

\* A save.
LEMMA SavesGrownCounted ==
    ASSUME TypeOK, Counted, NEW p \in Procs, SavesGrown(p)
    PROVE  Counted'
<1>1. PICK agg \in Aggregate, next \in Phases :
        /\ Loaded(p) /\ CanSave(p, agg) /\ Grows(agg, cache[p], gate)
        /\ tx' = [tx EXCEPT ![p] = Written(View(p), agg)]
        /\ cache' = [cache EXCEPT ![p] = Flushed(agg)]
        /\ phase' = [phase EXCEPT ![p] = next]
        /\ next \in AtWork => InHand(agg, gate)
        /\ UNCHANGED <<db, gate>>
  BY DEF SavesGrown
<1> DEFINE row == View(p)
           new == Written(row, agg)
<1>2. row \in Database /\ cache[p] \in Aggregate /\ gate \in BOOLEAN /\ Accounts(p)
  BY RowTypes DEF TypeOK, Counted
<1>3. /\ cache[p].store \in Nat /\ cache[p].exec.version \in Nat /\ agg.exec.version \in Nat
      /\ row.exec.version = cache[p].store
  BY <1>1, <1>2, Parts DEF CanSave, Grows
<1>4. cache[p].store > 0 /\ cache[p].store <= cache[p].exec.version
  BY <1>1, <1>2 DEF Accounts, Loaded
<1>5. Fits(row, gate)
  BY <1>3, <1>4, ViewFits DEF Exists
<1>6. Fits(new, gate)
  BY <1>1, <1>2, <1>3, <1>4, <1>5, WrittenFits
<1>7. /\ Flushed(agg).exec = agg.exec /\ Flushed(agg).attempts = agg.attempts
      /\ Flushed(agg).store = agg.exec.version
  BY DEF Flushed, Aggregate
<1>8. Fits(Flushed(agg), gate) /\ (InHand(agg, gate) => InHand(Flushed(agg), gate))
  BY <1>1, <1>7 DEF Grows, Fits, InHand
<1>9. agg.exec.version > 0
  BY <1>1, <1>3, <1>4 DEF Grows
<1>10. tx'[p] = new /\ cache'[p] = Flushed(agg) /\ phase'[p] = next
       /\ \A q \in Procs \ {p} : tx'[q] = tx[q] /\ cache'[q] = cache[q] /\ phase'[q] = phase[q]
  BY <1>1 DEF TypeOK
<1> HIDE DEF new, row
<1>11. Accounts(p)'
  <2>1. Loaded(p)'
    BY <1>7, <1>9, <1>10 DEF Loaded
  <2>2. Fits(tx'[p], gate') /\ Fits(cache'[p], gate')
    BY <1>1, <1>6, <1>8, <1>10
  <2>3. cache'[p].store <= cache'[p].exec.version
    BY <1>3, <1>7, <1>10
  <2>4. phase'[p] \in {"claimed", "running"} => InHand(cache'[p], gate')
    BY <1>1, <1>8, <1>10 DEF AtWork
  <2> QED
    BY <2>1, <2>2, <2>3, <2>4 DEF Accounts
<1> QED
  BY <1>1, <1>10, <1>11, OthersAccount DEF Counted, Exists

\* A rollback and a crash.
LEMMA GoesBackCounted ==
    ASSUME TypeOK, Counted, NEW p \in Procs, GoesBack(p) \/ Crash(p)
    PROVE  Counted'
<1>1. PICK agg \in Aggregate :
        /\ IsLeft(agg, p)
        /\ tx' = [tx EXCEPT ![p] = NoRow]
        /\ cache' = [cache EXCEPT ![p] = agg]
        /\ phase' = [phase EXCEPT ![p] = "idle"]
        /\ UNCHANGED <<db, gate>>
  BY RowTypes DEF GoesBack, Crash, IsLeft
<1>2. /\ tx'[p] = NoRow /\ cache'[p] = agg /\ phase'[p] = "idle"
      /\ \A q \in Procs \ {p} : tx'[q] = tx[q] /\ cache'[q] = cache[q] /\ phase'[q] = phase[q]
  BY <1>1 DEF TypeOK
<1>3. agg.store > 0 => Fits(agg, gate) /\ agg.store <= agg.exec.version
  BY <1>1 DEF IsLeft, Counted, Accounts, Loaded, NoAggregate
<1>4. Accounts(p)'
  BY <1>1, <1>2, <1>3 DEF Accounts, HasWritten, Exists, Loaded, NoRow, NoExecution
<1> QED
  BY <1>1, <1>2, <1>4, OthersAccount DEF Counted, Exists

\* The row is read.
LEMMA LoadCounted ==
    ASSUME TypeOK, Counted, NEW p \in Procs, LoadAggregate(p)
    PROVE  Counted'
<1> DEFINE agg == FromRow(View(p))
<1>1. /\ cache' = [cache EXCEPT ![p] = agg] /\ UNCHANGED <<db, tx, phase, gate>>
      /\ phase[p] \notin {"claimed", "running", "cancelling"} /\ Exists(View(p))
  BY DEF LoadAggregate, Reads, bounds
<1>2. /\ agg.exec = View(p).exec /\ agg.attempts = View(p).attempts
      /\ agg.store = View(p).exec.version
  BY DEF FromRow, NoAggregate
<1> HIDE DEF agg
<1>3. Fits(agg, gate)
  BY <1>1, <1>2, ViewFits, FitsAlike
<1>4. View(p).exec.version \in Nat
  BY RowTypes, Parts
<1>5. cache'[p] = agg /\ \A q \in Procs \ {p} : cache'[q] = cache[q]
  BY <1>1 DEF TypeOK
<1>6. Accounts(p)'
  BY <1>1, <1>2, <1>3, <1>4, <1>5 DEF Counted, Accounts, HasWritten, Exists, Loaded
<1> QED
  BY <1>1, <1>5, <1>6, OthersAccount DEF Counted, Exists

\* A commit.
LEMMA CommitCounted ==
    ASSUME TypeOK, Counted, NEW p \in Procs, Commit(p)
    PROVE  Counted'
<1>1. /\ db' = View(p) /\ tx' = [tx EXCEPT ![p] = NoRow] /\ cache' = cache /\ gate' = gate
      /\ phase' = [phase EXCEPT ![p] = "idle"]
  BY DEF Commit, bounds
<1>2. /\ tx'[p] = NoRow /\ phase'[p] = "idle"
      /\ \A q \in Procs \ {p} : tx'[q] = tx[q] /\ phase'[q] = phase[q]
  BY <1>1 DEF TypeOK
<1>3. Accounts(p)'
  BY <1>1, <1>2 DEF Counted, Accounts, HasWritten, Exists, Loaded, NoRow, NoExecution
<1>4. Exists(db)' => Fits(db', gate')
  BY <1>1, ViewFits DEF Exists
<1>5. ~ Exists(db)' => db' = NoRow
  BY <1>1 DEF View, HasWritten, Exists, Counted
<1> QED
  BY <1>1, <1>2, <1>3, <1>4, <1>5, OthersAccount DEF Counted

\* What a submission inserts.
LEMMA OpenedFits ==
    ASSUME NEW isGate \in BOOLEAN, now \in Nat
    PROVE  Fits(Opened(isGate), isGate)
<1>1. /\ NewExecution \in Aggregate /\ NewExecution.exec.version = 1
      /\ NewExecution.exec.status = "PENDING" /\ ~ NewExecution.exec.cancelReq
      /\ NewExecution.exec.attemptNo = 0 /\ NewExecution.attempts = <<>>
  BY NewExecutionType DEF NewExecution, NoAggregate, NoExecution
<1>2. Len(<<>>) = 0
  BY EmptySeq
<1>3. CASE ~ isGate
  BY <1>1, <1>2, <1>3, DomainAssumption DEF Opened, Fits, MayFail
<1>4. CASE isGate
  <2> DEFINE claimed == Claim(NewExecution, now)
             closed == CloseAttempt(claimed, "CANCELLED")
  <2>1. /\ claimed \in Aggregate /\ claimed.exec = Running(NewExecution, now)
        /\ claimed.attempts = Append(<<>>, "RUNNING")
    BY <1>1, OpenAttemptParts DEF Claim
  <2>2. claimed.exec.version = 2 /\ claimed.exec.attemptNo = 1 /\ ~ claimed.exec.cancelReq
    BY <1>1, <2>1, Parts DEF Running, Execution
  <2>3. Len(claimed.attempts) = 1 /\ claimed.attempts[1] = "RUNNING"
    BY <1>2, <2>1
  <2> HIDE DEF claimed
  <2>4. /\ closed \in Aggregate /\ closed.exec = [claimed.exec EXCEPT !.lease = NoLease]
        /\ closed.attempts = [i \in DOMAIN claimed.attempts |->
              IF IsRunningAttempt(claimed.attempts, i) THEN "CANCELLED" ELSE claimed.attempts[i]]
    BY <2>1, CloseAttemptType DEF CloseAttempt, AttemptStatus, Aggregate
  <2>5. Len(closed.attempts) = 1 /\ closed.attempts[1] = "CANCELLED"
    <3>1. Len(closed.attempts) = Len(claimed.attempts)
      BY <2>1, CloseAttemptKeeps DEF AttemptStatus
    <3>2. DOMAIN claimed.attempts = 1 .. 1
      BY <2>1, <2>3, Parts, LenProperties
    <3> QED
      BY <2>3, <2>4, <3>1, <3>2 DEF IsRunningAttempt
  <2> HIDE DEF closed
  <2>6. /\ Transition(closed, "SUSPENDED").exec = Moved(closed.exec, "SUSPENDED")
        /\ Transition(closed, "SUSPENDED").attempts = closed.attempts
    BY <2>4, TransitionParts DEF ExecutionStatus
  <2>7. Moved(closed.exec, "SUSPENDED").version = 3
        /\ Moved(closed.exec, "SUSPENDED").attemptNo = 1
        /\ Moved(closed.exec, "SUSPENDED").status = "SUSPENDED"
    BY <2>1, <2>2, <2>4, Parts DEF Moved, Execution
  <2>8. Opened(isGate) = Transition(closed, "SUSPENDED")
    BY <1>4 DEF Opened, Suspend, closed, claimed
  <2> DEFINE agg == Opened(isGate)
  <2>9. /\ agg.exec.version = 3 /\ agg.exec.attemptNo = 1 /\ agg.exec.status = "SUSPENDED"
        /\ Len(agg.attempts) = 1 /\ agg.attempts[1] = "CANCELLED"
    BY <2>5, <2>6, <2>7, <2>8
  <2> HIDE DEF agg
  <2>10. \A i \in 1 .. Len(agg.attempts) : agg.attempts[i] # "FAILED"
    BY <2>9
  <2>11. agg.exec.version > 2 * Len(agg.attempts) /\ Len(agg.attempts) >= 1
    BY <2>9
  <2>12. agg.exec.version >= 2 * Len(agg.attempts)
    BY <2>9
  <2>13. Fits(agg, isGate)
    BY <1>4, <2>9, <2>10, <2>11, <2>12, Zenon DEF Fits
  <2> QED
    BY <2>13 DEF agg
<1> QED
  BY <1>3, <1>4

\* A submission: nobody has seen the execution yet.
LEMMA SubmitCounted ==
    ASSUME TypeOK, Counted, NEW a \in Apis, Submit(a)
    PROVE  Counted'
<1>1. PICK isGate \in BOOLEAN :
        /\ gate' = isGate
        /\ tx' = [tx EXCEPT ![a] = Written(NoRow, Opened(isGate))]
        /\ cache' = [cache EXCEPT ![a] = Flushed(Opened(isGate))]
        /\ \E next \in {"done", "picked"} : phase' = [phase EXCEPT ![a] = next]
  BY DEF Submit, Opened
<1>2. /\ ~ Exists(db) /\ db' = db /\ a \in Procs
      /\ \A q \in Procs : ~ HasWritten(q) /\ ~ Loaded(q)
  BY DEF Submit, Procs
<1> DEFINE agg == Opened(isGate)
           new == Written(NoRow, agg)
<1>3. agg \in Aggregate /\ NoRow \in Database /\ agg.exec.version \in Nat
      /\ Fits(agg, isGate) /\ Len(agg.attempts) \in Nat
  BY OpenedExists, OpenedFits, RowTypes, Parts DEF TypeOK
<1> HIDE DEF agg
<1>4. new.exec = agg.exec /\ new.attempts = agg.attempts
  <2>1. Len(NoRow.attempts) = 0
    BY EmptySeq DEF NoRow
  <2>2. Len(agg.attempts) >= Len(NoRow.attempts)
    BY <1>3, <2>1
  <2> QED
    BY <1>3, <2>2, WrittenParts, Zenon
<1>5. /\ Flushed(agg).exec = agg.exec /\ Flushed(agg).attempts = agg.attempts
      /\ Flushed(agg).store = agg.exec.version
  BY <1>3 DEF Flushed, Aggregate
<1>6. Fits(new, isGate) /\ Fits(Flushed(agg), isGate)
  BY <1>3, <1>4, <1>5, FitsAlike
<1> HIDE DEF new
<1>7. /\ tx'[a] = new /\ cache'[a] = Flushed(agg) /\ phase'[a] \in {"done", "picked"}
      /\ \A q \in Procs \ {a} : tx'[q] = tx[q] /\ cache'[q] = cache[q] /\ phase'[q] = phase[q]
  BY <1>1, <1>2 DEF TypeOK, agg, new
<1>8. Accounts(a)'
  BY <1>1, <1>3, <1>5, <1>6, <1>7 DEF Accounts
<1>9. ASSUME NEW q \in Procs \ {a}
      PROVE  Accounts(q)'
  BY <1>2, <1>7 DEF Counted, Accounts, HasWritten, Exists, Loaded
<1> QED
  BY <1>2, <1>8, <1>9 DEF Counted, Exists

\* Whatever form a step has.
LEMMA AccountFormsCounted ==
    ASSUME TypeOK, Counted, NEW p \in Procs, AccountForms(p)
    PROVE  Counted'
<1>1. CASE UNCHANGED <<db, tx, cache, phase, gate>>
  BY <1>1, OthersAccount DEF Counted, Exists
<1>2. CASE GoesOn(p)
  <2>1. PICK next \in Phases \ {"cancelling"} :
          phase' = [phase EXCEPT ![p] = next] /\ (next \in AtWork => phase[p] \in AtWork)
    BY <1>2 DEF GoesOn
  <2>2. phase'[p] = next /\ \A q \in Procs \ {p} : phase'[q] = phase[q]
    BY <2>1 DEF TypeOK
  <2>3. UNCHANGED <<db, tx, cache, gate>>
    BY <1>2 DEF GoesOn
  <2>4. Accounts(p)'
    BY <2>1, <2>2, <2>3 DEF Counted, Accounts, HasWritten, Exists, Loaded, AtWork
  <2> QED
    BY <2>2, <2>3, <2>4, OthersAccount DEF Counted, Exists
<1> QED
  BY <1>1, <1>2, SavesGrownCounted, GoesBackCounted, LoadCounted, CommitCounted, SubmitCounted
  DEF AccountForms


-----------------------------------------------------------------------------
(* Every step has one of these forms. *)

\* What may stay in memory after a tick that fails.
LEMMA TickFailsBack ==
    ASSUME TypeOK, NEW p \in Procs, NEW agg \in Aggregate, IsLeft(agg, p), TickFails(p, agg),
           UNCHANGED <<db, gate>>
    PROVE  GoesBack(p)
<1>1. PICK left \in {agg, NoAggregate} : cache' = [cache EXCEPT ![p] = left]
  BY DEF TickFails
<1>2. left \in Aggregate /\ IsLeft(left, p)
  BY <1>1, RowTypes DEF IsLeft
<1> QED
  BY <1>1, <1>2 DEF GoesBack, TickFails

\* A refusal leaves the copy as it was.
LEMMA RefusesBack ==
    ASSUME TypeOK, NEW p \in Procs, Refuses(p)
    PROVE  AccountForms(p)
<1>1. cache[p] \in Aggregate /\ IsLeft(cache[p], p) /\ UNCHANGED <<db, gate>>
  BY DEF TypeOK, IsLeft, Refuses, bounds
<1> QED
  BY <1>1, TickFailsBack DEF Refuses, AccountForms

\* An operation whose save fails, with the stored version moved or not.
LEMMA PersistFailsBack ==
    ASSUME TypeOK, Counted, NEW p \in Procs, Loaded(p), NEW agg, Grows(agg, cache[p], gate),
           PersistFails(p, agg)
    PROVE  AccountForms(p)
<1>1. /\ agg \in Aggregate /\ Fits(agg, gate) /\ agg.exec.version \in Nat
      /\ cache[p] \in Aggregate /\ cache[p].exec.version \in Nat /\ agg.store \in Nat
  BY Parts DEF Grows, TypeOK
<1>2. agg.store <= agg.exec.version
  BY <1>1 DEF Grows, Counted, Accounts
<1>3. UNCHANGED <<db, gate>>
  BY DEF PersistFails
<1>4. CASE TickFails(p, agg)
  BY <1>1, <1>2, <1>3, <1>4, TickFailsBack DEF IsLeft, AccountForms
<1>5. ASSUME NEW store \in {agg.store, agg.exec.version},
             TickFails(p, [agg EXCEPT !.store = store])
      PROVE  AccountForms(p)
  <2> DEFINE left == [agg EXCEPT !.store = store]
  <2>1. left \in Aggregate /\ left.store = store /\ left.exec = agg.exec
        /\ left.attempts = agg.attempts
    BY <1>1, CacheTypes DEF Aggregate
  <2> HIDE DEF left
  <2>2. Fits(left, gate) /\ left.store <= left.exec.version
    BY <1>1, <1>2, <2>1, FitsAlike
  <2>3. TickFails(p, left)
    BY <1>5 DEF left
  <2> QED
    BY <1>3, <2>1, <2>2, <2>3, TickFailsBack DEF IsLeft, AccountForms
<1> QED
  BY <1>4, <1>5 DEF PersistFails

\* A save that goes through.
LEMMA PersistGrows ==
    ASSUME NEW p \in Procs, Loaded(p), NEW agg, NEW next \in Phases,
           Grows(agg, cache[p], gate), Persist(p, agg, next),
           next \in AtWork => InHand(agg, gate)
    PROVE  AccountForms(p)
BY DEF Persist, bounds, SavesGrown, AccountForms, Grows

\* An operation that only persists.
LEMMA SavesGrows ==
    ASSUME TypeOK, Counted, NEW p \in Procs, Loaded(p), NEW agg, NEW next \in Phases,
           Grows(agg, cache[p], gate), Saves(p, agg, next),
           next \in AtWork => InHand(agg, gate)
    PROVE  AccountForms(p)
BY PersistGrows, PersistFailsBack DEF Saves

\* A move within the tick.
LEMMA MovesOn ==
    ASSUME NEW p \in Procs, NEW next \in Phases \ {"cancelling"}, Moves(p, next),
           next \in AtWork => phase[p] \in AtWork
    PROVE  AccountForms(p)
BY DEF Moves, bounds, GoesOn, AccountForms

\* kernel.cancel.
LEMMA CancelsGrows ==
    ASSUME TypeOK, Counted, NEW p \in Procs, Loaded(p), Cancels(p)
    PROVE  AccountForms(p)
<1>1. /\ cache[p] \in Aggregate /\ gate \in BOOLEAN /\ Fits(cache[p], gate)
      /\ "done" \in Phases /\ "done" \notin AtWork
  BY DEF TypeOK, Counted, Accounts, Phases, AtWork
<1>2. Grows(Cancel(cache[p]), cache[p], gate)
  BY <1>1, EndingGrows
<1> QED
  BY <1>1, <1>2, PersistGrows, PersistFailsBack, RefusesBack DEF Cancels

\* kernel.request_cancel.
LEMMA RequestsCancelGrows ==
    ASSUME TypeOK, Counted, NEW a \in Procs, Loaded(a), NEW next \in {"done", "cancelling"},
           RequestsCancel(a, next)
    PROVE  AccountForms(a)
<1>1. /\ cache[a] \in Aggregate /\ gate \in BOOLEAN /\ Fits(cache[a], gate)
      /\ next \in Phases /\ next \notin AtWork /\ CanRequestCancel(cache[a])
  BY DEF TypeOK, Counted, Accounts, Phases, AtWork, RequestsCancel
<1>2. Grows(RequestCancel(cache[a]), cache[a], gate)
  BY <1>1, RequestCancelGrows
<1> QED
  BY <1>1, <1>2, PersistGrows, PersistFailsBack DEF RequestsCancel

\* Workers.
LEMMA WorkerGrows ==
    ASSUME TypeOK, Counted, NEW w \in Workers, WorkerStep(w)
    PROVE  AccountForms(w)
<1>1. /\ w \in Procs /\ cache[w] \in Aggregate /\ now \in Nat /\ gate \in BOOLEAN
      /\ {"picked", "claimed", "running", "done"} \subseteq Phases \ {"cancelling"}
      /\ Loaded(w) => Fits(cache[w], gate)
      /\ phase[w] \in AtWork => Loaded(w) /\ InHand(cache[w], gate)
  BY DEF Procs, TypeOK, Phases, AtWork, Counted, Accounts
<1>2. CASE WorkerSelect(w)
  BY <1>1, <1>2, MovesOn DEF WorkerSelect, AtWork
<1>3. CASE WorkerClaim(w)
  <2> DEFINE claimed == Claim(cache[w], now)
  <2>1. CASE CanClaim(cache[w])
    <3>1. Loaded(w) /\ Grows(claimed, cache[w], gate) /\ InHand(claimed, gate)
      BY <1>1, <1>3, <2>1, ClaimGrows DEF WorkerClaim
    <3>2. Persist(w, claimed, "claimed") \/ PersistFails(w, claimed)
      BY <1>3, <2>1 DEF WorkerClaim
    <3> HIDE DEF claimed
    <3> QED
      BY <1>1, <3>1, <3>2, PersistGrows, PersistFailsBack
  <2>2. CASE ~ CanClaim(cache[w])
    BY <1>1, <1>3, <2>2, RefusesBack DEF WorkerClaim
  <2> QED
    BY <2>1, <2>2
<1>4. CASE WorkerStart(w)
  BY <1>1, <1>4, CancelsGrows, MovesOn DEF WorkerStart, AtWork
<1>5. ASSUME LosesLease(w)
      PROVE  AccountForms(w)
  BY <1>1, <1>5, MovesOn DEF LosesLease, AtWork
<1>6. CASE WorkerHeartbeat(w)
  <2> DEFINE kept == Heartbeat(cache[w], now)
  <2>1. CASE Saves(w, kept, "running")
    <3>1. Loaded(w) /\ Grows(kept, cache[w], gate) /\ InHand(kept, gate)
      BY <1>1, <1>6, HeartbeatGrows DEF WorkerHeartbeat, AtWork
    <3> HIDE DEF kept
    <3> QED
      BY <1>1, <2>1, <3>1, SavesGrows
  <2> QED
    BY <1>5, <1>6, <2>1 DEF WorkerHeartbeat
<1>7. CASE WorkerFails(w)
  <2>1. ASSUME NEW retryable \in BOOLEAN, Saves(w, Fail(cache[w], retryable), "done")
        PROVE  AccountForms(w)
    <3>1. Loaded(w) /\ Grows(Fail(cache[w], retryable), cache[w], gate)
      BY <1>1, <1>7, FailGrows DEF WorkerFails, AtWork
    <3> QED
      BY <1>1, <2>1, <3>1, SavesGrows DEF AtWork
  <2> QED
    BY <1>5, <1>7, <2>1 DEF WorkerFails
<1>8. CASE WorkerCompletes(w)
  <2>1. CASE Saves(w, Succeed(cache[w]), "done")
    <3>1. Loaded(w) /\ Grows(Succeed(cache[w]), cache[w], gate)
      BY <1>1, <1>8, EndingGrows DEF WorkerCompletes, AtWork
    <3> QED
      BY <1>1, <2>1, <3>1, SavesGrows DEF AtWork
  <2>2. CASE Cancels(w)
    BY <1>1, <1>8, <2>2, CancelsGrows DEF WorkerCompletes, AtWork
  <2> QED
    BY <1>5, <1>8, <2>1, <2>2 DEF WorkerCompletes
<1> QED
  BY <1>2, <1>3, <1>4, <1>6, <1>7, <1>8 DEF WorkerStep

\* Recovery controllers.
LEMMA RecovererGrows ==
    ASSUME TypeOK, Counted, NEW r \in Recoverers, RecovererStep(r)
    PROVE  AccountForms(r)
<1>1. /\ r \in Procs /\ cache[r] \in Aggregate /\ now \in Nat /\ gate \in BOOLEAN
      /\ {"picked", "listing", "reviving", "done"} \subseteq Phases \ {"cancelling"}
      /\ {"picked", "listing", "reviving", "done"} \cap AtWork = {}
      /\ Loaded(r) => Fits(cache[r], gate)
  BY DEF Procs, TypeOK, Phases, AtWork, Counted, Accounts
<1>2. CASE RecoveryScan(r)
  <2>1. PICK next \in {"picked", "listing"} : phase' = [phase EXCEPT ![r] = next]
    BY <1>2 DEF RecoveryScan
  <2> QED
    BY <1>1, <1>2, <2>1 DEF RecoveryScan, bounds, GoesOn, AccountForms
<1>3. CASE MarkStale(r)
  <2>1. CASE Saves(r, ExpireLease(cache[r]), "listing")
    <3>1. Loaded(r) /\ Grows(ExpireLease(cache[r]), cache[r], gate)
      BY <1>1, <1>3, ExpireLeaseGrows DEF MarkStale
    <3> QED
      BY <1>1, <2>1, <3>1, SavesGrows
  <2>2. CASE Moves(r, "listing")
    BY <1>1, <2>2, MovesOn
  <2> QED
    BY <1>3, <2>1, <2>2 DEF MarkStale
<1>4. CASE ListStale(r)
  <2>1. PICK next \in {"reviving", "done"} : Moves(r, next)
    BY <1>4 DEF ListStale
  <2> QED
    BY <1>1, <2>1, MovesOn
<1>5. CASE Revive(r)
  <2>1. CASE CanRecover(cache[r]) /\ Saves(r, Recover(cache[r], now), "done")
    <3>1. Loaded(r) /\ Grows(Recover(cache[r], now), cache[r], gate)
      BY <1>1, <1>5, <2>1, RecoverGrows DEF Revive
    <3> QED
      BY <1>1, <2>1, <3>1, SavesGrows
  <2>2. CASE Refuses(r)
    BY <1>1, <2>2, RefusesBack
  <2> QED
    BY <1>5, <2>1, <2>2 DEF Revive
<1> QED
  BY <1>2, <1>3, <1>4, <1>5 DEF RecovererStep

\* Sweepers and wake-up controllers.
LEMMA ControllerGrows ==
    ASSUME TypeOK, Counted, NEW p \in Procs, SweeperStep(p) \/ WakerStep(p)
    PROVE  AccountForms(p)
<1>1. /\ cache[p] \in Aggregate /\ gate \in BOOLEAN
      /\ {"picked", "done"} \subseteq Phases \ {"cancelling"}
      /\ {"picked", "done"} \cap AtWork = {}
      /\ Loaded(p) => Fits(cache[p], gate)
  BY DEF TypeOK, Phases, AtWork, Counted, Accounts
<1>2. CASE SweepSelect(p) \/ WakeSelect(p)
  BY <1>1, <1>2, MovesOn DEF SweepSelect, WakeSelect
<1>3. CASE SweepCancel(p)
  BY <1>3, CancelsGrows DEF SweepCancel
<1>4. CASE Wake(p)
  <2>1. CASE CanWakeup(cache[p]) /\ Saves(p, Wakeup(cache[p]), "done")
    <3>1. Loaded(p) /\ Grows(Wakeup(cache[p]), cache[p], gate)
      BY <1>1, <1>4, <2>1, WakeupGrows DEF Wake
    <3> QED
      BY <1>1, <2>1, <3>1, SavesGrows
  <2> QED
    BY <1>4, <2>1, RefusesBack DEF Wake
<1> QED
  BY <1>2, <1>3, <1>4 DEF SweeperStep, WakerStep

\* A decision.
LEMMA CloseGateGrows ==
    ASSUME TypeOK, Counted, NEW a \in Apis, CloseGate(a)
    PROVE  AccountForms(a)
<1> DEFINE resumed == Wakeup(cache[a])
           claimed == Claim(resumed, now)
<1>1. /\ a \in Procs /\ cache[a] \in Aggregate /\ now \in Nat /\ gate \in BOOLEAN
      /\ "decided" \in Phases \ {"cancelling"} /\ "decided" \notin AtWork
      /\ Loaded(a) /\ Fits(cache[a], gate) /\ cache[a].store <= cache[a].exec.version
  BY DEF Procs, TypeOK, Phases, AtWork, Counted, Accounts, CloseGate
<1>2. ASSUME CanWakeup(cache[a])
      PROVE  Grows(resumed, cache[a], gate)
  BY <1>1, <1>2, WakeupGrows
<1>3. ASSUME CanWakeup(cache[a]), CanClaim(resumed)
      PROVE  /\ Grows(claimed, cache[a], gate)
             /\ \A closed \in {Succeed(claimed), Fail(claimed, FALSE)} :
                  Grows(closed, cache[a], gate)
  <2> HIDE DEF resumed
  <2>1. resumed \in Aggregate /\ Fits(resumed, gate)
    BY <1>2, <1>3 DEF Grows
  <2>2. Grows(claimed, resumed, gate) /\ InHand(claimed, gate)
    BY <1>1, <1>3, <2>1, ClaimGrows
  <2> HIDE DEF claimed
  <2>3. claimed \in Aggregate /\ Fits(claimed, gate)
    BY <2>2 DEF Grows
  <2>4. Grows(claimed, cache[a], gate)
    BY <1>1, <1>2, <1>3, <2>2, GrowsTransitive
  <2>5. Grows(Succeed(claimed), claimed, gate) /\ Grows(Fail(claimed, FALSE), claimed, gate)
    BY <1>1, <2>2, <2>3, EndingGrows, FailGrows
  <2> QED
    BY <1>1, <2>4, <2>5, GrowsTransitive
<1>4. CASE IsClosed(a) /\ Moves(a, "decided")
  BY <1>1, <1>4, MovesOn
<1>5. CASE Refuses(a)
  BY <1>1, <1>5, RefusesBack
<1>6. CASE CanWakeup(cache[a]) /\ TickFails(a, resumed) /\ UNCHANGED <<db, gate>>
  <2> HIDE DEF resumed
  <2>1. Grows(resumed, cache[a], gate)
    BY <1>2, <1>6
  <2>2. resumed \in Aggregate /\ Fits(resumed, gate)
    BY <2>1 DEF Grows
  <2>3. resumed.exec.version \in Nat /\ cache[a].exec.version \in Nat /\ cache[a].store \in Nat
    BY <1>1, <2>2, Parts
  <2>4. resumed.store <= resumed.exec.version
    BY <1>1, <2>1, <2>3 DEF Grows
  <2> QED
    BY <1>1, <1>6, <2>2, <2>4, TickFailsBack DEF IsLeft, AccountForms
<1>7. ASSUME CanWakeup(cache[a]), CanClaim(resumed),
             NEW closed \in {Succeed(claimed), Fail(claimed, FALSE)}, Persist(a, closed, "decided")
      PROVE  AccountForms(a)
  <2> HIDE DEF claimed, resumed
  <2> QED
    BY <1>1, <1>3, <1>7, PersistGrows
<1>8. CASE CanWakeup(cache[a]) /\ CanClaim(resumed) /\ PersistFails(a, claimed)
  <2> HIDE DEF claimed, resumed
  <2> QED
    BY <1>1, <1>3, <1>8, PersistFailsBack
<1>9. \/ IsClosed(a) /\ Moves(a, "decided")
      \/ Refuses(a)
      \/ CanWakeup(cache[a]) /\ TickFails(a, resumed) /\ UNCHANGED <<db, gate>>
      \/ /\ CanWakeup(cache[a]) /\ CanClaim(resumed)
         /\ \/ \E closed \in {Succeed(claimed), Fail(claimed, FALSE)} : Persist(a, closed, "decided")
            \/ PersistFails(a, claimed)
  BY DEF CloseGate, bounds
<1> HIDE DEF claimed, resumed
<1> QED
  BY <1>4, <1>5, <1>6, <1>7, <1>8, <1>9

\* Requests.
LEMMA ApiGrows ==
    ASSUME TypeOK, Counted, NEW a \in Apis, ApiStep(a)
    PROVE  AccountForms(a)
<1>1. /\ a \in Procs
      /\ {"done", "requesting", "deciding", "withdrawing"} \subseteq Phases \ {"cancelling"}
      /\ {"done", "requesting", "deciding", "withdrawing"} \cap AtWork = {}
      /\ phase[a] = "cancelling" => Loaded(a)
  BY DEF Procs, Phases, AtWork, Counted, Accounts
<1>2. CASE Submit(a)
  BY <1>2 DEF AccountForms
<1>3. CASE Request(a)
  <2>1. PICK next \in {"requesting", "deciding", "withdrawing"} :
          phase' = [phase EXCEPT ![a] = next]
    BY <1>3 DEF Request
  <2> QED
    BY <1>1, <1>3, <2>1 DEF Request, GoesOn, AccountForms
<1>4. CASE CancelRequest(a)
  BY <1>1, <1>4, RequestsCancelGrows, RefusesBack DEF CancelRequest
<1>5. CASE WithdrawGate(a)
  <2>1. CASE phase[a] = "withdrawing" /\ Moves(a, "done")
    BY <1>1, <2>1, MovesOn
  <2>2. CASE phase[a] = "withdrawing" /\ Loaded(a) /\ RequestsCancel(a, "cancelling")
    BY <1>1, <2>2, RequestsCancelGrows
  <2>3. CASE phase[a] = "cancelling" /\ Cancels(a)
    BY <1>1, <2>3, CancelsGrows
  <2> QED
    BY <1>5, <2>1, <2>2, <2>3 DEF WithdrawGate
<1>6. CASE CloseGate(a)
  BY <1>6, CloseGateGrows
<1> QED
  BY <1>2, <1>3, <1>4, <1>5, <1>6 DEF ApiStep

\* The count is kept by every step, failures included.
LEMMA CountedStep == TypeOK /\ Counted /\ [Next]_vars => Counted'
<1> SUFFICES ASSUME TypeOK, Counted, [Next]_vars
             PROVE  Counted'
  OBVIOUS
<1>1. CASE UNCHANGED vars \/ Tick \/ RedisForgets
  BY <1>1, OthersAccount DEF vars, Tick, RedisForgets, bounds, Counted, Exists
<1>2. ASSUME NEW p \in Procs,
             LoadAggregate(p) \/ Commit(p) \/ IdleTick(p) \/ Rollback(p) \/ Crash(p)
      PROVE  AccountForms(p)
  <2>1. CASE IdleTick(p)
    BY <2>1 DEF IdleTick, bounds, AccountForms
  <2>2. CASE Rollback(p)
    <3>1. cache[p] \in Aggregate /\ IsLeft(cache[p], p)
      BY DEF TypeOK, IsLeft
    <3> QED
      BY <2>2, <3>1, TickFailsBack DEF Rollback, AccountForms
  <2> QED
    BY <1>2, <2>1, <2>2 DEF AccountForms
<1>3. ASSUME NEW p \in Procs, AccountForms(p)
      PROVE  Counted'
  BY <1>3, AccountFormsCounted
<1> QED
  BY <1>1, <1>2, <1>3, WorkerGrows, RecovererGrows, ControllerGrows, ApiGrows DEF Next, Procs

\* At the start there is nothing to count.
LEMMA CountedInit == Init => Counted
<1> SUFFICES ASSUME Init
             PROVE  Counted
  OBVIOUS
<1>1. /\ db = NoRow /\ ~ Exists(db)
      /\ \A p \in Procs : tx[p] = NoRow /\ cache[p] = NoAggregate /\ phase[p] = "idle"
  BY DEF Init, Exists, NoRow, NoExecution
<1> QED
  BY <1>1 DEF Counted, Accounts, HasWritten, Exists, Loaded, NoAggregate, NoRow, NoExecution

\* In every copy and in every row, whatever is rolled back, the attempts are at most half
\* the version and none that the policy does not let fail has failed (retry.py,
\* may_retry; aggregate.py, fail).  recover() opens as many as leases expire.
THEOREM AttemptsAreCounted == Spec => []Counted
BY TypeInit, TypeStep, CountedInit, CountedStep, PTL DEF Spec

\* RetryPolicy.max_attempts: no schedule of failures, rollbacks and crashes gives an
\* execution more failed attempts than the policy allows.
THEOREM FailuresStayBounded == Spec => []FailuresAreBounded
<1>1. ASSUME TypeOK, Counted
      PROVE  FailuresAreBounded
  <2> DEFINE failed == Failed(db.attempts)
             below == 1 .. MaxAttempts
  <2>1. /\ DOMAIN db.attempts = 1 .. Len(db.attempts) /\ Len(db.attempts) \in Nat
        /\ MaxAttempts \in Nat \ {0} /\ gate \in BOOLEAN
    BY <1>1, Parts, LenProperties, DomainAssumption DEF TypeOK
  <2>2. IsFiniteSet(below) /\ Cardinality(below) = MaxAttempts
    <3>1. MaxAttempts \in Int /\ 1 \in Int
      BY <2>1
    <3> QED
      BY <2>1, <3>1, FS_Interval, SMTT(20)
  <2>3. CASE ~ Exists(db)
    <3>1. failed = {}
      BY <1>1, <2>1, <2>3, EmptySeq DEF Counted, NoRow, Failed
    <3> QED
      BY <2>1, <3>1, FS_EmptySet DEF FailuresAreBounded
  <2>4. ASSUME Exists(db), NEW i \in failed
        PROVE  MayFail(i, gate) /\ i \in Nat \ {0} /\ (gate => i # 1)
    BY <1>1, <2>1, <2>4 DEF Counted, Fits, Failed
  <2>5. CASE Exists(db) /\ ~ (gate /\ MaxAttempts = 1)
    <3>1. failed \in SUBSET below
      BY <2>1, <2>4, <2>5 DEF MayFail
    <3> HIDE DEF failed, below
    <3>2. Cardinality(failed) <= Cardinality(below)
      BY <2>2, <3>1, FS_Subset
    <3> QED
      BY <2>2, <3>2 DEF FailuresAreBounded, failed
  <2>6. CASE Exists(db) /\ gate /\ MaxAttempts = 1
    <3>1. failed \in SUBSET {2}
      BY <2>1, <2>4, <2>6 DEF MayFail
    <3>2. IsFiniteSet({2}) /\ Cardinality({2}) = 1
      BY FS_Singleton
    <3> HIDE DEF failed
    <3>3. Cardinality(failed) <= Cardinality({2})
      BY <3>1, <3>2, FS_Subset
    <3> QED
      BY <2>6, <3>2, <3>3 DEF FailuresAreBounded, failed
  <2> QED
    BY <2>3, <2>5, <2>6
<1> QED
  BY <1>1, AttemptsAreCounted, TypeCorrect, PTL
=============================================================================
