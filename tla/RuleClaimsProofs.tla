------------------------- MODULE RuleClaimsProofs -------------------------
(***************************************************************************)
(* Theorems about RuleClaims: what the rules promise, for inputs of any     *)
(* size.                                                                    *)
(***************************************************************************)
EXTENDS RuleClaims, FiniteSetTheorems, SequenceTheorems, WellFoundedInduction, TLAPS

-----------------------------------------------------------------------------
(* Counting, and functions that are defined by it. *)

\* What holds at 0 and is handed on from each number to the next holds up to N.
LEMMA Counting ==
    ASSUME NEW N \in Nat, NEW P, 0 \in P, \A n \in 1 .. N : n - 1 \in P => n \in P
    PROVE  \A n \in 0 .. N : n \in P
<1> DEFINE S == {n \in 0 .. N : n \notin P}
           R == {s \in Nat \X Nat : s[1] < s[2]}
<1> SUFFICES ASSUME S # {} PROVE FALSE
  OBVIOUS
<1>1. IsWellFoundedOn(R, Nat)
  BY NatLessThanWellFounded, Zenon DEF OpToRel
<1>2. S \in SUBSET Nat
  OBVIOUS
<1> HIDE DEF R, S
<1>3. PICK i \in S : \A j \in S : ~ (<<j, i>> \in R)
  BY <1>1, <1>2, WFMin, Zenon
<1>4. i \in 0 .. N /\ i \notin P /\ i # 0
  BY <1>3 DEF S
<1>5. i \in 1 .. N /\ i - 1 \in 0 .. N /\ i - 1 < i /\ <<i - 1, i>> \in Nat \X Nat
  BY <1>4
<1>6. i - 1 \notin P
  BY <1>4, <1>5
<1>7. i - 1 \in S /\ <<i - 1, i>> \in R
  BY <1>5, <1>6 DEF S, R
<1> QED
  BY <1>3, <1>7

Iterates(f, N, X, x, G) ==
    /\ f \in [0 .. N -> X] /\ f[0] = x
    /\ \A n \in 1 .. N : f[n] = G[n][f[n - 1]]

\* A function may be defined on 0 .. N by what it is at 0 and a step.
LEMMA Iteration ==
    ASSUME NEW N \in Nat, NEW X, NEW x \in X, NEW G \in [1 .. N -> [X -> X]]
    PROVE  \E f : Iterates(f, N, X, x, G)
<1> DEFINE Solves(f, k) ==
             f \in [0 .. k -> X] /\ f[0] = x /\ \A n \in 1 .. k : f[n] = G[n][f[n - 1]]
           P == {k \in 0 .. N : \E f : Solves(f, k)}
<1>1. 0 \in P
  <2>1. Solves([n \in 0 .. 0 |-> x], 0)
    OBVIOUS
  <2>2. 0 \in 0 .. N
    OBVIOUS
  <2> HIDE DEF Solves
  <2> QED
    BY <2>1, <2>2, Zenon
<1>2. ASSUME NEW n \in 1 .. N, n - 1 \in P PROVE n \in P
  <2>1. PICK f : Solves(f, n - 1)
    BY <1>2
  <2>2. n \in Nat /\ n - 1 \in 0 .. n - 1
    OBVIOUS
  <2>3. f[n - 1] \in X /\ G[n][f[n - 1]] \in X
    BY <2>1, <2>2
  <2> DEFINE g == [i \in 0 .. n |-> IF i = n THEN G[n][f[n - 1]] ELSE f[i]]
  <2>4. /\ g \in [0 .. n -> X] /\ g[n] = G[n][f[n - 1]]
        /\ \A i \in 0 .. n - 1 : g[i] = f[i]
    BY <2>1, <2>2, <2>3
  <2> HIDE DEF g
  <2>5. g[0] = x
    BY <2>1, <2>2, <2>4
  <2>6. ASSUME NEW i \in 1 .. n PROVE g[i] = G[i][g[i - 1]]
    <3>1. CASE i = n
      BY <2>2, <2>4, <3>1
    <3>2. CASE i # n
      <4>1. i \in 1 .. n - 1 /\ i \in 0 .. n - 1 /\ i - 1 \in 0 .. n - 1
        BY <3>2
      <4>2. f[i] = G[i][f[i - 1]]
        BY <2>1, <4>1
      <4> QED
        BY <2>4, <4>1, <4>2
    <3> QED
      BY <3>1, <3>2
  <2>7. Solves(g, n)
    BY <2>4, <2>5, <2>6
  <2> QED
    BY <2>7
<1> HIDE DEF P
<1>3. \A k \in 0 .. N : k \in P
  BY <1>1, <1>2, Counting
<1>4. PICK f : Solves(f, N)
  BY <1>3 DEF P
<1> QED
  BY <1>4 DEF Iterates

-----------------------------------------------------------------------------
(* Waits and ports. *)

\* D-31, D-32: what is agreed on lies within both ceilings, and agreeing on the
\* deadline again gives the deadline.
LEMMA WaitsAreBounded == ASSUME NEW c \in WaitInput PROVE WaitIsBounded(c)
<1> DEFINE max == ResolveCeiling(c.max, c.ceiling)
           frozen == FreezeWaitDeadline(c.handle, c.default, max.n, c.ceiling)
           agreed == Agreed(c.handle, c.default, c.ceiling)
           later == [c.handle EXCEPT !.until = frozen.until, !.timeout.type = "none"]
           again == FreezeWaitDeadline(later, c.default, max.n, c.ceiling)
<1> SUFFICES ASSUME max.ok, frozen.ok
             PROVE  /\ frozen.until > c.handle.spawned
                    /\ frozen.until <= c.handle.spawned + c.ceiling
                    /\ frozen.until <= c.handle.spawned + max.n
                    /\ again = frozen
  BY DEF WaitIsBounded
<1>1. /\ c.ceiling \in Nat /\ c.default \in Int /\ c.handle.spawned \in Nat /\ c.handle.until \in Nat
      /\ c.max.n \in Int /\ c.handle.timeout.n \in Int
      /\ c.handle = [spawned |-> c.handle.spawned, until |-> c.handle.until, timeout |-> c.handle.timeout]
  BY DEF WaitInput, Duration
<1>2. max.n \in Nat /\ max.n <= c.ceiling
  BY <1>1 DEF ResolveCeiling, WithinBounds, Refused
<1>3. agreed.ok /\ WithinBounds(agreed.n, max.n) /\ frozen = [ok |-> TRUE, until |-> c.handle.spawned + agreed.n]
  BY DEF FreezeWaitDeadline, Accepted
<1>4. agreed.n \in Int
  BY <1>1, <1>3 DEF Agreed, AsWaitTimeout, NoWait, Refused
<1>5. frozen.until \in Nat \ {0} /\ frozen.until - c.handle.spawned = agreed.n
  BY <1>1, <1>2, <1>3, <1>4 DEF WithinBounds
<1> HIDE DEF max, frozen, agreed
<1>6. later.spawned = c.handle.spawned /\ later.until = frozen.until
  BY <1>1
<1> HIDE DEF later
<1>7. Agreed(later, c.default, c.ceiling) = [ok |-> TRUE, set |-> TRUE, n |-> agreed.n]
  BY <1>5, <1>6 DEF Agreed
<1>8. again = [ok |-> TRUE, until |-> later.spawned + agreed.n]
  BY <1>3, <1>7 DEF FreezeWaitDeadline, Accepted
<1> QED
  BY <1>1, <1>2, <1>3, <1>4, <1>6, <1>8 DEF WithinBounds

\* R-7: a loop that is restored goes on from where the snapshot was taken.
LEMMA RestoresGoOn == ASSUME NEW c \in [captured : Port, made : Port] PROVE RestoredGoesOn(c)
BY DEF RestoredGoesOn, RestoredPort

-----------------------------------------------------------------------------
(* Statuses, actions and snapshots. *)

\* The status of a step is none that a step cannot have.
LEMMA StepStatuses ==
    ASSUME NEW statuses
    PROVE  DerivedStepStatus(statuses) \in {"pending", "running", "suspended", "cancelled", "failed", "completed"}
BY DEF DerivedStepStatus

\* A run that was declared over is so, whatever its steps are.
LEMMA DeclaredOver ==
    ASSUME NEW statuses, NEW terminal \in RunsOver
    PROVE  DerivedRunStatus(statuses, terminal) = terminal
BY DEF DerivedRunStatus, RunsOver

\* A run that was just made may get any status that is derived.
LEMMA FirstStatus ==
    ASSUME NEW book, NEW terminal \in RunsOver \cup {"none"}
    PROVE  SyncedRun("created", book, terminal)
           = [ok |-> TRUE, status |-> DerivedRunStatus({book[i].status : i \in DOMAIN book}, terminal)]
<1> DEFINE next == DerivedRunStatus({book[i].status : i \in DOMAIN book}, terminal)
<1>1. next \in {"created", "running", "suspended", "queued"} \cup RunsOver
  BY DEF DerivedRunStatus
<1> HIDE DEF next
<1>2. next = "created" \/ next \in LegalRunSteps["created"]
  BY <1>1 DEF LegalRunSteps
<1> QED
  BY <1>2 DEF SyncedRun, next

\* B-2, B-3: whatever becomes of its steps, the status of a run may follow.
LEMMA StatusesAlwaysFollow ==
    ASSUME NEW c \in [before : Seq(SUBSET STRING), after : Seq(SUBSET STRING), terminal : RunsOver \cup {"none"}]
    PROVE  StatusesFollow(c)
<1> DEFINE book == [i \in DOMAIN c.before |-> [status |-> DerivedStepStatus(c.before[i])]]
           later == [i \in DOMAIN c.after |-> [status |-> DerivedStepStatus(c.after[i])]]
           statuses == {book[i].status : i \in DOMAIN book}
           next == DerivedRunStatus({later[i].status : i \in DOMAIN later}, c.terminal)
           first == DerivedRunStatus(statuses, "none")
<1>1. SyncedRun("created", book, "none") = [ok |-> TRUE, status |-> first]
  BY FirstStatus
<1>2. first \in {"created", "running", "suspended", "queued"}
  BY DEF DerivedRunStatus
<1>3. ASSUME Len(book) <= Len(later) PROVE next = first \/ next \in LegalRunSteps[first]
  <2>1. c.before \in Seq(SUBSET STRING) /\ c.after \in Seq(SUBSET STRING) /\ c.terminal \in RunsOver \cup {"none"}
    OBVIOUS
  <2>2. next \in {"created", "running", "suspended", "queued"} \cup RunsOver
    BY <2>1 DEF DerivedRunStatus
  <2>3. CASE first = "created"
    BY <1>3, <2>2, <2>3 DEF LegalRunSteps
  <2>4. CASE first # "created"
    <3>1. statuses # {}
      BY <2>4 DEF DerivedRunStatus
    <3>2. c.before # <<>>
      BY <2>1, <3>1, EmptySeq
    <3>3. Len(c.before) > 0 /\ DOMAIN c.before = 1 .. Len(c.before) /\ DOMAIN c.after = 1 .. Len(c.after) /\ Len(c.after) \in Nat
      BY <2>1, <3>2, LenProperties, EmptySeq
    <3>4. Len(book) = Len(c.before) /\ Len(later) = Len(c.after)
      BY <2>1, <3>3
    <3>5. 1 \in DOMAIN later
      BY <1>3, <3>3, <3>4
    <3> DEFINE now == {later[i].status : i \in DOMAIN later}
    <3>6. now # {}
      <4> HIDE DEF later
      <4>1. later[1].status \in now
        BY <3>5
      <4> QED
        BY <4>1
    <3>7. next # "created"
      <4>1. next = DerivedRunStatus(now, c.terminal) /\ now # {}
        BY <3>6
      <4> HIDE DEF next, now
      <4> QED
        BY <2>1, <4>1 DEF DerivedRunStatus, RunsOver
    <3> HIDE DEF next, first
    <3> QED
      BY <1>2, <2>2, <2>4, <3>7 DEF LegalRunSteps, RunsOver
  <2> QED
    BY <2>3, <2>4
<1> QED
  BY <1>1, <1>3 DEF StatusesFollow, SyncedRun

\* An action that waits in an approval is the action that was asked about.
LEMMA ActionsSurvive ==
    ASSUME NEW action \in [type : STRING, timeout : Int, risk : STRING \ {"none"}, undo : Nat]
    PROVE  ActionSurvives(action)
BY DEF ActionSurvives, LoadedAction, StoredAction

\* Steps are read as they were written, and what was written of a state is written again.
LEMMA BookIsKept ==
    ASSUME NEW book \in Seq(Step)
    PROVE  [i \in DOMAIN book |-> LoadedStep(book[i])] = book
<1>1. \A i \in DOMAIN book : book[i] \in Step
  BY ElementOfSeq, LenProperties
<1>2. \A i \in DOMAIN book : LoadedStep(book[i]) = book[i]
  BY <1>1 DEF LoadedStep, Step
<1>3. book = [i \in DOMAIN book |-> book[i]]
  BY LenProperties
<1> QED
  BY <1>2, <1>3

LEMMA StoredIs ==
    ASSUME NEW state, NEW goal, NEW plan, NEW observed, NEW version,
           state = [goal |-> goal, plan |-> plan, observed |-> observed, version |-> version]
    PROVE  StoredState(state)
           = [goal |-> goal, plan |-> plan, version |-> version,
              observed |-> [i \in DOMAIN observed |-> IF observed[i] = "plan" THEN "data" ELSE observed[i]]]
BY DEF StoredState

LEMMA StateIsKept ==
    ASSUME NEW state \in StateData
    PROVE  /\ LoadedState(StoredState(state)) = StoredState(state)
           /\ StoredState(StoredState(state)) = StoredState(state)
<1> DEFINE kept == [i \in DOMAIN state.observed |-> IF state.observed[i] = "plan" THEN "data" ELSE state.observed[i]]
           stored == StoredState(state)
<1>1. stored = [goal |-> state.goal, plan |-> state.plan, observed |-> kept, version |-> state.version]
      /\ state.version # 0
  BY StoredIs DEF StateData
<1>2. [i \in DOMAIN kept |-> IF kept[i] = "plan" THEN "data" ELSE kept[i]] = kept
  OBVIOUS
<1> HIDE DEF kept
<1>3. LoadedState(stored) = stored
  BY <1>1 DEF LoadedState
<1>4. StoredState(stored) = stored
  BY <1>1, <1>2 DEF StoredState
<1> QED
  BY <1>3, <1>4

\* What a process that has just loaded a live run's snapshot has of it.
LEMMA RebuiltIs ==
    ASSUME NEW s, IsTaken(s), NEW tables \in Tables, RestoredRun(s, tables).ok
    PROVE  LET loop == RestoredRun(s, tables).loop
           IN /\ s.status \notin RunsOver
              /\ s.gate = 0 \/ s.gate \in tables.approvals
              /\ s.child = 0 \/ s.child \in tables.children
              /\ \A i \in DOMAIN s.ledger : s.ledger[i].seq = i
              /\ loop = [book |-> s.book, steps |-> s.steps, terminal |-> "none", status |-> s.status, gate |-> s.gate,
                         child |-> s.child, state |-> LoadedState(s.state), ledger |-> Noted(s.ledger, "run.recovered")]
<1> DEFINE unsynced == RestoredUnsynced(s, tables)
           restored == RestoredRun(s, tables)
           over == DerivedRunStatus({s.book[i].status : i \in DOMAIN s.book}, "none")
<1>1. s.book \in Seq(Step) /\ s.ledger \in Seq(Entry)
  BY DEF IsTaken, Snapshot
<1>2. [i \in DOMAIN s.book |-> LoadedStep(s.book[i])] = s.book
  BY <1>1, BookIsKept
<1>3. restored = [unsynced EXCEPT !.loop.status = SyncedRun("created", unsynced.loop.book, "none").status]
  BY DEF RestoredRun
<1>4. unsynced.ok
  BY <1>3 DEF RestoredUnsynced
<1>5. /\ s.status \notin RunsOver /\ RestoredLedger(<<>>, s.ledger).ok
      /\ s.gate = 0 \/ s.gate \in tables.approvals
      /\ s.child = 0 \/ s.child \in tables.children
  BY <1>4 DEF RestoredUnsynced
<1>6. /\ \A i \in DOMAIN s.ledger : s.ledger[i].seq = i
      /\ RestoredLedger(<<>>, s.ledger).entries = s.ledger
  BY <1>5 DEF RestoredLedger
<1>7. unsynced.loop = [book |-> s.book, steps |-> s.steps, terminal |-> "none", status |-> "created", gate |-> s.gate,
                       child |-> s.child, state |-> LoadedState(s.state), ledger |-> Noted(s.ledger, "run.recovered")]
  BY <1>2, <1>4, <1>6 DEF RestoredUnsynced
<1>8. SyncedRun("created", s.book, "none").status = over
  BY FirstStatus
<1>9. over = s.status
  BY <1>5 DEF IsTaken
<1>9a. unsynced = [ok |-> unsynced.ok, loop |-> unsynced.loop]
  BY DEF RestoredUnsynced
<1> HIDE DEF unsynced, over, restored
<1>10. restored.loop = [unsynced.loop EXCEPT !.status = over]
  <2>1. restored.loop = [unsynced.loop EXCEPT !.status = SyncedRun("created", unsynced.loop.book, "none").status]
    BY <1>3, <1>9a
  <2> QED
    BY <1>7, <1>8, <2>1
<1>11. restored.loop = [book |-> s.book, steps |-> s.steps, terminal |-> "none", status |-> s.status, gate |-> s.gate,
                        child |-> s.child, state |-> LoadedState(s.state), ledger |-> Noted(s.ledger, "run.recovered")]
  BY <1>7, <1>9, <1>10
<1> QED
  BY <1>5, <1>6, <1>11 DEF restored

LEMMA RebuiltStatus ==
    ASSUME NEW s, IsTaken(s), NEW tables \in Tables, RestoredRun(s, tables).ok
    PROVE  RestoredRun(s, tables).loop.status = s.status
<1> DEFINE loop == RestoredRun(s, tables).loop
<1>1. loop = [book |-> s.book, steps |-> s.steps, terminal |-> "none", status |-> s.status, gate |-> s.gate,
              child |-> s.child, state |-> LoadedState(s.state), ledger |-> Noted(s.ledger, "run.recovered")]
  BY RebuiltIs
<1> QED
  BY <1>1

\* What is captured of a live loop.
LEMMA LiveIsTaken ==
    ASSUME NEW loop, IsLive(loop)
    PROVE  IsTaken(Captured(loop)) /\ StoredState(loop.state) \in StateData
<1>1. loop \in Loop
  BY DEF IsLive
<1>2. loop.state.observed \in Seq(Word) /\ loop.state \in StateData
  BY <1>1 DEF Loop, StateData
<1> DEFINE seen == loop.state.observed
           kept == [i \in DOMAIN seen |-> IF seen[i] = "plan" THEN "data" ELSE seen[i]]
<1>3. kept \in Seq(Word)
  <2>1. DOMAIN seen = 1 .. Len(seen) /\ Len(seen) \in Nat /\ \A i \in DOMAIN seen : seen[i] \in Word
    BY <1>2, LenProperties, ElementOfSeq
  <2>2. kept \in [1 .. Len(seen) -> Word]
    BY <2>1 DEF Word
  <2> HIDE DEF kept
  <2> QED
    BY <2>1, <2>2, SeqDef
<1>4. StoredState(loop.state) = [goal |-> loop.state.goal, plan |-> loop.state.plan, observed |-> kept, version |-> loop.state.version]
  <2>1. StoredState(loop.state) = [loop.state EXCEPT !.observed = kept]
    BY DEF StoredState
  <2> HIDE DEF kept, seen
  <2> QED
    BY <1>2, <2>1 DEF StateData
<1>5. StoredState(loop.state) \in StateData
  BY <1>2, <1>3, <1>4 DEF StateData
<1>6. Captured(loop) \in Snapshot
  BY <1>1, <1>5 DEF Captured, Snapshot, Loop
<1>7. ASSUME loop.status \notin RunsOver PROVE loop.terminal = "none"
  BY <1>1, <1>7, DeclaredOver DEF IsLive, Loop
<1> QED
  BY <1>5, <1>6, <1>7 DEF IsTaken, IsLive, Captured

\* R-1, R-4, M74: a run whose process is replaced tells the same as before.
LEMMA RestartsAreSilent ==
    ASSUME NEW c, IsLive(c.loop), c.tables \in Tables
    PROVE  RestartIsSilent(c)
<1> DEFINE s == Captured(c.loop)
           restored == RestoredRun(s, c.tables)
           again == Captured(restored.loop)
           noted == Noted(s.ledger, "run.recovered")
<1> SUFFICES ASSUME SnapshotIsBuilt(s), restored.ok
             PROVE  /\ ViewOf(1, restored.loop) = ViewOf(1, c.loop)
                    /\ [again EXCEPT !.ledger = <<>>] = [s EXCEPT !.ledger = <<>>]
                    /\ SubSeq(again.ledger, 1, Len(s.ledger)) = s.ledger
                    /\ \A i \in DOMAIN again.ledger : again.ledger[i].seq = i
                    /\ again.status = "suspended" => \/ restored.loop.gate \in c.tables.approvals
                                                     \/ restored.loop.child \in c.tables.children
  BY DEF RestartIsSilent
<1>1. s = [status |-> c.loop.status, state |-> StoredState(c.loop.state), book |-> c.loop.book, steps |-> c.loop.steps,
           gate |-> c.loop.gate, child |-> c.loop.child, ledger |-> c.loop.ledger]
  BY DEF Captured
<1>2. IsTaken(s) /\ c.loop.state \in StateData /\ s.ledger \in Seq(Entry)
  BY <1>1, LiveIsTaken DEF IsLive, Loop, IsTaken, Snapshot
<1> HIDE DEF s
<1>3. /\ s.gate = 0 \/ s.gate \in c.tables.approvals
      /\ s.child = 0 \/ s.child \in c.tables.children
      /\ \A i \in DOMAIN s.ledger : s.ledger[i].seq = i
      /\ restored.loop = [book |-> s.book, steps |-> s.steps, terminal |-> "none", status |-> s.status, gate |-> s.gate,
                          child |-> s.child, state |-> LoadedState(s.state), ledger |-> noted]
  BY <1>2, RebuiltIs
<1>4. LoadedState(s.state) = s.state /\ StoredState(s.state) = s.state
  BY <1>1, <1>2, StateIsKept
<1> HIDE DEF restored, noted
<1>5. again = [status |-> s.status, state |-> s.state, book |-> s.book, steps |-> s.steps, gate |-> s.gate,
               child |-> s.child, ledger |-> noted]
  BY <1>3, <1>4 DEF Captured
<1>6. /\ Len(noted) = Len(s.ledger) + 1 /\ DOMAIN noted = 1 .. Len(noted) /\ Len(s.ledger) \in Nat
      /\ SubSeq(noted, 1, Len(s.ledger)) = s.ledger
      /\ \A i \in 1 .. Len(noted) : noted[i].seq = i
  <2> DEFINE e == [seq |-> Len(s.ledger) + 1, kind |-> "run.recovered", execution |-> 0, status |-> "none"]
  <2>1. Len(s.ledger) \in Nat /\ DOMAIN s.ledger = 1 .. Len(s.ledger)
    BY <1>2, LenProperties
  <2>2. e \in Entry /\ noted = Append(s.ledger, e) /\ e.seq = Len(s.ledger) + 1
    BY <2>1 DEF Entry, Word, noted, Noted
  <2> HIDE DEF e
  <2>3. /\ noted \in Seq(Entry) /\ Len(noted) = Len(s.ledger) + 1
        /\ \A i \in 1 .. Len(s.ledger) : noted[i] = s.ledger[i]
        /\ noted[Len(s.ledger) + 1] = e
    BY <1>2, <2>2, AppendProperties
  <2>4. SubSeq(noted, 1, Len(s.ledger)) = s.ledger
    <3> DEFINE n == Len(s.ledger)
               sub == SubSeq(noted, 1, n)
    <3>1. \A i \in 1 .. n : noted[i] \in Entry
      BY <1>2, <2>1, <2>3, ElementOfSeq
    <3>2. 1 \in Int /\ n \in Int
      BY <2>1
    <3> HIDE DEF n
    <3>3. sub \in Seq(Entry) /\ Len(sub) = (IF 1 <= n THEN n - 1 + 1 ELSE 0) /\ \A i \in 1 .. n - 1 + 1 : sub[i] = noted[1 + i - 1]
      BY <3>1, <3>2, SubSeqProperties
    <3> HIDE DEF sub
    <3>4. Len(sub) = n /\ \A i \in 1 .. n : sub[i] = noted[i]
      BY <2>1, <3>2, <3>3 DEF n
    <3>5. sub = s.ledger
      BY <1>2, <2>3, <3>3, <3>4, SeqEqual DEF n
    <3> QED
      BY <3>5 DEF sub, n
  <2>5. DOMAIN noted = 1 .. Len(noted)
    BY <2>3, LenProperties
  <2> QED
    BY <1>3, <2>1, <2>2, <2>3, <2>4, <2>5
<1>7. ViewOf(1, restored.loop) = ViewOf(1, c.loop)
  BY <1>1, <1>3 DEF ViewOf
<1>8. again.status = "suspended" => restored.loop.gate \in c.tables.approvals \/ restored.loop.child \in c.tables.children
  BY <1>3, <1>5 DEF SnapshotIsBuilt
<1>9. [again EXCEPT !.ledger = <<>>] = [s EXCEPT !.ledger = <<>>]
  BY <1>1, <1>5
<1> HIDE DEF again
<1> QED
  BY <1>5, <1>6, <1>7, <1>8, <1>9

-----------------------------------------------------------------------------
(* Counting the members of a set in an order. *)

Below(S, R, x) == {y \in S : <<y, x>> \in R}

IsOrder(R, S) ==
    /\ \A x \in S : <<x, x>> \notin R
    /\ \A x, y, z \in S : <<x, y>> \in R /\ <<y, z>> \in R => <<x, z>> \in R
    /\ \A x, y \in S : x = y \/ <<x, y>> \in R \/ <<y, x>> \in R

Ranked(S, R) ==
    /\ \A x \in S : Cardinality(Below(S, R, x)) \in 0 .. Cardinality(S) - 1
    /\ \A x, y \in S : Cardinality(Below(S, R, x)) = Cardinality(Below(S, R, y)) => x = y
    /\ \A n \in 0 .. Cardinality(S) - 1 : \E x \in S : Cardinality(Below(S, R, x)) = n

\* In a finite set that is ordered, each place is one member's.
LEMMA Ranks ==
    ASSUME NEW S, IsFiniteSet(S), NEW R, IsOrder(R, S)
    PROVE  Ranked(S, R)
<1> DEFINE N == Cardinality(S)
           f == [x \in S |-> Cardinality(Below(S, R, x))]
<1>1. N \in Nat
  BY FS_CardinalityType
<1>2. ASSUME NEW x \in S
      PROVE  /\ IsFiniteSet(Below(S, R, x)) /\ Cardinality(Below(S, R, x)) \in 0 .. N - 1
  <2>1. Below(S, R, x) \in SUBSET S /\ x \notin Below(S, R, x)
    BY DEF Below, IsOrder
  <2>2. /\ IsFiniteSet(Below(S, R, x)) /\ Cardinality(Below(S, R, x)) <= N
        /\ Cardinality(Below(S, R, x)) # N
    BY <2>1, FS_Subset
  <2>3. Cardinality(Below(S, R, x)) \in Nat
    BY <2>2, FS_CardinalityType
  <2> QED
    BY <1>1, <2>2, <2>3
<1>3. ASSUME NEW x \in S, NEW y \in S, <<x, y>> \in R
      PROVE  Cardinality(Below(S, R, x)) # Cardinality(Below(S, R, y))
  <2>1. Below(S, R, x) \in SUBSET Below(S, R, y)
    BY <1>3 DEF Below, IsOrder
  <2>2. x \in Below(S, R, y) /\ x \notin Below(S, R, x)
    BY <1>3 DEF Below, IsOrder
  <2> QED
    BY <1>2, <2>1, <2>2, FS_Subset
<1>4. \A x, y \in S : Cardinality(Below(S, R, x)) = Cardinality(Below(S, R, y)) => x = y
  BY <1>3 DEF IsOrder
<1>5. f \in Injection(S, 0 .. N - 1)
  <2>1. f \in [S -> 0 .. N - 1]
    BY <1>2
  <2>2. \A x, y \in S : f[x] = f[y] => x = y
    BY <1>4
  <2> HIDE DEF f
  <2> QED
    BY <2>1, <2>2 DEF Injection, IsInjective
<1>6. IsFiniteSet(0 .. N - 1) /\ Cardinality(0 .. N - 1) = N
  <2>1. 0 \in Int /\ N - 1 \in Int
    BY <1>1
  <2>2. Cardinality(0 .. N - 1) = (IF 0 > N - 1 THEN 0 ELSE N - 1 - 0 + 1) /\ IsFiniteSet(0 .. N - 1)
    BY <2>1, FS_Interval
  <2> QED
    BY <1>1, <2>2
<1>7. f \in Surjection(S, 0 .. N - 1)
  <2> HIDE DEF f, N
  <2>1. Cardinality(S) = Cardinality(0 .. N - 1)
    BY <1>6 DEF N
  <2> QED
    BY <1>5, <1>6, <2>1, FS_Injection
<1>8. \A n \in 0 .. N - 1 : \E x \in S : Cardinality(Below(S, R, x)) = n
  BY <1>7 DEF Surjection
<1> QED
  BY <1>2, <1>4, <1>8 DEF Ranked

Less == {p \in Int \X Int : p[1] < p[2]}
Greater == {p \in Int \X Int : p[1] > p[2]}

LEMMA NumbersAreOrdered ==
    ASSUME NEW S \in SUBSET Nat
    PROVE  /\ IsOrder(Less, S) /\ IsOrder(Greater, S)
           /\ \A x \in S : Below(S, Less, x) = {y \in S : y < x} /\ Below(S, Greater, x) = {y \in S : y > x}
<1>1. /\ \A x, y \in S : <<x, y>> \in Less <=> x < y
      /\ \A x, y \in S : <<x, y>> \in Greater <=> x > y
  BY DEF Less, Greater
<1> HIDE DEF Less, Greater
<1>2. IsOrder(Less, S) /\ IsOrder(Greater, S)
  <2>1. \A x, y, z \in S : (x < y /\ y < z => x < z) /\ (x > y /\ y > z => x > z) /\ (x = y \/ x < y \/ y < x) /\ ~ (x < x)
    OBVIOUS
  <2> QED
    BY <1>1, <2>1 DEF IsOrder
<1>3. ASSUME NEW x \in S
      PROVE  Below(S, Less, x) = {y \in S : y < x} /\ Below(S, Greater, x) = {y \in S : y > x}
  <2>1. \A y \in S : (<<y, x>> \in Less <=> y < x) /\ (<<y, x>> \in Greater <=> y > x)
    BY <1>1
  <2> QED
    BY <2>1 DEF Below
<1> QED
  BY <1>2, <1>3

\* The places of Lowest and of Highest.
LEMMA PlacesAreTaken ==
    ASSUME NEW S \in SUBSET Nat, IsFiniteSet(S)
    PROVE  /\ \A n \in 1 .. Cardinality(S) : Lowest(S, n) \in S /\ Highest(S, n) \in S
           /\ \A n, m \in 1 .. Cardinality(S) : Lowest(S, n) = Lowest(S, m) \/ Highest(S, n) = Highest(S, m) => n = m
           /\ \A x \in S : \E n, m \in 1 .. Cardinality(S) : x = Lowest(S, n) /\ x = Highest(S, m)
<1> DEFINE N == Cardinality(S)
           lower(x) == Cardinality({y \in S : y < x})
           higher(x) == Cardinality({y \in S : y > x})
<1>1. N \in Nat
  BY FS_CardinalityType
<1>2. /\ \A x \in S : lower(x) \in 0 .. N - 1 /\ higher(x) \in 0 .. N - 1
      /\ \A x, y \in S : lower(x) = lower(y) \/ higher(x) = higher(y) => x = y
      /\ \A n \in 0 .. N - 1 : (\E x \in S : lower(x) = n) /\ (\E x \in S : higher(x) = n)
  <2>1. \A x \in S : Below(S, Less, x) = {y \in S : y < x} /\ Below(S, Greater, x) = {y \in S : y > x}
    BY NumbersAreOrdered
  <2>2. IsOrder(Less, S) /\ IsOrder(Greater, S)
    BY NumbersAreOrdered
  <2>3. Ranked(S, Less) /\ Ranked(S, Greater)
    BY <2>2, Ranks
  <2>5. \A x \in S : lower(x) = Cardinality(Below(S, Less, x)) /\ higher(x) = Cardinality(Below(S, Greater, x))
    BY <2>1
  <2> HIDE DEF lower, higher
  <2> QED
    BY <2>3, <2>5 DEF Ranked
<1>3. \A n \in 1 .. N : /\ Lowest(S, n) \in S /\ lower(Lowest(S, n)) = n - 1
                        /\ Highest(S, n) \in S /\ higher(Highest(S, n)) = n - 1
  <2> SUFFICES ASSUME NEW n \in 1 .. N
               PROVE  /\ Lowest(S, n) \in S /\ lower(Lowest(S, n)) = n - 1
                      /\ Highest(S, n) \in S /\ higher(Highest(S, n)) = n - 1
    OBVIOUS
  <2>1. n - 1 \in 0 .. N - 1
    BY <1>1
  <2>2. (\E x \in S : lower(x) = n - 1) /\ \E x \in S : higher(x) = n - 1
    BY <1>2, <2>1
  <2> QED
    BY <2>2 DEF Lowest, Highest
<1>4. ASSUME NEW x \in S
      PROVE  \E n, m \in 1 .. N : x = Lowest(S, n) /\ x = Highest(S, m)
  <2> DEFINE n == lower(x) + 1
             m == higher(x) + 1
  <2>1. n \in 1 .. N /\ m \in 1 .. N /\ n - 1 = lower(x) /\ m - 1 = higher(x)
    <3> HIDE DEF lower, higher, N
    <3> QED
      BY <1>1, <1>2
  <2> HIDE DEF n, m
  <2>2. Lowest(S, n) \in S /\ Highest(S, m) \in S
    BY <1>3, <2>1
  <2>3. lower(Lowest(S, n)) = lower(x) /\ higher(Highest(S, m)) = higher(x)
    <3> HIDE DEF lower, higher, N
    <3> QED
      BY <1>3, <2>1
  <2>4. x = Lowest(S, n) /\ x = Highest(S, m)
    <3> HIDE DEF lower, higher, N
    <3> QED
      BY <1>2, <2>2, <2>3
  <2> QED
    BY <2>1, <2>4
<1> HIDE DEF N, lower, higher
<1>5. \A n, m \in 1 .. N : Lowest(S, n) = Lowest(S, m) \/ Highest(S, n) = Highest(S, m) => n = m
  BY <1>1, <1>3
<1> QED
  BY <1>3, <1>4, <1>5 DEF N

\* A set of numbers that is not empty has a lowest one, and a highest one if it is finite.
LEMMA LowestIs ==
    ASSUME NEW S \in SUBSET Nat, S # {}
    PROVE  \E x \in S : \A y \in S : x <= y
<1> DEFINE R == {s \in Nat \X Nat : s[1] < s[2]}
<1>1. IsWellFoundedOn(R, Nat)
  BY NatLessThanWellFounded, Zenon DEF OpToRel
<1> HIDE DEF R
<1>2. PICK x \in S : \A y \in S : ~ (<<y, x>> \in R)
  BY <1>1, WFMin, Zenon
<1>3. \A y \in S : ~ (y < x)
  BY <1>2 DEF R
<1> QED
  BY <1>3

LEMMA HighestIs ==
    ASSUME NEW S \in SUBSET Nat, IsFiniteSet(S), S # {}
    PROVE  \E x \in S : \A y \in S : y <= x
<1>1. Cardinality(S) \in Nat /\ Cardinality(S) # 0
  BY FS_CardinalityType, FS_EmptySet
<1>2. 0 \in 0 .. Cardinality(S) - 1
  BY <1>1
<1>3. PICK x \in S : Cardinality(Below(S, Greater, x)) = 0
  <2>1. IsOrder(Greater, S)
    BY NumbersAreOrdered
  <2>2. Ranked(S, Greater)
    BY <2>1, Ranks
  <2> QED
    BY <1>2, <2>2 DEF Ranked
<1>4. Below(S, Greater, x) = {y \in S : y > x}
  BY NumbersAreOrdered
<1>5. IsFiniteSet({y \in S : y > x})
  BY FS_Subset
<1>6. {y \in S : y > x} = {}
  BY <1>3, <1>4, <1>5, FS_EmptySet
<1> QED
  BY <1>6

LEMMA NoMoreThan ==
    ASSUME NEW S, NEW T, IsFiniteSet(T), NEW f \in [S -> T], \A x, y \in S : f[x] = f[y] => x = y
    PROVE  IsFiniteSet(S) /\ Cardinality(S) <= Cardinality(T)
<1>1. f \in Injection(S, T)
  BY DEF Injection, IsInjective
<1> QED
  BY <1>1, FS_Injection

LEMMA ImageIsFinite ==
    ASSUME NEW S, NEW T, IsFiniteSet(S), NEW f \in [S -> T], \A y \in T : \E x \in S : f[x] = y
    PROVE  IsFiniteSet(T)
<1>1. f \in Surjection(S, T)
  BY DEF Surjection
<1> QED
  BY <1>1, FS_Surjection

-----------------------------------------------------------------------------
(* The list of runs. *)

Newest(store) == {i \in DOMAIN store.snaps : i \in LatestOf(store.snaps, store.snaps[i].run)}

\* Each run that snapshots know of has one that is its newest.
LEMMA NewestIs ==
    ASSUME NEW store, IsStore(store)
    PROVE  /\ DOMAIN store.snaps = 1 .. Len(store.snaps) /\ Len(store.snaps) \in Nat
           /\ Newest(store) \in SUBSET Nat /\ IsFiniteSet(Newest(store))
           /\ \A i, j \in Newest(store) : store.snaps[i].run = store.snaps[j].run => i = j
           /\ \A i \in DOMAIN store.snaps : \E j \in Newest(store) : store.snaps[j].run = store.snaps[i].run
           /\ \A i \in Newest(store) : LatestOf(store.snaps, store.snaps[i].run) = {i}
<1> DEFINE snaps == store.snaps
<1>1. DOMAIN snaps = 1 .. Len(snaps) /\ Len(snaps) \in Nat
  BY LenProperties DEF IsStore
<1> HIDE DEF snaps
<1>2. IsFiniteSet(DOMAIN snaps) /\ DOMAIN snaps \in SUBSET Nat
  BY <1>1, FS_Interval
<1>3. Newest(store) \in SUBSET DOMAIN snaps
  BY DEF Newest, snaps
<1>4. IsFiniteSet(Newest(store)) /\ Newest(store) \in SUBSET Nat
  BY <1>2, <1>3, FS_Subset
<1>5. \A i, j \in Newest(store) : snaps[i].run = snaps[j].run => i = j
  <2> SUFFICES ASSUME NEW i \in Newest(store), NEW j \in Newest(store), snaps[i].run = snaps[j].run PROVE i = j
    OBVIOUS
  <2>1. i \in Nat /\ j \in Nat
    BY <1>4
  <2>2. i <= j /\ j <= i
    BY <1>3 DEF Newest, LatestOf, snaps
  <2> QED
    BY <2>1, <2>2
<1>6. ASSUME NEW i \in DOMAIN snaps PROVE \E j \in Newest(store) : snaps[j].run = snaps[i].run
  <2> DEFINE of == {j \in DOMAIN snaps : snaps[j].run = snaps[i].run}
  <2>1. of \in SUBSET DOMAIN snaps /\ i \in of
    OBVIOUS
  <2>2. of \in SUBSET Nat /\ IsFiniteSet(of) /\ of # {}
    BY <1>2, <2>1, FS_Subset
  <2> HIDE DEF of
  <2>3. PICK j \in of : \A k \in of : k <= j
    BY <2>2, HighestIs
  <2>4. j \in DOMAIN snaps /\ snaps[j].run = snaps[i].run /\ \A k \in DOMAIN snaps : snaps[k].run = snaps[j].run => k <= j
    BY <2>3 DEF of
  <2>5. j \in Newest(store)
    BY <2>4 DEF Newest, LatestOf, snaps
  <2> QED
    BY <2>4, <2>5
<1>7. ASSUME NEW i \in Newest(store) PROVE LatestOf(snaps, snaps[i].run) = {i}
  <2>1. i \in LatestOf(snaps, snaps[i].run)
    BY DEF Newest, snaps
  <2>2. ASSUME NEW j \in LatestOf(snaps, snaps[i].run) PROVE j = i
    <3>1. j \in DOMAIN snaps /\ i \in DOMAIN snaps /\ i <= j /\ j <= i
      BY <2>1 DEF LatestOf
    <3> QED
      BY <1>2, <3>1
  <2> QED
    BY <2>1, <2>2
<1> QED
  BY <1>1, <1>4, <1>5, <1>6, <1>7 DEF snaps

\* No more snapshots are told than were asked for, and all of them if they are no more.
LEMMA SummariesAreBounded ==
    ASSUME NEW store, IsStore(store), NEW limit \in Nat
    PROVE  /\ SnapshotSummaries(store, limit) \in SUBSET Newest(store)
           /\ IsFiniteSet(SnapshotSummaries(store, limit))
           /\ Cardinality(SnapshotSummaries(store, limit)) <= limit
           /\ Cardinality(Newest(store)) <= limit => SnapshotSummaries(store, limit) = Newest(store)
<1> DEFINE S == SnapshotSummaries(store, limit)
           N == Newest(store)
           rank(i) == Cardinality({j \in N : j > i})
<1>1. N \in SUBSET Nat /\ IsFiniteSet(N)
  BY NewestIs
<1>2. S = {i \in N : rank(i) < limit}
  BY DEF SnapshotSummaries, Newest
<1> HIDE DEF N, S
<1>3. /\ \A i \in N : rank(i) \in 0 .. Cardinality(N) - 1
      /\ \A i, j \in N : rank(i) = rank(j) => i = j
  <2>1. Ranked(N, Greater)
    BY <1>1, NumbersAreOrdered, Ranks
  <2>2. \A i \in N : rank(i) = Cardinality(Below(N, Greater, i))
    BY <1>1, NumbersAreOrdered
  <2> HIDE DEF rank
  <2> QED
    BY <2>1, <2>2 DEF Ranked
<1>4. IsFiniteSet(0 .. limit - 1) /\ Cardinality(0 .. limit - 1) = limit
  <2>1. 0 \in Int /\ limit - 1 \in Int
    OBVIOUS
  <2>2. Cardinality(0 .. limit - 1) = (IF 0 > limit - 1 THEN 0 ELSE limit - 1 - 0 + 1) /\ IsFiniteSet(0 .. limit - 1)
    BY <2>1, FS_Interval
  <2> QED
    BY <2>2
<1> HIDE DEF rank
<1> DEFINE f == [i \in S |-> rank(i)]
<1>5. f \in [S -> 0 .. limit - 1] /\ \A i, j \in S : f[i] = f[j] => i = j
  BY <1>2, <1>3
<1> HIDE DEF f
<1>6. IsFiniteSet(S) /\ Cardinality(S) <= limit
  BY <1>4, <1>5, NoMoreThan
<1>7. ASSUME Cardinality(N) <= limit PROVE S = N
  <2>1. Cardinality(N) \in Nat
    BY <1>1, FS_CardinalityType
  <2>2. \A i \in N : rank(i) < limit
    BY <1>3, <1>7, <2>1
  <2> QED
    BY <1>2, <2>2
<1> QED
  BY <1>2, <1>6, <1>7 DEF S, N

LiveRow(store, run) == [view |-> ViewOf(run, store.memory[run]), source |-> "memory", loadable |-> TRUE]
SavedRow(store, i) ==
  [view |-> TerminalView(store.snaps[i].run, store.snaps[i].snap), source |-> "snapshots", loadable |-> FALSE]
Unseen(store, limit) == {i \in SnapshotSummaries(store, limit) : store.snaps[i].run \notin DOMAIN store.memory}

\* The rows of a list: those of memory and after them those of snapshots.
LEMMA ListedIs ==
    ASSUME NEW store, IsStore(store), NEW limit \in Nat
    PROVE  LET M == Cardinality(DOMAIN store.memory)
               U == Cardinality(Unseen(store, limit))
               listed == ListRuns(store, limit)
           IN /\ M \in Nat /\ U \in Nat
              /\ Len(listed) = M + U /\ DOMAIN listed = 1 .. M + U
              /\ \A i \in 1 .. M + U :
                   \/ i \in 1 .. M /\ listed[i] = LiveRow(store, Lowest(DOMAIN store.memory, i))
                   \/ i - M \in 1 .. U /\ listed[i] = SavedRow(store, Highest(Unseen(store, limit), i - M))
              /\ \A n \in 1 .. M : listed[n] = LiveRow(store, Lowest(DOMAIN store.memory, n))
              /\ \A n \in 1 .. U : n + M \in 1 .. M + U /\ listed[n + M] = SavedRow(store, Highest(Unseen(store, limit), n))
<1> DEFINE mem == DOMAIN store.memory
           unseen == Unseen(store, limit)
           M == Cardinality(mem)
           U == Cardinality(unseen)
           first == [n \in 1 .. M |-> LiveRow(store, Lowest(mem, n))]
           rest == [n \in 1 .. U |-> SavedRow(store, Highest(unseen, n))]
           V == {first[n] : n \in 1 .. M} \cup {rest[n] : n \in 1 .. U}
           listed == ListRuns(store, limit)
<1>1. IsFiniteSet(mem)
  BY DEF IsStore
<1>2. unseen \in SUBSET SnapshotSummaries(store, limit)
  BY DEF Unseen
<1>3. IsFiniteSet(unseen)
  BY <1>2, SummariesAreBounded, FS_Subset
<1>4. M \in Nat /\ U \in Nat
  BY <1>1, <1>3, FS_CardinalityType
<1>5. listed = first \o rest
  BY DEF ListRuns, Unseen, LiveRow, SavedRow
<1> HIDE DEF mem, unseen, M, U, listed
<1>6. /\ first \in [1 .. M -> V] /\ rest \in [1 .. U -> V]
      /\ \A n \in 1 .. M : first[n] = LiveRow(store, Lowest(mem, n))
      /\ \A n \in 1 .. U : rest[n] = SavedRow(store, Highest(unseen, n))
  OBVIOUS
<1> HIDE DEF first, rest, V
<1>7. first \in Seq(V) /\ rest \in Seq(V) /\ Len(first) = M /\ Len(rest) = U
  BY <1>4, <1>6, SeqDef
<1>8. /\ listed \in Seq(V) /\ Len(listed) = M + U
      /\ \A i \in 1 .. M + U : listed[i] = IF i <= M THEN first[i] ELSE rest[i - M]
  BY <1>5, <1>7, ConcatProperties
<1>9. DOMAIN listed = 1 .. M + U
  BY <1>8, LenProperties
<1>10. \A i \in 1 .. M + U : \/ i \in 1 .. M /\ listed[i] = LiveRow(store, Lowest(mem, i))
                             \/ i - M \in 1 .. U /\ listed[i] = SavedRow(store, Highest(unseen, i - M))
  BY <1>4, <1>6, <1>8
<1>11. \A n \in 1 .. M : listed[n] = LiveRow(store, Lowest(mem, n))
  BY <1>4, <1>6, <1>8
<1>12. ASSUME NEW n \in 1 .. U PROVE n + M \in 1 .. M + U /\ listed[n + M] = SavedRow(store, Highest(unseen, n))
  <2> DEFINE i == n + M
  <2>1. i \in 1 .. M + U /\ ~ (i <= M) /\ i - M = n
    BY <1>4
  <2> HIDE DEF i
  <2>2. listed[i] = rest[n]
    BY <1>4, <1>8, <2>1
  <2> QED
    BY <1>6, <2>1, <2>2 DEF i
<1> QED
  BY <1>4, <1>8, <1>9, <1>10, <1>11, <1>12 DEF mem, unseen, M, U, listed

\* Each run is listed once, and the runs that are listed are those that a store knows of.
LEMMA RunsAreListedOnce ==
    ASSUME NEW store, IsStore(store), NEW limit \in Nat
    PROVE  LET listed == ListRuns(store, limit)
               mem == DOMAIN store.memory
               all == mem \cup {store.snaps[i].run : i \in DOMAIN store.snaps}
           IN /\ \A i, j \in DOMAIN listed : listed[i].view.run = listed[j].view.run => i = j
              /\ Len(listed) <= limit + Cardinality(mem)
              /\ Cardinality(all) <= limit => {listed[i].view.run : i \in DOMAIN listed} = all
              /\ \A i \in DOMAIN listed :
                   \/ \E run \in mem : listed[i] = LiveRow(store, run)
                   \/ \E k \in Newest(store) : store.snaps[k].run \notin mem /\ listed[i] = SavedRow(store, k)
<1> DEFINE listed == ListRuns(store, limit)
           mem == DOMAIN store.memory
           unseen == Unseen(store, limit)
           all == mem \cup {store.snaps[i].run : i \in DOMAIN store.snaps}
           M == Cardinality(mem)
           U == Cardinality(unseen)
           snaps == store.snaps
<1>1. /\ M \in Nat /\ U \in Nat /\ Len(listed) = M + U /\ DOMAIN listed = 1 .. M + U
      /\ \A i \in 1 .. M + U : \/ i \in 1 .. M /\ listed[i] = LiveRow(store, Lowest(mem, i))
                               \/ i - M \in 1 .. U /\ listed[i] = SavedRow(store, Highest(unseen, i - M))
      /\ \A n \in 1 .. M : listed[n] = LiveRow(store, Lowest(mem, n))
      /\ \A n \in 1 .. U : n + M \in 1 .. M + U /\ listed[n + M] = SavedRow(store, Highest(unseen, n))
  BY ListedIs
<1>2. mem \in SUBSET Nat /\ IsFiniteSet(mem)
  BY DEF IsStore
<1>3. unseen \in SUBSET Newest(store) /\ unseen \in SUBSET SnapshotSummaries(store, limit)
  BY SummariesAreBounded DEF Unseen
<1>4. unseen \in SUBSET Nat /\ IsFiniteSet(unseen)
  BY <1>3, NewestIs, FS_Subset
<1>5. \A k \in unseen : snaps[k].run \notin mem
  BY DEF Unseen
<1>6. /\ \A n \in 1 .. M : Lowest(mem, n) \in mem
      /\ \A n, m \in 1 .. M : Lowest(mem, n) = Lowest(mem, m) => n = m
      /\ \A x \in mem : \E n \in 1 .. M : x = Lowest(mem, n)
  BY <1>2, PlacesAreTaken
<1>7. /\ \A n \in 1 .. U : Highest(unseen, n) \in unseen
      /\ \A n, m \in 1 .. U : Highest(unseen, n) = Highest(unseen, m) => n = m
      /\ \A x \in unseen : \E n \in 1 .. U : x = Highest(unseen, n)
  BY <1>4, PlacesAreTaken
<1>8. /\ \A run : LiveRow(store, run).view.run = run
      /\ \A k : SavedRow(store, k).view.run = snaps[k].run
  BY DEF LiveRow, SavedRow, ViewOf, TerminalView
<1>9. \A i, j \in Newest(store) : snaps[i].run = snaps[j].run => i = j
  BY NewestIs
<1>10. U <= limit
  <2>1. U <= Cardinality(SnapshotSummaries(store, limit))
    BY <1>3, SummariesAreBounded, FS_Subset
  <2>2. Cardinality(SnapshotSummaries(store, limit)) \in Nat /\ Cardinality(SnapshotSummaries(store, limit)) <= limit
    BY SummariesAreBounded, FS_CardinalityType
  <2> QED
    BY <1>1, <2>1, <2>2
<1>11. ASSUME Cardinality(all) <= limit, NEW k \in Newest(store), snaps[k].run \notin mem PROVE k \in unseen
  <2> DEFINE N == Newest(store)
             f == [i \in N |-> snaps[i].run]
  <2>1. N \in SUBSET DOMAIN snaps /\ IsFiniteSet(DOMAIN snaps) /\ IsFiniteSet(N)
    <3>1. DOMAIN snaps = 1 .. Len(snaps) /\ Len(snaps) \in Nat
      BY NewestIs
    <3>2. 1 \in Int /\ Len(snaps) \in Int
      BY <3>1
    <3>3. IsFiniteSet(DOMAIN snaps)
      BY <3>1, <3>2, FS_Interval
    <3> QED
      BY <3>3, NewestIs DEF Newest
  <2> DEFINE told == {snaps[i].run : i \in DOMAIN snaps}
             g == [i \in DOMAIN snaps |-> snaps[i].run]
  <2>2. g \in [DOMAIN snaps -> told] /\ \A run \in told : \E i \in DOMAIN snaps : g[i] = run
    OBVIOUS
  <2>3. IsFiniteSet(told)
    <3> HIDE DEF g, told
    <3> QED
      BY <2>1, <2>2, ImageIsFinite
  <2>4. IsFiniteSet(all)
    BY <1>2, <2>3, FS_Union
  <2>5. f \in [N -> all] /\ \A i, j \in N : f[i] = f[j] => i = j
    BY <1>9, <2>1
  <2>6. Cardinality(N) <= Cardinality(all)
    <3> HIDE DEF f, N, all
    <3> QED
      BY <2>4, <2>5, NoMoreThan
  <2>7. Cardinality(N) <= limit
    <3>1. Cardinality(N) \in Nat /\ Cardinality(all) \in Nat
      BY <2>1, <2>4, FS_CardinalityType
    <3> HIDE DEF N, all
    <3> QED
      BY <1>11, <2>6, <3>1
  <2>8. k \in SnapshotSummaries(store, limit)
    BY <2>7, SummariesAreBounded
  <2> QED
    BY <1>11, <2>8 DEF Unseen
<1> HIDE DEF listed, mem, unseen, M, U
<1>12. ASSUME NEW i \in DOMAIN listed, NEW j \in DOMAIN listed, listed[i].view.run = listed[j].view.run
       PROVE  i = j
  <2>1. /\ i \in 1 .. M + U /\ j \in 1 .. M + U
        /\ \/ i \in 1 .. M /\ listed[i].view.run = Lowest(mem, i)
           \/ i - M \in 1 .. U /\ listed[i].view.run = snaps[Highest(unseen, i - M)].run
        /\ \/ j \in 1 .. M /\ listed[j].view.run = Lowest(mem, j)
           \/ j - M \in 1 .. U /\ listed[j].view.run = snaps[Highest(unseen, j - M)].run
    BY <1>1, <1>8
  <2>2. CASE i \in 1 .. M /\ listed[i].view.run = Lowest(mem, i)
    BY <1>5, <1>6, <1>7, <1>12, <2>1, <2>2
  <2>3. CASE i - M \in 1 .. U /\ listed[i].view.run = snaps[Highest(unseen, i - M)].run
    <3>1. j - M \in 1 .. U /\ listed[j].view.run = snaps[Highest(unseen, j - M)].run
      BY <1>5, <1>6, <1>7, <1>12, <2>1, <2>3
    <3>2. Highest(unseen, i - M) = Highest(unseen, j - M)
      BY <1>3, <1>7, <1>9, <1>12, <2>3, <3>1
    <3>3. i - M = j - M
      BY <1>7, <2>3, <3>1, <3>2
    <3> QED
      BY <1>1, <2>1, <3>3
  <2> QED
    BY <2>1, <2>2, <2>3
<1>13. ASSUME NEW i \in DOMAIN listed
       PROVE  /\ \/ \E run \in mem : listed[i] = LiveRow(store, run)
                 \/ \E k \in Newest(store) : snaps[k].run \notin mem /\ listed[i] = SavedRow(store, k)
              /\ listed[i].view.run \in all
  <2>1. CASE i \in 1 .. M /\ listed[i] = LiveRow(store, Lowest(mem, i))
    BY <1>6, <1>8, <2>1 DEF mem
  <2>2. CASE i - M \in 1 .. U /\ listed[i] = SavedRow(store, Highest(unseen, i - M))
    <3>1. Highest(unseen, i - M) \in Newest(store) /\ snaps[Highest(unseen, i - M)].run \notin mem
      BY <1>3, <1>5, <1>7, <2>2
    <3>2. Highest(unseen, i - M) \in DOMAIN snaps
      BY <3>1 DEF Newest
    <3> QED
      BY <1>8, <2>2, <3>1, <3>2
  <2> QED
    BY <1>1, <2>1, <2>2
<1>14. ASSUME Cardinality(all) <= limit, NEW run \in all PROVE \E i \in DOMAIN listed : listed[i].view.run = run
  <2>1. CASE run \in mem
    <3>1. PICK n \in 1 .. M : run = Lowest(mem, n)
      BY <1>6, <2>1
    <3>2. n \in 1 .. M + U
      BY <1>1
    <3> QED
      BY <1>1, <1>8, <3>1, <3>2
  <2>2. CASE run \notin mem
    <3>1. PICK i \in DOMAIN snaps : snaps[i].run = run
      BY <2>2 DEF mem
    <3>2. PICK k \in Newest(store) : snaps[k].run = run
      BY <3>1, NewestIs
    <3>3. k \in unseen
      BY <1>11, <1>14, <2>2, <3>2
    <3>4. PICK n \in 1 .. U : k = Highest(unseen, n)
      BY <1>7, <3>3
    <3>5. n + M \in DOMAIN listed /\ listed[n + M] = SavedRow(store, k)
      BY <1>1, <3>4
    <3> QED
      BY <1>8, <3>2, <3>5
  <2> QED
    BY <2>1, <2>2
<1>15. Len(listed) <= limit + M
  BY <1>1, <1>10
<1> HIDE DEF all
<1> QED
  BY <1>12, <1>13, <1>14, <1>15 DEF listed, mem, M, all

\* Whatever store a run was found in, the list tells what asking for it tells.
LEMMA ListsTellGets ==
    ASSUME NEW c, IsStore(c.store), c.limit \in Nat
    PROVE  ListTellsGet(c)
<1> DEFINE store == c.store
           listed == ListRuns(store, c.limit)
           mem == DOMAIN store.memory
           all == mem \cup {store.snaps[i].run : i \in DOMAIN store.snaps}
           LiveOf(run) == [ledger |-> GetTrace(store, run).entries, status |-> "running", book |-> <<>>]
           Tells(run, status) ==
             /\ GetRunView(store, run).found => GetRunView(store, run).view.status = status
             /\ GetTrace(store, run).source # "nothing"
             /\ \A layer \in {"actions", "executions", "context"} :
                  GetTrace(store, run).layers[layer] = LayersOfLoop(LiveOf(run))[layer]
<1> SUFFICES /\ \A i, j \in DOMAIN listed : listed[i].view.run = listed[j].view.run => i = j
             /\ Len(listed) <= c.limit + Cardinality(mem)
             /\ Cardinality(all) <= c.limit => {listed[i].view.run : i \in DOMAIN listed} = all
             /\ \A i \in DOMAIN listed : Tells(listed[i].view.run, listed[i].view.status)
  BY Zenon DEF ListTellsGet
<1>1. /\ \A i, j \in DOMAIN listed : listed[i].view.run = listed[j].view.run => i = j
      /\ Len(listed) <= c.limit + Cardinality(mem)
      /\ Cardinality(all) <= c.limit => {listed[i].view.run : i \in DOMAIN listed} = all
      /\ \A i \in DOMAIN listed :
           \/ \E run \in mem : listed[i] = LiveRow(store, run)
           \/ \E k \in Newest(store) : store.snaps[k].run \notin mem /\ listed[i] = SavedRow(store, k)
  BY RunsAreListedOnce
<1>2. \A loop : /\ LayersOfLoop(loop)["actions"] = EntriesOf(loop.ledger, "task.submitted")
                /\ LayersOfLoop(loop)["executions"] = FirstOfEach(loop.ledger)
                /\ LayersOfLoop(loop)["context"] = SeqsOf(EntriesOf(loop.ledger, "context.built"))
  BY DEF LayersOfLoop
<1>3. \A s : /\ LayersFromTrace(s)["actions"] = EntriesOf(s.ledger, "task.submitted")
             /\ LayersFromTrace(s)["executions"] = FirstOfEach(s.ledger)
             /\ LayersFromTrace(s)["context"] = SeqsOf(EntriesOf(s.ledger, "context.built"))
  BY DEF LayersFromTrace
<1>4. ASSUME NEW run \in mem PROVE LiveRow(store, run).view.run = run /\ Tells(run, LiveRow(store, run).view.status)
  <2> DEFINE loop == store.memory[run]
             trace == GetTrace(store, run)
  <2>1. LiveRow(store, run).view = ViewOf(run, loop) /\ ViewOf(run, loop).run = run
    BY DEF LiveRow, ViewOf
  <2>2. GetRunView(store, run) = [found |-> TRUE, view |-> ViewOf(run, loop)]
    BY DEF GetRunView
  <2>3. trace = [source |-> "memory", entries |-> loop.ledger, layers |-> LayersOfLoop(loop)]
    BY DEF GetTrace
  <2> HIDE DEF trace, loop
  <2>4. trace.source # "nothing" /\ trace.layers = LayersOfLoop(loop) /\ LiveOf(run).ledger = loop.ledger
    BY <2>3 DEF trace
  <2>5. \A layer \in {"actions", "executions", "context"} : trace.layers[layer] = LayersOfLoop(LiveOf(run))[layer]
    <3> DEFINE live == LiveOf(run)
    <3>1. live.ledger = loop.ledger
      BY <2>4
    <3> HIDE DEF live
    <3>2. \A layer \in {"actions", "executions", "context"} : LayersOfLoop(loop)[layer] = LayersOfLoop(live)[layer]
      BY <1>2, <3>1
    <3> QED
      BY <2>4, <3>2 DEF live
  <2> QED
    BY <2>1, <2>2, <2>4, <2>5 DEF trace
<1>5. ASSUME NEW k \in Newest(store), store.snaps[k].run \notin mem
      PROVE  /\ SavedRow(store, k).view.run = store.snaps[k].run
             /\ Tells(store.snaps[k].run, SavedRow(store, k).view.status)
  <2> DEFINE run == store.snaps[k].run
             s == store.snaps[k].snap
             rebuilt == RestoredRun(s, store.tables)
             trace == GetTrace(store, run)
  <2>1. LatestOf(store.snaps, run) = {k} /\ k \in DOMAIN store.snaps
    BY NewestIs DEF Newest
  <2>2. HasSnap(store, run) /\ LatestSnap(store, run) = s
    BY <2>1 DEF HasSnap, LatestSnap
  <2>3. IsTaken(s) /\ store.tables \in Tables
    BY <2>1 DEF IsStore
  <2>4. /\ SavedRow(store, k).view = TerminalView(run, s) /\ TerminalView(run, s).run = run
        /\ TerminalView(run, s).status = s.status
    BY DEF SavedRow, TerminalView
  <2>5. rebuilt.ok => rebuilt.loop.status = s.status
    BY <2>3, RebuiltStatus, Zenon
  <2> HIDE DEF rebuilt
  <2>6. GetRunView(store, run) = IF s.status \in RunsOver THEN [found |-> TRUE, view |-> TerminalView(run, s)]
                                 ELSE IF rebuilt.ok THEN [found |-> TRUE, view |-> ViewOf(run, rebuilt.loop)]
                                 ELSE [found |-> FALSE, view |-> [run |-> run]]
    BY <1>5, <2>2 DEF GetRunView, rebuilt
  <2>7. trace = [source |-> "snapshot", entries |-> s.ledger, layers |-> LayersFromTrace(s)]
    BY <1>5, <2>2 DEF GetTrace
  <2> HIDE DEF trace
  <2>8. trace.source # "nothing" /\ trace.layers = LayersFromTrace(s) /\ LiveOf(run).ledger = s.ledger
    BY <2>7 DEF trace
  <2>9. \A layer \in {"actions", "executions", "context"} : trace.layers[layer] = LayersOfLoop(LiveOf(run))[layer]
    <3> DEFINE live == LiveOf(run)
    <3>1. live.ledger = s.ledger
      BY <2>8
    <3> HIDE DEF live
    <3>2. \A layer \in {"actions", "executions", "context"} : LayersFromTrace(s)[layer] = LayersOfLoop(live)[layer]
      BY <1>2, <1>3, <3>1
    <3> QED
      BY <2>8, <3>2 DEF live
  <2> HIDE DEF run, s
  <2>10. GetRunView(store, run).found => GetRunView(store, run).view.status = s.status
    BY <2>4, <2>5, <2>6 DEF ViewOf
  <2> QED
    BY <2>4, <2>8, <2>9, <2>10 DEF trace, run
<1> HIDE DEF store, listed, mem, all, LiveOf, Tells
<1>6. \A i \in DOMAIN listed : Tells(listed[i].view.run, listed[i].view.status)
  <2> SUFFICES ASSUME NEW i \in DOMAIN listed PROVE Tells(listed[i].view.run, listed[i].view.status)
    OBVIOUS
  <2>1. CASE \E run \in mem : listed[i] = LiveRow(store, run)
    BY <1>4, <2>1
  <2>2. CASE \E k \in Newest(store) : store.snaps[k].run \notin mem /\ listed[i] = SavedRow(store, k)
    BY <1>5, <2>2
  <2> QED
    BY <1>1, <2>1, <2>2
<1> QED
  BY <1>1, <1>6

-----------------------------------------------------------------------------
(* The state of a loop. *)

State ==
  [plan : BOOLEAN, completed : Seq(Nat), waits : BOOLEAN, finished : BOOLEAN, denied : Nat, version : Nat]

\* What an observation makes of each part of the state.
LEMMA ReducedIs ==
    ASSUME NEW s \in State, NEW o \in Observation
    PROVE  /\ Reduced(s, o) \in State
           /\ Reduced(s, o).version = s.version + 1
           /\ Reduced(s, o).waits = IF o.kind = "approval.requested" THEN TRUE
                                    ELSE IF o.kind = "approval.decided" THEN FALSE ELSE s.waits
           /\ Reduced(s, o).completed = IF o.kind = "execution" THEN ReducedExecution(s, o).completed ELSE s.completed
           /\ ReducedExecution(s, o).completed =
                IF o.execution \in {s.completed[i] : i \in DOMAIN s.completed} THEN s.completed
                ELSE Append(s.completed, o.execution)
<1>1. s.completed \in Seq(Nat) /\ o.execution \in Nat /\ s.version \in Nat /\ s.denied \in Nat
  BY DEF State, Observation
<1>2. /\ ReducedExecution(s, o) \in State
      /\ ReducedExecution(s, o).waits = s.waits /\ ReducedExecution(s, o).version = s.version
      /\ ReducedExecution(s, o).completed =
           IF o.execution \in {s.completed[i] : i \in DOMAIN s.completed} THEN s.completed
           ELSE Append(s.completed, o.execution)
  <2>1. Append(s.completed, o.execution) \in Seq(Nat)
    BY <1>1, AppendProperties
  <2> DEFINE counted == o.execution \in {s.completed[i] : i \in DOMAIN s.completed}
  <2>2. CASE counted
    BY <2>2 DEF ReducedExecution
  <2>3. CASE ~ counted
    <3>1. ReducedExecution(s, o) = [s EXCEPT !.completed = Append(s.completed, o.execution)]
      BY <2>3 DEF ReducedExecution
    <3> HIDE DEF counted
    <3> QED
      BY <2>1, <2>3, <3>1 DEF State, counted
  <2> QED
    BY <2>2, <2>3
<1> DEFINE next == CASE o.kind = "plan.created" -> [s EXCEPT !.plan = TRUE]
                     [] o.kind = "plan.invalidated" -> [s EXCEPT !.plan = FALSE]
                     [] o.kind = "execution" -> ReducedExecution(s, o)
                     [] o.kind = "run.finished" -> [s EXCEPT !.finished = TRUE]
                     [] o.kind = "policy.denied" -> [s EXCEPT !.denied = @ + 1]
                     [] o.kind = "approval.requested" -> [s EXCEPT !.waits = TRUE]
                     [] o.kind = "approval.decided" -> [s EXCEPT !.waits = FALSE]
                     [] OTHER -> s
<1>3. Reduced(s, o) = [next EXCEPT !.version = @ + 1]
  BY DEF Reduced
<1>4. /\ next \in State /\ next.version = s.version
      /\ next.waits = IF o.kind = "approval.requested" THEN TRUE
                      ELSE IF o.kind = "approval.decided" THEN FALSE ELSE s.waits
      /\ next.completed = IF o.kind = "execution" THEN ReducedExecution(s, o).completed ELSE s.completed
  <2>1. CASE o.kind = "execution"
    <3>1. next = ReducedExecution(s, o)
      BY <2>1
    <3> HIDE DEF next
    <3> QED
      BY <1>2, <2>1, <3>1
  <2>2. CASE o.kind # "execution"
    <3>1. \/ next = [s EXCEPT !.plan = TRUE] /\ o.kind = "plan.created"
          \/ next = [s EXCEPT !.plan = FALSE] /\ o.kind = "plan.invalidated"
          \/ next = [s EXCEPT !.finished = TRUE] /\ o.kind = "run.finished"
          \/ next = [s EXCEPT !.denied = s.denied + 1] /\ o.kind = "policy.denied"
          \/ next = [s EXCEPT !.waits = TRUE] /\ o.kind = "approval.requested"
          \/ next = [s EXCEPT !.waits = FALSE] /\ o.kind = "approval.decided"
          \/ next = s /\ o.kind \notin {"approval.requested", "approval.decided"}
      BY <2>2
    <3>2. s.denied + 1 \in Nat
      BY <1>1
    <3> HIDE DEF next
    <3> QED
      BY <2>2, <3>1, <3>2 DEF State
  <2> QED
    BY <2>1, <2>2
<1> HIDE DEF next
<1>5. Reduced(s, o) \in State /\ Reduced(s, o).version = next.version + 1
      /\ Reduced(s, o).waits = next.waits /\ Reduced(s, o).completed = next.completed
  <2> DEFINE v == next.version + 1
  <2>1. v \in Nat /\ Reduced(s, o) = [next EXCEPT !.version = v]
    BY <1>1, <1>3, <1>4
  <2> HIDE DEF v
  <2>2. Reduced(s, o) \in State /\ Reduced(s, o).version = v
        /\ Reduced(s, o).waits = next.waits /\ Reduced(s, o).completed = next.completed
    BY <1>4, <2>1 DEF State
  <2> QED
    BY <2>2 DEF v
<1> QED
  BY <1>2, <1>4, <1>5

\* The states that the observations go through, from the empty one to the last.
LEMMA StatesAre ==
    ASSUME NEW c \in Seq(Observation)
    PROVE  \E F : /\ F[0] = EmptyState
                  /\ \A n \in 1 .. Len(c) : F[n] = Reduced(F[n - 1], c[n])
                  /\ StateAfter(c) = F[Len(c)]
<1> DEFINE N == Len(c)
           G == [n \in 1 .. N |-> [s \in State |-> Reduced(s, c[n])]]
           F == CHOOSE after : after = [n \in 0 .. N |-> IF n = 0 THEN EmptyState ELSE Reduced(after[n - 1], c[n])]
<1>1. StateAfter(c) = F[N]
  BY DEF StateAfter
<1>2. N \in Nat /\ \A n \in 1 .. N : c[n] \in Observation
  BY LenProperties, ElementOfSeq
<1> HIDE DEF N
<1>3. G \in [1 .. N -> [State -> State]] /\ \A n \in 1 .. N : \A s \in State : G[n][s] = Reduced(s, c[n])
  BY <1>2, ReducedIs
<1> HIDE DEF G
<1>4. EmptyState \in State
  BY EmptySeq DEF EmptyState, State
<1>5. PICK f \in [0 .. N -> State] : f[0] = EmptyState /\ \A n \in 1 .. N : f[n] = G[n][f[n - 1]]
  <2>1. \E f : Iterates(f, N, State, EmptyState, G)
    BY <1>2, <1>3, <1>4, Iteration, Zenon
  <2> QED
    BY <2>1, Zenon DEF Iterates
<1>6. f = [n \in 0 .. N |-> IF n = 0 THEN EmptyState ELSE Reduced(f[n - 1], c[n])]
  <2>1. f = [n \in 0 .. N |-> f[n]]
    BY <1>5
  <2>2. ASSUME NEW n \in 0 .. N PROVE f[n] = IF n = 0 THEN EmptyState ELSE Reduced(f[n - 1], c[n])
    <3>1. CASE n = 0
      BY <1>5, <3>1
    <3>2. CASE n # 0
      <4>1. n \in 1 .. N /\ n - 1 \in 0 .. N
        BY <1>2, <3>2
      <4> QED
        BY <1>3, <1>5, <3>2, <4>1
    <3> QED
      BY <3>1, <3>2
  <2> QED
    BY <2>1, <2>2
<1>7. F = [n \in 0 .. N |-> IF n = 0 THEN EmptyState ELSE Reduced(F[n - 1], c[n])]
  BY <1>6
<1> HIDE DEF F
<1>8. F[0] = EmptyState /\ \A n \in 1 .. N : F[n] = Reduced(F[n - 1], c[n])
  <2>1. 0 \in 0 .. N /\ \A n \in 1 .. N : n \in 0 .. N /\ n # 0
    BY <1>2
  <2> QED
    BY <1>7, <2>1
<1> QED
  BY <1>1, <1>8 DEF N

\* What a state says of the first n observations.
Folds(c, s, n) ==
  /\ s \in State
  /\ \A i, j \in DOMAIN s.completed : i # j => s.completed[i] # s.completed[j]
  /\ {s.completed[i] : i \in DOMAIN s.completed} = {c[i].execution : i \in {k \in 1 .. n : c[k].kind = "execution"}}
  /\ s.waits <=> \E i \in 1 .. n : /\ c[i].kind = "approval.requested"
                                   /\ \A k \in i + 1 .. n : c[k].kind \notin {"approval.requested", "approval.decided"}
  /\ s.version = 1 + n

LEMMA FoldsOn ==
    ASSUME NEW c \in Seq(Observation), NEW n \in 1 .. Len(c), NEW s, Folds(c, s, n - 1)
    PROVE  Folds(c, Reduced(s, c[n]), n)
<1> DEFINE o == c[n]
           t == Reduced(s, o)
<1>1. n \in Nat /\ o \in Observation /\ s \in State /\ o.execution \in Nat /\ s.completed \in Seq(Nat)
  <2>1. n \in Nat /\ o \in Observation
    BY LenProperties, ElementOfSeq
  <2> QED
    BY <2>1 DEF Folds, Observation, State
<1>2. /\ t \in State /\ t.version = s.version + 1
      /\ t.waits = IF o.kind = "approval.requested" THEN TRUE ELSE IF o.kind = "approval.decided" THEN FALSE ELSE s.waits
      /\ t.completed = IF o.kind = "execution" THEN ReducedExecution(s, o).completed ELSE s.completed
      /\ ReducedExecution(s, o).completed =
           IF o.execution \in {s.completed[i] : i \in DOMAIN s.completed} THEN s.completed
           ELSE Append(s.completed, o.execution)
  BY <1>1, ReducedIs
<1> DEFINE Done(m) == {c[i].execution : i \in {k \in 1 .. m : c[k].kind = "execution"}}
<1>3. Done(n) = IF o.kind = "execution" THEN Done(n - 1) \cup {o.execution} ELSE Done(n - 1)
  <2>1. 1 .. n = 1 .. n - 1 \cup {n}
    BY <1>1
  <2> QED
    BY <2>1
<1>4. {s.completed[i] : i \in DOMAIN s.completed} = Done(n - 1)
  BY DEF Folds
<1> HIDE DEF o, t, Done
<1>5. /\ \A i, j \in DOMAIN t.completed : i # j => t.completed[i] # t.completed[j]
      /\ {t.completed[i] : i \in DOMAIN t.completed} = Done(n)
  <2>1. CASE t.completed = s.completed /\ Done(n) = Done(n - 1)
    BY <1>4, <2>1 DEF Folds
  <2>2. CASE o.kind = "execution" /\ o.execution \notin Done(n - 1)
    <3> DEFINE L == Len(s.completed)
    <3>1. t.completed = Append(s.completed, o.execution) /\ Done(n) = Done(n - 1) \cup {o.execution}
      BY <1>2, <1>3, <1>4, <2>2
    <3>2. /\ L \in Nat /\ DOMAIN s.completed = 1 .. L /\ DOMAIN t.completed = 1 .. L + 1
          /\ \A i \in 1 .. L : t.completed[i] = s.completed[i]
          /\ t.completed[L + 1] = o.execution
      BY <1>1, <3>1, AppendProperties, LenProperties
    <3> HIDE DEF L
    <3>3. 1 .. L + 1 = 1 .. L \cup {L + 1}
      BY <3>2
    <3>4. \A i \in 1 .. L : s.completed[i] # o.execution
      BY <1>4, <2>2, <3>2
    <3>5. \A i, j \in 1 .. L : i # j => s.completed[i] # s.completed[j]
      BY <3>2 DEF Folds
    <3>6. \A i, j \in DOMAIN t.completed : i # j => t.completed[i] # t.completed[j]
      BY <3>2, <3>3, <3>4, <3>5
    <3>7. {t.completed[i] : i \in DOMAIN t.completed} = {s.completed[i] : i \in 1 .. L} \cup {o.execution}
      BY <3>2, <3>3
    <3> QED
      BY <1>4, <3>1, <3>2, <3>6, <3>7
  <2> QED
    BY <1>2, <1>3, <1>4, <2>1, <2>2
<1> DEFINE Words == {"approval.requested", "approval.decided"}
           Waiting(m) == \E i \in 1 .. m : c[i].kind = "approval.requested" /\ \A k \in i + 1 .. m : c[k].kind \notin Words
<1>6. s.waits <=> Waiting(n - 1)
  BY DEF Folds
<1>7. t.waits <=> Waiting(n)
  <2>1. CASE o.kind = "approval.requested"
    BY <1>1, <1>2, <2>1 DEF o
  <2>2. CASE o.kind = "approval.decided"
    <3>1. ASSUME NEW i \in 1 .. n, c[i].kind = "approval.requested", \A k \in i + 1 .. n : c[k].kind \notin Words PROVE FALSE
      <4>1. i # n
        BY <2>2, <3>1 DEF o
      <4>2. n \in i + 1 .. n
        BY <1>1, <4>1
      <4> QED
        BY <2>2, <3>1, <4>2 DEF o
    <3> QED
      BY <1>2, <2>2, <3>1
  <2>3. CASE o.kind \notin Words
    <3>1. ASSUME NEW i \in 1 .. n - 1, c[i].kind = "approval.requested", \A k \in i + 1 .. n - 1 : c[k].kind \notin Words
          PROVE  Waiting(n)
      <4>1. i \in 1 .. n /\ \A k \in i + 1 .. n : k \in i + 1 .. n - 1 \/ k = n
        BY <1>1
      <4> QED
        BY <2>3, <3>1, <4>1 DEF o
    <3>2. ASSUME NEW i \in 1 .. n, c[i].kind = "approval.requested", \A k \in i + 1 .. n : c[k].kind \notin Words
          PROVE  Waiting(n - 1)
      <4>1. i \in 1 .. n - 1 /\ \A k \in i + 1 .. n - 1 : k \in i + 1 .. n
        BY <1>1, <2>3, <3>2 DEF o
      <4> QED
        BY <3>2, <4>1
    <3>3. Waiting(n) <=> Waiting(n - 1)
      BY <3>1, <3>2
    <3> HIDE DEF Waiting
    <3> QED
      BY <1>2, <1>6, <2>3, <3>3
  <2> QED
    BY <2>1, <2>2, <2>3
<1>8. t.version = 1 + n
  <2>1. s.version = 1 + (n - 1)
    BY DEF Folds
  <2> QED
    BY <1>1, <1>2, <2>1
<1> QED
  BY <1>2, <1>5, <1>7, <1>8 DEF Folds, t, o, Done

\* The state is what its observations say, however many there are.
LEMMA StatesAreFolded == ASSUME NEW c \in Seq(Observation) PROVE StateIsFolded(c)
<1> DEFINE N == Len(c)
           state == StateAfter(c)
           gates == {i \in DOMAIN c : c[i].kind \in {"approval.requested", "approval.decided"}}
<1>1. N \in Nat /\ DOMAIN c = 1 .. N
  BY LenProperties
<1>2. PICK F : /\ F[0] = EmptyState
               /\ \A n \in 1 .. N : F[n] = Reduced(F[n - 1], c[n])
               /\ state = F[N]
  BY StatesAre
<1> HIDE DEF N
<1> DEFINE P == {n \in 0 .. N : Folds(c, F[n], n)}
<1>3. 0 \in P
  <2>1. EmptyState \in State /\ DOMAIN EmptyState.completed = {} /\ EmptyState.waits = FALSE /\ EmptyState.version = 1 + 0
    BY EmptySeq DEF EmptyState, State
  <2>2. {c[i].execution : i \in {k \in 1 .. 0 : c[k].kind = "execution"}} = {} /\ 1 .. 0 = {}
    OBVIOUS
  <2>3. Folds(c, EmptyState, 0)
    <3>1. {EmptyState.completed[i] : i \in DOMAIN EmptyState.completed} = {}
      BY <2>1
    <3> QED
      BY <2>1, <2>2, <3>1 DEF Folds
  <2>4. 0 \in 0 .. N
    BY <1>1
  <2> HIDE DEF P
  <2> QED
    BY <1>2, <2>3, <2>4 DEF P
<1>4. ASSUME NEW n \in 1 .. N, n - 1 \in P PROVE n \in P
  <2>1. Folds(c, F[n - 1], n - 1)
    BY <1>4
  <2>2. Folds(c, Reduced(F[n - 1], c[n]), n)
    BY <2>1, FoldsOn DEF N
  <2>3. n \in 0 .. N
    BY <1>1
  <2> QED
    BY <1>2, <2>2, <2>3
<1> HIDE DEF P
<1>5. \A n \in 0 .. N : n \in P
  BY <1>1, <1>3, <1>4, Counting
<1>6. N \in 0 .. N
  BY <1>1
<1>7. Folds(c, state, N)
  BY <1>2, <1>5, <1>6 DEF P
<1> HIDE DEF state
<1>8. state.waits <=> (\E i \in gates : c[i].kind = "approval.requested" /\ \A k \in gates : k <= i)
  <2> DEFINE Words == {"approval.requested", "approval.decided"}
  <2>1. state.waits <=> \E i \in 1 .. N : /\ c[i].kind = "approval.requested"
                                          /\ \A k \in i + 1 .. N : c[k].kind \notin Words
    BY <1>7 DEF Folds
  <2>2. ASSUME NEW i \in 1 .. N, c[i].kind = "approval.requested"
        PROVE  (\A k \in i + 1 .. N : c[k].kind \notin Words) <=> \A k \in gates : k <= i
    <3>1. \A k \in 1 .. N : k <= i <=> k \notin i + 1 .. N
      BY <1>1
    <3>2. \A k \in i + 1 .. N : k \in 1 .. N
      BY <1>1
    <3> QED
      BY <1>1, <3>1, <3>2
  <2>3. \A i : i \in gates /\ c[i].kind = "approval.requested" <=> i \in 1 .. N /\ c[i].kind = "approval.requested"
    BY <1>1
  <2> HIDE DEF gates
  <2> QED
    BY <2>1, <2>2, <2>3
<1>9. /\ \A i, j \in DOMAIN state.completed : i # j => state.completed[i] # state.completed[j]
      /\ {state.completed[i] : i \in DOMAIN state.completed} = {c[i].execution : i \in {k \in DOMAIN c : c[k].kind = "execution"}}
      /\ state.version = 1 + Len(c)
  BY <1>1, <1>7 DEF Folds, N
<1> QED
  BY <1>8, <1>9 DEF StateIsFolded, state

-----------------------------------------------------------------------------
(* Plans. *)

IsNodes(nodes) ==
  nodes \in Seq([kind : STRING, deps : SUBSET Nat, tool : STRING, labels : SUBSET STRING])

\* The nodes that assert_acyclic has taken away after each round.
LEMMA VisitedIs ==
    ASSUME NEW nodes, IsNodes(nodes)
    PROVE  \E F : /\ F[0] = {}
                  /\ \A n \in 1 .. Len(nodes) :
                       F[n] = F[n - 1] \cup {i \in DOMAIN nodes : nodes[i].deps \subseteq F[n - 1]}
                  /\ Visited(nodes) = F[Len(nodes)]
<1> DEFINE N == Len(nodes)
           next(S) == S \cup {i \in DOMAIN nodes : nodes[i].deps \subseteq S}
           X == SUBSET DOMAIN nodes
           G == [n \in 1 .. N |-> [S \in X |-> next(S)]]
           F == CHOOSE after : after = [n \in 0 .. N |-> IF n = 0 THEN {}
                  ELSE after[n - 1] \cup {i \in DOMAIN nodes : nodes[i].deps \subseteq after[n - 1]}]
<1>1. Visited(nodes) = F[N]
  BY DEF Visited
<1>2. N \in Nat
  BY LenProperties DEF IsNodes
<1> HIDE DEF N
<1>3. G \in [1 .. N -> [X -> X]] /\ \A n \in 1 .. N : \A S \in X : G[n][S] = next(S)
  OBVIOUS
<1>4. {} \in X
  OBVIOUS
<1> HIDE DEF G, X
<1>5. PICK f \in [0 .. N -> X] : f[0] = {} /\ \A n \in 1 .. N : f[n] = G[n][f[n - 1]]
  <2>1. \E f : Iterates(f, N, X, {}, G)
    BY <1>2, <1>3, <1>4, Iteration, Zenon
  <2> QED
    BY <2>1, Zenon DEF Iterates
<1> HIDE DEF next
<1>6. f = [n \in 0 .. N |-> IF n = 0 THEN {} ELSE next(f[n - 1])]
  <2>1. f = [n \in 0 .. N |-> f[n]]
    BY <1>5
  <2>2. ASSUME NEW n \in 0 .. N PROVE f[n] = IF n = 0 THEN {} ELSE next(f[n - 1])
    <3>1. CASE n = 0
      BY <1>5, <3>1
    <3>2. CASE n # 0
      <4>1. n \in 1 .. N /\ n - 1 \in 0 .. N
        BY <1>2, <3>2
      <4> QED
        BY <1>3, <1>5, <3>2, <4>1
    <3> QED
      BY <3>1, <3>2
  <2> QED
    BY <2>1, <2>2
<1>7. F = [n \in 0 .. N |-> IF n = 0 THEN {} ELSE next(F[n - 1])]
  BY <1>6 DEF next
<1> HIDE DEF F
<1>8. F[0] = {} /\ \A n \in 1 .. N : F[n] = next(F[n - 1])
  <2>1. 0 \in 0 .. N /\ \A n \in 1 .. N : n \in 0 .. N /\ n # 0
    BY <1>2
  <2> QED
    BY <1>7, <2>1
<1> QED
  BY <1>1, <1>8 DEF N, next

\* In a plan that can be built no group of nodes waits for itself.
LEMMA NoKnots ==
    ASSUME NEW nodes, IsNodes(nodes), PlanIsBuilt(nodes),
           NEW group \in SUBSET DOMAIN nodes, group # {}
    PROVE  \E i \in group : nodes[i].deps \cap group = {}
<1> SUFFICES ASSUME \A i \in group : nodes[i].deps \cap group # {} PROVE FALSE
  OBVIOUS
<1> DEFINE N == Len(nodes)
<1>1. N \in Nat
  BY LenProperties DEF IsNodes
<1>2. PICK F : /\ F[0] = {}
               /\ \A n \in 1 .. N : F[n] = F[n - 1] \cup {i \in DOMAIN nodes : nodes[i].deps \subseteq F[n - 1]}
               /\ Visited(nodes) = F[N]
  BY VisitedIs
<1> HIDE DEF N
<1> DEFINE P == {n \in 0 .. N : F[n] \cap group = {}}
<1>3. 0 \in P
  BY <1>1, <1>2
<1>4. ASSUME NEW n \in 1 .. N, n - 1 \in P PROVE n \in P
  <2>1. n \in 0 .. N /\ F[n - 1] \cap group = {}
    BY <1>1, <1>4
  <2>2. \A i \in group : ~ (nodes[i].deps \subseteq F[n - 1])
    BY <2>1
  <2>3. F[n] \cap group = {}
    BY <1>2, <2>1, <2>2
  <2> QED
    BY <2>1, <2>3
<1> HIDE DEF P
<1>5. \A n \in 0 .. N : n \in P
  BY <1>1, <1>3, <1>4, Counting
<1>6. N \in 0 .. N
  BY <1>1
<1>7. Visited(nodes) \cap group = {}
  BY <1>2, <1>5, <1>6 DEF P
<1> QED
  BY <1>7 DEF PlanIsBuilt

Undone(nodes, done) ==
  {i \in DOMAIN nodes : /\ \A k \in DOMAIN done : done[k] # i
                        /\ \A d \in nodes[i].deps : \E k \in DOMAIN done : done[k] = d}
Onward(nodes, done) ==
  IF Undone(nodes, done) = {} THEN done
  ELSE Append(done, CHOOSE i \in Undone(nodes, done) : \A j \in Undone(nodes, done) : i <= j)

\* The nodes that a loop has carried out after each turn.
LEMMA OnwardIs ==
    ASSUME NEW nodes, IsNodes(nodes), NEW done \in Seq(DOMAIN nodes)
    PROVE  /\ Onward(nodes, done) \in Seq(DOMAIN nodes)
           /\ Undone(nodes, done) # {} =>
                \E i \in Undone(nodes, done) : Onward(nodes, done) = Append(done, i)
<1> DEFINE ready == Undone(nodes, done)
           least == CHOOSE i \in ready : \A j \in ready : i <= j
<1>1. DOMAIN nodes = 1 .. Len(nodes) /\ Len(nodes) \in Nat
  BY LenProperties DEF IsNodes
<1>2. ready \in SUBSET DOMAIN nodes /\ ready \in SUBSET Nat
  BY <1>1 DEF Undone
<1>3. ready # {} => least \in ready
  <2> HIDE DEF ready
  <2>1. ready # {} => \E x \in ready : \A y \in ready : x <= y
    BY <1>2, LowestIs
  <2> QED
    BY <2>1
<1>4. Onward(nodes, done) = IF ready = {} THEN done ELSE Append(done, least)
  BY DEF Onward
<1> HIDE DEF ready, least
<1>5. ready # {} => Append(done, least) \in Seq(DOMAIN nodes)
  BY <1>2, <1>3, AppendProperties
<1> QED
  BY <1>3, <1>4, <1>5 DEF ready

LEMMA CarriedIs ==
    ASSUME NEW nodes, IsNodes(nodes)
    PROVE  \E F : /\ F[0] = <<>>
                  /\ \A n \in 1 .. Len(nodes) : F[n] = Onward(nodes, F[n - 1])
                  /\ Carried(nodes) = F[Len(nodes)]
<1> DEFINE N == Len(nodes)
           X == Seq(DOMAIN nodes)
           G == [n \in 1 .. N |-> [done \in X |-> Onward(nodes, done)]]
           F == CHOOSE done : done = [n \in 0 .. N |-> IF n = 0 THEN <<>> ELSE Onward(nodes, done[n - 1])]
<1>1. Carried(nodes) = F[N]
  BY DEF Carried, Onward, Undone
<1>2. N \in Nat
  BY LenProperties DEF IsNodes
<1> HIDE DEF N
<1>3. G \in [1 .. N -> [X -> X]] /\ \A n \in 1 .. N : \A done \in X : G[n][done] = Onward(nodes, done)
  BY OnwardIs
<1>4. <<>> \in X
  BY EmptySeq
<1> HIDE DEF G, X
<1>5. PICK f \in [0 .. N -> X] : f[0] = <<>> /\ \A n \in 1 .. N : f[n] = G[n][f[n - 1]]
  <2>1. \E f : Iterates(f, N, X, <<>>, G)
    BY <1>2, <1>3, <1>4, Iteration, Zenon
  <2> QED
    BY <2>1, Zenon DEF Iterates
<1>6. f = [n \in 0 .. N |-> IF n = 0 THEN <<>> ELSE Onward(nodes, f[n - 1])]
  <2>1. f = [n \in 0 .. N |-> f[n]]
    BY <1>5
  <2>2. ASSUME NEW n \in 0 .. N PROVE f[n] = IF n = 0 THEN <<>> ELSE Onward(nodes, f[n - 1])
    <3>1. CASE n = 0
      BY <1>5, <3>1
    <3>2. CASE n # 0
      <4>1. n \in 1 .. N /\ n - 1 \in 0 .. N
        BY <1>2, <3>2
      <4> QED
        BY <1>3, <1>5, <3>2, <4>1
    <3> QED
      BY <3>1, <3>2
  <2> QED
    BY <2>1, <2>2
<1>7. F = [n \in 0 .. N |-> IF n = 0 THEN <<>> ELSE Onward(nodes, F[n - 1])]
  BY <1>6
<1> HIDE DEF F
<1>8. F[0] = <<>> /\ \A n \in 1 .. N : F[n] = Onward(nodes, F[n - 1])
  <2>1. 0 \in 0 .. N /\ \A n \in 1 .. N : n \in 0 .. N /\ n # 0
    BY <1>2
  <2> QED
    BY <1>7, <2>1
<1> QED
  BY <1>1, <1>8 DEF N

\* A node of a plan without knots that is not done has, or is itself, one that can be done.
LEMMA SomethingIsReady ==
    ASSUME NEW nodes, IsNodes(nodes), PlanIsBuilt(nodes),
           NEW done \in Seq(DOMAIN nodes), Len(done) < Len(nodes)
    PROVE  Undone(nodes, done) # {}
<1> DEFINE S == {done[k] : k \in DOMAIN done}
           f == [k \in 1 .. Len(done) |-> done[k]]
           group == DOMAIN nodes \ S
<1>1. Len(nodes) \in Nat /\ DOMAIN nodes = 1 .. Len(nodes)
  BY LenProperties DEF IsNodes
<1>2. Len(done) \in Nat /\ DOMAIN done = 1 .. Len(done) /\ \A k \in 1 .. Len(done) : done[k] \in DOMAIN nodes
  BY LenProperties, ElementOfSeq
<1>3. \A n \in Nat : IsFiniteSet(1 .. n) /\ Cardinality(1 .. n) = n
  <2> SUFFICES ASSUME NEW n \in Nat PROVE IsFiniteSet(1 .. n) /\ Cardinality(1 .. n) = n
    OBVIOUS
  <2>1. 1 \in Int /\ n \in Int
    OBVIOUS
  <2>2. Cardinality(1 .. n) = (IF 1 > n THEN 0 ELSE n - 1 + 1) /\ IsFiniteSet(1 .. n)
    BY <2>1, FS_Interval
  <2> QED
    BY <2>2
<1>4. group # {}
  <2> SUFFICES ASSUME DOMAIN nodes \subseteq S PROVE FALSE
    OBVIOUS
  <2>1. f \in [1 .. Len(done) -> DOMAIN nodes] /\ \A i \in DOMAIN nodes : \E k \in 1 .. Len(done) : f[k] = i
    BY <1>2
  <2> HIDE DEF f
  <2>2. f \in Surjection(1 .. Len(done), DOMAIN nodes)
    BY <2>1 DEF Surjection
  <2>3. Cardinality(DOMAIN nodes) <= Cardinality(1 .. Len(done))
    BY <1>2, <1>3, <2>2, FS_Surjection
  <2>4. Len(nodes) <= Len(done)
    BY <1>1, <1>2, <1>3, <2>3
  <2> QED
    BY <1>1, <1>2, <2>4
<1>5. PICK i \in group : nodes[i].deps \cap group = {}
  <2>1. group \in SUBSET DOMAIN nodes
    OBVIOUS
  <2> HIDE DEF group
  <2> QED
    BY <1>4, <2>1, NoKnots
<1>6. nodes[i].deps \subseteq DOMAIN nodes
  BY <1>5 DEF PlanIsBuilt
<1>7. nodes[i].deps \subseteq S
  BY <1>5, <1>6
<1>8. i \in Undone(nodes, done)
  BY <1>5, <1>7 DEF Undone
<1> QED
  BY <1>8

\* A plan that can be built is carried out to its last node.
LEMMA PlansAreCarried ==
    ASSUME NEW nodes, IsNodes(nodes), PlanIsBuilt(nodes)
    PROVE  Len(Carried(nodes)) = Len(nodes)
<1> DEFINE N == Len(nodes)
<1>1. N \in Nat
  BY LenProperties DEF IsNodes
<1>2. PICK F : /\ F[0] = <<>>
               /\ \A n \in 1 .. N : F[n] = Onward(nodes, F[n - 1])
               /\ Carried(nodes) = F[N]
  BY CarriedIs
<1> HIDE DEF N
<1> DEFINE P == {n \in 0 .. N : F[n] \in Seq(DOMAIN nodes) /\ Len(F[n]) = n}
<1>3. 0 \in P
  <2>1. 0 \in 0 .. N /\ <<>> \in Seq(DOMAIN nodes) /\ Len(<<>>) = 0
    BY <1>1, EmptySeq
  <2> QED
    BY <1>2, <2>1
<1>4. ASSUME NEW n \in 1 .. N, n - 1 \in P PROVE n \in P
  <2>1. n \in 0 .. N /\ F[n - 1] \in Seq(DOMAIN nodes) /\ Len(F[n - 1]) = n - 1 /\ n - 1 < N
    BY <1>1, <1>4
  <2>2. Undone(nodes, F[n - 1]) # {}
    BY <2>1, SomethingIsReady DEF N
  <2>3. PICK i \in Undone(nodes, F[n - 1]) : Onward(nodes, F[n - 1]) = Append(F[n - 1], i)
    BY <2>1, <2>2, OnwardIs
  <2>4. F[n] = Append(F[n - 1], i) /\ i \in DOMAIN nodes
    BY <1>2, <2>3 DEF Undone
  <2>5. F[n] \in Seq(DOMAIN nodes) /\ Len(F[n]) = Len(F[n - 1]) + 1
    BY <2>1, <2>4, AppendProperties
  <2> QED
    BY <1>1, <2>1, <2>5
<1> HIDE DEF P
<1>5. \A n \in 0 .. N : n \in P
  BY <1>1, <1>3, <1>4, Counting
<1>6. N \in 0 .. N
  BY <1>1
<1> QED
  BY <1>2, <1>5, <1>6 DEF P, N

\* Such a plan runs out, and each of its nodes has an action that it may be given.
LEMMA PlansRunOut == ASSUME NEW c \in PlanInput PROVE PlanRunsOut(c)
<1> DEFINE nodes == c.plan.nodes
<1>1. IsNodes(nodes) /\ c.branches \in Nat
  BY DEF PlanInput, IsNodes
<1>2. PlanIsBuilt(nodes) =>
        ~ \E group \in (SUBSET DOMAIN nodes) \ {{}} : \A i \in group : nodes[i].deps \cap group # {}
  <2> HIDE DEF nodes
  <2>1. ASSUME PlanIsBuilt(nodes), NEW group \in SUBSET DOMAIN nodes, group # {}
        PROVE  \E i \in group : nodes[i].deps \cap group = {}
    BY <1>1, <2>1, NoKnots
  <2> QED
    BY <2>1
<1>3. PlanIsBuilt(nodes) => Len(Carried(nodes)) = Len(nodes)
  BY <1>1, PlansAreCarried
<1>4. ASSUME PlanIsBuilt(nodes), NEW i \in DOMAIN nodes
      PROVE  \E type \in AllowedActions(nodes[i].kind) :
               \/ type \in LoopHandled
               \/ TasksOf([type |-> type, branches |-> c.branches]).n >= 1
  <2>1. nodes[i].kind \in PlanNodeKinds
    BY <1>4 DEF PlanIsBuilt, NodeIsValid
  <2>2. \A type \in TaskProducing : TasksOf([type |-> type, branches |-> c.branches]).n >= 1
    <3> SUFFICES ASSUME NEW type \in TaskProducing PROVE TasksOf([type |-> type, branches |-> c.branches]).n >= 1
      OBVIOUS
    <3> DEFINE a == [type |-> type, branches |-> c.branches]
    <3>1. a.type = type /\ a.branches = c.branches
      OBVIOUS
    <3> HIDE DEF a
    <3>2. TasksOf(a).n = IF c.branches > 0 THEN c.branches ELSE 1
      BY <3>1 DEF TasksOf, FansOut
    <3>3. TasksOf(a).n >= 1
      BY <1>1, <3>2
    <3> QED
      BY <3>3 DEF a
  <2> DEFINE kind == nodes[i].kind
  <2> HIDE DEF kind
  <2>3. kind \in PlanNodeKinds
    BY <2>1 DEF kind
  <2>4. \/ "finish" \in AllowedActions(kind)
        \/ "tool_call" \in AllowedActions(kind)
        \/ "human_approval" \in AllowedActions(kind)
        \/ "agent_delegation" \in AllowedActions(kind)
        \/ "replan" \in AllowedActions(kind)
    BY <2>3 DEF AllowedActions, PlanNodeKinds, Executable, LoopHandled
  <2>5. {"finish", "replan"} = LoopHandled /\ {"tool_call", "human_approval", "agent_delegation"} \subseteq TaskProducing
    BY DEF LoopHandled, TaskProducing
  <2>6. \E type \in AllowedActions(kind) : type \in LoopHandled \/ type \in TaskProducing
    BY <2>4, <2>5
  <2> QED
    BY <2>2, <2>6 DEF kind
<1> HIDE DEF nodes
<1> QED
  BY <1>2, <1>3, <1>4 DEF PlanRunsOut, nodes

-----------------------------------------------------------------------------
(* Policies. *)

Beats(rules, i, j) ==
  rules[i].priority > rules[j].priority \/ (rules[i].priority = rules[j].priority /\ i < j)
BestOf(rules, S, i) == i \in S /\ \A j \in S \ {i} : Beats(rules, i, j)
Matching(policy, action, ctx) == {i \in DOMAIN policy.rules : Matches(policy.rules[i], action, ctx)}
VerdictOf(rule) == IF rule.verdict # "allow" /\ ~ rule.reason THEN "raises" ELSE rule.verdict

HasRules(policy) ==
  /\ policy.rules \in Seq(Range(policy.rules))
  /\ \A i \in DOMAIN policy.rules : policy.rules[i].priority \in Int

\* Of the rules that match there is one that is first.
LEMMA FirstExists ==
    ASSUME NEW policy, HasRules(policy), NEW S \in SUBSET DOMAIN policy.rules, S # {}
    PROVE  \E i \in S : BestOf(policy.rules, S, i)
<1> DEFINE rules == policy.rules
           R == {p \in S \X S : Beats(rules, p[1], p[2])}
<1>1. DOMAIN rules = 1 .. Len(rules) /\ Len(rules) \in Nat
  BY LenProperties DEF HasRules
<1>2. IsFiniteSet(S) /\ S \in SUBSET Nat
  <2>1. 1 \in Int /\ Len(rules) \in Int
    BY <1>1
  <2>2. IsFiniteSet(DOMAIN rules)
    BY <1>1, <2>1, FS_Interval
  <2>3. S \in SUBSET Nat
    BY <1>1
  <2> QED
    BY <2>2, <2>3, FS_Subset
<1>3. \A i, j \in S : <<i, j>> \in R <=> Beats(rules, i, j)
  OBVIOUS
<1>4. \A i \in S : rules[i].priority \in Int /\ i \in Int
  BY <1>2 DEF HasRules
<1> HIDE DEF R, rules
<1>5. IsOrder(R, S)
  <2>1. \A i \in S : ~ Beats(rules, i, i)
    BY <1>4 DEF Beats
  <2>2. \A i, j, k \in S : Beats(rules, i, j) /\ Beats(rules, j, k) => Beats(rules, i, k)
    BY <1>4 DEF Beats
  <2>3. \A i, j \in S : i = j \/ Beats(rules, i, j) \/ Beats(rules, j, i)
    BY <1>4 DEF Beats
  <2> QED
    BY <1>3, <2>1, <2>2, <2>3 DEF IsOrder
<1>6. Ranked(S, R)
  BY <1>2, <1>5, Ranks
<1>7. Cardinality(S) \in Nat /\ Cardinality(S) # 0
  BY <1>2, FS_CardinalityType, FS_EmptySet
<1>8. PICK i \in S : Cardinality(Below(S, R, i)) = 0
  <2>1. 0 \in 0 .. Cardinality(S) - 1
    BY <1>7
  <2> QED
    BY <1>6, <2>1 DEF Ranked
<1>9. Below(S, R, i) = {}
  <2>1. Below(S, R, i) \in SUBSET S
    BY DEF Below
  <2> QED
    BY <1>2, <1>8, <2>1, FS_Subset, FS_EmptySet
<1>10. \A j \in S : ~ Beats(rules, j, i)
  BY <1>3, <1>9 DEF Below
<1>11. \A j \in S \ {i} : Beats(rules, i, j)
  <2>1. \A j \in S : i = j \/ Beats(rules, i, j) \/ Beats(rules, j, i)
    BY <1>4 DEF Beats
  <2> QED
    BY <1>10, <2>1
<1> QED
  BY <1>11 DEF BestOf, rules

LEMMA FirstIsOne ==
    ASSUME NEW policy, HasRules(policy), NEW S \in SUBSET DOMAIN policy.rules,
           NEW i \in S, NEW j \in S, BestOf(policy.rules, S, i), BestOf(policy.rules, S, j)
    PROVE  i = j
<1>1. i \in Int /\ j \in Int
  BY LenProperties DEF HasRules
<1>2. policy.rules[i].priority \in Int /\ policy.rules[j].priority \in Int
  BY DEF HasRules
<1> QED
  BY <1>1, <1>2 DEF BestOf, Beats

\* The verdict is that of the first rule that matches, or the default.
LEMMA VerdictIs ==
    ASSUME NEW policy, HasRules(policy), NEW action, NEW ctx
    PROVE  LET S == Matching(policy, action, ctx)
               verdict == PolicyVerdict(policy, action, ctx)
           IN /\ S = {} => verdict = policy.default
              /\ S # {} => \E i \in S : BestOf(policy.rules, S, i)
              /\ \A i \in S : BestOf(policy.rules, S, i) => verdict = VerdictOf(policy.rules[i])
<1> DEFINE S == Matching(policy, action, ctx)
           verdict == PolicyVerdict(policy, action, ctx)
           first == CHOOSE i \in S : \A j \in S \ {i} :
                      \/ policy.rules[j].priority < policy.rules[i].priority
                      \/ policy.rules[j].priority = policy.rules[i].priority /\ i < j
<1>1. verdict = IF S = {} THEN policy.default ELSE VerdictOf(policy.rules[first])
  BY Zenon DEF PolicyVerdict, Matching, VerdictOf
<1>2. S \in SUBSET DOMAIN policy.rules
  BY DEF Matching
<1> HIDE DEF S
<1>3. \A i \in S : policy.rules[i].priority \in Int
  BY <1>2 DEF HasRules
<1>4. S # {} => first \in S /\ BestOf(policy.rules, S, first)
  <2>1. \A i \in S : BestOf(policy.rules, S, i) <=>
          \A j \in S \ {i} : \/ policy.rules[j].priority < policy.rules[i].priority
                             \/ policy.rules[j].priority = policy.rules[i].priority /\ i < j
    BY <1>3 DEF BestOf, Beats
  <2>2. S # {} => \E i \in S : BestOf(policy.rules, S, i)
    BY <1>2, FirstExists
  <2> QED
    BY <2>1, <2>2
<1> HIDE DEF first, verdict
<1>5. \A i \in S : BestOf(policy.rules, S, i) => verdict = VerdictOf(policy.rules[i])
  <2> SUFFICES ASSUME NEW i \in S, BestOf(policy.rules, S, i) PROVE verdict = VerdictOf(policy.rules[i])
    OBVIOUS
  <2>1. first \in S /\ BestOf(policy.rules, S, first)
    BY <1>4
  <2>2. i = first
    BY <1>2, <2>1, FirstIsOne
  <2> QED
    BY <1>1, <2>2
<1> QED
  BY <1>1, <1>4, <1>5 DEF S, verdict

LEMMA FirstDecides ==
    ASSUME NEW policy, HasRules(policy), NEW action, NEW ctx,
           NEW i, BestOf(policy.rules, Matching(policy, action, ctx), i)
    PROVE  PolicyVerdict(policy, action, ctx) = VerdictOf(policy.rules[i])
<1>1. i \in Matching(policy, action, ctx)
  BY DEF BestOf
<1> QED
  BY <1>1, VerdictIs

Policy == [default : ToSet(Verdicts), rules : Seq(Rule)]
PolicyVerdicts == {"allow", "require_approval", "deny", "raises"}

LEMMA VerdictsAre == ToSet(Verdicts) = {"allow", "require_approval", "deny"}
BY DEF ToSet, Verdicts

\* What is stricter than what.
LEMMA StricterIs ==
    ASSUME NEW v \in PolicyVerdicts, NEW w \in PolicyVerdicts
    PROVE  Stricter(v, w) <=> \/ v = "deny" /\ w \in {"allow", "require_approval"}
                              \/ v = "require_approval" /\ w = "allow"
<1>1. Stricter(v, w) <=> \E i, j \in 1 .. 3 : i > j /\ Verdicts[i] = v /\ Verdicts[j] = w
  BY DEF Stricter, Verdicts
<1>2. \A i \in 1 .. 3 : i = 1 \/ i = 2 \/ i = 3
  OBVIOUS
<1>3. Verdicts[1] = "allow" /\ Verdicts[2] = "require_approval" /\ Verdicts[3] = "deny"
  BY DEF Verdicts
<1>4. (\E i, j \in 1 .. 3 : i > j /\ Verdicts[i] = v /\ Verdicts[j] = w)
        <=> \/ v = "require_approval" /\ w = "allow"
            \/ v = "deny" /\ w = "allow"
            \/ v = "deny" /\ w = "require_approval"
  BY <1>2, <1>3
<1> QED
  BY <1>1, <1>4

\* A guardrail more only adds to what is found.
LEMMA GuardsAddUp ==
    ASSUME NEW guards \in Seq(Guard), NEW guard \in Guard, NEW stage, NEW target
    PROVE  /\ GuardVerdict(guards, stage, target) = "blocked" => GuardVerdict(Append(guards, guard), stage, target) = "blocked"
           /\ GuardVerdict(guards, stage, target) = "needs_review" =>
                GuardVerdict(Append(guards, guard), stage, target) \in {"blocked", "needs_review"}
<1> DEFINE more == Append(guards, guard)
           Found(gs) == {FindingOf(gs[i], target) : i \in {j \in DOMAIN gs : gs[j].stage = stage}}
           N == Len(guards)
<1>1. /\ N \in Nat /\ DOMAIN guards = 1 .. N /\ DOMAIN more = 1 .. N + 1
      /\ \A i \in 1 .. N : more[i] = guards[i]
  BY LenProperties, AppendProperties
<1> HIDE DEF more, N
<1>2. \A i \in DOMAIN guards : i \in DOMAIN more /\ more[i] = guards[i]
  BY <1>1
<1>3. Found(guards) \subseteq Found(more)
  BY <1>2
<1>4. /\ GuardVerdict(guards, stage, target) =
           IF "block" \in Found(guards) THEN "blocked" ELSE IF "review" \in Found(guards) THEN "needs_review" ELSE "passed"
      /\ GuardVerdict(more, stage, target) =
           IF "block" \in Found(more) THEN "blocked" ELSE IF "review" \in Found(more) THEN "needs_review" ELSE "passed"
  BY DEF GuardVerdict
<1> HIDE DEF Found
<1> QED
  BY <1>3, <1>4 DEF more

LEMMA VerdictsOfPolicies ==
    ASSUME NEW policy \in Policy, NEW action, NEW ctx
    PROVE  HasRules(policy) /\ PolicyVerdict(policy, action, ctx) \in PolicyVerdicts
<1>1. policy.rules \in Seq(Rule) /\ policy.default \in ToSet(Verdicts)
  BY DEF Policy
<1>2. \A i \in DOMAIN policy.rules : policy.rules[i] \in Rule
  BY <1>1, LenProperties, ElementOfSeq
<1>3. policy.rules \in Seq(Range(policy.rules))
  BY <1>1, SeqOfRange
<1>4. HasRules(policy)
  BY <1>2, <1>3 DEF HasRules, Rule
<1> DEFINE S == Matching(policy, action, ctx)
           verdict == PolicyVerdict(policy, action, ctx)
<1>5. /\ S = {} => verdict = policy.default
      /\ S # {} => \E i \in S : BestOf(policy.rules, S, i)
      /\ \A i \in S : BestOf(policy.rules, S, i) => verdict = VerdictOf(policy.rules[i])
  BY <1>4, VerdictIs
<1>6. \A i \in S : VerdictOf(policy.rules[i]) \in PolicyVerdicts
  <2> SUFFICES ASSUME NEW i \in S PROVE VerdictOf(policy.rules[i]) \in PolicyVerdicts
    OBVIOUS
  <2>1. policy.rules[i] \in Rule
    BY <1>2 DEF Matching
  <2> QED
    BY <2>1, VerdictsAre DEF VerdictOf, Rule, PolicyVerdicts
<1> HIDE DEF S, verdict
<1>7. verdict \in PolicyVerdicts
  BY <1>1, <1>5, <1>6, VerdictsAre DEF PolicyVerdicts
<1> QED
  BY <1>4, <1>7 DEF verdict

\* A rule more changes nothing for what it is not about.
LEMMA RulesAreApart ==
    ASSUME NEW policy \in Policy, NEW rule \in Rule, NEW action, NEW ctx,
           ~ Matches(rule, action, ctx)
    PROVE  PolicyVerdict([policy EXCEPT !.rules = Append(policy.rules, rule)], action, ctx)
           = PolicyVerdict(policy, action, ctx)
<1> DEFINE more == [policy EXCEPT !.rules = Append(policy.rules, rule)]
           N == Len(policy.rules)
           S == Matching(policy, action, ctx)
           T == Matching(more, action, ctx)
<1>1. more.rules = Append(policy.rules, rule) /\ more.default = policy.default
      /\ Append(policy.rules, rule) \in Seq(Rule)
  BY AppendProperties DEF Policy
<1>2. more \in Policy
  BY <1>1 DEF Policy
<1> HIDE DEF more
<1>3. /\ N \in Nat /\ DOMAIN policy.rules = 1 .. N /\ DOMAIN more.rules = 1 .. N + 1
      /\ \A i \in 1 .. N : more.rules[i] = policy.rules[i]
      /\ more.rules[N + 1] = rule
  <2>1. policy.rules \in Seq(Rule) /\ N \in Nat /\ DOMAIN policy.rules = 1 .. N
    BY LenProperties DEF Policy
  <2>2. DOMAIN more.rules = 1 .. N + 1 /\ \A i \in 1 .. N : more.rules[i] = policy.rules[i]
    BY <1>1, <2>1, AppendProperties, LenProperties
  <2>3. more.rules[N + 1] = rule
    BY <1>1, <2>1, AppendProperties
  <2> QED
    BY <2>1, <2>2, <2>3
<1> HIDE DEF N
<1>4. S = T
  <2>1. 1 .. N + 1 = 1 .. N \cup {N + 1}
    BY <1>3
  <2> QED
    BY <1>3, <2>1 DEF Matching
<1>5. S \in SUBSET (1 .. N)
  BY <1>3 DEF Matching
<1>6. HasRules(policy) /\ HasRules(more)
  BY <1>2, VerdictsOfPolicies
<1> HIDE DEF S, T
<1>7. \A i \in S : BestOf(policy.rules, S, i) <=> BestOf(more.rules, S, i)
  BY <1>3, <1>5 DEF BestOf, Beats
<1>8. CASE S = {}
  BY <1>1, <1>4, <1>6, <1>8, VerdictIs DEF S, T, more
<1>9. CASE S # {}
  <2>1. PICK i \in S : BestOf(policy.rules, S, i)
    BY <1>6, <1>9, VerdictIs DEF S
  <2>2. BestOf(more.rules, T, i) /\ i \in T
    BY <1>4, <1>7, <2>1
  <2>3. PolicyVerdict(policy, action, ctx) = VerdictOf(policy.rules[i])
    BY <1>6, <2>1, VerdictIs DEF S
  <2>4. PolicyVerdict(more, action, ctx) = VerdictOf(more.rules[i])
    BY <1>6, <2>2, VerdictIs DEF T
  <2>5. more.rules[i] = policy.rules[i]
    BY <1>3, <1>5
  <2> QED
    BY <2>3, <2>4, <2>5 DEF more
<1> QED
  BY <1>8, <1>9

-----------------------------------------------------------------------------
(* What the harness makes of an action. *)

UndoVerdict(policy, action, ctx) ==
  IF action.undo = "" THEN "allow" ELSE PolicyVerdict(policy, CompensationAction(action), ctx)

\* What is said of an action: by the policy, of how to undo it, and by the guardrails.
Judgement(over, decision, undo, found) ==
  IF over \/ decision = "deny" THEN "deny"
  ELSE IF "raises" \in {decision, undo} THEN "raises"
  ELSE IF undo = "deny" \/ "blocked" \in found THEN "deny"
  ELSE IF "require_approval" \in {decision, undo} \/ "needs_review" \in found THEN "require_approval"
  ELSE "allow"

Found(guards, action) ==
  {GuardVerdict(guards, "action", TargetOf(action)), GuardVerdict(guards, "tool", TargetOf(action))}

LEMMA BeforeIs ==
    ASSUME NEW h, NEW action, NEW ctx
    PROVE  BeforeAction(h, action, ctx)
           = Judgement(Exceeded(h.spent, h.limits), PolicyVerdict(h.policy, action, ctx),
                       UndoVerdict(h.policy, action, ctx), Found(h.guards, action))
BY DEF BeforeAction, Judgement, UndoVerdict, Found

LEMMA JudgementIs ==
    ASSUME NEW over \in BOOLEAN, NEW decision \in PolicyVerdicts, NEW undo \in PolicyVerdicts, NEW found
    PROVE  Judgement(over, decision, undo, found) \in PolicyVerdicts
BY DEF Judgement, PolicyVerdicts

\* The harness never turns more lenient.
LEMMA HarnessesAreStrict ==
    ASSUME NEW in \in [harness : Harness, action : Action, ctx : Context, rule : Rule, guard : Guard]
    PROVE  HarnessIsStrict(in)
<1> DEFINE h == in.harness
           a == in.action
           ctx == in.ctx
           over == Exceeded(h.spent, h.limits)
           decision == PolicyVerdict(h.policy, a, ctx)
           undo == UndoVerdict(h.policy, a, ctx)
           found == Found(h.guards, a)
           before == BeforeAction(h, a, ctx)
           guarded == WithGuard(h, in.guard)
           ruled == WithRule(h, in.rule)
           bare == [h EXCEPT !.guards = <<>>]
           inverse == CompensationAction(a)
           touches == Matches(in.rule, a, ctx) \/ (a.undo # "" /\ Matches(in.rule, inverse, ctx))
<1>1. /\ h \in Harness /\ a \in Action /\ in.rule \in Rule /\ in.guard \in Guard
      /\ h = [policy |-> h.policy, guards |-> h.guards, spent |-> h.spent, limits |-> h.limits]
      /\ h.policy = [default |-> h.policy.default, rules |-> h.policy.rules]
      /\ h.policy \in Policy /\ h.guards \in Seq(Guard)
  BY DEF Harness, Policy
<1>2. over \in BOOLEAN /\ decision \in PolicyVerdicts /\ undo \in PolicyVerdicts
  <2>1. over \in BOOLEAN
    BY DEF Exceeded
  <2>2. decision \in PolicyVerdicts /\ PolicyVerdict(h.policy, inverse, ctx) \in PolicyVerdicts
    BY <1>1, VerdictsOfPolicies
  <2>3. undo \in PolicyVerdicts
    BY <2>2 DEF UndoVerdict, PolicyVerdicts
  <2> QED
    BY <2>1, <2>2, <2>3
<1>3. before = Judgement(over, decision, undo, found)
  BY BeforeIs
<1>4. /\ guarded.policy = h.policy /\ guarded.spent = h.spent /\ guarded.limits = h.limits
      /\ guarded.guards = Append(h.guards, in.guard)
  BY <1>1 DEF WithGuard
<1>5. /\ ruled.policy = [h.policy EXCEPT !.rules = Append(h.policy.rules, in.rule)]
      /\ ruled.guards = h.guards /\ ruled.spent = h.spent /\ ruled.limits = h.limits
  BY <1>1 DEF WithRule
<1>6. /\ bare.policy = h.policy /\ bare.guards = <<>> /\ bare.spent = h.spent /\ bare.limits = h.limits
  BY <1>1
<1>7. BeforeAction(guarded, a, ctx) = Judgement(over, decision, undo, Found(Append(h.guards, in.guard), a))
  BY <1>4, BeforeIs
<1>8. /\ "blocked" \in found => "blocked" \in Found(Append(h.guards, in.guard), a)
      /\ "needs_review" \in found => Found(Append(h.guards, in.guard), a) \cap {"blocked", "needs_review"} # {}
  <2>1. \A stage : LET target == TargetOf(a) IN
          /\ GuardVerdict(h.guards, stage, target) = "blocked" => GuardVerdict(Append(h.guards, in.guard), stage, target) = "blocked"
          /\ GuardVerdict(h.guards, stage, target) = "needs_review" =>
               GuardVerdict(Append(h.guards, in.guard), stage, target) \in {"blocked", "needs_review"}
    BY <1>1, GuardsAddUp
  <2> HIDE DEF h, a
  <2>2. ASSUME NEW stage \in {"action", "tool"}, GuardVerdict(h.guards, stage, TargetOf(a)) = "blocked"
        PROVE  "blocked" \in Found(Append(h.guards, in.guard), a)
    BY <2>1, <2>2 DEF Found
  <2>3. ASSUME NEW stage \in {"action", "tool"}, GuardVerdict(h.guards, stage, TargetOf(a)) = "needs_review"
        PROVE  Found(Append(h.guards, in.guard), a) \cap {"blocked", "needs_review"} # {}
    <3>1. GuardVerdict(Append(h.guards, in.guard), stage, TargetOf(a)) \in {"blocked", "needs_review"}
      BY <2>1, <2>3
    <3>2. GuardVerdict(Append(h.guards, in.guard), stage, TargetOf(a)) \in Found(Append(h.guards, in.guard), a)
      BY <2>3 DEF Found
    <3> QED
      BY <3>1, <3>2
  <2>4. \A v \in found : \E stage \in {"action", "tool"} : GuardVerdict(h.guards, stage, TargetOf(a)) = v
    BY DEF Found
  <2> HIDE DEF found
  <2> QED
    BY <2>2, <2>3, <2>4
<1> HIDE DEF h, a, ctx, over, decision, undo, found, before, guarded, ruled, bare, inverse
<1>9. ~ Stricter(before, BeforeAction(guarded, a, ctx))
  <2> DEFINE more == Found(Append(h.guards, in.guard), a)
             after == Judgement(over, decision, undo, more)
  <2> HIDE DEF more
  <2>1. before \in PolicyVerdicts /\ after \in PolicyVerdicts
    BY <1>2, <1>3, JudgementIs
  <2>2. before = "deny" => after \in {"deny"}
    BY <1>2, <1>3, <1>8 DEF Judgement, more
  <2>3. before = "require_approval" => after \in {"deny", "require_approval"}
    BY <1>2, <1>3, <1>8 DEF Judgement, more
  <2> HIDE DEF after
  <2>4. ~ Stricter(before, after)
    BY <2>1, <2>2, <2>3, StricterIs
  <2> QED
    BY <1>7, <2>4 DEF after, more
<1>10. ASSUME ~ touches PROVE BeforeAction(ruled, a, ctx) = before
  <2> DEFINE p == h.policy
             r == in.rule
             q == [p EXCEPT !.rules = Append(p.rules, r)]
  <2>1. p \in Policy /\ r \in Rule /\ ruled.policy = q
        /\ ~ Matches(r, a, ctx) /\ (a.undo # "" => ~ Matches(r, inverse, ctx))
    BY <1>1, <1>5, <1>10
  <2>2. \A x, c : ~ Matches(r, x, c) => PolicyVerdict(q, x, c) = PolicyVerdict(p, x, c)
    <3> HIDE DEF p, r
    <3>1. p \in Policy /\ r \in Rule
      BY <2>1
    <3> QED
      BY <3>1, RulesAreApart
  <2> HIDE DEF p, q, r
  <2>3. PolicyVerdict(ruled.policy, a, ctx) = decision
    <3>1. PolicyVerdict(q, a, ctx) = PolicyVerdict(p, a, ctx)
      BY <2>1, <2>2
    <3> QED
      BY <2>1, <3>1 DEF decision, p
  <2>4. UndoVerdict(ruled.policy, a, ctx) = undo
    <3>1. CASE a.undo = ""
      BY <3>1 DEF UndoVerdict, undo
    <3>2. CASE a.undo # ""
      <4>1. PolicyVerdict(q, inverse, ctx) = PolicyVerdict(p, inverse, ctx)
        BY <2>1, <2>2, <3>2
      <4> QED
        BY <2>1, <3>2, <4>1 DEF UndoVerdict, undo, inverse, p
    <3> QED
      BY <3>1, <3>2
  <2>5. BeforeAction(ruled, a, ctx) = Judgement(over, PolicyVerdict(ruled.policy, a, ctx), UndoVerdict(ruled.policy, a, ctx), found)
    BY <1>5, BeforeIs DEF over, found
  <2> QED
    BY <1>3, <2>3, <2>4, <2>5
<1>11. ASSUME Stricter("deny", before), a.undo # "" PROVE BeforeAction(bare, inverse, ctx) \in {"allow", before}
  <2>1. before \in {"allow", "require_approval"}
    <3>1. before \in PolicyVerdicts /\ "deny" \in PolicyVerdicts
      BY <1>2, <1>3, JudgementIs DEF PolicyVerdicts
    <3> QED
      BY <1>11, <3>1, StricterIs
  <2>2. inverse.undo = ""
    BY DEF inverse, CompensationAction
  <2>3. undo = PolicyVerdict(h.policy, inverse, ctx)
    BY <1>11 DEF undo, UndoVerdict, inverse
  <2>4. Found(<<>>, inverse) = {"passed"}
    <3>1. \A stage, target : {FindingOf(<<>>[i], target) : i \in {j \in DOMAIN <<>> : <<>>[j].stage = stage}} = {}
      OBVIOUS
    <3>2. \A stage, target : GuardVerdict(<<>>, stage, target) = "passed"
      BY <3>1 DEF GuardVerdict
    <3> QED
      BY <3>2 DEF Found
  <2>5. BeforeAction(bare, inverse, ctx) = Judgement(over, undo, "allow", {"passed"})
    <3>1. BeforeAction(bare, inverse, ctx)
          = Judgement(over, PolicyVerdict(h.policy, inverse, ctx), UndoVerdict(h.policy, inverse, ctx), Found(<<>>, inverse))
      BY <1>6, BeforeIs DEF over
    <3>2. UndoVerdict(h.policy, inverse, ctx) = "allow"
      BY <2>2 DEF UndoVerdict
    <3> QED
      BY <2>3, <2>4, <3>1, <3>2
  <2>6. ~ over /\ decision \notin {"deny", "raises"} /\ undo \in {"allow", "require_approval"}
        /\ (undo = "require_approval" => before = "require_approval")
    BY <1>2, <1>3, <2>1 DEF Judgement, PolicyVerdicts
  <2>7. Judgement(over, undo, "allow", {"passed"}) \in {"allow", before}
    BY <2>6 DEF Judgement
  <2> QED
    BY <2>5, <2>7
<1> QED
  BY <1>9, <1>10, <1>11 DEF HarnessIsStrict, h, a, ctx, before, guarded, ruled, bare, inverse

-----------------------------------------------------------------------------
(* Documents and gates. *)

WellWritten(d) ==
  /\ d.keys \subseteq {"rules", "default"} /\ "default" \in d.keys
  /\ d.default \in ToSet(Verdicts)
  /\ \A i \in DOMAIN d.rules : RuleIsWellFormed(d.rules[i])
  /\ \A i, j \in DOMAIN d.rules : d.rules[i].name = d.rules[j].name => i = j

\* The policy of a document that is accepted.
LEMMA PolicyIs ==
    ASSUME NEW d, IsDocument(d), WellWritten(d)
    PROVE  /\ PolicyOf(d) = [default |-> d.default, rules |-> [i \in DOMAIN d.rules |-> RuleOf(d.rules[i])]]
           /\ HasRules(PolicyOf(d))
           /\ \A i \in DOMAIN d.rules : VerdictOf(PolicyOf(d).rules[i]) \in ToSet(Verdicts)
<1> DEFINE policy == PolicyOf(d)
           rules == [i \in DOMAIN d.rules |-> RuleOf(d.rules[i])]
<1>1. policy = [default |-> d.default, rules |-> rules]
  BY DEF PolicyOf, WellWritten
<1>2. DOMAIN d.rules = 1 .. Len(d.rules) /\ Len(d.rules) \in Nat
  BY LenProperties DEF IsDocument
<1>3. /\ rules \in [1 .. Len(d.rules) -> Range(rules)]
      /\ DOMAIN rules = DOMAIN d.rules
      /\ \A i \in DOMAIN d.rules : rules[i] = RuleOf(d.rules[i])
  BY <1>2 DEF Range
<1> HIDE DEF rules, policy
<1>4. rules \in Seq(Range(rules))
  BY <1>2, <1>3, SeqDef
<1>5. \A i \in DOMAIN d.rules : /\ rules[i].priority \in Int
                                /\ rules[i].verdict \in ToSet(Verdicts)
                                /\ rules[i].verdict # "allow" => rules[i].reason
  <2> SUFFICES ASSUME NEW i \in DOMAIN d.rules
               PROVE  /\ rules[i].priority \in Int
                      /\ rules[i].verdict \in ToSet(Verdicts)
                      /\ rules[i].verdict # "allow" => rules[i].reason
    OBVIOUS
  <2> DEFINE raw == d.rules[i]
  <2>1. raw.priority \in Int /\ raw.effect \in ToSet(Verdicts) /\ (raw.effect # "allow" => raw.reason)
    BY DEF WellWritten, RuleIsWellFormed
  <2>2. rules[i] = RuleOf(raw)
    BY <1>3
  <2> HIDE DEF raw
  <2>3. rules[i].priority = raw.priority /\ rules[i].verdict = raw.effect /\ rules[i].reason = raw.reason
    BY <2>2 DEF RuleOf
  <2> QED
    BY <2>1, <2>3
<1>6. policy.rules = rules
  BY <1>1
<1>7. HasRules(policy)
  BY <1>3, <1>4, <1>5, <1>6 DEF HasRules
<1>8. \A i \in DOMAIN d.rules : VerdictOf(policy.rules[i]) \in ToSet(Verdicts)
  BY <1>5, <1>6 DEF VerdictOf
<1> QED
  BY <1>1, <1>7, <1>8 DEF policy, rules

\* Written backwards, a document says the same where no two priorities are equal.
LEMMA OrderTellsNothing ==
    ASSUME NEW d, IsDocument(d), WellWritten(d), NEW action, NEW ctx,
           \A i, j \in DOMAIN d.rules : d.rules[i].priority = d.rules[j].priority => i = j
    PROVE  PolicyVerdict(PolicyOf([d EXCEPT !.rules = Reverse(d.rules)]), action, ctx)
           = PolicyVerdict(PolicyOf(d), action, ctx)
<1> DEFINE e == [d EXCEPT !.rules = Reverse(d.rules)]
           N == Len(d.rules)
           p == PolicyOf(d)
           q == PolicyOf(e)
           S == Matching(p, action, ctx)
           T == Matching(q, action, ctx)
<1>1. N \in Nat /\ DOMAIN d.rules = 1 .. N
  BY LenProperties DEF IsDocument
<1>2. e = [keys |-> d.keys, default |-> d.default, rules |-> Reverse(d.rules)]
  BY DEF IsDocument
<1>3. e.keys = d.keys /\ e.default = d.default /\ e.rules = [i \in 1 .. N |-> d.rules[(N - i) + 1]]
  BY <1>2 DEF Reverse
<1> HIDE DEF e, N
<1>4. \A i \in 1 .. N : (N - i) + 1 \in 1 .. N /\ (N - ((N - i) + 1)) + 1 = i
  BY <1>1
<1>5. DOMAIN e.rules = 1 .. N /\ \A i \in 1 .. N : e.rules[i] = d.rules[(N - i) + 1]
  BY <1>3
<1>6. IsDocument(e) /\ WellWritten(e)
  <2>1. e.rules \in [1 .. N -> Range(e.rules)]
    BY <1>3 DEF Range
  <2>2. e.rules \in Seq(Range(e.rules))
    BY <1>1, <2>1, SeqDef
  <2>3. \A i \in 1 .. N : RuleIsWellFormed(e.rules[i])
    BY <1>1, <1>4, <1>5 DEF WellWritten
  <2>4. \A i, j \in 1 .. N : e.rules[i].name = e.rules[j].name => i = j
    <3> SUFFICES ASSUME NEW i \in 1 .. N, NEW j \in 1 .. N, e.rules[i].name = e.rules[j].name PROVE i = j
      OBVIOUS
    <3> DEFINE k == (N - i) + 1
               m == (N - j) + 1
    <3>1. k \in 1 .. N /\ m \in 1 .. N /\ d.rules[k].name = d.rules[m].name
      BY <1>4, <1>5
    <3> HIDE DEF k, m
    <3>2. k = m
      BY <1>1, <3>1 DEF WellWritten
    <3> QED
      BY <1>1, <3>2 DEF k, m
  <2> QED
    BY <1>2, <1>3, <1>5, <2>2, <2>3, <2>4 DEF IsDocument, WellWritten
<1>7. /\ p = [default |-> d.default, rules |-> [i \in 1 .. N |-> RuleOf(d.rules[i])]] /\ HasRules(p)
      /\ q = [default |-> d.default, rules |-> [i \in 1 .. N |-> RuleOf(e.rules[i])]] /\ HasRules(q)
  BY <1>1, <1>3, <1>5, <1>6, PolicyIs
<1> HIDE DEF p, q
<1>8. /\ DOMAIN p.rules = 1 .. N /\ DOMAIN q.rules = 1 .. N /\ p.default = q.default
      /\ \A i \in 1 .. N : p.rules[i] = RuleOf(d.rules[i]) /\ q.rules[i] = RuleOf(e.rules[i])
  BY <1>7
<1>9. \A i \in 1 .. N : q.rules[i] = p.rules[(N - i) + 1]
  BY <1>4, <1>5, <1>8
<1>10. /\ S \in SUBSET (1 .. N) /\ T \in SUBSET (1 .. N)
       /\ \A i \in 1 .. N : i \in S <=> (N - i) + 1 \in T
  BY <1>4, <1>8, <1>9 DEF Matching
<1>11. \A i, j \in 1 .. N : p.rules[i].priority = p.rules[j].priority => i = j
  <2>1. \A raw : RuleOf(raw).priority = raw.priority
    BY DEF RuleOf
  <2> QED
    BY <1>1, <1>8, <2>1
<1> HIDE DEF S, T
<1>12. CASE S = {}
  <2>1. T = {}
    <3> SUFFICES ASSUME NEW i \in T PROVE FALSE
      OBVIOUS
    <3>1. i \in 1 .. N /\ (N - i) + 1 \in S
      BY <1>4, <1>10
    <3> QED
      BY <1>12, <3>1
  <2>2. PolicyVerdict(p, action, ctx) = p.default
    BY <1>7, <1>12, VerdictIs DEF S
  <2>3. PolicyVerdict(q, action, ctx) = q.default
    BY <1>7, <2>1, VerdictIs DEF T
  <2> QED
    BY <1>8, <2>2, <2>3 DEF p, q, e
<1>13. CASE S # {}
  <2>1. PICK i \in S : BestOf(p.rules, S, i)
    BY <1>7, <1>13, VerdictIs DEF S
  <2> DEFINE k == (N - i) + 1
  <2>2. i \in 1 .. N /\ k \in 1 .. N /\ k \in T /\ (N - k) + 1 = i /\ q.rules[k] = p.rules[i]
    BY <1>4, <1>9, <1>10
  <2> HIDE DEF k
  <2>3. ASSUME NEW j \in T \ {k} PROVE Beats(q.rules, k, j)
    <3> DEFINE m == (N - j) + 1
    <3>1. j \in 1 .. N /\ m \in 1 .. N /\ (N - m) + 1 = j /\ q.rules[j] = p.rules[m]
      BY <1>4, <1>9, <1>10
    <3> HIDE DEF m
    <3>2. m \in S /\ m # i
      BY <1>1, <1>10, <2>2, <2>3, <3>1
    <3>3. Beats(p.rules, i, m)
      BY <2>1, <3>2 DEF BestOf
    <3>4. p.rules[i].priority # p.rules[m].priority
      BY <1>11, <2>2, <3>1, <3>2
    <3> QED
      BY <2>2, <3>1, <3>3, <3>4 DEF Beats
  <2>4. BestOf(q.rules, T, k)
    BY <2>2, <2>3 DEF BestOf
  <2>5. PolicyVerdict(p, action, ctx) = VerdictOf(p.rules[i])
    BY <1>7, <2>1, FirstDecides DEF S
  <2>6. PolicyVerdict(q, action, ctx) = VerdictOf(q.rules[k])
    <3>1. HasRules(q)
      BY <1>7
    <3>2. BestOf(q.rules, Matching(q, action, ctx), k)
      BY <2>4 DEF T
    <3> QED
      BY <3>1, <3>2, FirstDecides
  <2> QED
    BY <2>2, <2>5, <2>6 DEF p, q, e
<1> QED
  BY <1>12, <1>13

\* A document that is accepted decides about every action, as it is written.
LEMMA DocumentsDecide ==
    ASSUME NEW in, IsDocument(in.document)
    PROVE  DocumentDecides(in)
<1> DEFINE d == in.document
           policy == PolicyOf(d)
           verdict == PolicyVerdict(policy, in.action, in.ctx)
           backwards == PolicyOf([d EXCEPT !.rules = Reverse(d.rules)])
           S == Matching(policy, in.action, in.ctx)
<1> SUFFICES ASSUME policy # NoPolicy
             PROVE  /\ verdict \in ToSet(Verdicts)
                    /\ (\A i \in DOMAIN policy.rules : ~ Matches(policy.rules[i], in.action, in.ctx)) => verdict = d.default
                    /\ IsInjective([i \in DOMAIN d.rules |-> d.rules[i].priority]) =>
                         PolicyVerdict(backwards, in.action, in.ctx) = verdict
                    /\ \A i \in DOMAIN d.rules :
                         "tools" \in DOMAIN d.rules[i].when /\ d.rules[i].when["tools"].is = "list" =>
                           (Matches(policy.rules[i], in.action, in.ctx) => in.action.tool \in d.rules[i].when["tools"].set)
  BY DEF DocumentDecides
<1>1. IsDocument(d) /\ WellWritten(d)
  BY DEF PolicyOf, WellWritten
<1> HIDE DEF d
<1>2. /\ policy = [default |-> d.default, rules |-> [i \in DOMAIN d.rules |-> RuleOf(d.rules[i])]]
      /\ HasRules(policy)
      /\ \A i \in DOMAIN d.rules : VerdictOf(policy.rules[i]) \in ToSet(Verdicts)
  BY <1>1, PolicyIs
<1> HIDE DEF policy
<1>3. /\ S = {} => verdict = policy.default
      /\ S # {} => \E i \in S : BestOf(policy.rules, S, i)
      /\ \A i \in S : BestOf(policy.rules, S, i) => verdict = VerdictOf(policy.rules[i])
  BY <1>2, VerdictIs
<1>4. /\ DOMAIN policy.rules = DOMAIN d.rules /\ policy.default = d.default
      /\ \A i \in DOMAIN d.rules : policy.rules[i] = RuleOf(d.rules[i])
  BY <1>2
<1>5. S \in SUBSET DOMAIN d.rules
  BY <1>4 DEF Matching
<1>6. (\A i \in DOMAIN policy.rules : ~ Matches(policy.rules[i], in.action, in.ctx)) => S = {}
  BY DEF Matching
<1> HIDE DEF S, verdict
<1>7. verdict \in ToSet(Verdicts)
  BY <1>1, <1>2, <1>3, <1>4, <1>5 DEF WellWritten
<1>8. ASSUME IsInjective([i \in DOMAIN d.rules |-> d.rules[i].priority])
      PROVE  PolicyVerdict(backwards, in.action, in.ctx) = verdict
  <2>1. \A i, j \in DOMAIN d.rules : d.rules[i].priority = d.rules[j].priority => i = j
    BY <1>8 DEF IsInjective
  <2> QED
    BY <1>1, <2>1, OrderTellsNothing DEF verdict, policy
<1>9. ASSUME NEW i \in DOMAIN d.rules, "tools" \in DOMAIN d.rules[i].when, d.rules[i].when["tools"].is = "list",
             Matches(policy.rules[i], in.action, in.ctx)
      PROVE  in.action.tool \in d.rules[i].when["tools"].set
  <2> DEFINE raw == d.rules[i]
  <2>1. policy.rules[i] = RuleOf(raw)
    BY <1>4
  <2>2. RuleOf(raw).tools = LimitOf(raw, "tools")
    BY DEF RuleOf
  <2>3. LimitOf(raw, "tools") = [known |-> TRUE, set |-> raw.when["tools"].set]
    BY <1>9 DEF LimitOf
  <2> HIDE DEF raw
  <2>4. Admits(LimitOf(raw, "tools"), in.action.tool)
    BY <1>9, <2>1, <2>2 DEF Matches
  <2>5. in.action.tool \in raw.when["tools"].set
    BY <2>3, <2>4 DEF Admits
  <2> QED
    BY <2>5 DEF raw
<1> QED
  BY <1>3, <1>4, <1>6, <1>7, <1>8, <1>9

\* The default gate: a rule for the actions that are a human's, one for the risk.
LEMMA GateIs ==
    ASSUME NEW risks \in SUBSET Nat
    PROVE  LET gate == DefaultGate(risks)
           IN /\ gate.rules \in Seq(Range(gate.rules)) /\ DOMAIN gate.rules = 1 .. 2
              /\ \A i \in 1 .. 2 : /\ gate.rules[i].priority \in Int /\ gate.rules[i].verdict = "require_approval"
                                   /\ gate.rules[i].reason = TRUE
              /\ \A action, ctx : action.type \in {"human_approval", "ask_user"} /\ action.risk \in Nat =>
                   Matches(gate.rules[1], action, ctx)
              /\ \A action, ctx : action.risk \in risks => Matches(gate.rules[2], action, ctx)
<1> DEFINE gate == DefaultGate(risks)
           risk == IF risks = {} THEN 2 ELSE CHOOSE r \in risks : \A s \in risks : r <= s
           one == AskingRule("human-in-the-loop-actions", 100, HumanActions, 0)
           two == AskingRule("risk-gate", 10, NoLimit, risk)
<1>1. risks # {} => risk \in risks /\ \A s \in risks : risk <= s
  <2>1. risks # {} => \E r \in risks : \A s \in risks : r <= s
    BY LowestIs
  <2> QED
    BY <2>1
<1> HIDE DEF risk
<1>2. gate = [default |-> "allow", rules |-> <<one, two>> \o <<>>]
  BY Zenon DEF DefaultGate, RiskGate, risk
<1> HIDE DEF one, two, gate
<1>3. <<one, two>> \in Seq({one, two}) /\ <<one, two>> \o <<>> = <<one, two>>
  <2>1. <<one, two>> \in Seq({one, two})
    OBVIOUS
  <2> QED
    BY <2>1, ConcatEmptySeq
<1>4. gate.rules = <<one, two>>
  BY <1>2, <1>3
<1>5. gate.rules \in Seq(Range(gate.rules))
  BY <1>3, <1>4, SeqOfRange
<1>6. DOMAIN gate.rules = 1 .. 2 /\ gate.rules[1] = one /\ gate.rules[2] = two
  BY <1>4
<1>7. \A i \in 1 .. 2 : i = 1 \/ i = 2
  OBVIOUS
<1>8. /\ \A i \in 1 .. 2 : /\ gate.rules[i].priority \in Int /\ gate.rules[i].verdict = "require_approval"
                            /\ gate.rules[i].reason = TRUE
  <2>1. /\ one.priority \in Int /\ one.verdict = "require_approval" /\ one.reason = TRUE
        /\ two.priority \in Int /\ two.verdict = "require_approval" /\ two.reason = TRUE
    BY DEF one, two, AskingRule
  <2> QED
    BY <1>6, <1>7, <2>1
<1>9. ASSUME NEW action, NEW ctx, action.type \in {"human_approval", "ask_user"}, action.risk \in Nat
       PROVE  Matches(one, action, ctx)
  BY <1>9 DEF one, AskingRule, HumanActions, Matches, Admits, NoLimit
<1>10. ASSUME NEW action, NEW ctx, action.risk \in risks PROVE Matches(two, action, ctx)
  <2>1. action.risk \in Nat /\ risk \in Nat /\ action.risk >= risk
    BY <1>1, <1>10
  <2> QED
    BY <2>1 DEF two, AskingRule, Matches, Admits, NoLimit
<1> QED
  BY <1>5, <1>6, <1>8, <1>9, <1>10 DEF gate

\* What a human has to decide about is never let through.
LEMMA GatesAsk ==
    ASSUME NEW in \in [risks : SUBSET Nat, guards : Seq(Guard), spent : Cost, limits : Limits, action : Action, ctx : Context]
    PROVE  GateAsks(in)
<1> DEFINE gate == DefaultGate(in.risks)
           h == [policy |-> gate, guards |-> in.guards, spent |-> in.spent, limits |-> in.limits]
           S == Matching(gate, in.action, in.ctx)
<1> SUFFICES ASSUME in.action.type \in {"human_approval", "ask_user"} \/ in.action.risk \in in.risks
             PROVE  BeforeAction(h, in.action, in.ctx) # "allow"
  BY DEF GateAsks
<1>1. in.risks \in SUBSET Nat /\ in.action.risk \in Nat
  BY DEF Action
<1>2. /\ gate.rules \in Seq(Range(gate.rules)) /\ DOMAIN gate.rules = 1 .. 2
      /\ \A i \in 1 .. 2 : /\ gate.rules[i].priority \in Int /\ gate.rules[i].verdict = "require_approval"
                           /\ gate.rules[i].reason = TRUE
      /\ \A action, ctx : action.type \in {"human_approval", "ask_user"} /\ action.risk \in Nat =>
           Matches(gate.rules[1], action, ctx)
      /\ \A action, ctx : action.risk \in in.risks => Matches(gate.rules[2], action, ctx)
  BY <1>1, GateIs
<1> HIDE DEF gate
<1>3. HasRules(gate)
  BY <1>2 DEF HasRules
<1>4. S # {} /\ S \in SUBSET (1 .. 2)
  BY <1>1, <1>2 DEF Matching
<1>5. PICK i \in S : BestOf(gate.rules, S, i)
  BY <1>2, <1>3, <1>4, FirstExists
<1>6. PolicyVerdict(gate, in.action, in.ctx) = VerdictOf(gate.rules[i])
  BY <1>3, <1>5, FirstDecides
<1>7. VerdictOf(gate.rules[i]) = "require_approval"
  BY <1>2, <1>4 DEF VerdictOf
<1>8. h.policy = gate
  OBVIOUS
<1> HIDE DEF h
<1>9. BeforeAction(h, in.action, in.ctx)
      = Judgement(Exceeded(h.spent, h.limits), "require_approval", UndoVerdict(gate, in.action, in.ctx), Found(h.guards, in.action))
  BY <1>6, <1>7, <1>8, BeforeIs
<1>10. \A over, undo, found : Judgement(over, "require_approval", undo, found) # "allow"
  BY DEF Judgement
<1> QED
  BY <1>9, <1>10

-----------------------------------------------------------------------------
(* Budgets, approvals and secrets. *)

Admitted(m, by, limits) == IF Exceeded(m.spent, limits) THEN m ELSE [spent |-> Charged(m.spent, by), last |-> by]

\* What has been spent is within the budget and the last call.
Within(m, limits) ==
  \A k \in Costs : limits[k].known => \A max \in limits[k].set : m.spent[k] <= max + m.last[k]

Meter == [spent : Cost, last : Cost]

LEMMA AdmittedIs ==
    ASSUME NEW limits \in Limits, NEW m \in Meter, NEW by \in Cost
    PROVE  /\ Admitted(m, by, limits) \in Meter
           /\ Within(m, limits) => Within(Admitted(m, by, limits), limits)
<1>1. m.spent \in Cost /\ m.last \in Cost /\ \A k \in Costs : m.spent[k] \in Nat /\ by[k] \in Nat
  BY DEF Meter, Cost
<1>2. \A k \in Costs : limits[k].set \in SUBSET Nat
  BY DEF Limits, NumberOrNone
<1> DEFINE more == Charged(m.spent, by)
<1>3. more = [k \in Costs |-> m.spent[k] + by[k]]
  BY <1>1 DEF Charged, Cost
<1>4. more \in Cost /\ \A k \in Costs : more[k] = m.spent[k] + by[k]
  BY <1>1, <1>3 DEF Cost
<1> HIDE DEF more
<1>5. CASE Exceeded(m.spent, limits)
  BY <1>5 DEF Admitted
<1>6. CASE ~ Exceeded(m.spent, limits)
  <2>1. Admitted(m, by, limits) = [spent |-> more, last |-> by]
    BY <1>6 DEF Admitted, more
  <2>2. Admitted(m, by, limits) \in Meter
    BY <1>4, <2>1 DEF Meter
  <2>3. \A k \in Costs : limits[k].known => \A max \in limits[k].set : ~ (m.spent[k] > max)
    <3>1. DOMAIN m.spent = Costs
      BY <1>1 DEF Cost
    <3> QED
      BY <1>6, <3>1 DEF Exceeded
  <2>4. ASSUME NEW k \in Costs, limits[k].known, NEW max \in limits[k].set PROVE more[k] <= max + by[k]
    <3>1. max \in Nat /\ m.spent[k] <= max
      BY <1>1, <1>2, <2>3, <2>4
    <3> QED
      BY <1>1, <1>4, <3>1
  <2> QED
    BY <2>1, <2>2, <2>4 DEF Within
<1> QED
  BY <1>5, <1>6

\* What is asked for while the budget lasts overspends it by no more than itself.
LEMMA BudgetsHold ==
    ASSUME NEW in \in [limits : Limits, calls : Seq(Cost)]
    PROVE  BudgetHolds(in)
<1> DEFINE N == Len(in.calls)
           L == in.limits
           none == [k \in DOMAIN L |-> 0]
           first == [spent |-> none, last |-> none]
           G == [n \in 1 .. N |-> [m \in Meter |-> Admitted(m, in.calls[n], L)]]
           F == CHOOSE after : after = [n \in 0 .. N |-> IF n = 0 THEN first ELSE Admitted(after[n - 1], in.calls[n], L)]
<1>1. L \in Limits /\ DOMAIN L = Costs /\ in.calls \in Seq(Cost)
  BY DEF Limits
<1>2. N \in Nat /\ \A n \in 1 .. N : in.calls[n] \in Cost
  BY <1>1, LenProperties, ElementOfSeq
<1>3. none \in Cost /\ DOMAIN none = Costs /\ \A k \in Costs : none[k] = 0
  BY <1>1 DEF Cost
<1>4. BudgetHolds(in) = (\A k \in DOMAIN none : L[k].known => \A max \in L[k].set : F[N].spent[k] <= max + F[N].last[k])
  BY DEF BudgetHolds, Admitted
<1> HIDE DEF N, L, none
<1>5. first \in Meter /\ Within(first, L)
  <2>1. \A k \in Costs : L[k].set \in SUBSET Nat
    BY <1>1 DEF Limits, NumberOrNone
  <2>2. first \in Meter
    BY <1>3 DEF Meter
  <2>3. first.spent = none /\ first.last = none
    OBVIOUS
  <2> HIDE DEF first
  <2>4. \A k \in Costs : L[k].known => \A max \in L[k].set : first.spent[k] <= max + first.last[k]
    BY <1>3, <2>1, <2>3
  <2> QED
    BY <2>2, <2>4 DEF Within
<1>6. G \in [1 .. N -> [Meter -> Meter]] /\ \A n \in 1 .. N : \A m \in Meter : G[n][m] = Admitted(m, in.calls[n], L)
  BY <1>1, <1>2, AdmittedIs
<1> HIDE DEF G, first
<1>7. PICK f \in [0 .. N -> Meter] : f[0] = first /\ \A n \in 1 .. N : f[n] = G[n][f[n - 1]]
  <2>1. \E f : Iterates(f, N, Meter, first, G)
    BY <1>2, <1>5, <1>6, Iteration, Zenon
  <2> QED
    BY <2>1, Zenon DEF Iterates
<1>8. f = [n \in 0 .. N |-> IF n = 0 THEN first ELSE Admitted(f[n - 1], in.calls[n], L)]
  <2>1. f = [n \in 0 .. N |-> f[n]]
    BY <1>7
  <2>2. ASSUME NEW n \in 0 .. N PROVE f[n] = IF n = 0 THEN first ELSE Admitted(f[n - 1], in.calls[n], L)
    <3>1. CASE n = 0
      BY <1>7, <3>1
    <3>2. CASE n # 0
      <4>1. n \in 1 .. N /\ n - 1 \in 0 .. N
        BY <1>2, <3>2
      <4> QED
        BY <1>6, <1>7, <3>2, <4>1
    <3> QED
      BY <3>1, <3>2
  <2> QED
    BY <2>1, <2>2
<1>9. F = [n \in 0 .. N |-> IF n = 0 THEN first ELSE Admitted(F[n - 1], in.calls[n], L)]
  BY <1>8
<1> HIDE DEF F
<1> DEFINE P == {n \in 0 .. N : F[n] \in Meter /\ Within(F[n], L)}
<1>10. 0 \in P
  <2>1. 0 \in 0 .. N
    BY <1>2
  <2>2. F[0] = first
    BY <1>9, <2>1
  <2> QED
    BY <1>5, <2>1, <2>2
<1>11. ASSUME NEW n \in 1 .. N, n - 1 \in P PROVE n \in P
  <2>1. n \in 0 .. N /\ n # 0 /\ F[n - 1] \in Meter /\ Within(F[n - 1], L) /\ in.calls[n] \in Cost
    BY <1>2, <1>11
  <2>2. F[n] = Admitted(F[n - 1], in.calls[n], L)
    BY <1>9, <2>1
  <2> QED
    BY <1>1, <2>1, <2>2, AdmittedIs
<1> HIDE DEF P
<1>12. \A n \in 0 .. N : n \in P
  BY <1>2, <1>10, <1>11, Counting
<1>13. N \in 0 .. N
  BY <1>2
<1>14. Within(F[N], L)
  BY <1>12, <1>13 DEF P
<1> QED
  BY <1>3, <1>4, <1>14 DEF Within

-----------------------------------------------------------------------------
(* The decision on an approval, and secrets. *)

Words == STRING \cup {"pending", "nothing", "expired"}
Requests(deciders) == [status : Words, due : BOOLEAN, armed : [deciders -> Words], told : Seq(Words)]

\* A request is open and nobody was told, or it was decided and one was told
\* so; and whoever is about to write that it expired saw that it was overdue.
Sound(r, deciders) ==
    /\ \/ r.status = "pending" /\ r.told = <<>>
       \/ r.status # "pending" /\ r.told = <<r.status>>
    /\ r.status = "expired" => r.due
    /\ \A w \in deciders : r.armed[w] # "pending" /\ (r.armed[w] = "expired" => r.due)

\* What anybody does about a request leaves it sound.
LEMMA DecidedIsSound ==
    ASSUME NEW D, NEW r \in Requests(D), Sound(r, D), NEW op \in DecisionOp, op.who \in D
    PROVE  Decided(r, op) \in Requests(D) /\ Sound(Decided(r, op), D)
<1> DEFINE w0 == op.who
<1>1. /\ r = [status |-> r.status, due |-> r.due, armed |-> r.armed, told |-> r.told]
      /\ r.status \in Words /\ r.due \in BOOLEAN /\ r.armed \in [D -> Words] /\ r.told \in Seq(Words)
  BY DEF Requests
<1>2. w0 \in D /\ op.to \in Words /\ op.to # "pending" /\ op.to # "nothing" /\ op.does \in {"overdue", "guard", "transition"}
  BY DEF DecisionOp, Words
<1>3. "nothing" \in Words /\ r.armed[w0] \in Words
  BY <1>1, <1>2 DEF Words
<1> DEFINE disarmed == [r.armed EXCEPT ![w0] = "nothing"]
           armed == [r.armed EXCEPT ![w0] = op.to]
<1>4. /\ disarmed \in [D -> Words] /\ armed \in [D -> Words]
      /\ \A w \in D : disarmed[w] = IF w = w0 THEN "nothing" ELSE r.armed[w]
      /\ \A w \in D : armed[w] = IF w = w0 THEN op.to ELSE r.armed[w]
  BY <1>1, <1>2, <1>3
<1> DEFINE Rec(st, due, arm, told) == [status |-> st, due |-> due, armed |-> arm, told |-> told]
<1>5. ASSUME NEW st \in Words, NEW due \in BOOLEAN, NEW arm \in [D -> Words], NEW told \in Seq(Words)
      PROVE  /\ Rec(st, due, arm, told) \in Requests(D)
             /\ Rec(st, due, arm, told).status = st /\ Rec(st, due, arm, told).due = due
             /\ Rec(st, due, arm, told).armed = arm /\ Rec(st, due, arm, told).told = told
  BY DEF Requests
<1>6. CASE op.does = "overdue"
  <2> DEFINE n == Rec(r.status, TRUE, r.armed, r.told)
  <2>1. Decided(r, op) = n
    BY <1>1, <1>6 DEF Decided
  <2>2. n \in Requests(D) /\ n.status = r.status /\ n.due = TRUE /\ n.armed = r.armed /\ n.told = r.told
    BY <1>1 DEF Requests
  <2> HIDE DEF n
  <2>3. Sound(n, D)
    <3>1. \A w \in D : n.armed[w] # "pending" /\ (n.armed[w] = "expired" => n.due)
      BY <2>2 DEF Sound
    <3>2. n.status = "expired" => n.due
      BY <2>2
    <3> QED
      BY <2>2, <3>1, <3>2 DEF Sound
  <2> QED
    BY <2>1, <2>2, <2>3
<1>7. [r EXCEPT !.armed[w0] = "nothing"] = Rec(r.status, r.due, disarmed, r.told)
  <2>1. [r EXCEPT !.armed[w0] = "nothing"] = [r EXCEPT !.armed = disarmed]
    BY <1>1
  <2> HIDE DEF disarmed
  <2> QED
    BY <1>1, <2>1
<1>8. Rec(r.status, r.due, disarmed, r.told) \in Requests(D) /\ Sound(Rec(r.status, r.due, disarmed, r.told), D)
  <2> HIDE DEF Rec, disarmed
  <2> QED
    BY <1>1, <1>4, <1>5 DEF Sound
<1>9. CASE op.does = "guard"
  <2>1. Decided(r, op) = GuardDecidable(r, w0, op.to)
    BY <1>9 DEF Decided
  <2>2. CASE r.status = "pending" /\ (r.due <=> op.to = "expired")
    <3>1. GuardDecidable(r, w0, op.to) = [r EXCEPT !.armed = armed]
      BY <1>1, <2>2 DEF GuardDecidable
    <3> HIDE DEF armed
    <3>2. GuardDecidable(r, w0, op.to) = Rec(r.status, r.due, armed, r.told)
      BY <1>1, <3>1
    <3> HIDE DEF Rec
    <3> QED
      BY <1>1, <1>2, <1>4, <1>5, <2>1, <2>2, <3>2 DEF Sound
  <2>3. CASE ~ (r.status = "pending" /\ (r.due <=> op.to = "expired"))
    BY <1>7, <1>8, <2>1, <2>3 DEF GuardDecidable
  <2> QED
    BY <2>2, <2>3
<1>10. CASE op.does = "transition"
  <2>1. Decided(r, op) = Transition(r, w0)
    BY <1>10 DEF Decided
  <2>2. CASE r.armed[w0] = "nothing" \/ r.status # "pending"
    BY <1>7, <1>8, <2>1, <2>2 DEF Transition
  <2>3. CASE ~ (r.armed[w0] = "nothing" \/ r.status # "pending")
    <3> DEFINE told == Append(r.told, r.armed[w0])
    <3>1. Decided(r, op) = [r EXCEPT !.status = r.armed[w0], !.armed = disarmed, !.told = told]
      BY <1>1, <2>1, <2>3 DEF Transition
    <3>2. r.told = <<>>
      BY <2>3 DEF Sound
    <3>3. told = <<r.armed[w0]>> /\ told \in Seq(Words)
      BY <1>1, <1>3, <3>2
    <3>4. r.armed[w0] # "pending" /\ (r.armed[w0] = "expired" => r.due)
      BY <1>2 DEF Sound
    <3> HIDE DEF disarmed, told
    <3>5. Decided(r, op) = Rec(r.armed[w0], r.due, disarmed, told)
      BY <1>1, <3>1
    <3> DEFINE n == Decided(r, op)
    <3>6. n \in Requests(D) /\ n.status = r.armed[w0] /\ n.due = r.due /\ n.armed = disarmed /\ n.told = told
      BY <1>1, <1>3, <1>4, <3>3, <3>5 DEF Requests
    <3>7. Sound(n, D)
      <4> HIDE DEF n
      <4> QED
        BY <1>2, <1>4, <3>3, <3>4, <3>6 DEF Sound
    <3> QED
      BY <3>6, <3>7
  <2> QED
    BY <2>2, <2>3
<1> QED
  BY <1>2, <1>6, <1>9, <1>10

\* A-11: an approval is decided at most once, by the one who was told so, and
\* it expires only when it is overdue, in whatever order those who decide act.
LEMMA DecidesOnce ==
    ASSUME NEW in, in.ops \in Seq(DecisionOp), \A i \in DOMAIN in.ops : in.ops[i].who \in in.deciders
    PROVE  DecidedOnce(in)
<1> DEFINE N == Len(in.ops)
           D == in.deciders
           first == Requested(D)
           X == {r \in Requests(D) : Sound(r, D)}
           G == [n \in 1 .. N |-> [r \in X |-> Decided(r, in.ops[n])]]
           F == CHOOSE after : after = [n \in 0 .. N |-> IF n = 0 THEN first ELSE Decided(after[n - 1], in.ops[n])]
<1>1. N \in Nat /\ \A n \in 1 .. N : in.ops[n] \in DecisionOp /\ in.ops[n].who \in D
  BY LenProperties, ElementOfSeq
<1>2. DecidedOnce(in) = /\ Len(F[N].told) <= 1
                        /\ F[N].status = IF F[N].told = <<>> THEN "pending" ELSE Head(F[N].told)
                        /\ F[N].status = "expired" => F[N].due
  BY DEF DecidedOnce
<1>3. first \in X
  BY DEF Requested, Requests, Sound, Words
<1> HIDE DEF N, first
<1>4. G \in [1 .. N -> [X -> X]] /\ \A n \in 1 .. N : \A r \in X : G[n][r] = Decided(r, in.ops[n])
  BY <1>1, DecidedIsSound
<1> HIDE DEF G, X
<1>5. PICK f \in [0 .. N -> X] : f[0] = first /\ \A n \in 1 .. N : f[n] = G[n][f[n - 1]]
  <2>1. \E f : Iterates(f, N, X, first, G)
    BY <1>1, <1>3, <1>4, Iteration, Zenon
  <2> QED
    BY <2>1, Zenon DEF Iterates
<1>6. f = [n \in 0 .. N |-> IF n = 0 THEN first ELSE Decided(f[n - 1], in.ops[n])]
  <2>1. f = [n \in 0 .. N |-> f[n]]
    BY <1>5
  <2>2. ASSUME NEW n \in 0 .. N PROVE f[n] = IF n = 0 THEN first ELSE Decided(f[n - 1], in.ops[n])
    <3>1. CASE n = 0
      BY <1>5, <3>1
    <3>2. CASE n # 0
      <4>1. n \in 1 .. N /\ n - 1 \in 0 .. N
        BY <1>1, <3>2
      <4> QED
        BY <1>4, <1>5, <3>2, <4>1
    <3> QED
      BY <3>1, <3>2
  <2> QED
    BY <2>1, <2>2
<1>7. F = [n \in 0 .. N |-> IF n = 0 THEN first ELSE Decided(F[n - 1], in.ops[n])]
  BY <1>6
<1> HIDE DEF F
<1> DEFINE P == {n \in 0 .. N : F[n] \in X}
<1>8. 0 \in P
  <2>1. 0 \in 0 .. N
    BY <1>1
  <2>2. F[0] = first
    BY <1>7, <2>1
  <2> QED
    BY <1>3, <2>1, <2>2
<1>9. ASSUME NEW n \in 1 .. N, n - 1 \in P PROVE n \in P
  <2>1. n \in 0 .. N /\ n # 0 /\ F[n - 1] \in X
    BY <1>1, <1>9
  <2>2. F[n] = Decided(F[n - 1], in.ops[n])
    BY <1>7, <2>1
  <2>3. in.ops[n] \in DecisionOp /\ in.ops[n].who \in D
    BY <1>1
  <2> QED
    BY <2>1, <2>2, <2>3, DecidedIsSound DEF X
<1> HIDE DEF P
<1>10. \A n \in 0 .. N : n \in P
  BY <1>1, <1>8, <1>9, Counting
<1>11. N \in 0 .. N
  BY <1>1
<1>12. F[N] \in Requests(D) /\ Sound(F[N], D)
  BY <1>10, <1>11 DEF P, X
<1> DEFINE last == F[N]
<1>13. last.status = "expired" => last.due
  BY <1>12 DEF Sound
<1>14. CASE last.status = "pending" /\ last.told = <<>>
  <2>1. Len(last.told) <= 1
    BY <1>14
  <2> QED
    BY <1>2, <1>13, <1>14, <2>1
<1>15. CASE last.told = <<last.status>>
  <2>1. Len(last.told) <= 1 /\ last.told # <<>> /\ Head(last.told) = last.status
    BY <1>15
  <2> QED
    BY <1>2, <1>13, <2>1
<1> QED
  BY <1>12, <1>14, <1>15 DEF Sound

\* A text that refers to a secret is the secret or an error.
LEMMA SecretsAreSecret == ASSUME NEW in, in.text \in Text PROVE SecretsAreNotTexts(in)
<1> DEFINE told == Resolve(in.text, in.providers)
           t == in.text
<1>1. t.kind \in {"plain", "malformed", "reference"}
  BY DEF Text
<1> SUFFICES ASSUME "value" \in DOMAIN told
             PROVE  IF t.kind = "plain" THEN told.value = t.key
                    ELSE \E s \in DOMAIN in.providers :
                           /\ in.providers[s].scheme = s /\ t.scheme = s
                           /\ told.value \in Range(in.providers[s].values)
  BY DEF SecretsAreNotTexts
<1>2. CASE t.kind = "plain"
  <2>1. told.value = t.key
    BY <1>2 DEF Resolve
  <2> QED
    BY <1>2, <2>1
<1>3. CASE t.kind = "malformed"
  <2>1. told = [error |-> "ValueError"]
    BY <1>3 DEF Resolve
  <2>2. "value" \notin DOMAIN told
    BY <2>1
  <2> QED
    BY <2>2
<1>4. CASE t.kind = "reference"
  <2>1. told = ResolveSecret(t, in.providers)
    BY <1>4 DEF Resolve
  <2> DEFINE p == in.providers[t.scheme]
  <2>2. CASE t.scheme \notin DOMAIN in.providers \/ p.scheme # t.scheme \/ t.key \notin DOMAIN p.values
    <3>1. told = NotFound
      BY <2>1, <2>2 DEF ResolveSecret
    <3>2. "value" \notin DOMAIN told
      BY <3>1 DEF NotFound
    <3> QED
      BY <3>2
  <2>3. CASE ~ (t.scheme \notin DOMAIN in.providers \/ p.scheme # t.scheme \/ t.key \notin DOMAIN p.values)
    <3>1. told = [value |-> p.values[t.key]]
      BY <2>1, <2>3 DEF ResolveSecret
    <3>2. told.value = p.values[t.key]
      BY <3>1
    <3>3. told.value \in Range(p.values)
      BY <2>3, <3>2 DEF Range
    <3> HIDE DEF told
    <3> QED
      BY <1>4, <2>3, <3>3
  <2> QED
    BY <2>2, <2>3
<1> QED
  BY <1>1, <1>2, <1>3, <1>4

-----------------------------------------------------------------------------
(* The case is one of the inputs that there may be, hence all claims hold. *)

Given(of, inputs) == \E i \in inputs : case = [of |-> of, in |-> i]

CaseIsGiven ==
    \/ case = [of |-> "nothing"]
    \/ Given("plan", Plans) \/ Given("wait", Waits) \/ Given("restore", Restores) \/ Given("state", Observations)
    \/ Given("statuses", StatusChanges) \/ Given("restart", Restarts) \/ Given("action", Asked) \/ Given("list", Stores)
    \/ Given("strict", Judged) \/ Given("document", Documents) \/ Given("gate", Gates) \/ Given("budget", Budgets)
    \/ Given("approval", Decisions) \/ Given("secret", Secrets)

\* A case is picked from the inputs of its part, and stays.
LEMMA CaseIsAlwaysGiven == Spec => []CaseIsGiven
<1>1. Init => CaseIsGiven
  BY DEF Init, CaseIsGiven
<1>2. CaseIsGiven /\ [Next]_case => CaseIsGiven'
  <2> SUFFICES ASSUME CaseIsGiven, [Next]_case PROVE CaseIsGiven'
    OBVIOUS
  <2>1. CASE UNCHANGED case
    BY <2>1 DEF CaseIsGiven, Given
  <2>2. CASE Next
    BY <2>2 DEF CaseIsGiven, Given, Next, Pick
  <2> QED
    BY <2>1, <2>2
<1> QED
  BY <1>1, <1>2, PTL DEF Spec

\* The input of a part that looks at runs is one of those that there may be.
LEMMA RunsAreGiven ==
    ASSUME CaseIsGiven
    PROVE  /\ case.of = "plan" => case.in \in PlanInput
           /\ case.of = "wait" => case.in \in WaitInput
           /\ case.of = "restore" => case.in \in [captured : Port, made : Port]
           /\ case.of = "state" => case.in \in Seq(Observation)
           /\ case.of = "statuses" =>
                case.in \in [before : Seq(SUBSET STRING), after : Seq(SUBSET STRING), terminal : RunsOver \cup {"none"}]
           /\ case.of = "restart" => IsLive(case.in.loop) /\ case.in.tables \in Tables
           /\ case.of = "action" => case.in \in [type : STRING, timeout : Int, risk : STRING \ {"none"}, undo : Nat]
           /\ case.of = "list" => IsStore(case.in.store) /\ case.in.limit \in Nat
<1>1. /\ case.of = "plan" => case.in \in Plans
      /\ case.of = "wait" => case.in \in Waits
      /\ case.of = "restore" => case.in \in Restores
      /\ case.of = "state" => case.in \in Observations
      /\ case.of = "statuses" => case.in \in StatusChanges
      /\ case.of = "restart" => case.in \in Restarts
      /\ case.of = "action" => case.in \in Asked
      /\ case.of = "list" => case.in \in Stores
  BY DEF CaseIsGiven, Given
<1>2. LoopRulesAssumption /\ RunViewsAssumption
  BY RuleClaimsAssumption
<1> QED
  BY <1>1, <1>2 DEF LoopRulesAssumption, RunViewsAssumption

\* The input of a part that stands before an action is one of those that there may be.
LEMMA ActionsAreGiven ==
    ASSUME CaseIsGiven
    PROVE  /\ case.of = "strict" =>
                case.in \in [harness : Harness, action : Action, ctx : Context, rule : Rule, guard : Guard]
           /\ case.of = "document" => IsDocument(case.in.document)
           /\ case.of = "gate" => case.in \in [risks : SUBSET Nat, guards : Seq(Guard), spent : Cost, limits : Limits,
                                                action : Action, ctx : Context]
           /\ case.of = "budget" => case.in \in [limits : Limits, calls : Seq(Cost)]
           /\ case.of = "approval" =>
                /\ case.in.ops \in Seq(DecisionOp)
                /\ \A i \in DOMAIN case.in.ops : case.in.ops[i].who \in case.in.deciders
           /\ case.of = "secret" => case.in.text \in Text
<1>1. /\ case.of = "strict" => case.in \in Judged
      /\ case.of = "document" => case.in \in Documents
      /\ case.of = "gate" => case.in \in Gates
      /\ case.of = "budget" => case.in \in Budgets
      /\ case.of = "approval" => case.in \in Decisions
      /\ case.of = "secret" => case.in \in Secrets
  BY DEF CaseIsGiven, Given
<1>2. HarnessAssumption
  BY RuleClaimsAssumption
<1>3. \A c \in Documents : IsDocument(c.document)
  BY <1>2 DEF HarnessAssumption
<1> QED
  BY <1>1, <1>2, <1>3 DEF HarnessAssumption

\* Whatever the inputs are, a plan that is built runs out, a wait ends within its
\* ceilings, a restored run goes on where it was, its state is folded from what
\* was observed, its status follows its tasks, a restart is silent, an action
\* survives being stored, and the list tells what the runs do when asked.
THEOREM RunsAreAlwaysRead == Spec => []RunsAreRead
<1>1. CaseIsGiven => RunsAreRead
  <2> SUFFICES ASSUME CaseIsGiven PROVE RunsAreRead
    OBVIOUS
  <2>1. case.of = "plan" => PlanRunsOut(case.in)
    BY RunsAreGiven, PlansRunOut
  <2>2. case.of = "wait" => WaitIsBounded(case.in)
    BY RunsAreGiven, WaitsAreBounded
  <2>3. case.of = "restore" => RestoredGoesOn(case.in)
    BY RunsAreGiven, RestoresGoOn
  <2>4. case.of = "state" => StateIsFolded(case.in)
    BY RunsAreGiven, StatesAreFolded
  <2>5. case.of = "statuses" => StatusesFollow(case.in)
    BY RunsAreGiven, StatusesAlwaysFollow
  <2>6. case.of = "restart" => RestartIsSilent(case.in)
    BY RunsAreGiven, RestartsAreSilent
  <2>7. case.of = "action" => ActionSurvives(case.in)
    BY RunsAreGiven, ActionsSurvive
  <2>8. case.of = "list" => ListTellsGet(case.in)
    BY RunsAreGiven, ListsTellGets
  <2> QED
    BY <2>1, <2>2, <2>3, <2>4, <2>5, <2>6, <2>7, <2>8 DEF RunsAreRead
<1> QED
  BY <1>1, CaseIsAlwaysGiven, PTL

\* Whatever the inputs are, the harness is as strict as its strictest part, a
\* document that is accepted decides, a gate asks, a budget is overspent by no
\* more than the last call, an approval is decided once, and a reference to a
\* secret is never taken for the secret.
THEOREM ActionsAreAlwaysGated == Spec => []ActionsAreGated
<1>1. CaseIsGiven => ActionsAreGated
  <2> SUFFICES ASSUME CaseIsGiven PROVE ActionsAreGated
    OBVIOUS
  <2>1. case.of = "strict" => HarnessIsStrict(case.in)
    BY ActionsAreGiven, HarnessesAreStrict
  <2>2. case.of = "document" => DocumentDecides(case.in)
    BY ActionsAreGiven, DocumentsDecide
  <2>3. case.of = "gate" => GateAsks(case.in)
    BY ActionsAreGiven, GatesAsk
  <2>4. case.of = "budget" => BudgetHolds(case.in)
    BY ActionsAreGiven, BudgetsHold
  <2>5. case.of = "approval" => DecidedOnce(case.in)
    BY ActionsAreGiven, DecidesOnce
  <2>6. case.of = "secret" => SecretsAreNotTexts(case.in)
    BY ActionsAreGiven, SecretsAreSecret
  <2> QED
    BY <2>1, <2>2, <2>3, <2>4, <2>5, <2>6 DEF ActionsAreGated
<1> QED
  BY <1>1, CaseIsAlwaysGiven, PTL
=============================================================================
