--------------------------- MODULE AgentRunProofs ---------------------------
(***************************************************************************)
(* Proofs about AgentRun for any number of API processes, any plans, any    *)
(* budget and any number of failed requests and restarts.                   *)
(***************************************************************************)
EXTENDS AgentRunProperties, FiniteSetTheorems, WellFoundedInduction, TLAPS

-----------------------------------------------------------------------------
(* The inductive invariant. *)

RunStatuses == ActiveStatuses \cup TerminalRunStatuses
StepStatuses == TerminalStepStatuses \cup {"pending", "suspended"}
ApprovalStatuses == {"pending", "approved", "rejected", "cancelled"}
Denials == 0..(MaxDenials - 1) \cup {1}

\* Steps and loops that know of n executions.
Step(n) == [node : Nodes \cup {NoNode}, execs : SUBSET (1..n), status : StepStatuses]

Loop(n) ==
    [status : RunStatuses, steps : 0..MaxSteps, denials : Denials,
     plan : Plans \cup {NoPlan}, created : Plans \cup {NoPlan}, invalid : Plans \cup {NoPlan},
     known : SUBSET {"created", "invalid"}, failures : BOOLEAN, book : Seq(Step(n)),
     current : Nat, gate : 0..n, copy : ApprovalStatuses \cup {"none"}]

\* A loop that waits has a plan and a step of its budget left; one that lost its plan
\* has an invalidated one, or no failures; one that is completed has no failures.
Lawful(l) ==
    /\ l.current <= Len(l.book)
    /\ l.gate # 0 => l.steps < MaxSteps /\ l.plan # NoPlan
    /\ l.plan # NoPlan => l.created # NoPlan
    /\ l.plan = NoPlan /\ l.invalid = NoPlan => ~l.failures
    /\ l.status = "completed" => ~l.failures

LoopFits(l, n) == l \in Loop(n) /\ Lawful(l)

\* A loop that waits has not just been denied.
Patient(l) == l.gate # 0 => l.denials = 0

Execution == [kind : {"call", "gate"}, status : TerminalExecutionStatuses \cup {"pending", "suspended"}]
Approval == [status : ApprovalStatuses, overdue : BOOLEAN, action : {"call", "finish"}]

\* What the execution of a gate can be.
GateStatuses == {"suspended", "completed", "cancelled"}

\* The rows of t, which knows of n executions.
RowsFit(t, n) ==
    /\ t = [snap |-> t.snap, execs |-> t.execs, approvals |-> t.approvals, intent |-> t.intent]
    /\ DOMAIN t.execs \subseteq 1..n /\ t.execs \in [DOMAIN t.execs -> Execution]
    /\ DOMAIN t.approvals \subseteq DOMAIN t.execs /\ t.approvals \in [DOMAIN t.approvals -> Approval]
    /\ t.intent \in {"none", "requested", "settled"}
    /\ \A e \in DOMAIN t.approvals : t.execs[e].status \in GateStatuses

SnapFits(t, n) == t.snap # NoLoop => LoopFits(t.snap, n)

Unproven == {"failed", "pending"}
Work(l) == UNION {l.book[i].execs : i \in DOMAIN l.book}
Flawless(l) == l.invalid = NoPlan /\ ~l.failures

\* What a copy l of the loop may rely on in the tables t, however old it is: a loop that
\* never replanned and has seen no failure has none, one that waits for its end has none,
\* and one that has seen a decision is right.
Agrees(l, t) ==
    /\ Flawless(l) => \A e \in Work(l) \cap DOMAIN t.execs : t.execs[e].status \notin Unproven
    /\ l.gate # 0 /\ l.gate \in DOMAIN t.approvals /\ t.approvals[l.gate].action = "finish" => ~l.failures

Knows(l, t) ==
    l.gate # 0 /\ l.copy # "pending" =>
        l.gate \in DOMAIN t.approvals /\ t.approvals[l.gate].status # "pending"

\* The copies of the loop that come to life again, and the tables t.
CopiesAgree(t) ==
    /\ db.snap # NoLoop => Agrees(db.snap, t)
    /\ \A p \in Replicas : mem[p] # NoLoop => Agrees(mem[p], t) /\ Knows(mem[p], t)

CopiesFit ==
    /\ db.snap # NoLoop => Patient(db.snap)
    /\ \A p \in Replicas : mem[p] # NoLoop => LoopFits(mem[p], fresh) /\ Patient(mem[p])

TablesFit(t) == RowsFit(t, fresh) /\ SnapFits(t, fresh) /\ CopiesAgree(t)

\* Only a request that ends with its snapshot leaves another one in its draft, and its loop
\* can be captured.
Snapshots == {"waiting_approval", "cancelled"}

RequestFits ==
    /\ req = [by |-> req.by, job |-> req.job, draft |-> req.draft, out |-> req.out]
    /\ req.by \in Replicas /\ mem[req.by] # NoLoop /\ req.out \in Outcomes
    /\ TablesFit(req.draft)
    /\ req.out \notin Snapshots => req.draft.snap = db.snap
    /\ req.out \in Snapshots => ~CannotBeCaptured(mem[req.by])
    /\ req.job = "decide" => req.out \notin Snapshots

\* The steps that the processes have done since they loaded the run, by the loops f.
SeatsIn(f) == {s \in Replicas \X (1..MaxSteps) : f[s[1]] # NoLoop /\ s[2] <= f[s[1]].steps}
Seats == SeatsIn(mem)

Counts ==
    /\ fresh \in 0..MaxExecutions /\ ran \in 0..fresh /\ faults \in 0..MaxFaults
    /\ ran <= Cardinality(Seats) + MaxSteps * faults

Inv ==
    /\ TablesFit(db) /\ CopiesFit /\ Counts
    /\ mem = [p \in Replicas |-> mem[p]]
    /\ req # NoRequest => RequestFits

-----------------------------------------------------------------------------
(* Loops. *)

\* A set of positions that is not empty has a first one.
LEMMA FirstPosition ==
    ASSUME NEW S \in SUBSET Nat, S # {}
    PROVE  \E i \in S : \A j \in S : i <= j
<1> DEFINE R == {s \in Nat \X Nat : s[1] < s[2]}
<1>1. IsWellFoundedOn(R, Nat)
  BY NatLessThanWellFounded, Zenon DEF OpToRel
<1>2. PICK i \in S : \A j \in S : ~(<<j, i>> \in R)
  BY <1>1, WFMin, Zenon
<1>3. \A j \in S : <<j, i>> \in R <=> j < i
  OBVIOUS
<1> HIDE DEF R
<1>4. ASSUME NEW j \in S
      PROVE  i <= j
  <2>1. i \in Nat /\ j \in Nat
    OBVIOUS
  <2>2. ~(j < i)
    BY <1>2, <1>3, Zenon
  <2> QED
    BY <2>1, <2>2
<1> QED
  BY <1>4

\* What a loop may know of grows with the executions.
LEMMA LoopsGrow ==
    ASSUME NEW n \in Nat, NEW l, LoopFits(l, n)
    PROVE  LoopFits(l, n + 1)
<1>1. 1..n \subseteq 1..(n + 1) /\ 0..n \subseteq 0..(n + 1)
  OBVIOUS
<1>2. Step(n) \subseteq Step(n + 1)
  BY <1>1 DEF Step
<1>3. Seq(Step(n)) \subseteq Seq(Step(n + 1))
  BY <1>2
<1> QED
  BY <1>1, <1>3 DEF LoopFits, Loop

\* The step that a plan has next is one of its nodes.
LEMMA NextNodeFits ==
    ASSUME NEW l, l.plan \in Plans
    PROVE  NextPlanNode(l) \in Nodes \cup {NoNode}
<1>1. l.plan \in Seq(Nodes)
  BY AgentRunAssumption
<1>2. CASE Ready(l) = {}
  BY <1>2 DEF NextPlanNode
<1>3. CASE Ready(l) # {}
  <2>1. Ready(l) \subseteq 1..Len(l.plan)
    BY <1>1 DEF Ready, Unconsumed
  <2>2. PICK i \in Ready(l) : \A j \in Ready(l) : i <= j
    BY <1>3, <2>1, FirstPosition
  <2> DEFINE k == CHOOSE h \in Ready(l) : \A j \in Ready(l) : h <= j
  <2>3. k \in Ready(l)
    BY <2>2
  <2>4. k \in 1..Len(l.plan)
    BY <2>1, <2>3, Zenon
  <2>5. NextPlanNode(l) = l.plan[k]
    BY <1>3 DEF NextPlanNode
  <2> HIDE DEF k
  <2> QED
    BY <1>1, <2>4, <2>5
<1> QED
  BY <1>2, <1>3

\* A function on 1..k is a sequence of k elements.
LEMMA SequenceOf ==
    ASSUME NEW S, NEW k \in Nat, NEW b \in [1..k -> S]
    PROVE  b \in Seq(S) /\ Len(b) = k /\ DOMAIN b = 1..k
OBVIOUS

LEMMA InWork ==
    ASSUME NEW l
    PROVE  \A x : x \in Work(l) <=> \E i \in DOMAIN l.book : x \in l.book[i].execs
BY Zenon DEF Work

\* The loop has a step that takes the task, and no other execution than before.
LEMMA EnsureStepFits ==
    ASSUME NEW n \in Nat, NEW l, LoopFits(l, n), l.plan # NoPlan,
           NEW m, m = EnsureStep(l)
    PROVE  /\ m = [l EXCEPT !.book = m.book, !.current = m.current]
           /\ m.book \in Seq(Step(n)) /\ m.current \in 1..Len(m.book)
           /\ Work(m) = Work(l)
<1>1. l \in Loop(n) /\ l.current <= Len(l.book) /\ l.plan \in Plans
  BY DEF LoopFits, Loop, Lawful
<1>2. l.book \in Seq(Step(n)) /\ l.current \in Nat
  BY <1>1 DEF Loop
<1>3. l = [l EXCEPT !.book = l.book, !.current = l.current]
  BY <1>1 DEF Loop
<1>4. CASE l.current # 0 /\ ~StepIsDone(l)
  <2>1. m = l
    BY <1>4 DEF EnsureStep
  <2> QED
    BY <1>2, <1>1, <1>3, <1>4, <2>1
<1>5. CASE ~(l.current # 0 /\ ~StepIsDone(l))
  <2> DEFINE s == [node |-> NextPlanNode(l), execs |-> {}, status |-> "pending"]
  <2>1. s \in Step(n)
    BY <1>1, NextNodeFits DEF Step, StepStatuses
  <2>2. m = [l EXCEPT !.book = Append(l.book, s), !.current = Len(l.book) + 1]
    BY <1>5 DEF EnsureStep
  <2>3. m.book = Append(l.book, s) /\ m.current = Len(l.book) + 1
    BY <1>1, <2>2 DEF Loop
  <2> HIDE DEF s
  <2>4. m.book \in Seq(Step(n)) /\ Len(m.book) = Len(l.book) + 1
    BY <1>2, <2>1, <2>3
  <2>5. \A i \in 1..Len(l.book) : m.book[i] = l.book[i]
    BY <1>2, <2>1, <2>3
  <2>6. m.book[Len(l.book) + 1] = s /\ s.execs = {}
    BY <1>2, <2>1, <2>3 DEF s
  <2>7. DOMAIN l.book = 1..Len(l.book) /\ DOMAIN m.book = 1..(Len(l.book) + 1) /\ Len(l.book) \in Nat
    BY <1>2, <2>4
  <2>8. Work(m) = Work(l)
    <3>1. ASSUME NEW x \in Work(l)
          PROVE  x \in Work(m)
      BY <2>5, <2>7, InWork
    <3>2. ASSUME NEW x \in Work(m)
          PROVE  x \in Work(l)
      <4>1. PICK i \in 1..(Len(l.book) + 1) : x \in m.book[i].execs
        BY <2>7, <3>2, InWork
      <4>2. i \in 1..Len(l.book)
        BY <2>6, <2>7, <4>1
      <4> QED
        BY <2>5, <2>7, <4>1, <4>2, InWork
    <3> QED
      BY <3>1, <3>2
  <2> QED
    BY <2>2, <2>3, <2>4, <2>7, <2>8
<1> QED
  BY <1>4, <1>5

\* The next execution belongs to the current step, and nothing else of the loop changes.
LEMMA WithTaskFits ==
    ASSUME NEW n \in Nat, NEW l, LoopFits(l, n), l.plan # NoPlan,
           NEW m, m = WithTask(l, n + 1)
    PROVE  /\ m = [l EXCEPT !.book = m.book, !.current = m.current]
           /\ m.book \in Seq(Step(n + 1)) /\ m.current \in 1..Len(m.book)
           /\ Work(m) = Work(l) \cup {n + 1}
<1> DEFINE h == EnsureStep(l)
<1>1. /\ h = [l EXCEPT !.book = h.book, !.current = h.current]
      /\ h.book \in Seq(Step(n)) /\ h.current \in 1..Len(h.book)
      /\ Work(h) = Work(l)
  BY EnsureStepFits
<1>2. m = [h EXCEPT !.book[h.current].execs = h.book[h.current].execs \cup {n + 1}]
  BY DEF WithTask
<1> HIDE DEF h
<1> DEFINE c == h.current
           s == [h.book[c] EXCEPT !.execs = h.book[c].execs \cup {n + 1}]
           b == [h.book EXCEPT ![c] = s]
<1>3. l \in Loop(n)
  BY DEF LoopFits
<1>4. m.book = b /\ m.current = c /\ m = [l EXCEPT !.book = b, !.current = c]
  <2> DEFINE y == h.book
             z == h.current
  <2>1. h = [l EXCEPT !.book = y, !.current = z]
    BY <1>1
  <2>2. m = [h EXCEPT !.book = b]
    BY <1>1, <1>2, <1>3 DEF Loop
  <2>3. c = z
    OBVIOUS
  <2> HIDE DEF b, c, y, z
  <2> QED
    BY <1>3, <2>1, <2>2, <2>3 DEF Loop
<1>5. DOMAIN h.book = 1..Len(h.book) /\ Len(h.book) \in Nat /\ \A i \in 1..Len(h.book) : h.book[i] \in Step(n)
  BY <1>1
<1>6. s \in Step(n + 1) /\ s.execs = h.book[c].execs \cup {n + 1}
  BY <1>1, <1>5 DEF Step
<1>7. Step(n) \subseteq Step(n + 1)
  BY DEF Step
<1> HIDE DEF s
<1>8. b \in [1..Len(h.book) -> Step(n + 1)]
  BY <1>5, <1>6, <1>7
<1>9. b \in Seq(Step(n + 1)) /\ Len(b) = Len(h.book) /\ DOMAIN b = 1..Len(h.book)
  <2> HIDE DEF b
  <2> QED
    BY <1>5, <1>8, SequenceOf
<1>10. \A i \in DOMAIN h.book : b[i].execs = IF i = c THEN h.book[i].execs \cup {n + 1} ELSE h.book[i].execs
  BY <1>1, <1>5, <1>6
<1> HIDE DEF b
<1>11. Work(m) = Work(h) \cup {n + 1}
  <2>1. c \in DOMAIN h.book /\ DOMAIN m.book = DOMAIN h.book
    BY <1>1, <1>4, <1>5, <1>9
  <2>2. \A i \in DOMAIN h.book :
          m.book[i].execs = IF i = c THEN h.book[i].execs \cup {n + 1} ELSE h.book[i].execs
    BY <1>4, <1>10
  <2> HIDE DEF c
  <2>3. \A x : x \in Work(m) <=> x \in Work(h) \/ x = n + 1
    BY <2>1, <2>2, InWork
  <2> QED
    BY <2>3
<1> HIDE DEF c
<1>12. c \in 1..Len(b)
  BY <1>1, <1>9 DEF c
<1> QED
  BY <1>1, <1>4, <1>9, <1>11, <1>12

\* Statuses are derived again: the run goes on, with the executions that it had.
GoesOn(l, m, n) ==
    /\ m = [l EXCEPT !.book = m.book, !.status = m.status]
    /\ m.book \in Seq(Step(n)) /\ Len(m.book) = Len(l.book)
    /\ m.status \in ActiveStatuses
    /\ Work(m) = Work(l)

LEMMA SyncedFits ==
    ASSUME NEW n \in Nat, NEW l \in Loop(n), NEW t
    PROVE  GoesOn(l, Synced(l, t), n)
<1> DEFINE m == Synced(l, t)
<1> DEFINE st(i) == StepStatus({t.execs[e].status : e \in l.book[i].execs \cap DOMAIN t.execs})
           b == [i \in DOMAIN l.book |-> [l.book[i] EXCEPT !.status = st(i)]]
           r == RunStatus(StatusesOf(b))
<1>1. m = [l EXCEPT !.book = b, !.status = r]
  BY DEF Synced
<1> HIDE DEF m
<1>2. r \in ActiveStatuses
  BY DEF RunStatus, ActiveStatuses
<1>3. \A i : st(i) \in StepStatuses
  BY DEF StepStatus, StepStatuses, TerminalStepStatuses
<1>4. l.book \in Seq(Step(n)) /\ DOMAIN l.book = 1..Len(l.book) /\ Len(l.book) \in Nat
  BY DEF Loop
<1> HIDE DEF st, r
<1>5. \A i \in 1..Len(l.book) :
        [l.book[i] EXCEPT !.status = st(i)] \in Step(n)
        /\ [l.book[i] EXCEPT !.status = st(i)].execs = l.book[i].execs
  <2> SUFFICES ASSUME NEW i \in 1..Len(l.book)
               PROVE  /\ [l.book[i] EXCEPT !.status = st(i)] \in Step(n)
                      /\ [l.book[i] EXCEPT !.status = st(i)].execs = l.book[i].execs
    OBVIOUS
  <2>1. l.book[i] \in Step(n)
    BY <1>4
  <2> QED
    BY <1>3, <2>1 DEF Step
<1>6. b \in Seq(Step(n)) /\ Len(b) = Len(l.book) /\ DOMAIN b = DOMAIN l.book
  <2>1. b \in [1..Len(l.book) -> Step(n)]
    BY <1>4, <1>5
  <2> HIDE DEF b
  <2> QED
    BY <1>4, <2>1, SequenceOf
<1>7. \A i \in DOMAIN l.book : b[i].execs = l.book[i].execs
  BY <1>4, <1>5
<1> HIDE DEF b
<1>8. m.book = b /\ m.status = r
  BY <1>1 DEF Loop
<1>9. Work(m) = Work(l)
  BY <1>6, <1>7, <1>8 DEF Work
<1> QED
  BY <1>1, <1>2, <1>6, <1>8, <1>9 DEF GoesOn, m

\* What a request may make of the loop l while it submits execution n + 1 at most: it
\* forgets no failure, and waits for nothing but what it waited for or the new gate.
Succeeds(l, m, n) ==
    /\ Flawless(m) => Flawless(l)
    /\ Work(m) \subseteq Work(l) \cup {n + 1}
    /\ \/ m.gate = 0
       \/ m.gate = l.gate /\ m.copy = l.copy /\ m.failures = l.failures
       \/ m.gate = n + 1 /\ m.copy = "pending"

LEMMA SucceedsTwice ==
    ASSUME NEW n, NEW l, NEW m, NEW r, Succeeds(l, m, n), Succeeds(m, r, n)
    PROVE  Succeeds(l, r, n)
BY DEF Succeeds

\* Whatever is recorded but a denial ends a row of denials.
LEMMA RecordedFits ==
    ASSUME NEW n \in Nat, NEW k \in Nat, NEW m, LoopFits(m, k), NEW outcome, outcome # "denied",
           NEW r, r = Record(m, outcome)
    PROVE  /\ LoopFits(r, k) /\ Patient(r)
           /\ r.steps = m.steps /\ r.gate = m.gate /\ r.status = m.status /\ r.failures = m.failures
           /\ Succeeds(m, r, n)
<1>1. m \in Loop(k) /\ Lawful(m)
  BY DEF LoopFits
<1>2. r = [m EXCEPT !.denials = 0]
  BY DEF Record
<1>3. 0 \in Denials
  BY AgentRunAssumption DEF Denials
<1>4. r \in Loop(k)
  BY <1>1, <1>2, <1>3 DEF Loop
<1>5. r.book = m.book /\ r.invalid = m.invalid /\ r.failures = m.failures /\ r.gate = m.gate
      /\ r.copy = m.copy /\ r.steps = m.steps /\ r.plan = m.plan /\ r.created = m.created
      /\ r.status = m.status /\ r.current = m.current /\ r.denials = 0
  BY <1>1, <1>2 DEF Loop
<1>6. Work(r) = Work(m)
  BY <1>5 DEF Work
<1>7. Lawful(r)
  BY <1>1, <1>5 DEF Lawful
<1> QED
  BY <1>4, <1>5, <1>6, <1>7 DEF LoopFits, Patient, Succeeds, Flawless

\* A run ends in a status that fits what it has seen.
LEMMA DeclaredFits ==
    ASSUME NEW n \in Nat, NEW k \in Nat, NEW m, LoopFits(m, k),
           NEW status \in TerminalRunStatuses, status = "completed" => ~m.failures,
           NEW r, r = DeclareTerminal(m, status)
    PROVE  /\ LoopFits(r, k)
           /\ r.steps = m.steps /\ r.gate = m.gate
           /\ Succeeds(m, r, n)
<1>1. m \in Loop(k) /\ Lawful(m)
  BY DEF LoopFits
<1>2. r = [m EXCEPT !.status = status]
  BY DEF DeclareTerminal
<1>3. r \in Loop(k)
  BY <1>1, <1>2 DEF Loop, RunStatuses
<1>4. r.book = m.book /\ r.invalid = m.invalid /\ r.failures = m.failures /\ r.gate = m.gate
      /\ r.copy = m.copy /\ r.steps = m.steps /\ r.plan = m.plan /\ r.created = m.created
      /\ r.status = status /\ r.current = m.current
  BY <1>1, <1>2 DEF Loop
<1>5. Work(r) = Work(m)
  BY <1>4 DEF Work
<1>6. Lawful(r)
  BY <1>1, <1>4 DEF Lawful
<1> QED
  BY <1>3, <1>4, <1>5, <1>6 DEF LoopFits, Succeeds, Flawless

\* A loop that does not wait plans once it has no plan.
LEMMA PlannedFits ==
    ASSUME NEW n \in Nat, NEW l, LoopFits(l, n), l.gate = 0, NEW q \in Plans,
           l.plan # NoPlan => q = l.plan, NEW m, m = Planned(l, q)
    PROVE  /\ LoopFits(m, n) /\ m.plan # NoPlan
           /\ m.steps = l.steps /\ m.gate = 0
           /\ Succeeds(l, m, n)
<1>1. l \in Loop(n) /\ Lawful(l)
  BY DEF LoopFits
<1>2. CASE l.plan # NoPlan
  <2>1. m = l
    BY <1>2 DEF Planned
  <2> QED
    BY <1>2, <2>1 DEF Succeeds
<1>3. CASE l.plan = NoPlan
  <2>1. m = [l EXCEPT !.plan = q, !.created = q, !.known = l.known \cup {"created"}, !.failures = FALSE]
    BY <1>3 DEF Planned
  <2>2. m \in Loop(n)
    <3> DEFINE k == l.known \cup {"created"}
    <3>1. k \in SUBSET {"created", "invalid"}
      BY <1>1 DEF Loop
    <3>2. m = [l EXCEPT !.plan = q, !.created = q, !.known = k, !.failures = FALSE]
      BY <2>1
    <3>3. q \in Plans \cup {NoPlan} /\ FALSE \in BOOLEAN
      OBVIOUS
    <3> HIDE DEF k
    <3> QED
      BY <1>1, <3>1, <3>2, <3>3, ZenonT(30) DEF Loop
  <2>3. m.book = l.book /\ m.invalid = l.invalid /\ m.failures = FALSE /\ m.gate = l.gate
        /\ m.steps = l.steps /\ m.plan = q /\ m.created = q /\ m.current = l.current
    BY <1>1, <2>1 DEF Loop
  <2>4. q # NoPlan
    BY AgentRunAssumption
  <2>5. Lawful(m)
    BY <1>1, <2>3, <2>4 DEF Lawful
  <2>6. Work(m) = Work(l)
    BY <2>3 DEF Work
  <2>7. Flawless(m) => Flawless(l)
    BY <1>1, <1>3, <2>3 DEF Flawless, Lawful
  <2> QED
    BY <2>2, <2>3, <2>4, <2>5, <2>6, <2>7 DEF LoopFits, Succeeds
<1> QED
  BY <1>2, <1>3

\* A plan that is invalidated leaves its mark.
LEMMA InvalidatedFits ==
    ASSUME NEW n \in Nat, NEW m, LoopFits(m, n), m.gate = 0, m.plan # NoPlan, m.steps < MaxSteps,
           NEW r, r = Invalidated(m)
    PROVE  /\ LoopFits(r, n) /\ r.steps = m.steps + 1 /\ r.gate = 0
           /\ Succeeds(m, r, n)
<1>1. m \in Loop(n) /\ Lawful(m)
  BY DEF LoopFits
<1> DEFINE kn == IF "created" \in m.known THEN {"created", "invalid"} ELSE {}
<1>2. r = [m EXCEPT !.plan = NoPlan, !.invalid = m.created, !.known = kn, !.steps = m.steps + 1]
  BY <1>1 DEF Invalidated, InvalidatedForFree, Loop
<1>3. kn \in SUBSET {"created", "invalid"} /\ m.steps + 1 \in 0..MaxSteps
  BY <1>1, AgentRunAssumption DEF Loop
<1> HIDE DEF kn
<1>4. r \in Loop(n)
  BY <1>1, <1>2, <1>3 DEF Loop
<1>5. r.book = m.book /\ r.invalid = m.created /\ r.failures = m.failures /\ r.gate = m.gate
      /\ r.steps = m.steps + 1 /\ r.plan = NoPlan /\ r.created = m.created
      /\ r.status = m.status /\ r.current = m.current
  BY <1>1, <1>2 DEF Loop
<1>6. m.created # NoPlan
  BY <1>1 DEF Lawful
<1>7. Lawful(r)
  BY <1>1, <1>5, <1>6 DEF Lawful
<1>8. Work(r) = Work(m)
  BY <1>5 DEF Work
<1>9. ~Flawless(r)
  BY <1>5, <1>6 DEF Flawless
<1> QED
  BY <1>4, <1>5, <1>7, <1>8, <1>9 DEF LoopFits, Succeeds

\* A call that is submitted is charged, and one that is not proven a success is a failure.
LEMMA ExecutedFits ==
    ASSUME NEW n \in Nat, NEW l, LoopFits(l, n), l.gate = 0, l.plan # NoPlan, l.steps < MaxSteps,
           NEW t, NEW outcome, NEW m, m = ExecutedLoop(l, t, n + 1, outcome)
    PROVE  /\ LoopFits(m, n + 1) /\ m.steps = l.steps + 1 /\ m.gate = 0
           /\ Flawless(m) => outcome = "completed"
           /\ Succeeds(l, m, n)
<1>1. l \in Loop(n) /\ Lawful(l)
  BY DEF LoopFits
<1> DEFINE w == WithTask(l, n + 1)
           x == [w EXCEPT !.steps = l.steps + 1, !.failures = w.failures \/ Failed(outcome)]
           u == Submitted(t, n + 1, "call", StatusAfter(outcome))
<1>2. /\ w = [l EXCEPT !.book = w.book, !.current = w.current]
      /\ w.book \in Seq(Step(n + 1)) /\ w.current \in 1..Len(w.book)
      /\ Work(w) = Work(l) \cup {n + 1}
  BY WithTaskFits
<1>3. m = Synced(x, u)
  BY DEF ExecutedLoop, Charged
<1> HIDE DEF w, u
<1>4. LoopFits(l, n + 1)
  BY LoopsGrow
<1>5. l.steps + 1 \in 0..MaxSteps
  BY <1>1, AgentRunAssumption DEF Loop
<1>6. x = [l EXCEPT !.book = w.book, !.current = w.current, !.steps = l.steps + 1,
                    !.failures = l.failures \/ Failed(outcome)]
  BY <1>1, <1>2 DEF Loop
<1>7. w.current \in Nat /\ (l.failures \/ Failed(outcome)) \in BOOLEAN
  BY <1>1, <1>2 DEF Failed, Loop
<1>8. x \in Loop(n + 1)
  <2> DEFINE b == w.book
             c == w.current
             k == l.steps + 1
             f == l.failures \/ Failed(outcome)
  <2>1. l \in Loop(n + 1)
    BY <1>4 DEF LoopFits
  <2>2. b \in Seq(Step(n + 1)) /\ c \in Nat /\ k \in 0..MaxSteps /\ f \in BOOLEAN
    BY <1>2, <1>5, <1>7
  <2>3. x = [l EXCEPT !.book = b, !.current = c, !.steps = k, !.failures = f]
    BY <1>6
  <2> HIDE DEF b, c, k, f
  <2> QED
    BY <2>1, <2>2, <2>3, ZenonT(30) DEF Loop
<1>9. x.book = w.book /\ x.invalid = l.invalid /\ x.failures = (l.failures \/ Failed(outcome)) /\ x.gate = 0
      /\ x.steps = l.steps + 1 /\ x.plan = l.plan /\ x.created = l.created /\ x.current = w.current
  BY <1>1, <1>6 DEF Loop
<1> HIDE DEF x
<1>10. /\ m = [x EXCEPT !.book = m.book, !.status = m.status]
       /\ m.book \in Seq(Step(n + 1)) /\ Len(m.book) = Len(x.book)
       /\ m.status \in ActiveStatuses
       /\ Work(m) = Work(x)
  <2>1. n + 1 \in Nat
    OBVIOUS
  <2>2. GoesOn(x, m, n + 1)
    BY <1>3, <1>8, <2>1, SyncedFits, Zenon
  <2> QED
    BY <2>2 DEF GoesOn
<1>11. m \in Loop(n + 1)
  BY <1>8, <1>10 DEF Loop, RunStatuses
<1>12. m.invalid = l.invalid /\ m.failures = (l.failures \/ Failed(outcome)) /\ m.gate = 0
       /\ m.steps = l.steps + 1 /\ m.plan = l.plan /\ m.created = l.created /\ m.current = w.current
  BY <1>8, <1>9, <1>10 DEF Loop
<1>13. m.status # "completed" /\ m.current <= Len(m.book)
  BY <1>2, <1>9, <1>10, <1>12 DEF ActiveStatuses
<1>14. Lawful(m)
  BY <1>1, <1>12, <1>13 DEF Lawful
<1>15. Work(m) = Work(l) \cup {n + 1}
  <2>1. Work(x) = Work(w)
    BY <1>9 DEF Work
  <2> QED
    BY <1>2, <1>10, <2>1
<1>16. Flawless(m) => outcome = "completed" /\ Flawless(l)
  BY <1>12 DEF Flawless, Failed
<1> QED
  BY <1>11, <1>12, <1>14, <1>15, <1>16 DEF LoopFits, Succeeds

\* A loop that is suspended waits for the gate that was submitted for it.
LEMMA SuspendedFits ==
    ASSUME NEW n \in Nat, NEW l, LoopFits(l, n), l.plan # NoPlan, l.steps < MaxSteps,
           NEW t, NEW m, m = SuspendedLoop(l, t, n + 1)
    PROVE  /\ LoopFits(m, n + 1) /\ m.steps = l.steps /\ m.gate = n + 1 /\ m.failures = l.failures
           /\ Succeeds(l, m, n)
<1>1. l \in Loop(n) /\ Lawful(l)
  BY DEF LoopFits
<1> DEFINE w == WithTask(l, n + 1)
           x == [w EXCEPT !.gate = n + 1, !.copy = "pending"]
<1>2. /\ w = [l EXCEPT !.book = w.book, !.current = w.current]
      /\ w.book \in Seq(Step(n + 1)) /\ w.current \in 1..Len(w.book)
      /\ Work(w) = Work(l) \cup {n + 1}
  BY WithTaskFits
<1>3. m = Synced(x, t)
  BY DEF SuspendedLoop
<1> HIDE DEF w
<1>4. LoopFits(l, n + 1)
  BY LoopsGrow
<1>6. x = [l EXCEPT !.book = w.book, !.current = w.current, !.gate = n + 1, !.copy = "pending"]
  BY <1>1, <1>2 DEF Loop
<1>7. w.current \in Nat /\ n + 1 \in 0..(n + 1)
  BY <1>2
<1>8. x \in Loop(n + 1)
  BY <1>2, <1>4, <1>6, <1>7 DEF LoopFits, Loop, ApprovalStatuses
<1>9. x.book = w.book /\ x.invalid = l.invalid /\ x.failures = l.failures /\ x.gate = n + 1 /\ x.copy = "pending"
      /\ x.steps = l.steps /\ x.plan = l.plan /\ x.created = l.created /\ x.current = w.current
  BY <1>1, <1>6 DEF Loop
<1> HIDE DEF x
<1>10. /\ m = [x EXCEPT !.book = m.book, !.status = m.status]
       /\ m.book \in Seq(Step(n + 1)) /\ Len(m.book) = Len(x.book)
       /\ m.status \in ActiveStatuses
       /\ Work(m) = Work(x)
  <2>1. n + 1 \in Nat
    OBVIOUS
  <2>2. GoesOn(x, m, n + 1)
    BY <1>3, <1>8, <2>1, SyncedFits, Zenon
  <2> QED
    BY <2>2 DEF GoesOn
<1>11. m \in Loop(n + 1)
  BY <1>8, <1>10 DEF Loop, RunStatuses
<1>12. m.invalid = l.invalid /\ m.failures = l.failures /\ m.gate = n + 1 /\ m.copy = "pending"
       /\ m.steps = l.steps /\ m.plan = l.plan /\ m.created = l.created /\ m.current = w.current
  BY <1>8, <1>9, <1>10 DEF Loop
<1>13. m.status # "completed" /\ m.current <= Len(m.book)
  BY <1>2, <1>9, <1>10, <1>12 DEF ActiveStatuses
<1>14. Lawful(m)
  BY <1>1, <1>12, <1>13 DEF Lawful
<1>15. Work(m) = Work(l) \cup {n + 1}
  <2>1. Work(x) = Work(w)
    BY <1>9 DEF Work
  <2> QED
    BY <1>2, <1>10, <2>1
<1> QED
  BY <1>11, <1>12, <1>14, <1>15 DEF LoopFits, Succeeds, Flawless

\* A loop that no longer waits.
LEMMA NoGateFits ==
    ASSUME NEW n \in Nat, NEW l, LoopFits(l, n), NEW m, m = NoGate(l)
    PROVE  /\ LoopFits(m, n) /\ Patient(m)
           /\ m.steps = l.steps /\ m.plan = l.plan /\ m.denials = l.denials
           /\ m.failures = l.failures /\ m.gate = 0
           /\ Succeeds(l, m, n)
<1>1. l \in Loop(n) /\ Lawful(l)
  BY DEF LoopFits
<1>2. m = [l EXCEPT !.gate = 0, !.copy = "none"]
  BY DEF NoGate
<1>3. m \in Loop(n)
  <2>1. 0 \in 0..n
    OBVIOUS
  <2> QED
    BY <1>1, <1>2, <2>1 DEF Loop
<1>4. m.book = l.book /\ m.invalid = l.invalid /\ m.failures = l.failures /\ m.gate = 0
      /\ m.steps = l.steps /\ m.plan = l.plan /\ m.created = l.created /\ m.denials = l.denials
      /\ m.status = l.status /\ m.current = l.current
  BY <1>1, <1>2 DEF Loop
<1>5. Work(m) = Work(l)
  BY <1>4 DEF Work
<1>6. Lawful(m)
  BY <1>1, <1>4 DEF Lawful
<1> QED
  BY <1>3, <1>4, <1>5, <1>6 DEF LoopFits, Patient, Succeeds, Flawless

LEMMA CancelledFits ==
    ASSUME NEW n \in Nat, NEW l, LoopFits(l, n), NEW m, m = CancelledLoop(l)
    PROVE  LoopFits(m, n) /\ Patient(m) /\ m.steps = l.steps /\ m.gate = 0 /\ Succeeds(l, m, n)
<1> DEFINE g == NoGate(l)
<1>1. LoopFits(g, n) /\ g.steps = l.steps /\ g.gate = 0 /\ Succeeds(l, g, n)
  BY NoGateFits
<1>2. m = DeclareTerminal(g, "cancelled")
  BY DEF CancelledLoop
<1> HIDE DEF g
<1>3. "cancelled" \in TerminalRunStatuses
  BY DEF TerminalRunStatuses
<1>4. LoopFits(m, n) /\ m.steps = g.steps /\ m.gate = g.gate /\ Succeeds(g, m, n)
  BY <1>1, <1>2, <1>3, DeclaredFits
<1>5. Succeeds(l, m, n)
  BY <1>1, <1>4, SucceedsTwice
<1> QED
  BY <1>1, <1>4, <1>5 DEF Patient

\* A human who rejects is one denial.
LEMMA RejectedFits ==
    ASSUME NEW n \in Nat, NEW l, LoopFits(l, n), Patient(l), l.gate # 0,
           NEW t, NEW m, m = Record(Synced(NoGate(l), t), "denied")
    PROVE  LoopFits(m, n) /\ Patient(m) /\ m.steps = l.steps /\ m.gate = 0 /\ Succeeds(l, m, n)
<1> DEFINE g == NoGate(l)
           x == Synced(g, t)
<1>1. /\ LoopFits(g, n) /\ g.steps = l.steps /\ g.plan = l.plan /\ g.denials = l.denials
      /\ g.gate = 0 /\ Succeeds(l, g, n)
  BY NoGateFits
<1>2. m = [x EXCEPT !.denials = x.denials + 1]
  BY DEF Record
<1> HIDE DEF g
<1>3. g \in Loop(n) /\ Lawful(g) /\ g.denials = 0
  BY <1>1 DEF LoopFits, Patient
<1>4. GoesOn(g, x, n)
  BY <1>3, SyncedFits, Zenon
<1> HIDE DEF x
<1>5. x \in Loop(n)
  BY <1>3, <1>4 DEF GoesOn, Loop, RunStatuses
<1>6. x.invalid = g.invalid /\ x.failures = g.failures /\ x.gate = 0 /\ x.denials = 0
      /\ x.steps = g.steps /\ x.plan = g.plan /\ x.created = g.created /\ x.current = g.current
  BY <1>1, <1>3, <1>4 DEF GoesOn, Loop
<1>7. m \in Loop(n)
  <2>1. m = [x EXCEPT !.denials = 1] /\ 1 \in Denials
    BY <1>2, <1>6 DEF Denials
  <2> QED
    BY <1>5, <2>1 DEF Loop
<1>8. m.invalid = g.invalid /\ m.failures = g.failures /\ m.gate = 0 /\ m.book = x.book /\ m.status = x.status
      /\ m.steps = g.steps /\ m.plan = g.plan /\ m.created = g.created /\ m.current = g.current
  BY <1>2, <1>5, <1>6 DEF Loop
<1>9. Lawful(m)
  BY <1>3, <1>4, <1>8 DEF Lawful, GoesOn, ActiveStatuses
<1>10. Work(m) = Work(g)
  <2>1. Work(m) = Work(x)
    BY <1>8 DEF Work
  <2> QED
    BY <1>4, <2>1 DEF GoesOn
<1>11. Succeeds(g, m, n)
  BY <1>8, <1>10 DEF Succeeds, Flawless
<1>12. Succeeds(l, m, n)
  BY <1>1, <1>11, SucceedsTwice
<1> QED
  BY <1>1, <1>7, <1>8, <1>9, <1>12 DEF LoopFits, Patient

\* A loop that is restored is as far as its snapshot, and knows what the table knows.
LEMMA RestoredFits ==
    ASSUME NEW n \in Nat, NEW t, RowsFit(t, n), LoopFits(t.snap, n), Patient(t.snap),
           t.snap.gate = 0 \/ t.snap.gate \in DOMAIN t.approvals,
           Agrees(t.snap, t), NEW m, m = Restored(t)
    PROVE  LoopFits(m, n) /\ Patient(m) /\ Agrees(m, t) /\ Knows(m, t)
<1> DEFINE l == t.snap
           c == IF l.gate = 0 THEN "none" ELSE t.approvals[l.gate].status
           r == RunStatus(StatusesOf(l.book))
<1>1. l \in Loop(n) /\ Lawful(l)
  BY DEF LoopFits
<1>2. m = [l EXCEPT !.known = {}, !.status = r, !.copy = c]
  BY DEF Restored
<1>3. r \in ActiveStatuses
  BY DEF RunStatus, ActiveStatuses
<1>4. c \in ApprovalStatuses \cup {"none"}
  BY DEF RowsFit, Approval
<1> HIDE DEF l, r, c
<1>5. m \in Loop(n)
  BY <1>1, <1>2, <1>3, <1>4 DEF Loop, RunStatuses
<1>6. m.book = l.book /\ m.invalid = l.invalid /\ m.failures = l.failures /\ m.gate = l.gate
      /\ m.steps = l.steps /\ m.plan = l.plan /\ m.created = l.created /\ m.denials = l.denials
      /\ m.status = r /\ m.current = l.current /\ m.copy = c
  BY <1>1, <1>2 DEF Loop
<1>7. Work(m) = Work(l)
  BY <1>6 DEF Work
<1>8. Lawful(m)
  BY <1>1, <1>3, <1>6 DEF Lawful, ActiveStatuses
<1>9. Agrees(m, t)
  BY <1>6, <1>7 DEF Agrees, Flawless, l
<1>10. Knows(m, t)
  BY <1>6 DEF Knows, c, l
<1>11. Patient(m)
  BY <1>6 DEF Patient, l
<1> QED
  BY <1>5, <1>8, <1>9, <1>10, <1>11 DEF LoopFits

LEMMA NewLoopFits ==
    ASSUME NEW n \in Nat, NEW status \in {"created", "failed"}
    PROVE  LET m == [NewLoop EXCEPT !.status = status]
           IN  LoopFits(m, n) /\ Patient(m) /\ Work(m) = {} /\ m.gate = 0
<1> DEFINE m == [NewLoop EXCEPT !.status = status]
           b == <<>>
           k == {}
           f == FALSE
           zero == 0
           none == "none"
<1>1. b \in Seq(Step(n)) /\ Len(b) = 0 /\ DOMAIN b = {}
  OBVIOUS
<1>2. m = [status |-> status, steps |-> zero, denials |-> zero, plan |-> NoPlan,
           created |-> NoPlan, invalid |-> NoPlan, known |-> k, failures |-> f,
           book |-> b, current |-> zero, gate |-> zero, copy |-> none]
  <2>1. NewLoop = [status |-> "created", steps |-> zero, denials |-> zero, plan |-> NoPlan,
                   created |-> NoPlan, invalid |-> NoPlan, known |-> k, failures |-> f,
                   book |-> b, current |-> zero, gate |-> zero, copy |-> none]
    BY Zenon DEF NewLoop
  <2> HIDE DEF b, k, f, zero, none
  <2> QED
    BY <2>1
<1>3. zero \in Denials /\ zero \in 0..MaxSteps /\ zero \in 0..n /\ zero \in Nat
  BY AgentRunAssumption DEF Denials
<1>4. k \in SUBSET {"created", "invalid"} /\ f \in BOOLEAN /\ none \in ApprovalStatuses \cup {"none"}
  OBVIOUS
<1>5. status \in RunStatuses
  BY DEF RunStatuses, ActiveStatuses, TerminalRunStatuses
<1> HIDE DEF m, b, k, f, zero, none
<1>6. m \in Loop(n)
  BY <1>1, <1>2, <1>3, <1>4, <1>5 DEF Loop
<1>7. m.book = b /\ m.gate = 0 /\ m.plan = NoPlan /\ ~m.failures /\ m.current = 0
  BY <1>2 DEF f, zero
<1>8. Lawful(m)
  BY <1>1, <1>7 DEF Lawful
<1>9. Work(m) = {}
  BY <1>1, <1>7 DEF Work
<1>10. Patient(m)
  BY <1>7 DEF Patient
<1>11. LoopFits(m, n) /\ Patient(m) /\ Work(m) = {} /\ m.gate = 0
  BY <1>6, <1>7, <1>8, <1>9, <1>10 DEF LoopFits
<1> QED
  BY <1>11 DEF m

-----------------------------------------------------------------------------
(* Tables. *)

\* What the tables t may become while execution n + 1 is submitted at most: what has
\* proven well stays so, and what is decided stays decided.
Follows(t, u, n) ==
    /\ \A e \in DOMAIN u.execs : e # n + 1 =>
         e \in DOMAIN t.execs /\ (t.execs[e].status \notin Unproven => u.execs[e].status \notin Unproven)
    /\ \A e \in DOMAIN u.approvals : e # n + 1 =>
         e \in DOMAIN t.approvals /\ u.approvals[e].action = t.approvals[e].action
    /\ \A e \in DOMAIN t.approvals :
         e \in DOMAIN u.approvals /\ (t.approvals[e].status # "pending" => u.approvals[e].status # "pending")

LEMMA FollowsTwice ==
    ASSUME NEW n, NEW t, NEW u, NEW v, Follows(t, u, n), Follows(u, v, n)
    PROVE  Follows(t, v, n)
BY DEF Follows

\* What the tables say of execution n + 1 fits the loop that submitted it.
Accounts(m, u, n) ==
    /\ Flawless(m) /\ n + 1 \in Work(m) \cap DOMAIN u.execs => u.execs[n + 1].status \notin Unproven
    /\ m.gate = n + 1 /\ n + 1 \in DOMAIN u.approvals /\ u.approvals[n + 1].action = "finish" => ~m.failures

LEMMA WorkIsKnown ==
    ASSUME NEW n \in Nat, NEW l, LoopFits(l, n)
    PROVE  Work(l) \subseteq 1..n /\ n + 1 \notin Work(l) /\ l.gate # n + 1
<1>1. l.book \in Seq(Step(n)) /\ l.gate \in 0..n
  BY DEF LoopFits, Loop
<1>2. ASSUME NEW i \in DOMAIN l.book
      PROVE  l.book[i].execs \subseteq 1..n
  <2>1. l.book[i] \in Step(n)
    BY <1>1
  <2> QED
    BY <2>1 DEF Step
<1>3. Work(l) \subseteq 1..n
  BY <1>2, InWork
<1> QED
  BY <1>1, <1>3

\* A copy of the loop keeps its agreement with what the tables become.
LEMMA AgreesOn ==
    ASSUME NEW n \in Nat, NEW l, LoopFits(l, n), NEW t, NEW u, Follows(t, u, n), Agrees(l, t)
    PROVE  Agrees(l, u) /\ (Knows(l, t) => Knows(l, u))
<1>1. n + 1 \notin Work(l) /\ l.gate # n + 1
  BY WorkIsKnown
<1>2. ASSUME Flawless(l), NEW e \in Work(l) \cap DOMAIN u.execs
      PROVE  u.execs[e].status \notin Unproven
  <2>1. e # n + 1
    BY <1>1
  <2>2. e \in DOMAIN t.execs /\ (t.execs[e].status \notin Unproven => u.execs[e].status \notin Unproven)
    BY <2>1 DEF Follows
  <2>3. t.execs[e].status \notin Unproven
    BY <1>2, <2>2 DEF Agrees
  <2> QED
    BY <2>2, <2>3
<1>3. l.gate # 0 /\ l.gate \in DOMAIN u.approvals /\ u.approvals[l.gate].action = "finish" => ~l.failures
  BY <1>1 DEF Agrees, Follows
<1>4. Knows(l, t) => Knows(l, u)
  BY DEF Knows, Follows
<1> QED
  BY <1>2, <1>3, <1>4 DEF Agrees

\* What a request makes of the loop agrees with the tables it makes.
LEMMA AgreesNext ==
    ASSUME NEW n \in Nat, NEW l, LoopFits(l, n), NEW m, Succeeds(l, m, n),
           NEW t, NEW u, Follows(t, u, n), Agrees(l, t), Knows(l, t), Accounts(m, u, n)
    PROVE  Agrees(m, u) /\ Knows(m, u)
<1>1. Agrees(l, u) /\ Knows(l, u)
  BY AgreesOn
<1>2. Flawless(m) => \A e \in Work(m) \cap DOMAIN u.execs : u.execs[e].status \notin Unproven
  BY <1>1 DEF Agrees, Succeeds, Accounts
<1>3. m.gate # 0 /\ m.gate \in DOMAIN u.approvals /\ u.approvals[m.gate].action = "finish" => ~m.failures
  BY <1>1 DEF Agrees, Succeeds, Accounts
<1>4. Knows(m, u)
  BY <1>1 DEF Knows, Succeeds
<1> QED
  BY <1>2, <1>3, <1>4 DEF Agrees

\* It agrees with tables that do not know of it.
LEMMA AgreesBefore ==
    ASSUME NEW n \in Nat, NEW l, LoopFits(l, n), NEW m, Succeeds(l, m, n),
           NEW t, RowsFit(t, n), Agrees(l, t), Knows(l, t)
    PROVE  Agrees(m, t) /\ Knows(m, t)
<1>1. n + 1 \notin DOMAIN t.execs /\ n + 1 \notin DOMAIN t.approvals
  BY DEF RowsFit
<1>2. Follows(t, t, n)
  BY DEF Follows
<1>3. Accounts(m, t, n)
  BY <1>1 DEF Accounts
<1> QED
  BY <1>2, <1>3, AgreesNext

\* The tables with another snapshot or another intent.
LEMMA SnapRowsFit ==
    ASSUME NEW n \in Nat, NEW t, RowsFit(t, n), NEW m, NEW u, u = [t EXCEPT !.snap = m], NEW k
    PROVE  /\ RowsFit(u, n) /\ u.snap = m /\ Follows(t, u, k)
           /\ u.execs = t.execs /\ u.approvals = t.approvals
<1>1. u.snap = m /\ u.execs = t.execs /\ u.approvals = t.approvals /\ u.intent = t.intent
  BY DEF RowsFit
<1>2. u = [snap |-> u.snap, execs |-> u.execs, approvals |-> u.approvals, intent |-> u.intent]
  BY <1>1 DEF RowsFit
<1> QED
  BY <1>1, <1>2 DEF RowsFit, Follows

LEMMA IntentRowsFit ==
    ASSUME NEW n \in Nat, NEW t, RowsFit(t, n), NEW i \in {"none", "requested", "settled"},
           NEW u, u = [t EXCEPT !.intent = i], NEW k
    PROVE  RowsFit(u, n) /\ u.snap = t.snap /\ Follows(t, u, k)
<1>1. u.snap = t.snap /\ u.execs = t.execs /\ u.approvals = t.approvals /\ u.intent = i
  BY DEF RowsFit
<1>2. u = [snap |-> u.snap, execs |-> u.execs, approvals |-> u.approvals, intent |-> u.intent]
  BY <1>1 DEF RowsFit
<1> QED
  BY <1>1, <1>2 DEF RowsFit, Follows

\* A call is submitted.
LEMMA SubmittedFits ==
    ASSUME NEW n \in Nat, NEW t, RowsFit(t, n), NEW kind \in {"call", "gate"},
           NEW status \in TerminalExecutionStatuses \cup {"pending", "suspended"},
           NEW u, u = Submitted(t, n + 1, kind, status)
    PROVE  /\ RowsFit(u, n + 1) /\ u.snap = t.snap /\ Follows(t, u, n)
           /\ n + 1 \notin DOMAIN u.approvals
           /\ u.execs[n + 1].status = status
<1> DEFINE r == [kind |-> kind, status |-> status]
           x == Put(t.execs, n + 1, r)
<1>1. u = [t EXCEPT !.execs = x]
  BY DEF Submitted
<1>2. r \in Execution /\ r.status = status
  BY DEF Execution
<1> HIDE DEF r
<1>3. /\ DOMAIN x = DOMAIN t.execs \cup {n + 1} /\ x[n + 1] = r
      /\ \A e \in DOMAIN t.execs : e # n + 1 => x[e] = t.execs[e]
      /\ x = [e \in DOMAIN x |-> x[e]]
  BY DEF Put
<1> HIDE DEF x
<1>4. /\ t.execs \in [DOMAIN t.execs -> Execution] /\ DOMAIN t.execs \subseteq 1..n
      /\ DOMAIN t.approvals \subseteq DOMAIN t.execs
  BY DEF RowsFit
<1>5. DOMAIN x \subseteq 1..(n + 1) /\ n + 1 \notin DOMAIN t.execs /\ n + 1 \notin DOMAIN t.approvals
  BY <1>3, <1>4
<1>6. \A e \in DOMAIN t.execs : x[e] = t.execs[e]
  BY <1>3, <1>5
<1>7. x \in [DOMAIN x -> Execution]
  BY <1>2, <1>3, <1>4, <1>6
<1>8. u.snap = t.snap /\ u.execs = x /\ u.approvals = t.approvals /\ u.intent = t.intent
  BY <1>1 DEF RowsFit
<1>9. u = [snap |-> u.snap, execs |-> u.execs, approvals |-> u.approvals, intent |-> u.intent]
  BY <1>1, <1>8 DEF RowsFit
<1>10. \A e \in DOMAIN u.approvals : u.execs[e].status \in GateStatuses
  BY <1>4, <1>6, <1>8 DEF RowsFit
<1>11. DOMAIN u.approvals \subseteq DOMAIN u.execs
  BY <1>3, <1>4, <1>8
<1>12. RowsFit(u, n + 1)
  BY <1>5, <1>7, <1>8, <1>9, <1>10, <1>11 DEF RowsFit
<1>13. Follows(t, u, n)
  BY <1>3, <1>6, <1>8 DEF Follows
<1> QED
  BY <1>2, <1>3, <1>5, <1>8, <1>12, <1>13

\* A gate is submitted with its approval.
LEMMA SuspendedRowsFit ==
    ASSUME NEW n \in Nat, NEW t, RowsFit(t, n), NEW action \in {"call", "finish"},
           NEW u, u = SuspendedTables(t, n + 1, action)
    PROVE  /\ RowsFit(u, n + 1) /\ u.snap = t.snap /\ Follows(t, u, n)
           /\ n + 1 \in DOMAIN u.approvals /\ u.approvals[n + 1].action = action
           /\ u.execs[n + 1].status = "suspended"
<1> DEFINE v == Submitted(t, n + 1, "gate", "suspended")
           r == [status |-> "pending", overdue |-> FALSE, action |-> action]
           x == Put(v.approvals, n + 1, r)
<1>1. /\ RowsFit(v, n + 1) /\ v.snap = t.snap /\ Follows(t, v, n)
      /\ n + 1 \notin DOMAIN v.approvals /\ v.execs[n + 1].status = "suspended"
  BY SubmittedFits
<1>2. u = [v EXCEPT !.approvals = Put(v.approvals, n + 1, r)]
  BY DEF SuspendedTables
<1>3. r \in Approval /\ r.status = "pending" /\ r.action = action
  BY DEF Approval, ApprovalStatuses
<1>4. n + 1 \in DOMAIN v.execs
  BY DEF Submitted, Put, RowsFit
<1> HIDE DEF v, r
<1>5. /\ DOMAIN x = DOMAIN v.approvals \cup {n + 1} /\ x[n + 1] = r
      /\ \A e \in DOMAIN v.approvals : x[e] = v.approvals[e]
      /\ x = [e \in DOMAIN x |-> x[e]]
  BY <1>1 DEF Put
<1>6. u = [v EXCEPT !.approvals = x]
  BY <1>2
<1> HIDE DEF x
<1>7. u.snap = v.snap /\ u.execs = v.execs /\ u.approvals = x /\ u.intent = v.intent
  BY <1>1, <1>6 DEF RowsFit
<1>8. u = [snap |-> u.snap, execs |-> u.execs, approvals |-> u.approvals, intent |-> u.intent]
  BY <1>1, <1>6, <1>7 DEF RowsFit
<1>9. x \in [DOMAIN x -> Approval] /\ DOMAIN x \subseteq DOMAIN v.execs
  BY <1>1, <1>3, <1>4, <1>5 DEF RowsFit
<1>10. \A e \in DOMAIN x : v.execs[e].status \in GateStatuses
  BY <1>1, <1>3, <1>5 DEF RowsFit, GateStatuses
<1>11. RowsFit(u, n + 1)
  BY <1>1, <1>7, <1>8, <1>9, <1>10 DEF RowsFit
<1>12. Follows(v, u, n)
  BY <1>1, <1>5, <1>7 DEF Follows
<1>13. Follows(t, u, n)
  BY <1>1, <1>12, FollowsTwice
<1> QED
  BY <1>1, <1>3, <1>5, <1>7, <1>11, <1>13

\* An approval is decided.
LEMMA ApprovalIsFits ==
    ASSUME NEW n \in Nat, NEW t, RowsFit(t, n), NEW e \in DOMAIN t.approvals,
           NEW status \in ApprovalStatuses, status # "pending",
           NEW u, u = ApprovalIs(t, e, status), NEW k
    PROVE  /\ RowsFit(u, n) /\ u.snap = t.snap /\ Follows(t, u, k)
           /\ u.execs = t.execs /\ DOMAIN u.approvals = DOMAIN t.approvals
           /\ \A d \in DOMAIN u.approvals :
                u.approvals[d].status = IF d = e THEN status ELSE t.approvals[d].status
<1> DEFINE a == [t.approvals EXCEPT ![e] = [t.approvals[e] EXCEPT !.status = status]]
<1>1. /\ t = [snap |-> t.snap, execs |-> t.execs, approvals |-> t.approvals, intent |-> t.intent]
      /\ t.approvals \in [DOMAIN t.approvals -> Approval]
  BY DEF RowsFit
<1>2. u = [t EXCEPT !.approvals = a]
  BY <1>1 DEF ApprovalIs
<1>3. /\ DOMAIN a = DOMAIN t.approvals /\ a \in [DOMAIN a -> Approval]
      /\ \A d \in DOMAIN a : a[d].action = t.approvals[d].action
      /\ \A d \in DOMAIN a : a[d].status = IF d = e THEN status ELSE t.approvals[d].status
  BY <1>1 DEF Approval
<1> HIDE DEF a
<1>4. u = [snap |-> t.snap, execs |-> t.execs, approvals |-> a, intent |-> t.intent]
  BY <1>1, <1>2
<1>5. u.snap = t.snap /\ u.execs = t.execs /\ u.approvals = a /\ u.intent = t.intent
  BY <1>4
<1>6. RowsFit(u, n)
  BY <1>3, <1>4, <1>5 DEF RowsFit
<1>7. Follows(t, u, k)
  BY <1>3, <1>5 DEF Follows
<1> QED
  BY <1>3, <1>5, <1>6, <1>7

\* What the tables u have of a gate e that p closes in t.
Closes(p, t, e, gate, u) ==
    /\ u.approvals = t.approvals /\ DOMAIN u.execs = DOMAIN t.execs
    /\ \A d \in DOMAIN u.execs : d # e => u.execs[d].status = t.execs[d].status
    /\ GateIsLeft(p, t, e) => u = t
    /\ ~GateIsLeft(p, t, e) => u.execs[e].status = gate

\* A gate is closed, unless the kernel of p takes it for closed.
LEMMA ClosedGateFits ==
    ASSUME NEW n \in Nat, NEW t, RowsFit(t, n), NEW e \in DOMAIN t.approvals,
           NEW gate \in {"completed", "cancelled"}, NEW p,
           NEW u, u = ClosedGate(p, t, e, gate), NEW k
    PROVE  /\ RowsFit(u, n) /\ u.snap = t.snap /\ Follows(t, u, k)
           /\ Closes(p, t, e, gate, u)
<1>1. CASE GateIsLeft(p, t, e)
  <2>1. u = t
    BY <1>1 DEF ClosedGate
  <2> QED
    BY <1>1, <2>1 DEF Follows, Closes
<1>2. CASE ~GateIsLeft(p, t, e)
  <2> DEFINE x == [t.execs EXCEPT ![e] = [t.execs[e] EXCEPT !.status = gate]]
  <2>1. /\ t = [snap |-> t.snap, execs |-> t.execs, approvals |-> t.approvals, intent |-> t.intent]
        /\ t.execs \in [DOMAIN t.execs -> Execution] /\ e \in DOMAIN t.execs
    BY DEF RowsFit
  <2>2. u = [t EXCEPT !.execs = x]
    BY <1>2, <2>1 DEF ClosedGate
  <2>3. /\ DOMAIN x = DOMAIN t.execs /\ x \in [DOMAIN x -> Execution]
        /\ \A d \in DOMAIN x : x[d].status = IF d = e THEN gate ELSE t.execs[d].status
    BY <2>1 DEF Execution, TerminalExecutionStatuses
  <2> HIDE DEF x
  <2>4. u = [snap |-> t.snap, execs |-> x, approvals |-> t.approvals, intent |-> t.intent]
    BY <2>1, <2>2
  <2>5. u.snap = t.snap /\ u.execs = x /\ u.approvals = t.approvals /\ u.intent = t.intent
    BY <2>4
  <2>6. RowsFit(u, n)
    BY <2>3, <2>4, <2>5 DEF RowsFit, GateStatuses
  <2>7. Follows(t, u, k)
    BY <2>3, <2>5 DEF Follows, Unproven
  <2> QED
    BY <1>2, <2>1, <2>3, <2>5, <2>6, <2>7 DEF Closes
<1> QED
  BY <1>1, <1>2

\* Whoever decides an approval.
LEMMA DecidedFits ==
    ASSUME NEW n \in Nat, NEW t, RowsFit(t, n), NEW e, Decidable(t, e),
           NEW status \in ApprovalStatuses, status # "pending",
           NEW gate \in {"completed", "cancelled"}, NEW p,
           NEW u, u = Decided(p, t, e, status, gate), NEW k
    PROVE  RowsFit(u, n) /\ u.snap = t.snap /\ Follows(t, u, k)
<1> DEFINE v == ApprovalIs(t, e, status)
<1>1. e \in DOMAIN t.approvals
  BY DEF Decidable
<1>2. RowsFit(v, n) /\ v.snap = t.snap /\ Follows(t, v, k) /\ e \in DOMAIN v.approvals
  BY <1>1, ApprovalIsFits
<1>3. u = ClosedGate(p, v, e, gate)
  BY DEF Decided
<1> HIDE DEF v
<1>4. RowsFit(u, n) /\ u.snap = v.snap /\ Follows(v, u, k)
  BY <1>2, <1>3, ClosedGateFits
<1> QED
  BY <1>2, <1>4, FollowsTwice

\* cancel() comes to the gate: the approval that nobody has decided is cancelled.
LEMMA AtTheGateFits ==
    ASSUME NEW n \in Nat, NEW t, RowsFit(t, n), NEW l, Knows(l, t), CanCancel(l, t),
           NEW u, u = AtTheGate(l, t), NEW k
    PROVE  /\ RowsFit(u, n) /\ u.snap = t.snap /\ Follows(t, u, k)
           /\ u.execs = t.execs /\ (l.gate # 0 => l.gate \in DOMAIN u.approvals)
<1>1. CASE l.gate # 0 /\ l.copy = "pending"
  <2>1. l.gate \in DOMAIN t.approvals /\ u = ApprovalIs(t, l.gate, "cancelled")
    BY <1>1 DEF CanCancel, Decidable, AtTheGate
  <2>2. "cancelled" \in ApprovalStatuses /\ "cancelled" # "pending"
    BY DEF ApprovalStatuses
  <2> QED
    BY <2>1, <2>2, ApprovalIsFits
<1>2. CASE ~(l.gate # 0 /\ l.copy = "pending")
  BY <1>2 DEF AtTheGate, Follows, Knows
<1> QED
  BY <1>1, <1>2

\* cancel() closes what the loop waits for, and leaves a snapshot and a settled intent.
LEMMA CancelledRowsFit ==
    ASSUME NEW n \in Nat, NEW t, RowsFit(t, n), NEW l, Knows(l, t), CanCancel(l, t),
           NEW p, NEW u, u = CancelledTables(p, l, t), NEW k
    PROVE  RowsFit(u, n) /\ u.snap = CancelledLoop(l) /\ Follows(t, u, k)
<1> DEFINE g == AtTheGate(l, t)
           c == IF l.gate = 0 THEN g ELSE ClosedGate(p, g, l.gate, "cancelled")
           s == [c EXCEPT !.snap = CancelledLoop(l)]
<1>1. /\ RowsFit(g, n) /\ Follows(t, g, k)
      /\ (l.gate # 0 => l.gate \in DOMAIN g.approvals)
  BY AtTheGateFits
<1>2. u = [c EXCEPT !.snap = CancelledLoop(l), !.intent = "settled"]
  BY DEF CancelledTables
<1> HIDE DEF g
<1>3. RowsFit(c, n) /\ Follows(g, c, k)
  <2>1. CASE l.gate = 0
    BY <1>1, <2>1 DEF Follows
  <2>2. CASE l.gate # 0
    <3>1. c = ClosedGate(p, g, l.gate, "cancelled")
      BY <2>2
    <3> HIDE DEF c
    <3> QED
      BY <1>1, <2>2, <3>1, ClosedGateFits
  <2> QED
    BY <2>1, <2>2
<1> HIDE DEF c
<1>4. u = [s EXCEPT !.intent = "settled"]
  BY <1>2, <1>3 DEF RowsFit
<1>5. RowsFit(s, n) /\ s.snap = CancelledLoop(l) /\ Follows(c, s, k)
  BY <1>3, SnapRowsFit
<1> HIDE DEF s
<1>6. RowsFit(u, n) /\ u.snap = s.snap /\ Follows(s, u, k)
  BY <1>4, <1>5, IntentRowsFit
<1> QED
  BY <1>1, <1>3, <1>5, <1>6, FollowsTwice

\* The rows of n executions are rows of n + 1.
LEMMA RowsGrow ==
    ASSUME NEW n \in Nat, NEW t, RowsFit(t, n)
    PROVE  RowsFit(t, n + 1)
<1>1. 1..n \subseteq 1..(n + 1)
  OBVIOUS
<1> QED
  BY <1>1 DEF RowsFit

-----------------------------------------------------------------------------
(* The calls that the budget allows. *)

LEMMA SeatsAreFinite ==
    ASSUME NEW f
    PROVE  /\ IsFiniteSet(SeatsIn(f))
           /\ Cardinality(SeatsIn(f)) \in Nat
           /\ Cardinality(SeatsIn(f)) <= MaxSteps * Cardinality(Replicas)
<1> DEFINE all == Replicas \X (1..MaxSteps)
<1>1. MaxSteps \in Nat /\ IsFiniteSet(Replicas)
  BY AgentRunAssumption
<1>2. IsFiniteSet(1..MaxSteps) /\ Cardinality(1..MaxSteps) = MaxSteps
  <2>1. 1 \in Int /\ MaxSteps \in Int
    BY <1>1
  <2>2. IsFiniteSet(1..MaxSteps)
        /\ Cardinality(1..MaxSteps) = IF 1 > MaxSteps THEN 0 ELSE MaxSteps - 1 + 1
    BY <2>1, FS_Interval, Zenon
  <2> QED
    BY <1>1, <2>2
<1>3. IsFiniteSet(all) /\ Cardinality(all) = Cardinality(Replicas) * Cardinality(1..MaxSteps)
  BY <1>1, <1>2, FS_Product, Zenon
<1>4. SeatsIn(f) \subseteq all
  BY DEF SeatsIn
<1>5. IsFiniteSet(SeatsIn(f)) /\ Cardinality(SeatsIn(f)) <= Cardinality(all)
  BY <1>3, <1>4, FS_Subset, Zenon
<1>6. Cardinality(SeatsIn(f)) \in Nat /\ Cardinality(Replicas) \in Nat
  BY <1>1, <1>5, FS_CardinalityType, Zenon
<1> HIDE DEF all
<1>7. Cardinality(all) = MaxSteps * Cardinality(Replicas)
  BY <1>1, <1>2, <1>3, <1>6
<1> QED
  BY <1>5, <1>6, <1>7

\* Loops that only go on keep their steps.
LEMMA SeatsKept ==
    ASSUME NEW f, NEW g,
           \A q \in Replicas : f[q] # NoLoop => g[q] # NoLoop /\ f[q].steps <= g[q].steps,
           \A q \in Replicas : f[q] # NoLoop => f[q].steps \in Nat /\ g[q].steps \in Nat
    PROVE  Cardinality(SeatsIn(f)) <= Cardinality(SeatsIn(g))
<1>1. SeatsIn(f) \subseteq SeatsIn(g)
  BY AgentRunAssumption DEF SeatsIn
<1> QED
  BY <1>1, SeatsAreFinite, FS_Subset

\* A step of a loop is one more.
LEMMA SeatTaken ==
    ASSUME NEW f, NEW g, NEW p \in Replicas, NEW k \in Nat, k < MaxSteps,
           \A q \in Replicas \ {p} : g[q] = f[q],
           f[p] # NoLoop => f[p].steps = k, g[p] # NoLoop, g[p].steps = k + 1
    PROVE  Cardinality(SeatsIn(f)) + 1 <= Cardinality(SeatsIn(g))
<1> DEFINE s == <<p, k + 1>>
<1>1. s \in Replicas \X (1..MaxSteps) /\ s[1] = p /\ s[2] = k + 1
  BY AgentRunAssumption
<1>2. s \notin SeatsIn(f) /\ s \in SeatsIn(g)
  BY <1>1 DEF SeatsIn
<1>3. ASSUME NEW x \in SeatsIn(f)
      PROVE  x \in SeatsIn(g)
  <2>1. x \in Replicas \X (1..MaxSteps) /\ x[1] \in Replicas /\ x[2] \in Nat
        /\ f[x[1]] # NoLoop /\ x[2] <= f[x[1]].steps
    BY <1>3 DEF SeatsIn
  <2>2. CASE x[1] = p
    <3>1. x[2] <= k + 1
      BY <2>1, <2>2
    <3> QED
      BY <2>1, <2>2, <3>1 DEF SeatsIn
  <2>3. CASE x[1] # p
    BY <2>1, <2>3 DEF SeatsIn
  <2> QED
    BY <2>2, <2>3
<1> HIDE DEF s
<1>4. IsFiniteSet(SeatsIn(f)) /\ Cardinality(SeatsIn(f)) \in Nat
      /\ IsFiniteSet(SeatsIn(g)) /\ Cardinality(SeatsIn(g)) \in Nat
  BY SeatsAreFinite, Zenon
<1>5. Cardinality(SeatsIn(f) \cup {s}) = Cardinality(SeatsIn(f)) + 1
  BY <1>2, <1>4, FS_AddElement, Zenon
<1>6. SeatsIn(f) \cup {s} \subseteq SeatsIn(g)
  BY <1>2, <1>3
<1>7. Cardinality(SeatsIn(f) \cup {s}) <= Cardinality(SeatsIn(g))
  BY <1>4, <1>6, FS_Subset, Zenon
<1> QED
  BY <1>5, <1>7

\* A restart loses the steps of one process.
LEMMA SeatsLost ==
    ASSUME NEW f, NEW g, NEW p \in Replicas, \A q \in Replicas \ {p} : g[q] = f[q]
    PROVE  Cardinality(SeatsIn(f)) <= Cardinality(SeatsIn(g)) + MaxSteps
<1> DEFINE own == {p} \X (1..MaxSteps)
<1>1. SeatsIn(f) \subseteq SeatsIn(g) \cup own
  BY DEF SeatsIn
<1>2. MaxSteps \in Nat
  BY AgentRunAssumption
<1>3. IsFiniteSet(1..MaxSteps) /\ Cardinality(1..MaxSteps) = MaxSteps
  <2>1. 1 \in Int /\ MaxSteps \in Int
    BY <1>2
  <2>2. IsFiniteSet(1..MaxSteps)
        /\ Cardinality(1..MaxSteps) = IF 1 > MaxSteps THEN 0 ELSE MaxSteps - 1 + 1
    BY <2>1, FS_Interval, Zenon
  <2> QED
    BY <1>2, <2>2
<1>4. IsFiniteSet({p}) /\ Cardinality({p}) = 1
  BY FS_Singleton, Zenon
<1>5. IsFiniteSet(own) /\ Cardinality(own) = Cardinality({p}) * Cardinality(1..MaxSteps)
  BY <1>3, <1>4, FS_Product, Zenon
<1>6. Cardinality(own) = MaxSteps
  BY <1>2, <1>3, <1>4, <1>5
<1> HIDE DEF own
<1>7. IsFiniteSet(SeatsIn(g)) /\ Cardinality(SeatsIn(g)) \in Nat /\ Cardinality(SeatsIn(f)) \in Nat
  BY SeatsAreFinite, Zenon
<1>8. /\ IsFiniteSet(SeatsIn(g) \cup own)
      /\ Cardinality(SeatsIn(g) \cup own)
           = Cardinality(SeatsIn(g)) + Cardinality(own) - Cardinality(SeatsIn(g) \cap own)
  BY <1>5, <1>7, FS_Union, Zenon
<1>9. Cardinality(SeatsIn(g) \cap own) \in Nat
  <2>1. IsFiniteSet(SeatsIn(g) \cap own)
    BY <1>7, FS_Subset
  <2> QED
    BY <2>1, FS_CardinalityType, Zenon
<1>10. Cardinality(SeatsIn(f)) <= Cardinality(SeatsIn(g) \cup own)
  BY <1>1, <1>8, FS_Subset, Zenon
<1> QED
  BY <1>2, <1>6, <1>7, <1>8, <1>9, <1>10

LEMMA LoopsAreLoops ==
    ASSUME NEW n \in Nat, NEW l, LoopFits(l, n)
    PROVE  l # NoLoop /\ l.steps \in 0..MaxSteps
<1>1. l.status \in RunStatuses /\ l.steps \in 0..MaxSteps
  BY DEF LoopFits, Loop
<1>2. "none" \notin RunStatuses
  BY DEF RunStatuses, ActiveStatuses, TerminalRunStatuses
<1> QED
  BY <1>1, <1>2 DEF NoLoop

-----------------------------------------------------------------------------
(* Steps. *)

\* Process p has the loop l before it and works on the tables t.
Sees(p, l, t) ==
    /\ p \in Replicas /\ (mem[p] # NoLoop => l = mem[p])
    /\ LoopFits(l, fresh)
    /\ TablesFit(t) /\ Agrees(l, t) /\ Knows(l, t)
    /\ Agrees(l, db) /\ Knows(l, db)

\* It makes m of the loop and u of the tables, and k executions have been submitted then.
Answers(l, t, m, u, k) ==
    /\ k \in {fresh, fresh + 1} /\ k <= MaxExecutions
    /\ LoopFits(m, k) /\ Patient(m) /\ Succeeds(l, m, fresh)
    /\ RowsFit(u, k) /\ SnapFits(u, k) /\ Follows(t, u, fresh)
    /\ Accounts(m, u, fresh)

\* A copy that fits still fits when executions are submitted.
LEMMA FitsOn ==
    ASSUME NEW n \in Nat, NEW k \in {n, n + 1}
    PROVE  /\ \A l : LoopFits(l, n) => LoopFits(l, k)
           /\ \A t : RowsFit(t, n) => RowsFit(t, k)
           /\ \A t : SnapFits(t, n) => SnapFits(t, k)
<1>1. CASE k = n
  BY <1>1
<1>2. CASE k = n + 1
  <2>1. \A l : LoopFits(l, n) => LoopFits(l, n + 1)
    BY LoopsGrow, Zenon
  <2>2. \A t : RowsFit(t, n) => RowsFit(t, n + 1)
    BY RowsGrow, Zenon
  <2>3. \A t : SnapFits(t, n) => SnapFits(t, n + 1)
    BY <2>1, Zenon DEF SnapFits
  <2> QED
    BY <1>2, <2>1, <2>2, <2>3
<1> QED
  BY <1>1, <1>2

\* A request that answers leaves everything in order.
LEMMA ServeKeeps ==
    ASSUME Inv, NEW p, NEW l, NEW t, NEW m, NEW u, NEW job, NEW out \in Outcomes,
           Sees(p, l, t), Answers(l, t, m, u, fresh'),
           out \notin Snapshots => u.snap = db.snap, job = "decide" => out \notin Snapshots,
           out \in Snapshots => ~CannotBeCaptured(m),
           db' = db, faults' = faults,
           mem' = [mem EXCEPT ![p] = m],
           req' = [by |-> p, job |-> job, draft |-> u, out |-> out],
           \/ ran' = ran /\ l.steps <= m.steps
           \/ ran' = ran + 1 /\ fresh' = fresh + 1 /\ m.steps = l.steps + 1
    PROVE  Inv'
<1> DEFINE k == fresh'
<1>1. /\ TablesFit(db) /\ CopiesFit /\ Counts
      /\ mem = [q \in Replicas |-> mem[q]]
      /\ fresh \in Nat /\ k \in {fresh, fresh + 1} /\ k <= MaxExecutions /\ k \in Nat
  BY DEF Inv, Counts, Answers
<1>2. /\ \A x : LoopFits(x, fresh) => LoopFits(x, k)
      /\ \A x : RowsFit(x, fresh) => RowsFit(x, k)
      /\ \A x : SnapFits(x, fresh) => SnapFits(x, k)
  BY <1>1, FitsOn, Zenon
<1>3. /\ p \in Replicas /\ LoopFits(l, fresh) /\ TablesFit(t) /\ Agrees(l, t) /\ Knows(l, t)
      /\ Agrees(l, db) /\ Knows(l, db) /\ (mem[p] # NoLoop => l = mem[p])
  BY DEF Sees
<1>4. /\ LoopFits(m, k) /\ Patient(m) /\ Succeeds(l, m, fresh)
      /\ RowsFit(u, k) /\ SnapFits(u, k) /\ Follows(t, u, fresh) /\ Accounts(m, u, fresh)
  BY DEF Answers
<1>5. mem'[p] = m /\ (\A q \in Replicas \ {p} : mem'[q] = mem[q]) /\ mem' = [q \in Replicas |-> mem'[q]]
  BY <1>1, <1>3
<1> HIDE DEF k
<1>6. m # NoLoop /\ m.steps \in 0..MaxSteps
  BY <1>1, <1>4, LoopsAreLoops
<1>7. RowsFit(db, fresh) /\ SnapFits(db, fresh) /\ CopiesAgree(db) /\ CopiesAgree(t)
  BY <1>1, <1>3 DEF TablesFit
<1>8. Agrees(m, db) /\ Knows(m, db) /\ Agrees(m, u) /\ Knows(m, u)
  <2>1. Agrees(m, db) /\ Knows(m, db)
    BY <1>1, <1>3, <1>4, <1>7, AgreesBefore, Zenon
  <2>2. Agrees(m, u) /\ Knows(m, u)
    BY <1>1, <1>3, <1>4, AgreesNext, Zenon
  <2> QED
    BY <2>1, <2>2
<1>9. CopiesAgree(db)'
  BY <1>5, <1>7, <1>8 DEF CopiesAgree
<1>10. TablesFit(db)'
  BY <1>2, <1>7, <1>9 DEF TablesFit, k, SnapFits
<1>11. ASSUME NEW q \in Replicas, mem'[q] # NoLoop
       PROVE  LoopFits(mem'[q], k) /\ Patient(mem'[q]) /\ Agrees(mem'[q], u) /\ Knows(mem'[q], u)
  <2>1. CASE q = p
    BY <1>4, <1>5, <1>8, <2>1
  <2>2. CASE q # p
    <3>1. mem'[q] = mem[q] /\ mem[q] # NoLoop
      BY <1>5, <1>11, <2>2
    <3>2. LoopFits(mem[q], fresh) /\ Patient(mem[q]) /\ Agrees(mem[q], t) /\ Knows(mem[q], t)
      BY <1>1, <1>7, <3>1 DEF CopiesFit, CopiesAgree
    <3>3. Agrees(mem[q], u) /\ Knows(mem[q], u)
      BY <1>1, <1>4, <3>2, AgreesOn, Zenon
    <3> QED
      BY <1>2, <3>1, <3>2, <3>3
  <2> QED
    BY <2>1, <2>2
<1>12. CopiesFit'
  BY <1>1, <1>11 DEF CopiesFit, k
<1>13. db.snap # NoLoop => Agrees(db.snap, u)
  BY <1>1, <1>4, <1>7, AgreesOn DEF SnapFits, CopiesAgree
<1>14. CopiesAgree(u)'
  BY <1>11, <1>13 DEF CopiesAgree
<1>15. TablesFit(u)'
  BY <1>4, <1>14 DEF TablesFit, k, SnapFits
<1>16. req'.by = p /\ req'.draft = u /\ req'.out = out /\ req'.job = job
  OBVIOUS
<1>17. RequestFits'
  BY <1>3, <1>5, <1>6, <1>15, <1>16 DEF RequestFits
<1>18. Counts'
  <2>1. faults' \in 0..MaxFaults /\ ran \in Nat /\ ran \in 0..fresh /\ k \in 0..MaxExecutions /\ ran' \in 0..k
    BY <1>1 DEF Counts, k
  <2>2. ran' <= Cardinality(SeatsIn(mem')) + MaxSteps * faults'
    <3>1. Cardinality(SeatsIn(mem)) \in Nat /\ Cardinality(SeatsIn(mem')) \in Nat
          /\ MaxSteps * faults \in Nat
      BY <1>1, SeatsAreFinite, AgentRunAssumption DEF Counts
    <3>2. ran <= Cardinality(SeatsIn(mem)) + MaxSteps * faults
      BY <1>1 DEF Counts, Seats
    <3>3. l.steps \in Nat
      BY <1>1, <1>3, LoopsAreLoops
    <3>4. CASE ran' = ran /\ l.steps <= m.steps
      <4>1. \A q \in Replicas : mem[q] # NoLoop =>
                /\ mem'[q] # NoLoop /\ mem[q].steps <= mem'[q].steps
                /\ mem[q].steps \in Nat /\ mem'[q].steps \in Nat
        <5>1. ASSUME NEW q \in Replicas, mem[q] # NoLoop
              PROVE  mem[q].steps \in Nat
          BY <1>1, <5>1, LoopsAreLoops DEF CopiesFit
        <5> QED
          BY <1>3, <1>5, <1>6, <3>3, <3>4, <5>1
      <4>2. Cardinality(SeatsIn(mem)) <= Cardinality(SeatsIn(mem'))
        BY <4>1, SeatsKept
      <4> QED
        BY <2>1, <3>1, <3>2, <3>4, <4>2
    <3>5. CASE ran' = ran + 1 /\ m.steps = l.steps + 1
      <4>1. l.steps < MaxSteps
        BY <1>6, <3>3, <3>5, AgentRunAssumption
      <4>2. Cardinality(SeatsIn(mem)) + 1 <= Cardinality(SeatsIn(mem'))
        BY <1>3, <1>5, <1>6, <3>3, <3>5, <4>1, SeatTaken
      <4> QED
        BY <2>1, <3>1, <3>2, <3>5, <4>2
    <3> QED
      BY <3>4, <3>5
  <2> QED
    BY <2>1, <2>2 DEF Counts, Seats, k
<1> QED
  BY <1>5, <1>10, <1>12, <1>17, <1>18 DEF Inv

\* A process that has a loop in memory, when no request is served any more.
LEMMA LoadKeeps ==
    ASSUME Inv, NEW p \in Replicas, req' = NoRequest,
           NEW m, LoopFits(m, fresh), Patient(m), Agrees(m, db), Knows(m, db),
           mem[p] # NoLoop => mem[p].steps <= m.steps,
           mem' = [mem EXCEPT ![p] = m],
           db' = db, fresh' = fresh, ran' = ran,
           faults' = faults \/ (faults < MaxFaults /\ faults' = faults + 1)
    PROVE  Inv'
<1>1. /\ RowsFit(db, fresh) /\ SnapFits(db, fresh) /\ CopiesAgree(db) /\ CopiesFit /\ Counts
      /\ mem = [q \in Replicas |-> mem[q]] /\ fresh \in Nat
  BY DEF Inv, TablesFit, Counts
<1>2. mem'[p] = m /\ (\A q \in Replicas \ {p} : mem'[q] = mem[q]) /\ mem' = [q \in Replicas |-> mem'[q]]
  BY <1>1
<1>3. TablesFit(db)' /\ CopiesFit'
  BY <1>1, <1>2 DEF TablesFit, CopiesAgree, CopiesFit, SnapFits
<1>4. Cardinality(SeatsIn(mem)) <= Cardinality(SeatsIn(mem'))
  <2>1. \A q \in Replicas : mem[q] # NoLoop => mem[q].steps \in Nat
    BY <1>1, LoopsAreLoops DEF CopiesFit
  <2>2. m # NoLoop /\ m.steps \in Nat
    BY <1>1, LoopsAreLoops
  <2>3. \A q \in Replicas : mem[q] # NoLoop =>
          /\ mem'[q] # NoLoop /\ mem[q].steps <= mem'[q].steps
          /\ mem[q].steps \in Nat /\ mem'[q].steps \in Nat
    BY <1>2, <2>1, <2>2
  <2> QED
    BY <2>3, SeatsKept
<1>5. Counts'
  <2>1. /\ Cardinality(SeatsIn(mem)) \in Nat /\ Cardinality(SeatsIn(mem')) \in Nat
        /\ MaxSteps * faults \in Nat /\ MaxSteps \in Nat /\ faults \in Nat /\ MaxFaults \in Nat
    BY <1>1, SeatsAreFinite, AgentRunAssumption DEF Counts
  <2>2. MaxSteps * faults <= MaxSteps * faults' /\ MaxSteps * faults' \in Nat /\ faults' \in 0..MaxFaults
    <3>1. CASE faults' = faults
      BY <1>1, <2>1, <3>1 DEF Counts
    <3>2. CASE faults < MaxFaults /\ faults' = faults + 1
      <4>1. MaxSteps * faults' = MaxSteps * faults + MaxSteps
        BY <2>1, <3>2
      <4> QED
        BY <2>1, <3>2, <4>1
    <3> QED
      BY <3>1, <3>2
  <2> QED
    BY <1>1, <1>4, <2>1, <2>2 DEF Counts, Seats
<1> QED
  BY <1>2, <1>3, <1>5 DEF Inv

\* Tables u that are committed in the place of what the copies agreed with.
LEMMA WriteKeeps ==
    ASSUME Inv, NEW t, TablesFit(t), NEW u, Follows(t, u, fresh), RowsFit(u, fresh), SnapFits(u, fresh),
           u.snap # NoLoop => Patient(u.snap) /\ Agrees(u.snap, u),
           db' = u, req' = NoRequest, mem' = mem, fresh' = fresh, ran' = ran, faults' = faults
    PROVE  Inv'
<1>1. CopiesAgree(t) /\ CopiesFit /\ Counts /\ mem = [q \in Replicas |-> mem[q]] /\ fresh \in Nat
  BY DEF Inv, TablesFit, Counts
<1>2. ASSUME NEW q \in Replicas, mem[q] # NoLoop
      PROVE  Agrees(mem[q], u) /\ Knows(mem[q], u)
  <2>1. LoopFits(mem[q], fresh) /\ Agrees(mem[q], t) /\ Knows(mem[q], t)
    BY <1>1, <1>2 DEF CopiesFit, CopiesAgree
  <2> QED
    BY <1>1, <2>1, AgreesOn, Zenon
<1>3. TablesFit(db)'
  BY <1>2 DEF TablesFit, CopiesAgree, SnapFits
<1>4. CopiesFit'
  BY <1>1 DEF CopiesFit
<1>5. Counts'
  BY <1>1 DEF Counts, Seats
<1> QED
  BY <1>1, <1>3, <1>4, <1>5 DEF Inv

\* What fails leaves the tables as they were, and the loops as they are.
LEMMA FaultKeeps ==
    ASSUME Inv, faults < MaxFaults, faults' = faults + 1, req' = NoRequest \/ req' = req,
           db' = db, mem' = mem, fresh' = fresh, ran' = ran
    PROVE  Inv'
<1>1. TablesFit(db) /\ CopiesFit /\ Counts /\ mem = [q \in Replicas |-> mem[q]]
  BY DEF Inv
<1>2. TablesFit(db)' /\ CopiesFit'
  BY <1>1 DEF TablesFit, CopiesAgree, CopiesFit, SnapFits
<1>3. Counts'
  <2>1. Cardinality(SeatsIn(mem)) \in Nat /\ MaxSteps \in Nat /\ faults \in Nat /\ MaxFaults \in Nat
    BY <1>1, SeatsAreFinite, AgentRunAssumption DEF Counts
  <2>2. MaxSteps * faults' = MaxSteps * faults + MaxSteps /\ MaxSteps * faults \in Nat
    BY <1>1, <2>1
  <2> QED
    BY <1>1, <2>1, <2>2 DEF Counts, Seats
<1>4. ASSUME req' # NoRequest
      PROVE  RequestFits'
  <2>1. req' = req /\ RequestFits
    BY <1>4 DEF Inv
  <2>2. TablesFit(req.draft)'
    BY <2>1 DEF RequestFits, TablesFit, CopiesAgree, SnapFits
  <2> QED
    BY <2>1, <2>2 DEF RequestFits
<1> QED
  BY <1>1, <1>2, <1>3, <1>4 DEF Inv

\* A process that restarts loses its loops and the request it served.
LEMMA RestartKeeps ==
    ASSUME Inv, NEW p \in Replicas, Restart(p)
    PROVE  Inv'
<1>1. /\ TablesFit(db) /\ CopiesFit /\ Counts /\ mem = [q \in Replicas |-> mem[q]]
      /\ faults < MaxFaults /\ faults' = faults + 1 /\ mem' = [mem EXCEPT ![p] = NoLoop]
      /\ req' = IF req # NoRequest /\ req.by = p THEN NoRequest ELSE req
      /\ db' = db /\ fresh' = fresh /\ ran' = ran
  BY DEF Inv, Restart
<1>2. mem'[p] = NoLoop /\ (\A q \in Replicas \ {p} : mem'[q] = mem[q]) /\ mem' = [q \in Replicas |-> mem'[q]]
  BY <1>1
<1>3. TablesFit(db)' /\ CopiesFit'
  BY <1>1, <1>2 DEF TablesFit, CopiesAgree, CopiesFit, SnapFits
<1>4. ASSUME req' # NoRequest
      PROVE  RequestFits'
  <2>1. req' = req /\ req # NoRequest /\ req.by # p
    BY <1>1, <1>4
  <2>2. RequestFits
    BY <2>1 DEF Inv
  <2>3. TablesFit(req.draft)'
    BY <1>1, <1>2, <2>1, <2>2 DEF RequestFits, TablesFit, CopiesAgree, SnapFits
  <2> QED
    BY <1>1, <1>2, <2>1, <2>2, <2>3 DEF RequestFits
<1>5. Counts'
  <2>1. /\ Cardinality(SeatsIn(mem)) \in Nat /\ Cardinality(SeatsIn(mem')) \in Nat
        /\ MaxSteps \in Nat /\ faults \in Nat /\ MaxFaults \in Nat
    BY <1>1, SeatsAreFinite, AgentRunAssumption DEF Counts
  <2>2. Cardinality(SeatsIn(mem)) <= Cardinality(SeatsIn(mem')) + MaxSteps
    BY <1>2, SeatsLost
  <2>3. MaxSteps * faults' = MaxSteps * faults + MaxSteps /\ MaxSteps * faults \in Nat
    BY <1>1, <2>1
  <2> QED
    BY <1>1, <2>1, <2>2, <2>3 DEF Counts, Seats
<1> QED
  BY <1>2, <1>3, <1>4, <1>5 DEF Inv

LEMMA RollbackKeeps ==
    ASSUME Inv, Rollback \/ SweepFails \/ RestartSweeper
    PROVE  Inv'
<1>1. /\ faults < MaxFaults /\ faults' = faults + 1 /\ (req' = NoRequest \/ req' = req)
      /\ db' = db /\ mem' = mem /\ fresh' = fresh /\ ran' = ran
  BY DEF Rollback, SweepFails, GateFails, RestartSweeper
<1> QED
  BY <1>1, FaultKeeps

LEMMA StutterKeeps ==
    ASSUME Inv, UNCHANGED vars
    PROVE  Inv'
BY DEF Inv, vars, TablesFit, CopiesAgree, CopiesFit, SnapFits, RequestFits, Counts, Seats

LEMMA InitFits ==
    ASSUME Init
    PROVE  Inv
<1>1. /\ db = NoTables /\ mem = [p \in Replicas |-> NoLoop] /\ req = NoRequest
      /\ fresh = 0 /\ ran = 0 /\ faults = 0
  BY DEF Init
<1> DEFINE e == <<>>
<1>2. DOMAIN e = {} /\ e \in [DOMAIN e -> Execution] /\ e \in [DOMAIN e -> Approval]
  OBVIOUS
<1>3. NoTables = [snap |-> NoLoop, execs |-> e, approvals |-> e, intent |-> "none"]
  BY DEF NoTables
<1> HIDE DEF e
<1>4. RowsFit(db, fresh) /\ SnapFits(db, fresh) /\ db.snap = NoLoop
  BY <1>1, <1>2, <1>3 DEF RowsFit, SnapFits
<1>5. TablesFit(db) /\ CopiesFit
  BY <1>1, <1>4 DEF TablesFit, CopiesAgree, CopiesFit
<1>6. Counts
  <2>1. Cardinality(SeatsIn(mem)) \in Nat
    BY SeatsAreFinite
  <2> QED
    BY <1>1, <2>1, AgentRunAssumption DEF Counts, Seats
<1> QED
  BY <1>1, <1>5, <1>6 DEF Inv

\* What the process that serves has before it.
LEMMA LiveSees ==
    ASSUME Inv, req # NoRequest
    PROVE  /\ Sees(req.by, Live, Draft) /\ Patient(Live) /\ fresh \in Nat
           /\ req = [by |-> req.by, job |-> req.job, draft |-> req.draft, out |-> req.out]
           /\ req.out \notin Snapshots => Draft.snap = db.snap
<1>1. RequestFits /\ TablesFit(db) /\ CopiesFit /\ fresh \in Nat
  BY DEF Inv, Counts
<1>2. req.by \in Replicas /\ mem[req.by] # NoLoop /\ TablesFit(req.draft)
  BY <1>1 DEF RequestFits
<1>3. /\ Agrees(mem[req.by], db) /\ Knows(mem[req.by], db)
      /\ Agrees(mem[req.by], req.draft) /\ Knows(mem[req.by], req.draft)
  BY <1>1, <1>2 DEF TablesFit, CopiesAgree
<1>4. LoopFits(mem[req.by], fresh) /\ Patient(mem[req.by])
  BY <1>1, <1>2 DEF CopiesFit
<1> QED
  BY <1>1, <1>2, <1>3, <1>4 DEF Sees, Live, Draft, RequestFits

\* What a process has before it when a request comes.
LEMMA StackSees ==
    ASSUME Inv, NEW p \in Replicas, mem[p] # NoLoop \/ Loadable
    PROVE  Sees(p, Stack(p), db) /\ Patient(Stack(p)) /\ fresh \in Nat
<1>1. TablesFit(db) /\ CopiesFit /\ fresh \in Nat /\ CopiesAgree(db)
  BY DEF Inv, Counts, TablesFit
<1>2. CASE mem[p] # NoLoop
  <2>1. Stack(p) = mem[p]
    BY <1>2 DEF Stack
  <2> QED
    BY <1>1, <1>2, <2>1 DEF Sees, CopiesFit, CopiesAgree
<1>3. CASE mem[p] = NoLoop
  <2>1. /\ Stack(p) = Restored(db) /\ db.snap # NoLoop
        /\ db.snap.gate = 0 \/ db.snap.gate \in DOMAIN db.approvals
    BY <1>3 DEF Stack, Loadable, HasSnapshot
  <2>2. RowsFit(db, fresh) /\ LoopFits(db.snap, fresh) /\ Patient(db.snap) /\ Agrees(db.snap, db)
    BY <1>1, <2>1 DEF TablesFit, SnapFits, CopiesFit, CopiesAgree
  <2>3. LoopFits(Stack(p), fresh) /\ Patient(Stack(p)) /\ Agrees(Stack(p), db) /\ Knows(Stack(p), db)
    BY <1>1, <2>1, <2>2, RestoredFits
  <2> QED
    BY <1>1, <1>3, <2>3 DEF Sees
<1> QED
  BY <1>2, <1>3

\* A loop that lets go of its gate relies on no more than it did.
LEMMA LetsGo ==
    ASSUME NEW n \in Nat, NEW l, LoopFits(l, n), Patient(l), NEW t, RowsFit(t, n), Agrees(l, t)
    PROVE  /\ LoopFits(NoGate(l), n) /\ Patient(NoGate(l)) /\ NoGate(l).steps = l.steps
           /\ Agrees(NoGate(l), t) /\ Knows(NoGate(l), t)
<1> DEFINE m == NoGate(l)
<1>1. LoopFits(m, n) /\ Patient(m) /\ m.steps = l.steps /\ m.gate = 0 /\ Succeeds(l, m, n)
  BY NoGateFits
<1> HIDE DEF m
<1>2. n + 1 \notin DOMAIN t.execs
  BY DEF RowsFit
<1>3. Agrees(m, t)
  BY <1>1, <1>2 DEF Agrees, Succeeds
<1>4. Knows(m, t)
  BY <1>1 DEF Knows
<1> QED
  BY <1>1, <1>3, <1>4 DEF m

\* A request that goes on: m of the loop, u of the tables, and what the client is told.
LEMMA ReplyKeeps ==
    ASSUME Inv, Advancing, NEW m, NEW u, NEW out \in Outcomes, Reply(m, u, out),
           Answers(Live, Draft, m, u, fresh'),
           out \notin Snapshots => u.snap = Draft.snap, out \in Snapshots => ~CannotBeCaptured(m),
           db' = db, faults' = faults,
           \/ ran' = ran /\ Live.steps <= m.steps
           \/ ran' = ran + 1 /\ fresh' = fresh + 1 /\ m.steps = Live.steps + 1
    PROVE  Inv'
<1>1. req # NoRequest /\ (req.out = "none" \/ req.out \notin StopOutcomes)
  BY DEF Advancing
<1>2. req.out \notin Snapshots
  BY <1>1 DEF Snapshots, StopOutcomes
<1>3. /\ Sees(req.by, Live, Draft) /\ Draft.snap = db.snap
      /\ req = [by |-> req.by, job |-> req.job, draft |-> req.draft, out |-> req.out]
  BY <1>1, <1>2, LiveSees
<1>4. mem' = [mem EXCEPT ![req.by] = m]
      /\ req' = [by |-> req.by, job |-> req.job, draft |-> u, out |-> out]
  BY <1>3 DEF Reply
<1>5. (out \notin Snapshots => u.snap = db.snap) /\ req.job # "decide"
  BY <1>3 DEF Advancing
<1> QED
  BY <1>3, <1>4, <1>5, ServeKeeps

\* A request that only talks: the tables stay.
LEMMA TalkKeeps ==
    ASSUME Inv, Advancing, NEW m, NEW out \in Outcomes, Reply(m, Draft, out),
           LoopFits(m, fresh), Patient(m), Succeeds(Live, m, fresh), Live.steps <= m.steps,
           out \in Snapshots => ~CannotBeCaptured(m),
           db' = db, faults' = faults, ran' = ran, fresh' = fresh
    PROVE  Inv'
<1>1. Sees(req.by, Live, Draft) /\ fresh \in Nat /\ fresh <= MaxExecutions
  BY LiveSees, AgentRunAssumption DEF Advancing, Inv, Counts
<1>2. RowsFit(Draft, fresh) /\ SnapFits(Draft, fresh)
  BY <1>1 DEF Sees, TablesFit
<1>3. fresh + 1 \notin DOMAIN Draft.execs /\ fresh + 1 \notin DOMAIN Draft.approvals
  BY <1>1, <1>2 DEF RowsFit
<1>4. Accounts(m, Draft, fresh) /\ Follows(Draft, Draft, fresh)
  BY <1>3 DEF Accounts, Follows
<1>5. Answers(Live, Draft, m, Draft, fresh')
  BY <1>1, <1>2, <1>4 DEF Answers
<1> QED
  BY <1>5, ReplyKeeps

\* A loop that was cancelled can be captured.
LEMMA CancelledIsCaptured ==
    ASSUME NEW n \in Nat, NEW l, LoopFits(l, n)
    PROVE  ~CannotBeCaptured(Record(CancelledLoop(l), "cancelled"))
<1> DEFINE g == NoGate(l)
           d == [g EXCEPT !.status = "cancelled"]
           m == Record(d, "cancelled")
<1>1. g \in Loop(n)
  BY NoGateFits DEF LoopFits
<1>2. CancelledLoop(l) = d
  BY DEF CancelledLoop, DeclareTerminal
<1> HIDE DEF g
<1>3. m = [d EXCEPT !.denials = 0]
  BY DEF Record
<1>4. m.status = "cancelled"
  BY <1>1, <1>3 DEF Loop
<1> QED
  BY <1>2, <1>4 DEF CannotBeCaptured

LEMMA StepCancelsKeeps ==
    ASSUME Inv, StepCancels
    PROVE  Inv'
<1>1. Advancing /\ db' = db /\ faults' = faults /\ ran' = ran /\ fresh' = fresh
  BY DEF StepCancels, counters
<1>2. /\ Sees(req.by, Live, Draft) /\ Patient(Live) /\ fresh \in Nat /\ fresh <= MaxExecutions
      /\ LoopFits(Live, fresh) /\ Knows(Live, Draft) /\ RowsFit(Draft, fresh)
  BY <1>1, LiveSees, AgentRunAssumption DEF Advancing, Inv, Counts, Sees, TablesFit
<1>3. CASE /\ CancelPasses(req.by, Live, Draft)
           /\ Reply(Record(CancelledLoop(Live), "cancelled"),
                    CancelledTables(req.by, Live, Draft), "cancelled")
  <2> DEFINE m == Record(CancelledLoop(Live), "cancelled")
             u == CancelledTables(req.by, Live, Draft)
  <2>1. Reply(m, u, "cancelled") /\ CanCancel(Live, Draft)
    BY <1>3 DEF CancelPasses
  <2>2. /\ LoopFits(CancelledLoop(Live), fresh) /\ CancelledLoop(Live).steps = Live.steps
        /\ CancelledLoop(Live).gate = 0 /\ Succeeds(Live, CancelledLoop(Live), fresh)
    BY <1>2, CancelledFits
  <2>3. LoopFits(m, fresh) /\ Patient(m) /\ m.steps = Live.steps /\ m.gate = 0
        /\ Succeeds(CancelledLoop(Live), m, fresh)
    BY <1>2, <2>2, RecordedFits
  <2>4. Succeeds(Live, m, fresh) /\ ~CannotBeCaptured(m)
    BY <1>2, <2>2, <2>3, SucceedsTwice, CancelledIsCaptured
  <2>5. RowsFit(u, fresh) /\ u.snap = CancelledLoop(Live) /\ Follows(Draft, u, fresh)
    BY <1>2, <2>1, CancelledRowsFit
  <2> HIDE DEF m, u
  <2>6. SnapFits(u, fresh)
    BY <2>2, <2>5 DEF SnapFits
  <2>7. Accounts(m, u, fresh)
    BY <1>2, <2>3, <2>5 DEF Accounts, RowsFit
  <2>8. Answers(Live, Draft, m, u, fresh')
    BY <1>1, <1>2, <2>3, <2>4, <2>5, <2>6, <2>7 DEF Answers
  <2>9. "cancelled" \in Outcomes /\ "cancelled" \in Snapshots /\ Live.steps <= m.steps
    BY <1>2, <2>3, LoopsAreLoops DEF Outcomes, StopOutcomes, Snapshots
  <2> QED
    BY <1>1, <2>1, <2>4, <2>8, <2>9, ReplyKeeps
<1>4. CASE /\ CancelIsRefused(req.by, Live, Draft)
           /\ Reply(NoGate(Live), AtTheGate(Live, Draft), "refused")
  <2> DEFINE m == NoGate(Live)
             u == AtTheGate(Live, Draft)
  <2>1. Reply(m, u, "refused") /\ CanCancel(Live, Draft)
    BY <1>4 DEF CancelIsRefused
  <2>2. LoopFits(m, fresh) /\ Patient(m) /\ m.steps = Live.steps /\ m.gate = 0
        /\ Succeeds(Live, m, fresh)
    BY <1>2, NoGateFits
  <2>3. RowsFit(u, fresh) /\ u.snap = Draft.snap /\ Follows(Draft, u, fresh)
    BY <1>2, <2>1, AtTheGateFits
  <2> HIDE DEF m, u
  <2>4. SnapFits(u, fresh) /\ Accounts(m, u, fresh)
    BY <1>2, <2>2, <2>3 DEF Sees, TablesFit, SnapFits, Accounts, RowsFit
  <2>5. Answers(Live, Draft, m, u, fresh')
    BY <1>1, <1>2, <2>2, <2>3, <2>4 DEF Answers
  <2>6. "refused" \in Outcomes /\ "refused" \notin Snapshots /\ Live.steps <= m.steps
    BY <1>2, <2>2, LoopsAreLoops DEF Outcomes, StopOutcomes, Snapshots
  <2> QED
    BY <1>1, <2>1, <2>3, <2>5, <2>6, ReplyKeeps
<1>5. CASE Reply(Live, Draft, "refused")
  <2>2. Succeeds(Live, Live, fresh) /\ "refused" \in Outcomes \ Snapshots /\ Live.steps <= Live.steps
    BY <1>2, LoopsAreLoops DEF Succeeds, Outcomes, StopOutcomes, Snapshots
  <2> QED
    BY <1>1, <1>2, <1>5, <2>2, TalkKeeps
<1> QED
  BY <1>3, <1>4, <1>5 DEF StepCancels

LEMMA StepWaitsKeeps ==
    ASSUME Inv, StepWaits
    PROVE  Inv'
<1>1. Advancing /\ db' = db /\ faults' = faults /\ ran' = ran /\ fresh' = fresh
      /\ Reply(Live, Draft, "waiting_approval") /\ ~CannotBeCaptured(Live)
  BY DEF StepWaits, CannotBeCaptured, counters
<1>2. Patient(Live) /\ LoopFits(Live, fresh) /\ fresh \in Nat
  BY <1>1, LiveSees DEF Advancing, Sees
<1>3. Succeeds(Live, Live, fresh) /\ "waiting_approval" \in Outcomes /\ Live.steps <= Live.steps
  BY <1>2, LoopsAreLoops DEF Succeeds, Outcomes, StopOutcomes
<1> QED
  BY <1>1, <1>2, <1>3, TalkKeeps

\* A loop that ends, and what is recorded of it.
LEMMA EndedFits ==
    ASSUME NEW n \in Nat, NEW l, NEW m, LoopFits(m, n), Succeeds(l, m, n), l.steps <= m.steps,
           NEW status \in TerminalRunStatuses, status = "completed" => ~m.failures,
           NEW outcome, outcome # "denied"
    PROVE  LET r == Record(DeclareTerminal(m, status), outcome)
           IN  LoopFits(r, n) /\ Patient(r) /\ Succeeds(l, r, n) /\ l.steps <= r.steps
<1> DEFINE d == DeclareTerminal(m, status)
           r == Record(d, outcome)
<1>1. LoopFits(d, n) /\ d.steps = m.steps /\ Succeeds(m, d, n)
  BY DeclaredFits
<1> HIDE DEF d
<1>2. LoopFits(r, n) /\ Patient(r) /\ r.steps = d.steps /\ Succeeds(d, r, n)
  BY <1>1, RecordedFits
<1>3. Succeeds(l, r, n)
  BY <1>1, <1>2, SucceedsTwice
<1>4. LoopFits(r, n) /\ Patient(r) /\ Succeeds(l, r, n) /\ l.steps <= r.steps
  BY <1>1, <1>2, <1>3
<1> QED
  BY <1>4 DEF d

\* A loop that goes on in its budget.
LEMMA LiveFits ==
    ASSUME Inv, InBudget
    PROVE  /\ Advancing /\ Sees(req.by, Live, Draft) /\ fresh \in Nat
           /\ LoopFits(Live, fresh) /\ Live.gate = 0 /\ Live.steps \in Nat /\ Live.steps < MaxSteps
           /\ Succeeds(Live, Live, fresh)
<1>1. Advancing /\ Live.gate = 0 /\ Live.steps < MaxSteps
  BY DEF InBudget, Free
<1>2. Sees(req.by, Live, Draft) /\ fresh \in Nat /\ LoopFits(Live, fresh)
  BY <1>1, LiveSees DEF Advancing, Sees
<1>3. Live.steps \in Nat
  BY <1>2, LoopsAreLoops
<1> QED
  BY <1>1, <1>2, <1>3 DEF Succeeds

LEMMA PlannedLoopsFit ==
    ASSUME Inv, InBudget, NEW m \in PlannedLoops
    PROVE  /\ LoopFits(m, fresh) /\ m.plan # NoPlan /\ m.gate = 0
           /\ m.steps = Live.steps /\ Succeeds(Live, m, fresh)
<1>1. /\ Advancing /\ LoopFits(Live, fresh) /\ Live.gate = 0 /\ fresh \in Nat
  BY LiveFits
<1>2. PICK q \in PlansFor(Live) : m = Planned(Live, q)
  BY DEF PlannedLoops
<1>3. q \in Plans /\ (Live.plan # NoPlan => q = Live.plan)
  BY <1>1, <1>2 DEF PlansFor, LoopFits, Loop
<1>4. LoopFits(m, fresh) /\ m.plan # NoPlan /\ m.steps = Live.steps /\ m.gate = 0
      /\ Succeeds(Live, m, fresh)
  <2> DEFINE l == Live
  <2>1. fresh \in Nat /\ LoopFits(l, fresh) /\ l.gate = 0 /\ q \in Plans
        /\ (l.plan # NoPlan => q = l.plan) /\ m = Planned(l, q)
    BY <1>1, <1>2, <1>3
  <2> HIDE DEF l
  <2>2. LoopFits(m, fresh) /\ m.plan # NoPlan /\ m.steps = l.steps /\ m.gate = 0
        /\ Succeeds(l, m, fresh)
    BY <2>1, PlannedFits
  <2> QED
    BY <2>2 DEF l
<1> QED
  BY <1>4

LEMMA StepExhaustsKeeps ==
    ASSUME Inv, StepExhausts
    PROVE  Inv'
<1> DEFINE m == Record(DeclareTerminal(Live, "failed"), "budget_exhausted")
<1>1. Advancing /\ db' = db /\ faults' = faults /\ ran' = ran /\ fresh' = fresh
      /\ Reply(m, Draft, "budget_exhausted")
  BY DEF StepExhausts, Free, counters
<1>2. LoopFits(Live, fresh) /\ fresh \in Nat
  BY <1>1, LiveSees DEF Advancing, Sees
<1>3. Succeeds(Live, Live, fresh) /\ Live.steps <= Live.steps
  BY <1>2, LoopsAreLoops DEF Succeeds
<1>4. "failed" \in TerminalRunStatuses /\ "failed" # "completed" /\ "budget_exhausted" # "denied"
      /\ "budget_exhausted" \in Outcomes \ Snapshots
  BY DEF TerminalRunStatuses, Outcomes, StopOutcomes, Snapshots
<1>5. LoopFits(m, fresh) /\ Patient(m) /\ Succeeds(Live, m, fresh) /\ Live.steps <= m.steps
  BY <1>2, <1>3, <1>4, EndedFits
<1> HIDE DEF m
<1> QED
  BY <1>1, <1>4, <1>5, TalkKeeps

\* A step that gives up: what it has planned ends as failed.
LEMMA FailureKeeps ==
    ASSUME Inv, InBudget, NEW m, LoopFits(m, fresh), Succeeds(Live, m, fresh), m.steps = Live.steps,
           NEW outcome \in {"failed", "deny_loop"},
           Reply(Record(DeclareTerminal(m, "failed"), outcome), Draft, outcome),
           db' = db, faults' = faults, ran' = ran, fresh' = fresh
    PROVE  Inv'
<1> DEFINE r == Record(DeclareTerminal(m, "failed"), outcome)
<1>1. Advancing /\ fresh \in Nat /\ Live.steps \in Nat
  BY LiveFits
<1>2. /\ "failed" \in TerminalRunStatuses /\ "failed" # "completed" /\ outcome # "denied"
      /\ outcome \in Outcomes \ Snapshots
  BY DEF TerminalRunStatuses, Outcomes, StopOutcomes, Snapshots
<1>3. LoopFits(r, fresh) /\ Patient(r) /\ Succeeds(Live, r, fresh) /\ Live.steps <= r.steps
  BY <1>1, <1>2, EndedFits
<1>4. Reply(r, Draft, outcome)
  OBVIOUS
<1> HIDE DEF r
<1> QED
  BY <1>1, <1>2, <1>3, <1>4, TalkKeeps

LEMMA StepFailsToPlanKeeps ==
    ASSUME Inv, StepFailsToPlan
    PROVE  Inv'
<1>1. InBudget /\ db' = db /\ faults' = faults /\ ran' = ran /\ fresh' = fresh
  BY DEF StepFailsToPlan, counters
<1>2. LoopFits(Live, fresh) /\ Live.gate = 0 /\ fresh \in Nat /\ Succeeds(Live, Live, fresh)
  BY <1>1, LiveFits
<1>3. PICK q \in PlansFor(Live) :
        \/ Reply(Record(DeclareTerminal(Live, "failed"), "failed"), Draft, "failed")
        \/ Reply(Record(DeclareTerminal(Planned(Live, q), "failed"), "failed"), Draft, "failed")
  BY DEF StepFailsToPlan
<1>4. CASE Reply(Record(DeclareTerminal(Live, "failed"), "failed"), Draft, "failed")
  BY <1>1, <1>2, <1>4, FailureKeeps
<1>5. CASE Reply(Record(DeclareTerminal(Planned(Live, q), "failed"), "failed"), Draft, "failed")
  <2>1. q \in Plans /\ (Live.plan # NoPlan => q = Live.plan)
    BY <1>2, <1>3 DEF PlansFor, LoopFits, Loop
  <2> DEFINE m == Planned(Live, q)
  <2>2. LoopFits(m, fresh) /\ m.steps = Live.steps /\ Succeeds(Live, m, fresh)
    BY <1>2, <2>1, PlannedFits
  <2>3. Reply(Record(DeclareTerminal(m, "failed"), "failed"), Draft, "failed")
    BY <1>5
  <2> HIDE DEF m
  <2> QED
    BY <1>1, <2>2, <2>3, FailureKeeps
<1> QED
  BY <1>3, <1>4, <1>5

\* A step that drops its plan.
LEMMA ReplanKeeps ==
    ASSUME Inv, InBudget, NEW m \in PlannedLoops,
           Reply(Record(Invalidated(m), "replanned"), Draft, "replanned"),
           db' = db, faults' = faults, ran' = ran, fresh' = fresh
    PROVE  Inv'
<1> DEFINE i == Invalidated(m)
           r == Record(i, "replanned")
<1>1. Advancing /\ fresh \in Nat /\ Live.steps \in Nat /\ Live.steps < MaxSteps
  BY LiveFits
<1>2. LoopFits(m, fresh) /\ m.plan # NoPlan /\ m.gate = 0
      /\ m.steps = Live.steps /\ Succeeds(Live, m, fresh)
  BY PlannedLoopsFit
<1>3. LoopFits(i, fresh) /\ i.steps = m.steps + 1 /\ Succeeds(m, i, fresh)
  BY <1>1, <1>2, InvalidatedFits
<1>4. Reply(r, Draft, "replanned")
  OBVIOUS
<1> HIDE DEF i
<1>5. LoopFits(r, fresh) /\ Patient(r) /\ r.steps = i.steps /\ Succeeds(i, r, fresh)
  BY <1>1, <1>3, RecordedFits
<1>6. Succeeds(Live, r, fresh)
  BY <1>2, <1>3, <1>5, SucceedsTwice
<1>7. Live.steps <= r.steps /\ "replanned" \in Outcomes \ Snapshots
  BY <1>1, <1>2, <1>3, <1>5 DEF Outcomes, Snapshots
<1> HIDE DEF r
<1> QED
  BY <1>1, <1>4, <1>5, <1>6, <1>7, TalkKeeps

LEMMA StepIsStuckKeeps ==
    ASSUME Inv, StepIsStuck
    PROVE  Inv'
<1>1. InBudget /\ db' = db /\ faults' = faults /\ ran' = ran /\ fresh' = fresh
  BY DEF StepIsStuck, counters
<1>2. PICK m \in PlannedLoops : Reply(Record(Invalidated(m), "replanned"), Draft, "replanned")
  BY DEF StepIsStuck
<1> QED
  BY <1>1, <1>2, ReplanKeeps

LEMMA StepReplansKeeps ==
    ASSUME Inv, StepReplans
    PROVE  Inv'
<1>1. InBudget /\ db' = db /\ faults' = faults /\ ran' = ran /\ fresh' = fresh
  BY DEF StepReplans, counters
<1>2. PICK m \in Deciding : Reply(Record(Invalidated(m), "replanned"), Draft, "replanned")
  BY DEF StepReplans
<1>3. m \in PlannedLoops
  BY DEF Deciding
<1> QED
  BY <1>1, <1>2, <1>3, ReplanKeeps

LEMMA StepRefusesActionKeeps ==
    ASSUME Inv, StepRefusesAction
    PROVE  Inv'
<1>1. InBudget /\ db' = db /\ faults' = faults /\ ran' = ran /\ fresh' = fresh
  BY DEF StepRefusesAction, counters
<1>2. PICK m \in Deciding : Reply(Record(DeclareTerminal(m, "failed"), "failed"), Draft, "failed")
  BY DEF StepRefusesAction
<1>3. LoopFits(m, fresh) /\ m.steps = Live.steps /\ Succeeds(Live, m, fresh)
  BY <1>1, PlannedLoopsFit DEF Deciding
<1> QED
  BY <1>1, <1>2, <1>3, FailureKeeps

LEMMA StepIsDeniedKeeps ==
    ASSUME Inv, StepIsDenied
    PROVE  Inv'
<1>1. InBudget /\ db' = db /\ faults' = faults /\ ran' = ran /\ fresh' = fresh
  BY DEF StepIsDenied, counters
<1>2. PICK m \in Deciding :
        LET n == Record(m, "denied")
        IN IF InDenyLoop(n)
           THEN Reply(Record(DeclareTerminal(n, "failed"), "deny_loop"), Draft, "deny_loop")
           ELSE Reply(n, Draft, "denied")
  BY DEF StepIsDenied
<1> DEFINE n == Record(m, "denied")
<1>3. /\ LoopFits(m, fresh) /\ m.gate = 0 /\ m.steps = Live.steps /\ Succeeds(Live, m, fresh)
      /\ m \in Loop(fresh) /\ Lawful(m) /\ fresh \in Nat /\ Live.steps \in Nat
  BY <1>1, PlannedLoopsFit, LiveFits DEF Deciding, LoopFits
<1>4. n = [m EXCEPT !.denials = m.denials + 1]
  BY DEF Record
<1>5. CASE InDenyLoop(n)
  <2>1. Record(DeclareTerminal(n, "failed"), "deny_loop") = Record(DeclareTerminal(m, "failed"), "deny_loop")
    <3>1. DeclareTerminal(n, "failed") = [m EXCEPT !.denials = m.denials + 1, !.status = "failed"]
      BY <1>3, <1>4 DEF DeclareTerminal, Loop
    <3>2. DeclareTerminal(m, "failed") = [m EXCEPT !.status = "failed"]
      BY DEF DeclareTerminal
    <3>3. \A x : Record(x, "deny_loop") = [x EXCEPT !.denials = 0]
      BY DEF Record
    <3>4. [[m EXCEPT !.denials = m.denials + 1, !.status = "failed"] EXCEPT !.denials = 0]
            = [[m EXCEPT !.status = "failed"] EXCEPT !.denials = 0]
      BY <1>3 DEF Loop
    <3> QED
      BY <3>1, <3>2, <3>3, <3>4
  <2>2. Reply(Record(DeclareTerminal(m, "failed"), "deny_loop"), Draft, "deny_loop")
    BY <1>2, <1>5, <2>1
  <2> QED
    BY <1>1, <1>3, <2>2, FailureKeeps
<1>6. CASE ~InDenyLoop(n)
  <2>1. Reply(n, Draft, "denied")
    BY <1>2, <1>6
  <2>2. n.book = m.book /\ n.invalid = m.invalid /\ n.failures = m.failures /\ n.gate = 0
        /\ n.steps = m.steps /\ n.plan = m.plan /\ n.created = m.created
        /\ n.status = m.status /\ n.current = m.current /\ n.denials = m.denials + 1
    BY <1>3, <1>4 DEF Loop
  <2>3. m.denials \in Denials /\ Denials \subseteq Nat
    <3>1. m.denials \in Denials
      BY <1>3 DEF Loop
    <3> QED
      BY <3>1, AgentRunAssumption DEF Denials
  <2>4. m.denials + 1 \in Denials
    <3>1. m.denials + 1 < MaxDenials
      <4> HIDE DEF n
      <4>1. ~(m.denials + 1 >= MaxDenials)
        BY <1>6, <2>2 DEF InDenyLoop
      <4>2. m.denials \in Nat /\ MaxDenials \in Nat
        BY <2>3, AgentRunAssumption
      <4> QED
        BY <4>1, <4>2
    <3> QED
      BY <2>3, <3>1, AgentRunAssumption DEF Denials
  <2>5. n \in Loop(fresh)
    BY <1>3, <1>4, <2>4 DEF Loop
  <2>6. Lawful(n)
    BY <1>3, <2>2 DEF Lawful
  <2>7. Work(n) = Work(m)
    BY <2>2 DEF Work
  <2>8. Succeeds(m, n, fresh) /\ Patient(n)
    BY <2>2, <2>7 DEF Succeeds, Flawless, Patient
  <2> HIDE DEF n
  <2>9. LoopFits(n, fresh) /\ Succeeds(Live, n, fresh) /\ Live.steps <= n.steps
        /\ "denied" \in Outcomes \ Snapshots
    BY <1>3, <2>2, <2>5, <2>6, <2>8, SucceedsTwice DEF LoopFits, Outcomes, Snapshots
  <2>10. Advancing
    BY <1>1 DEF InBudget, Free
  <2> QED
    BY <1>1, <2>1, <2>8, <2>9, <2>10, TalkKeeps
<1> QED
  BY <1>5, <1>6

\* A step that suspends the loop leaves its snapshot and its gate in the draft.
LEMMA SuspendKeeps ==
    ASSUME Inv, InBudget, MaySubmit, NEW m \in PlannedLoops, NEW action \in {"call", "finish"},
           action = "finish" => ~m.failures,
           NEW u, u = SuspendedTables(Draft, NextId, action),
           NEW n, n = SuspendedLoop(m, u, NextId),
           Reply(Record(n, "waiting_approval"), [u EXCEPT !.snap = n], "waiting_approval"),
           fresh' = NextId, db' = db, faults' = faults, ran' = ran
    PROVE  Inv'
<1> DEFINE r == Record(n, "waiting_approval")
           v == [u EXCEPT !.snap = n]
<1>1. /\ Advancing /\ fresh \in Nat /\ Live.steps \in Nat /\ Live.steps < MaxSteps
      /\ RowsFit(Draft, fresh)
  BY LiveFits DEF Sees, TablesFit
<1>2. /\ LoopFits(m, fresh) /\ m.plan # NoPlan /\ m.gate = 0
      /\ m.steps = Live.steps /\ Succeeds(Live, m, fresh)
  BY PlannedLoopsFit
<1>3. NextId = fresh + 1 /\ fresh + 1 <= MaxExecutions /\ fresh + 1 \in Nat
  BY <1>1, AgentRunAssumption DEF NextId, MaySubmit
<1>4. /\ RowsFit(u, fresh + 1) /\ Follows(Draft, u, fresh)
      /\ fresh + 1 \in DOMAIN u.approvals /\ u.approvals[fresh + 1].action = action
      /\ u.execs[fresh + 1].status = "suspended"
  BY <1>1, <1>3, SuspendedRowsFit
<1>5. /\ LoopFits(n, fresh + 1) /\ n.steps = m.steps /\ n.gate = fresh + 1 /\ n.failures = m.failures
      /\ Succeeds(m, n, fresh)
  BY <1>1, <1>2, <1>3, SuspendedFits
<1>6. /\ LoopFits(r, fresh + 1) /\ Patient(r) /\ r.steps = n.steps /\ r.failures = n.failures
      /\ r.gate = n.gate /\ Succeeds(n, r, fresh)
  BY <1>1, <1>3, <1>5, RecordedFits
<1>7. /\ RowsFit(v, fresh + 1) /\ v.snap = n /\ Follows(u, v, fresh)
      /\ v.execs = u.execs /\ v.approvals = u.approvals
  BY <1>3, <1>4, SnapRowsFit
<1>8. Reply(r, v, "waiting_approval")
  OBVIOUS
<1> HIDE DEF r, v
<1>9. Succeeds(Live, r, fresh) /\ Follows(Draft, v, fresh)
  BY <1>2, <1>4, <1>5, <1>6, <1>7, SucceedsTwice, FollowsTwice
<1>10. SnapFits(v, fresh + 1)
  BY <1>5, <1>7 DEF SnapFits
<1>11. Accounts(r, v, fresh)
  BY <1>4, <1>5, <1>6, <1>7 DEF Accounts, Unproven
<1>12. Answers(Live, Draft, r, v, fresh')
  BY <1>3, <1>6, <1>7, <1>9, <1>10, <1>11 DEF Answers
<1>13. "waiting_approval" \in Outcomes /\ "waiting_approval" \in Snapshots /\ Live.steps <= r.steps
  BY <1>1, <1>2, <1>5, <1>6 DEF Outcomes, StopOutcomes, Snapshots
<1>14. ~CannotBeCaptured(r)
  BY <1>1, <1>5, <1>6 DEF CannotBeCaptured
<1> QED
  BY <1>1, <1>8, <1>12, <1>13, <1>14, ReplyKeeps

LEMMA StepSuspendsKeeps ==
    ASSUME Inv, StepSuspends
    PROVE  Inv'
<1>1. InBudget /\ MaySubmit /\ fresh' = NextId /\ db' = db /\ faults' = faults /\ ran' = ran
  BY DEF StepSuspends
<1>2. PICK m \in Deciding :
        LET u == SuspendedTables(Draft, NextId, "call")
            n == SuspendedLoop(m, u, NextId)
        IN Reply(Record(n, "waiting_approval"), [u EXCEPT !.snap = n], "waiting_approval")
  BY DEF StepSuspends
<1>3. m \in PlannedLoops
  BY DEF Deciding
<1> QED
  BY <1>1, <1>2, <1>3, SuspendKeeps

LEMMA StepFinishesKeeps ==
    ASSUME Inv, StepFinishes
    PROVE  Inv'
<1>1. InBudget /\ db' = db /\ faults' = faults /\ ran' = ran
  BY DEF StepFinishes
<1>2. PICK m \in Deciding :
         /\ MayFinish(m)
         /\ \/ Reply(Record(DeclareTerminal(m, "completed"), "finished"), Draft, "finished") /\ UNCHANGED fresh
            \/ Reply(Record(DeclareTerminal(m, "failed"), "failed"), Draft, "failed") /\ UNCHANGED fresh
            \/ /\ MaySubmit /\ fresh' = NextId
               /\ LET u == SuspendedTables(Draft, NextId, "finish")
                      n == SuspendedLoop(m, u, NextId)
                  IN Reply(Record(n, "waiting_approval"), [u EXCEPT !.snap = n], "waiting_approval")
  BY DEF StepFinishes
<1>3. m \in PlannedLoops /\ ~m.failures
  BY <1>2 DEF Deciding, MayFinish
<1>4. /\ LoopFits(m, fresh) /\ m.steps = Live.steps /\ Succeeds(Live, m, fresh)
      /\ Advancing /\ fresh \in Nat /\ Live.steps \in Nat
  BY <1>1, <1>3, PlannedLoopsFit, LiveFits
<1>5. CASE Reply(Record(DeclareTerminal(m, "completed"), "finished"), Draft, "finished") /\ UNCHANGED fresh
  <2> DEFINE r == Record(DeclareTerminal(m, "completed"), "finished")
  <2>1. "completed" \in TerminalRunStatuses /\ "finished" # "denied" /\ "finished" \in Outcomes \ Snapshots
    BY DEF TerminalRunStatuses, Outcomes, StopOutcomes, Snapshots
  <2>2. LoopFits(r, fresh) /\ Patient(r) /\ Succeeds(Live, r, fresh) /\ Live.steps <= r.steps
    BY <1>3, <1>4, <2>1, EndedFits
  <2>3. Reply(r, Draft, "finished") /\ fresh' = fresh
    BY <1>5
  <2> HIDE DEF r
  <2> QED
    BY <1>1, <1>4, <2>1, <2>2, <2>3, TalkKeeps
<1>6. CASE Reply(Record(DeclareTerminal(m, "failed"), "failed"), Draft, "failed") /\ UNCHANGED fresh
  BY <1>1, <1>4, <1>6, FailureKeeps
<1>7. CASE /\ MaySubmit /\ fresh' = NextId
           /\ LET u == SuspendedTables(Draft, NextId, "finish")
                  n == SuspendedLoop(m, u, NextId)
              IN Reply(Record(n, "waiting_approval"), [u EXCEPT !.snap = n], "waiting_approval")
  BY <1>1, <1>3, <1>7, SuspendKeeps
<1> QED
  BY <1>2, <1>5, <1>6, <1>7

\* A call that is carried out: a step of the budget, and what the kernel has of it.
LEMMA CallAnswers ==
    ASSUME NEW n \in Nat, NEW l, NEW g, LoopFits(g, n), g.gate = 0, g.plan # NoPlan, g.steps < MaxSteps,
           Succeeds(l, g, n),
           NEW t, NEW v, RowsFit(v, n), SnapFits(v, n), Follows(t, v, n),
           NEW outcome \in {"completed", "failed", "retrying"},
           NEW r, NEW u, u = Submitted(v, n + 1, "call", StatusAfter(outcome)),
           r = Record(ExecutedLoop(g, v, n + 1, outcome), Executed(outcome))
    PROVE  /\ LoopFits(r, n + 1) /\ Patient(r) /\ Succeeds(l, r, n)
           /\ RowsFit(u, n + 1) /\ SnapFits(u, n + 1) /\ u.snap = v.snap /\ Follows(t, u, n)
           /\ Accounts(r, u, n) /\ r.steps = g.steps + 1
<1> DEFINE x == ExecutedLoop(g, v, n + 1, outcome)
<1>1. /\ LoopFits(x, n + 1) /\ x.steps = g.steps + 1 /\ x.gate = 0
      /\ Flawless(x) => outcome = "completed"
      /\ Succeeds(g, x, n)
  BY ExecutedFits
<1> HIDE DEF x
<1>2. Executed(outcome) # "denied" /\ n + 1 \in Nat
  BY DEF Executed
<1>3. r = Record(x, Executed(outcome))
  BY DEF x
<1>4. /\ LoopFits(r, n + 1) /\ Patient(r) /\ r.steps = x.steps /\ r.gate = x.gate
      /\ Succeeds(x, r, n)
  BY <1>1, <1>2, <1>3, RecordedFits
<1>5. Succeeds(l, r, n)
  BY <1>1, <1>4, SucceedsTwice
<1>6. StatusAfter(outcome) \in TerminalExecutionStatuses \cup {"pending", "suspended"}
  BY DEF StatusAfter, TerminalExecutionStatuses
<1>7. /\ RowsFit(u, n + 1) /\ u.snap = v.snap /\ Follows(v, u, n)
      /\ u.execs[n + 1].status = StatusAfter(outcome)
  BY <1>6, SubmittedFits
<1>8. Follows(t, u, n)
  BY <1>7, FollowsTwice
<1>9. SnapFits(u, n + 1)
  BY <1>7, FitsOn DEF SnapFits
<1>10. Accounts(r, u, n)
  <2>1. Flawless(r) => outcome = "completed"
    BY <1>1, <1>4 DEF Succeeds
  <2> QED
    BY <1>1, <1>4, <1>7, <2>1 DEF Accounts, StatusAfter, Unproven
<1> QED
  BY <1>1, <1>4, <1>5, <1>7, <1>8, <1>9, <1>10

LEMMA StepExecutesKeeps ==
    ASSUME Inv, StepExecutes
    PROVE  Inv'
<1>1. InBudget /\ MaySubmit /\ fresh' = NextId /\ db' = db /\ faults' = faults /\ ran' = ran + 1
  BY DEF StepExecutes
<1>2. PICK m \in Deciding, outcome \in {"completed", "failed", "retrying"} :
         Reply(Record(ExecutedLoop(m, Draft, NextId, outcome), Executed(outcome)),
               Submitted(Draft, NextId, "call", StatusAfter(outcome)), Executed(outcome))
  BY DEF StepExecutes
<1>3. /\ LoopFits(m, fresh) /\ m.plan # NoPlan /\ m.gate = 0 /\ m.steps = Live.steps /\ Succeeds(Live, m, fresh)
      /\ Advancing /\ fresh \in Nat /\ Live.steps \in Nat /\ Live.steps < MaxSteps
      /\ RowsFit(Draft, fresh) /\ SnapFits(Draft, fresh)
  BY <1>1, PlannedLoopsFit, LiveFits DEF Deciding, Sees, TablesFit
<1>4. NextId = fresh + 1 /\ fresh + 1 <= MaxExecutions
  BY <1>1, <1>3, AgentRunAssumption DEF NextId, MaySubmit
<1> DEFINE r == Record(ExecutedLoop(m, Draft, fresh + 1, outcome), Executed(outcome))
           u == Submitted(Draft, fresh + 1, "call", StatusAfter(outcome))
<1>5. Reply(r, u, Executed(outcome))
  BY <1>2, <1>4
<1>6. Follows(Draft, Draft, fresh)
  BY DEF Follows
<1>7. /\ LoopFits(r, fresh + 1) /\ Patient(r) /\ Succeeds(Live, r, fresh)
      /\ RowsFit(u, fresh + 1) /\ SnapFits(u, fresh + 1) /\ u.snap = Draft.snap /\ Follows(Draft, u, fresh)
      /\ Accounts(r, u, fresh) /\ r.steps = m.steps + 1
  BY <1>3, <1>6, CallAnswers
<1> HIDE DEF r, u
<1>8. Answers(Live, Draft, r, u, fresh')
  BY <1>1, <1>4, <1>7 DEF Answers
<1>9. Executed(outcome) \in Outcomes \ Snapshots /\ r.steps = Live.steps + 1 /\ fresh' = fresh + 1
  BY <1>1, <1>3, <1>4, <1>7 DEF Executed, Outcomes, Snapshots
<1> QED
  BY <1>1, <1>3, <1>5, <1>7, <1>8, <1>9, ReplyKeeps

-----------------------------------------------------------------------------
(* Requests that begin, and those that do all their work at once. *)

LEMMA StartRunKeeps ==
    ASSUME Inv, NEW p \in Replicas, StartRun(p)
    PROVE  Inv'
<1>1. PICK status \in {"created", "failed"} : mem' = [mem EXCEPT ![p] = [NewLoop EXCEPT !.status = status]]
  BY DEF StartRun
<1>2. /\ req = NoRequest /\ mem[p] = NoLoop
      /\ db' = db /\ req' = req /\ fresh' = fresh /\ ran' = ran /\ faults' = faults
      /\ fresh \in Nat
  BY DEF StartRun, Inv, Counts, counters
<1> DEFINE m == [NewLoop EXCEPT !.status = status]
<1>3. LoopFits(m, fresh) /\ Patient(m) /\ Work(m) = {} /\ m.gate = 0
  BY <1>2, NewLoopFits
<1>4. mem' = [mem EXCEPT ![p] = m]
  BY <1>1
<1> HIDE DEF m
<1>5. Agrees(m, db) /\ Knows(m, db)
  BY <1>3 DEF Agrees, Knows
<1> QED
  BY <1>2, <1>3, <1>4, <1>5, LoadKeeps

LEMMA GetRunKeeps ==
    ASSUME Inv, NEW p \in Replicas, GetRun(p)
    PROVE  Inv'
<1>1. /\ req = NoRequest /\ mem[p] = NoLoop /\ Loadable /\ mem' = [mem EXCEPT ![p] = Restored(db)]
      /\ db' = db /\ req' = req /\ fresh' = fresh /\ ran' = ran /\ faults' = faults
  BY DEF GetRun, counters
<1>2. Sees(p, Stack(p), db) /\ Patient(Stack(p)) /\ Stack(p) = Restored(db)
  BY <1>1, StackSees DEF Stack
<1>3. LoopFits(Stack(p), fresh) /\ Agrees(Stack(p), db) /\ Knows(Stack(p), db)
  BY <1>2 DEF Sees
<1> QED
  BY <1>1, <1>2, <1>3, LoadKeeps

LEMMA BeginAdvanceKeeps ==
    ASSUME Inv, NEW p \in Replicas, BeginAdvance(p)
    PROVE  Inv'
<1>1. PICK job \in {"step", "run"} : Begin(p, job)
  BY DEF BeginAdvance
<1>2. /\ mem[p] # NoLoop \/ Loadable
      /\ mem' = [mem EXCEPT ![p] = Stack(p)]
      /\ req' = [by |-> p, job |-> job, draft |-> db, out |-> "none"]
      /\ db' = db /\ fresh' = fresh /\ ran' = ran /\ faults' = faults
  BY <1>1 DEF Begin, BeginAdvance, counters
<1>3. Sees(p, Stack(p), db) /\ Patient(Stack(p)) /\ fresh \in Nat /\ fresh <= MaxExecutions
  BY <1>2, StackSees, AgentRunAssumption DEF Inv, Counts
<1>4. RowsFit(db, fresh) /\ SnapFits(db, fresh) /\ LoopFits(Stack(p), fresh)
  BY <1>3 DEF Sees, TablesFit
<1>5. Succeeds(Stack(p), Stack(p), fresh) /\ Follows(db, db, fresh) /\ Accounts(Stack(p), db, fresh)
  BY <1>3, <1>4 DEF Succeeds, Follows, Accounts, RowsFit
<1>6. Answers(Stack(p), db, Stack(p), db, fresh')
  BY <1>2, <1>3, <1>4, <1>5 DEF Answers
<1>7. Stack(p).steps <= Stack(p).steps /\ "none" \in Outcomes \ Snapshots
  BY <1>3, <1>4, LoopsAreLoops DEF Outcomes, Snapshots
<1> QED
  BY <1>2, <1>3, <1>6, <1>7, ServeKeeps

LEMMA CancelRunKeeps ==
    ASSUME Inv, NEW p \in Replicas, CancelRun(p)
    PROVE  Inv'
<1> DEFINE l == Stack(p)
<1>1. /\ mem[p] # NoLoop \/ Loadable
      /\ db' = db /\ fresh' = fresh /\ ran' = ran /\ faults' = faults
  BY DEF CancelRun, MayCancel, counters
<1>2. Sees(p, l, db) /\ Patient(l) /\ fresh \in Nat /\ fresh <= MaxExecutions
  BY <1>1, StackSees, AgentRunAssumption DEF Inv, Counts
<1>3. RowsFit(db, fresh) /\ SnapFits(db, fresh) /\ LoopFits(l, fresh) /\ Knows(l, db) /\ l.steps \in Nat
  BY <1>2, LoopsAreLoops DEF Sees, TablesFit
<1>4. CASE /\ CancelPasses(p, l, db)
           /\ mem' = [mem EXCEPT ![p] = Record(CancelledLoop(l), "cancelled")]
           /\ req' = [by |-> p, job |-> "cancel", out |-> "cancelled",
                      draft |-> CancelledTables(p, l, db)]
  <2> DEFINE m == Record(CancelledLoop(l), "cancelled")
             u == CancelledTables(p, l, db)
  <2>1. /\ mem' = [mem EXCEPT ![p] = m]
        /\ req' = [by |-> p, job |-> "cancel", draft |-> u, out |-> "cancelled"]
        /\ CanCancel(l, db) /\ ~CannotBeCaptured(m)
    BY <1>2, <1>3, <1>4, CancelledIsCaptured DEF CancelPasses
  <2>2. /\ LoopFits(CancelledLoop(l), fresh) /\ CancelledLoop(l).steps = l.steps
        /\ CancelledLoop(l).gate = 0 /\ Succeeds(l, CancelledLoop(l), fresh)
    BY <1>2, <1>3, CancelledFits
  <2>3. LoopFits(m, fresh) /\ Patient(m) /\ m.steps = l.steps /\ m.gate = 0
        /\ Succeeds(CancelledLoop(l), m, fresh)
    BY <1>2, <2>2, RecordedFits
  <2>4. RowsFit(u, fresh) /\ u.snap = CancelledLoop(l) /\ Follows(db, u, fresh)
    BY <1>2, <1>3, <2>1, CancelledRowsFit
  <2> HIDE DEF m, u
  <2>5. Succeeds(l, m, fresh)
    BY <2>2, <2>3, SucceedsTwice
  <2>6. SnapFits(u, fresh) /\ Accounts(m, u, fresh)
    BY <1>2, <2>2, <2>3, <2>4 DEF SnapFits, Accounts, RowsFit
  <2>7. Answers(l, db, m, u, fresh')
    BY <1>1, <1>2, <2>3, <2>4, <2>5, <2>6 DEF Answers
  <2>8. l.steps <= m.steps /\ "cancelled" \in Outcomes /\ "cancelled" \in Snapshots /\ "cancel" # "decide"
    BY <1>3, <2>3 DEF Outcomes, StopOutcomes, Snapshots
  <2> HIDE DEF l
  <2> QED
    BY <1>1, <1>2, <2>1, <2>7, <2>8, ServeKeeps
<1> DEFINE v == Asked
<1>5. RowsFit(v, fresh) /\ v.snap = db.snap /\ v.approvals = db.approvals /\ Follows(db, v, fresh)
  <2> DEFINE w == [db EXCEPT !.intent = "requested"]
  <2>1. RowsFit(w, fresh) /\ w.snap = db.snap /\ Follows(db, w, fresh)
    BY <1>2, <1>3, IntentRowsFit
  <2>2. w.approvals = db.approvals /\ Follows(db, db, fresh)
    BY <1>3 DEF RowsFit, Follows
  <2> QED
    BY <1>3, <2>1, <2>2 DEF Asked
<1>6. "refused" \in Outcomes \ Snapshots /\ "cancel" # "decide"
  BY DEF Outcomes, StopOutcomes, Snapshots
<1> HIDE DEF v
<1>7. CASE /\ CancelIsRefused(p, l, db)
           /\ mem' = [mem EXCEPT ![p] = NoGate(l)]
           /\ req' = [by |-> p, job |-> "cancel", out |-> "refused", draft |-> AtTheGate(l, v)]
  <2> DEFINE m == NoGate(l)
             u == AtTheGate(l, v)
  <2>1. /\ mem' = [mem EXCEPT ![p] = m]
        /\ req' = [by |-> p, job |-> "cancel", draft |-> u, out |-> "refused"]
    BY <1>7
  <2>2. Knows(l, v) /\ CanCancel(l, v)
    BY <1>3, <1>5, <1>7 DEF CancelIsRefused, Knows, CanCancel, Decidable
  <2>3. LoopFits(m, fresh) /\ Patient(m) /\ m.steps = l.steps /\ m.gate = 0 /\ Succeeds(l, m, fresh)
    BY <1>2, <1>3, NoGateFits
  <2>4. RowsFit(u, fresh) /\ u.snap = v.snap /\ Follows(v, u, fresh)
    BY <1>2, <1>5, <2>2, AtTheGateFits
  <2> HIDE DEF m, u
  <2>5. SnapFits(u, fresh) /\ Accounts(m, u, fresh) /\ Follows(db, u, fresh)
    BY <1>2, <1>3, <1>5, <2>3, <2>4, FollowsTwice DEF SnapFits, Accounts, RowsFit
  <2>6. Answers(l, db, m, u, fresh')
    BY <1>1, <1>2, <2>3, <2>4, <2>5 DEF Answers
  <2>7. l.steps <= m.steps /\ u.snap = db.snap
    BY <1>3, <1>5, <2>3, <2>4
  <2> HIDE DEF l
  <2> QED
    BY <1>1, <1>2, <1>6, <2>1, <2>6, <2>7, ServeKeeps
<1>8. CASE /\ mem' = [mem EXCEPT ![p] = l]
           /\ req' = [by |-> p, job |-> "cancel", out |-> "refused", draft |-> v]
  <2>1. SnapFits(v, fresh) /\ Accounts(l, v, fresh) /\ Succeeds(l, l, fresh)
    BY <1>2, <1>3, <1>5, WorkIsKnown DEF SnapFits, Accounts, Succeeds
  <2>2. Answers(l, db, l, v, fresh')
    BY <1>1, <1>2, <1>3, <1>5, <2>1 DEF Answers
  <2>3. /\ l.steps <= l.steps
        /\ req' = [by |-> p, job |-> "cancel", draft |-> v, out |-> "refused"]
    BY <1>3, <1>8
  <2> HIDE DEF l
  <2> QED
    BY <1>1, <1>2, <1>5, <1>6, <1>8, <2>2, <2>3, ServeKeeps
<1> QED
  BY <1>4, <1>7, <1>8 DEF CancelRun, v

\* A decision: the approval, its gate, and what was suspended, in one request.
LEMMA DecideKeeps ==
    ASSUME Inv, NEW p \in Replicas, Decide(p)
    PROVE  Inv'
<1> DEFINE l == Stack(p)
           g == NoGate(l)
<1>1. mem[p] # NoLoop \/ Loadable
  BY DEF Decide, MayDecide
<1>2. PICK e \in DOMAIN db.approvals :
         /\ Decidable(db, e) /\ l.gate = e
         /\ Approve(p, e, l) \/ Reject(p, e, l) \/ DecisionIsRefused(p, e, l)
  BY DEF Decide, MayDecide
<1>3. db' = db /\ faults' = faults
  BY DEF Decide
<1>4. Sees(p, l, db) /\ Patient(l) /\ fresh \in Nat /\ fresh <= MaxExecutions
  BY <1>1, StackSees, AgentRunAssumption DEF Inv, Counts
<1>5. /\ RowsFit(db, fresh) /\ SnapFits(db, fresh) /\ LoopFits(l, fresh) /\ l.steps \in Nat
      /\ Agrees(l, db)
  BY <1>4, LoopsAreLoops DEF Sees, TablesFit
<1>6. e \in Nat \ {0} /\ l.gate # 0
  <2>1. DOMAIN db.approvals \subseteq 1..fresh
    BY <1>5 DEF RowsFit
  <2> QED
    BY <1>2, <1>4, <2>1
<1> HIDE DEF l
<1>7. /\ LoopFits(g, fresh) /\ g.steps = l.steps /\ g.plan = l.plan
      /\ g.failures = l.failures /\ g.gate = 0 /\ Succeeds(l, g, fresh)
  BY <1>4, <1>5, NoGateFits
<1>8. l.steps < MaxSteps /\ l.plan # NoPlan
  BY <1>5, <1>6 DEF LoopFits, Lawful
<1> HIDE DEF g
<1>9. ASSUME Approve(p, e, l)
      PROVE  Inv'
  <2> DEFINE v == Decided(p, db, e, "approved", "completed")
  <2>1. "approved" \in ApprovalStatuses /\ "approved" # "pending" /\ v = Decided(p, db, e, "approved", "completed")
    BY DEF ApprovalStatuses
  <2>3. CASE db.approvals[e].action = "finish"
    <3> DEFINE m == Record(DeclareTerminal(g, "completed"), "finished")
    <3>1. /\ mem' = [mem EXCEPT ![p] = m]
          /\ req' = [by |-> p, job |-> "decide", draft |-> v, out |-> "finished"]
          /\ fresh' = fresh /\ ran' = ran
      BY <1>9, <2>3 DEF Approve, g
    <3> HIDE DEF v
    <3>2. RowsFit(v, fresh) /\ v.snap = db.snap /\ Follows(db, v, fresh)
      BY <1>2, <1>4, <1>5, <2>1, DecidedFits
    <3>3. ~g.failures
      BY <1>2, <1>5, <1>6, <1>7, <2>3 DEF Agrees
    <3>4. /\ "completed" \in TerminalRunStatuses /\ "finished" # "denied"
          /\ "finished" \in Outcomes \ Snapshots
      BY DEF TerminalRunStatuses, Outcomes, StopOutcomes, Snapshots
    <3>5. l.steps <= g.steps
      BY <1>5, <1>7
    <3>6. LoopFits(m, fresh) /\ Patient(m) /\ Succeeds(l, m, fresh) /\ l.steps <= m.steps
      BY <1>4, <1>7, <3>3, <3>4, <3>5, EndedFits
    <3> HIDE DEF m
    <3>7. SnapFits(v, fresh) /\ Accounts(m, v, fresh)
      BY <1>4, <1>5, <3>2 DEF SnapFits, Accounts, RowsFit
    <3>8. Answers(l, db, m, v, fresh')
      BY <1>4, <3>1, <3>2, <3>6, <3>7 DEF Answers
    <3> QED
      BY <1>3, <1>4, <3>1, <3>2, <3>4, <3>6, <3>8, ServeKeeps
  <2>4. CASE db.approvals[e].action # "finish"
    <3>1. MaySubmit /\ fresh' = NextId /\ ran' = ran + 1
      BY <1>9, <2>4 DEF Approve
    <3>2. NextId = fresh + 1 /\ fresh + 1 <= MaxExecutions
      BY <1>4, <3>1, AgentRunAssumption DEF NextId, MaySubmit
    <3>3. PICK outcome \in {"completed", "failed", "retrying"} :
             /\ mem' = [mem EXCEPT ![p] =
                          Record(ExecutedLoop(g, v, fresh + 1, outcome), Executed(outcome))]
             /\ req' = [by |-> p, job |-> "decide", out |-> Executed(outcome),
                        draft |-> Submitted(v, fresh + 1, "call", StatusAfter(outcome))]
      BY <1>9, <2>4, <3>2 DEF Approve, g
    <3> HIDE DEF v
    <3>4. RowsFit(v, fresh) /\ v.snap = db.snap /\ Follows(db, v, fresh)
      BY <1>2, <1>4, <1>5, <2>1, DecidedFits
    <3>5. SnapFits(v, fresh)
      BY <1>5, <3>4 DEF SnapFits
    <3> DEFINE r == Record(ExecutedLoop(g, v, fresh + 1, outcome), Executed(outcome))
               u == Submitted(v, fresh + 1, "call", StatusAfter(outcome))
    <3>6. /\ LoopFits(r, fresh + 1) /\ Patient(r) /\ Succeeds(l, r, fresh)
          /\ RowsFit(u, fresh + 1) /\ SnapFits(u, fresh + 1) /\ u.snap = v.snap /\ Follows(db, u, fresh)
          /\ Accounts(r, u, fresh) /\ r.steps = g.steps + 1
      BY <1>4, <1>7, <1>8, <3>4, <3>5, CallAnswers
    <3>7. mem' = [mem EXCEPT ![p] = r]
          /\ req' = [by |-> p, job |-> "decide", draft |-> u, out |-> Executed(outcome)]
      BY <3>3
    <3> HIDE DEF r, u
    <3>8. Answers(l, db, r, u, fresh')
      BY <3>1, <3>2, <3>6 DEF Answers
    <3>9. Executed(outcome) \in Outcomes /\ Executed(outcome) \notin Snapshots /\ r.steps = l.steps + 1 /\ fresh' = fresh + 1 /\ u.snap = db.snap
      BY <1>7, <3>1, <3>2, <3>4, <3>6 DEF Executed, Outcomes, Snapshots
    <3> QED
      BY <1>3, <1>4, <3>1, <3>7, <3>8, <3>9, ServeKeeps
  <2> QED
    BY <2>3, <2>4
<1>10. ASSUME Reject(p, e, l)
       PROVE  Inv'
  <2> DEFINE u == Decided(p, db, e, "rejected", "completed")
             m == Record(Synced(NoGate(l), u), "denied")
  <2>1. "rejected" \in ApprovalStatuses /\ "rejected" # "pending" /\ u = Decided(p, db, e, "rejected", "completed")
    BY DEF ApprovalStatuses
  <2>3. /\ mem' = [mem EXCEPT ![p] = m]
        /\ req' = [by |-> p, job |-> "decide", draft |-> u, out |-> "denied"]
        /\ fresh' = fresh /\ ran' = ran
    BY <1>10 DEF Reject
  <2> HIDE DEF u
  <2>4. RowsFit(u, fresh) /\ u.snap = db.snap /\ Follows(db, u, fresh)
    BY <1>2, <1>4, <1>5, <2>1, DecidedFits
  <2>5. LoopFits(m, fresh) /\ Patient(m) /\ m.steps = l.steps /\ m.gate = 0 /\ Succeeds(l, m, fresh)
    BY <1>4, <1>5, <1>6, RejectedFits
  <2> HIDE DEF m
  <2>6. SnapFits(u, fresh) /\ Accounts(m, u, fresh)
    BY <1>4, <1>5, <2>4 DEF SnapFits, Accounts, RowsFit
  <2>7. Answers(l, db, m, u, fresh')
    BY <1>4, <2>3, <2>4, <2>5, <2>6 DEF Answers
  <2>8. l.steps <= m.steps /\ "denied" \in Outcomes /\ "denied" \notin Snapshots
    BY <1>5, <2>5 DEF Outcomes, Snapshots
  <2> QED
    BY <1>3, <1>4, <2>3, <2>4, <2>7, <2>8, ServeKeeps
<1>11. ASSUME DecisionIsRefused(p, e, l)
       PROVE  Inv'
  <2>1. PICK status \in {"approved", "rejected"} :
          req' = [by |-> p, job |-> "decide", draft |-> ApprovalIs(db, e, status), out |-> "refused"]
    BY <1>11 DEF DecisionIsRefused
  <2>2. mem' = [mem EXCEPT ![p] = l] /\ fresh' = fresh /\ ran' = ran
    BY <1>11 DEF DecisionIsRefused
  <2> DEFINE u == ApprovalIs(db, e, status)
  <2>3. status \in ApprovalStatuses /\ status # "pending"
    BY DEF ApprovalStatuses
  <2>4. RowsFit(u, fresh) /\ u.snap = db.snap /\ Follows(db, u, fresh)
    BY <1>4, <1>5, <2>3, ApprovalIsFits
  <2>5. req' = [by |-> p, job |-> "decide", draft |-> u, out |-> "refused"]
    BY <2>1
  <2> HIDE DEF u
  <2>6. SnapFits(u, fresh) /\ Accounts(l, u, fresh) /\ Succeeds(l, l, fresh)
    BY <1>4, <1>5, <2>4, WorkIsKnown DEF SnapFits, Accounts, Succeeds
  <2>7. Answers(l, db, l, u, fresh')
    BY <1>4, <1>5, <2>2, <2>4, <2>6 DEF Answers
  <2>8. l.steps <= l.steps /\ "refused" \in Outcomes \ Snapshots
    BY <1>5 DEF Outcomes, StopOutcomes, Snapshots
  <2> QED
    BY <1>3, <1>4, <2>2, <2>4, <2>5, <2>7, <2>8, ServeKeeps
<1> QED
  BY <1>2, <1>9, <1>10, <1>11

\* A loop whose request fails on its way to a verdict.
LEMMA GateFailsKeeps ==
    ASSUME Inv, NEW p \in Replicas, DecideFails(p) \/ CancelFails(p)
    PROVE  Inv'
<1>1. /\ mem[p] # NoLoop \/ Loadable
      /\ faults < MaxFaults /\ faults' = faults + 1 /\ req = NoRequest /\ req' = req
      /\ db' = db /\ fresh' = fresh /\ ran' = ran
      /\ mem' = [mem EXCEPT ![p] = Stack(p)] \/ mem' = [mem EXCEPT ![p] = NoGate(Stack(p))]
  BY DEF DecideFails, CancelFails, GateFails, MayDecide, MayCancel
<1> DEFINE l == Stack(p)
<1>2. /\ LoopFits(l, fresh) /\ Patient(l) /\ fresh \in Nat
      /\ Agrees(l, db) /\ Knows(l, db) /\ (mem[p] # NoLoop => mem[p].steps <= l.steps)
  <2>1. Sees(p, l, db) /\ Patient(l) /\ fresh \in Nat
    BY <1>1, StackSees
  <2> HIDE DEF l
  <2>2. LoopFits(l, fresh) /\ l.steps \in Nat
    BY <2>1, LoopsAreLoops DEF Sees
  <2> QED
    BY <2>1, <2>2 DEF Sees
<1> HIDE DEF l
<1>3. CASE mem' = [mem EXCEPT ![p] = l]
  BY <1>1, <1>2, <1>3, LoadKeeps
<1>4. CASE mem' = [mem EXCEPT ![p] = NoGate(l)]
  <2>1. /\ LoopFits(NoGate(l), fresh) /\ Patient(NoGate(l)) /\ NoGate(l).steps = l.steps
        /\ Agrees(NoGate(l), db) /\ Knows(NoGate(l), db)
    BY <1>2, LetsGo DEF Inv, TablesFit
  <2> QED
    BY <1>1, <1>2, <1>4, <2>1, LoadKeeps
<1> QED
  BY <1>1, <1>3, <1>4 DEF l

LEMMA StepCancelFailsKeeps ==
    ASSUME Inv, StepCancelFails
    PROVE  Inv'
<1>1. /\ req # NoRequest
      /\ faults < MaxFaults /\ faults' = faults + 1 /\ req' = NoRequest
      /\ db' = db /\ fresh' = fresh /\ ran' = ran
      /\ mem' = [mem EXCEPT ![req.by] = NoGate(Live)]
  BY DEF StepCancelFails, GateFails, Advancing
<1>2. /\ LoopFits(Live, fresh) /\ Patient(Live) /\ fresh \in Nat /\ req.by \in Replicas
      /\ Agrees(Live, db) /\ Knows(Live, db)
  BY <1>1, LiveSees DEF Sees
<1>3. Live.steps \in Nat /\ mem[req.by] = Live
  BY <1>2, LoopsAreLoops DEF Live
<1>4. /\ LoopFits(NoGate(Live), fresh) /\ Patient(NoGate(Live)) /\ NoGate(Live).steps = Live.steps
      /\ Agrees(NoGate(Live), db) /\ Knows(NoGate(Live), db)
  BY <1>2, LetsGo DEF Inv, TablesFit
<1>5. mem[req.by] # NoLoop => mem[req.by].steps <= NoGate(Live).steps
  BY <1>3, <1>4
<1> QED
  BY <1>1, <1>2, <1>4, <1>5, LoadKeeps

-----------------------------------------------------------------------------
(* What is committed. *)

LEMMA CommitKeeps ==
    ASSUME Inv, Commit
    PROVE  Inv'
<1>1. /\ req # NoRequest /\ db' = Saved(req.job, req.out, Draft, Live)
      /\ req' = NoRequest /\ mem' = mem /\ fresh' = fresh /\ ran' = ran /\ faults' = faults
  BY DEF Commit, Over, counters
<1>2. /\ Sees(req.by, Live, Draft) /\ Patient(Live) /\ fresh \in Nat
      /\ req.out \notin Snapshots => Draft.snap = db.snap
  BY <1>1, LiveSees
<1>3. /\ TablesFit(Draft) /\ RowsFit(Draft, fresh) /\ SnapFits(Draft, fresh) /\ CopiesAgree(Draft)
      /\ LoopFits(Live, fresh) /\ Agrees(Live, Draft)
  BY <1>2 DEF Sees, TablesFit
<1>4. CASE (req.job = "decide" \/ req.out = "refused" \/ CannotBeCaptured(Live))
           /\ req.out \notin Snapshots
  <2>1. db' = Draft
    BY <1>1, <1>4 DEF Saved
  <2>2. Draft.snap = db.snap
    BY <1>2, <1>4 DEF Snapshots
  <2>3. Draft.snap # NoLoop => Patient(Draft.snap) /\ Agrees(Draft.snap, Draft)
    BY <1>3, <2>2 DEF Inv, CopiesFit, CopiesAgree
  <2>4. Follows(Draft, Draft, fresh)
    BY DEF Follows
  <2> QED
    BY <1>1, <1>3, <2>1, <2>3, <2>4, WriteKeeps
<1>5. CASE ~(req.job = "decide" \/ req.out = "refused" \/ CannotBeCaptured(Live))
  <2> DEFINE u == [Draft EXCEPT !.snap = Live]
  <2>1. db' = u
    BY <1>1, <1>5 DEF Saved
  <2>2. RowsFit(u, fresh) /\ u.snap = Live /\ Follows(Draft, u, fresh)
    BY <1>2, <1>3, SnapRowsFit
  <2> HIDE DEF u
  <2>3. Agrees(Live, u) /\ SnapFits(u, fresh)
    BY <1>2, <1>3, <2>2, AgreesOn DEF SnapFits
  <2> QED
    BY <1>1, <1>2, <1>3, <2>1, <2>2, <2>3, WriteKeeps
<1>6. (req.job = "decide" => req.out \notin Snapshots)
      /\ (req.out \in Snapshots => ~CannotBeCaptured(Live))
  BY <1>1 DEF Inv, RequestFits, Live
<1>7. "refused" \notin Snapshots
  BY DEF Snapshots
<1> QED
  BY <1>4, <1>5, <1>6, <1>7

LEMMA IntendKeeps ==
    ASSUME Inv, Intend
    PROVE  Inv'
<1> DEFINE u == [db EXCEPT !.intent = "requested"]
<1>1. /\ req = NoRequest /\ db' = u
      /\ req' = req /\ mem' = mem /\ fresh' = fresh /\ ran' = ran /\ faults' = faults
  BY DEF Intend, counters
<1>2. /\ TablesFit(db) /\ RowsFit(db, fresh) /\ SnapFits(db, fresh) /\ CopiesAgree(db) /\ CopiesFit
      /\ fresh \in Nat
  BY DEF Inv, TablesFit, Counts
<1>3. RowsFit(u, fresh) /\ u.snap = db.snap /\ Follows(db, u, fresh)
  BY <1>2, IntentRowsFit
<1> HIDE DEF u
<1>4. SnapFits(u, fresh) /\ (u.snap # NoLoop => Patient(u.snap) /\ Agrees(u.snap, u))
  BY <1>2, <1>3, AgreesOn DEF SnapFits, CopiesFit, CopiesAgree
<1> QED
  BY <1>1, <1>2, <1>3, <1>4, WriteKeeps

LEMMA SweepKeeps ==
    ASSUME Inv, Sweep
    PROVE  Inv'
<1>1. /\ req = NoRequest /\ db.snap # NoLoop
      /\ req' = req /\ mem' = mem /\ fresh' = fresh /\ ran' = ran /\ faults' = faults
  BY DEF Sweep, HasSnapshot, counters
<1>2. /\ TablesFit(db) /\ RowsFit(db, fresh) /\ SnapFits(db, fresh) /\ CopiesAgree(db) /\ CopiesFit
      /\ LoopFits(db.snap, fresh) /\ Patient(db.snap) /\ Agrees(db.snap, db) /\ fresh \in Nat
  BY <1>1 DEF Inv, TablesFit, Counts, SnapFits, CopiesAgree, CopiesFit
<1>3. CASE db' = [db EXCEPT !.intent = "settled"]
  <2> DEFINE u == [db EXCEPT !.intent = "settled"]
  <2>1. db' = u
    BY <1>3
  <2>2. RowsFit(u, fresh) /\ u.snap = db.snap /\ Follows(db, u, fresh)
    BY <1>2, IntentRowsFit
  <2> HIDE DEF u
  <2>3. SnapFits(u, fresh) /\ Patient(u.snap) /\ Agrees(u.snap, u)
    BY <1>2, <2>2, AgreesOn DEF SnapFits
  <2> QED
    BY <1>1, <1>2, <2>1, <2>2, <2>3, WriteKeeps
<1>4. CASE Loadable /\ CancelPasses(Sweeper, Restored(db), db)
           /\ db' = CancelledTables(Sweeper, Restored(db), db)
  <2> DEFINE l == Restored(db)
             u == CancelledTables(Sweeper, l, db)
             m == CancelledLoop(l)
  <2>1. Loadable /\ CanCancel(l, db) /\ db' = u
    BY <1>4 DEF CancelPasses
  <2>2. LoopFits(l, fresh) /\ Patient(l) /\ Agrees(l, db) /\ Knows(l, db)
    BY <1>2, <2>1, RestoredFits DEF Loadable
  <2> HIDE DEF l
  <2>3. RowsFit(u, fresh) /\ u.snap = m /\ Follows(db, u, fresh)
    BY <1>2, <2>1, <2>2, CancelledRowsFit
  <2>4. LoopFits(m, fresh) /\ Patient(m) /\ m.gate = 0 /\ Succeeds(l, m, fresh)
    BY <1>2, <2>2, CancelledFits
  <2> HIDE DEF u, m
  <2>5. Accounts(m, u, fresh) /\ SnapFits(u, fresh)
    BY <1>2, <2>3, <2>4 DEF Accounts, RowsFit, SnapFits
  <2>6. Agrees(m, u)
    BY <1>2, <2>2, <2>3, <2>4, <2>5, AgreesNext
  <2> QED
    BY <1>1, <1>2, <2>1, <2>3, <2>4, <2>5, <2>6, WriteKeeps
<1> QED
  BY <1>3, <1>4 DEF Sweep

LEMMA TimePassesKeeps ==
    ASSUME Inv, TimePasses
    PROVE  Inv'
<1>1. PICK e \in DOMAIN db.approvals :
         Decidable(db, e) /\ db' = [db EXCEPT !.approvals[e].overdue = TRUE]
  BY DEF TimePasses
<1>2. req = NoRequest /\ req' = req /\ mem' = mem /\ fresh' = fresh /\ ran' = ran /\ faults' = faults
  BY DEF TimePasses, counters
<1>3. /\ TablesFit(db) /\ RowsFit(db, fresh) /\ SnapFits(db, fresh) /\ CopiesAgree(db) /\ CopiesFit
      /\ fresh \in Nat
  BY DEF Inv, TablesFit, Counts
<1> DEFINE r == [db.approvals[e] EXCEPT !.overdue = TRUE]
           a == [db.approvals EXCEPT ![e] = r]
           u == [db EXCEPT !.approvals = a]
<1>4. db.approvals \in [DOMAIN db.approvals -> Approval] /\ db.approvals[e] \in Approval
  BY <1>1, <1>3 DEF RowsFit
<1>5. r \in Approval /\ r.status = db.approvals[e].status /\ r.action = db.approvals[e].action
  BY <1>4 DEF Approval
<1>6. db' = u
  BY <1>1, <1>3 DEF RowsFit
<1> HIDE DEF r
<1>7. /\ DOMAIN a = DOMAIN db.approvals /\ a \in [DOMAIN a -> Approval]
      /\ \A d \in DOMAIN a : a[d].status = db.approvals[d].status /\ a[d].action = db.approvals[d].action
  BY <1>1, <1>4, <1>5
<1> HIDE DEF a
<1>8. u.snap = db.snap /\ u.execs = db.execs /\ u.approvals = a /\ u.intent = db.intent
  BY <1>3 DEF RowsFit
<1>9. u = [snap |-> u.snap, execs |-> u.execs, approvals |-> u.approvals, intent |-> u.intent]
  BY <1>3, <1>8 DEF RowsFit
<1> HIDE DEF u
<1>10. RowsFit(u, fresh)
  BY <1>3, <1>7, <1>8, <1>9 DEF RowsFit
<1>11. Follows(db, u, fresh)
  BY <1>7, <1>8 DEF Follows
<1>12. SnapFits(u, fresh) /\ (u.snap # NoLoop => Patient(u.snap) /\ Agrees(u.snap, u))
  BY <1>3, <1>8, <1>11, AgreesOn DEF SnapFits, CopiesFit, CopiesAgree
<1> QED
  BY <1>2, <1>3, <1>6, <1>10, <1>11, <1>12, WriteKeeps

\* A worker's later attempt at a call that a loop has already booked as a failure.
LEMMA RetryKeeps ==
    ASSUME Inv, Retry
    PROVE  Inv'
<1>1. PICK e \in DOMAIN db.execs, status \in {"completed", "failed"} :
         db.execs[e].status = "pending" /\ db' = [db EXCEPT !.execs[e].status = status]
  BY DEF Retry
<1>2. req = NoRequest /\ req' = req /\ mem' = mem /\ fresh' = fresh /\ ran' = ran /\ faults' = faults
  BY DEF Retry, counters
<1>3. /\ TablesFit(db) /\ RowsFit(db, fresh) /\ SnapFits(db, fresh) /\ CopiesAgree(db) /\ CopiesFit
      /\ fresh \in Nat
  BY DEF Inv, TablesFit, Counts
<1> DEFINE r == [db.execs[e] EXCEPT !.status = status]
           x == [db.execs EXCEPT ![e] = r]
           u == [db EXCEPT !.execs = x]
<1>4. db.execs \in [DOMAIN db.execs -> Execution] /\ db.execs[e] \in Execution
  BY <1>1, <1>3 DEF RowsFit
<1>5. r \in Execution
  BY <1>4 DEF Execution, TerminalExecutionStatuses
<1>6. db' = u
  BY <1>1, <1>3 DEF RowsFit
<1> HIDE DEF r
<1>7. /\ DOMAIN x = DOMAIN db.execs /\ x \in [DOMAIN x -> Execution]
      /\ \A d \in DOMAIN x : d # e => x[d] = db.execs[d]
  BY <1>1, <1>4, <1>5
<1> HIDE DEF x
<1>8. u.snap = db.snap /\ u.execs = x /\ u.approvals = db.approvals /\ u.intent = db.intent
  BY <1>3 DEF RowsFit
<1>9. u = [snap |-> u.snap, execs |-> u.execs, approvals |-> u.approvals, intent |-> u.intent]
  BY <1>3, <1>8 DEF RowsFit
<1> HIDE DEF u
<1>10. e \notin DOMAIN db.approvals
  BY <1>1, <1>3 DEF RowsFit, GateStatuses
<1>11. RowsFit(u, fresh)
  BY <1>3, <1>7, <1>8, <1>9, <1>10 DEF RowsFit
<1>12. Follows(db, u, fresh)
  BY <1>1, <1>7, <1>8 DEF Follows, Unproven
<1>13. SnapFits(u, fresh) /\ (u.snap # NoLoop => Patient(u.snap) /\ Agrees(u.snap, u))
  BY <1>3, <1>8, <1>12, AgreesOn DEF SnapFits, CopiesFit, CopiesAgree
<1> QED
  BY <1>2, <1>3, <1>6, <1>11, <1>12, <1>13, WriteKeeps

-----------------------------------------------------------------------------
(* The theorems. *)

LEMMA LoopStepKeeps ==
    ASSUME Inv, LoopStep
    PROVE  Inv'
BY StepCancelsKeeps, StepWaitsKeeps, StepExhaustsKeeps, StepFailsToPlanKeeps, StepIsStuckKeeps,
   StepRefusesActionKeeps, StepReplansKeeps, StepFinishesKeeps, StepIsDeniedKeeps, StepSuspendsKeeps,
   StepExecutesKeeps, Zenon DEF LoopStep

LEMMA NextKeeps ==
    ASSUME Inv, [Next]_vars
    PROVE  Inv'
<1>1. CASE Serve
  BY <1>1, LoopStepKeeps, CommitKeeps DEF Serve
<1>2. CASE Rollback \/ SweepFails \/ RestartSweeper \/ StepCancelFails
  BY <1>2, RollbackKeeps, StepCancelFailsKeeps
<1>3. CASE \E p \in Replicas :
             \/ StartRun(p) \/ GetRun(p) \/ BeginAdvance(p) \/ Decide(p) \/ CancelRun(p)
             \/ DecideFails(p) \/ CancelFails(p) \/ Restart(p)
  <2>1. PICK p \in Replicas :
          \/ StartRun(p) \/ GetRun(p) \/ BeginAdvance(p) \/ Decide(p) \/ CancelRun(p)
          \/ DecideFails(p) \/ CancelFails(p) \/ Restart(p)
    BY <1>3
  <2> QED
    BY <2>1, StartRunKeeps, GetRunKeeps, BeginAdvanceKeeps, DecideKeeps, CancelRunKeeps, GateFailsKeeps,
       RestartKeeps, Zenon
<1>4. CASE Intend \/ Sweep \/ TimePasses \/ Retry
  BY <1>4, IntendKeeps, SweepKeeps, TimePassesKeeps, RetryKeeps
<1>5. CASE UNCHANGED vars
  BY <1>5, StutterKeeps
<1> QED
  BY <1>1, <1>2, <1>3, <1>4, <1>5 DEF Next

\* The inductive invariant: what the committed tables, the draft of the request that is
\* served and every process's copy of the loop may rely on in each other.
THEOREM CopiesRelyOnTheTables == Spec => []Inv
<1>1. Init => Inv
  BY InitFits
<1>2. Inv /\ [Next]_vars => Inv'
  BY NextKeeps
<1> QED
  BY <1>1, <1>2, PTL DEF Spec

LEMMA LoopIsOK ==
    ASSUME NEW n \in 0..MaxExecutions, NEW l, LoopFits(l, n)
    PROVE  LoopOK(l)
<1>1. MaxExecutions \in Nat /\ MaxSteps \in Nat
  BY AgentRunAssumption
<1>2. 1..n \subseteq 1..MaxExecutions /\ 0..n \subseteq 0..MaxExecutions
  BY <1>1
<1>3. Step(n) \subseteq StepRecord
  BY <1>2 DEF Step, StepRecord, StepStatuses
<1>4. Seq(Step(n)) \subseteq Seq(StepRecord)
  BY <1>3
<1>5. l \in Loop(n) /\ l.current <= Len(l.book)
  BY DEF LoopFits, Lawful
<1>6. l.status \in ActiveStatuses \cup TerminalRunStatuses /\ l.steps \in 0..MaxSteps
      /\ l.denials \in 0..(MaxDenials - 1) \cup {1}
  BY <1>5 DEF Loop, RunStatuses, Denials
<1>7. {l.plan, l.created, l.invalid} \subseteq Plans \cup {NoPlan}
  BY <1>5 DEF Loop
<1>8. l.known \subseteq {"created", "invalid"} /\ l.failures \in BOOLEAN
  BY <1>5 DEF Loop
<1>9. l.book \in Seq(StepRecord)
  BY <1>4, <1>5 DEF Loop
<1>10. l.current \in 0..Len(l.book) /\ l.gate \in 0..MaxExecutions
  BY <1>2, <1>5, <1>9 DEF Loop
<1> QED
  BY <1>6, <1>7, <1>8, <1>9, <1>10 DEF LoopOK

\* The shape of the state, for any number of API processes: no copy of the loop is
\* ever charged more than max_steps or denied max_consecutive_denials times in a row
\* and still going (loop.py, _step and _denied).
THEOREM StateHasItsShape == Spec => []TypeOK
<1>1. Inv => TypeOK
  <2> SUFFICES ASSUME Inv
               PROVE  TypeOK
    OBVIOUS
  <2>1. /\ TablesFit(db) /\ CopiesFit
        /\ fresh \in 0..MaxExecutions /\ ran \in 0..fresh /\ faults \in 0..MaxFaults
    BY DEF Inv, Counts
  <2>2. ASSUME NEW t, RowsFit(t, fresh), SnapFits(t, fresh)
        PROVE  TablesOK(t)
    BY <2>1, <2>2, LoopIsOK DEF TablesOK, RowsFit, SnapFits
  <2>3. TablesOK(db)
    BY <2>1, <2>2 DEF TablesFit
  <2>4. \A p \in Replicas : mem[p] # NoLoop => LoopOK(mem[p])
    BY <2>1, LoopIsOK DEF CopiesFit
  <2>5. req # NoRequest => TablesOK(req.draft) /\ req.out \in Outcomes
    BY <2>2 DEF Inv, RequestFits, TablesFit
  <2>6. ran \in 0..MaxExecutions
    BY <2>1, AgentRunAssumption
  <2> QED
    BY <2>1, <2>3, <2>4, <2>5, <2>6 DEF TypeOK
<1> QED
  BY <1>1, CopiesRelyOnTheTables, PTL

-----------------------------------------------------------------------------
(* Gates, and what the kernels have of them. *)

CopyStatuses == {"unread", "suspended", "halfway", "closed"}
Shut == {"halfway", "closed"}
Copies == [Processes -> [1..MaxExecutions -> CopyStatuses]]

\* What the execution of a gate is when its approval has a status.
GateOf(status) ==
    CASE status = "pending" -> "suspended" [] status = "cancelled" -> "cancelled" [] OTHER -> "completed"

\* The tables t tell one story of the gate e, and none of the processes Q, with the
\* copies h, is ahead of it.
SoundAt(t, h, Q, e) ==
    /\ t.execs[e].status = GateOf(t.approvals[e].status)
    /\ \A q \in Q : h[q][e] \in Shut => t.execs[e].status # "suspended"

\* The same of every gate but those of S.
Sound(t, h, Q, S) == \A e \in DOMAIN t.approvals \ S : SoundAt(t, h, Q, e)

\* The kernel of the process that serves goes with the draft, the others with the tables.
GateInv ==
    /\ held \in Copies
    /\ \A q \in Processes, e \in 1..MaxExecutions : e > fresh => held[q][e] = "unread"
    /\ Sound(db, held, IF req = NoRequest THEN Processes ELSE Processes \ {req.by}, spoiled)
    /\ req # NoRequest => /\ Sound(req.draft, held, Processes, spoiled)
                          /\ DOMAIN db.approvals \subseteq DOMAIN req.draft.approvals

\* Between the tables t and u nothing happens to a gate but e.
Steady(t, u, e) ==
    /\ DOMAIN t.approvals \subseteq DOMAIN u.approvals
    /\ \A d \in DOMAIN u.approvals \ {e} :
           /\ d \in DOMAIN t.approvals
           /\ u.execs[d].status = t.execs[d].status
           /\ u.approvals[d].status = t.approvals[d].status

\* Nor to any copy but that of p.
Touches(p, e) ==
    /\ held' \in Copies
    /\ \A q \in Processes, d \in 1..MaxExecutions : q # p \/ d # e => held'[q][d] = held[q][d]

LEMMA KeepsFits ==
    ASSUME held \in Copies, NEW p \in Processes, NEW e \in 1..MaxExecutions, NEW c \in CopyStatuses,
           Keeps(p, e, c)
    PROVE  Touches(p, e) /\ held'[p][e] = c
<1> DEFINE r == [held[p] EXCEPT ![e] = c]
<1>1. held[p] \in [1..MaxExecutions -> CopyStatuses] /\ held' = [held EXCEPT ![p] = r]
  BY DEF Copies, Keeps
<1>2. r \in [1..MaxExecutions -> CopyStatuses] /\ r[e] = c
      /\ \A d \in 1..MaxExecutions : d # e => r[d] = held[p][d]
  BY <1>1
<1> HIDE DEF r
<1> QED
  BY <1>1, <1>2 DEF Copies, Touches

LEMMA UntouchedFits ==
    ASSUME held \in Copies, UNCHANGED held, NEW p, NEW e
    PROVE  Touches(p, e)
BY DEF Touches

\* The tables that a process has before it.
InSight == IF req = NoRequest THEN db ELSE req.draft

\* What a request is, and what it works on.
LEMMA RequestIs ==
    ASSUME NEW p, NEW job \in {"step", "run", "decide", "cancel"}, NEW t, NEW out,
           NEW r, r = [by |-> p, job |-> job, draft |-> t, out |-> out]
    PROVE  r # NoRequest /\ r.by = p /\ r.draft = t
<1>1. r.job = job /\ NoRequest.job = "none"
  BY DEF NoRequest
<1> QED
  BY <1>1

\* Whoever works on the tables in sight, on one gate at most.
LEMMA MovesKeep ==
    ASSUME Inv, Inv', GateInv, NEW p \in Processes, NEW e \in Nat, NEW u,
           fresh' \in {fresh, fresh + 1}, UNCHANGED spoiled,
           Steady(InSight, u, e), Touches(p, e), e <= fresh' \/ UNCHANGED held,
           e \in DOMAIN u.approvals \ spoiled => SoundAt(u, held', Processes, e),
           \/ /\ req' # NoRequest /\ db' = db /\ req'.draft = u /\ req'.by = p
              /\ req # NoRequest => req.by = p
           \/ /\ req = NoRequest /\ req' = NoRequest
              /\ db'.execs = u.execs /\ db'.approvals = u.approvals
    PROVE  GateInv'
<1>1. Sound(InSight, held, Processes, spoiled)
  BY DEF GateInv, InSight
<1>2. held' \in Copies
      /\ \A q \in Processes, d \in 1..MaxExecutions : q # p \/ d # e => held'[q][d] = held[q][d]
  BY DEF Touches
<1>3. DOMAIN u.approvals \subseteq 1..MaxExecutions
  <2>1. fresh' \in Nat /\ fresh' <= MaxExecutions
    BY AgentRunAssumption DEF Inv, Counts
  <2>2. DOMAIN u.approvals \subseteq 1..fresh'
    BY DEF Inv, RequestFits, TablesFit, RowsFit
  <2> QED
    BY <2>1, <2>2, AgentRunAssumption
<1>4. Sound(u, held', Processes, spoiled)
  <2> SUFFICES ASSUME NEW d \in DOMAIN u.approvals \ spoiled
               PROVE  SoundAt(u, held', Processes, d)
    BY DEF Sound
  <2>1. CASE d = e
    BY <2>1
  <2>2. CASE d # e
    <3>1. /\ d \in DOMAIN InSight.approvals /\ u.execs[d].status = InSight.execs[d].status
          /\ u.approvals[d].status = InSight.approvals[d].status
      BY <2>2 DEF Steady
    <3>2. SoundAt(InSight, held, Processes, d)
      BY <1>1, <3>1 DEF Sound
    <3>3. \A q \in Processes : held'[q][d] = held[q][d]
      BY <1>2, <1>3, <2>2
    <3> QED
      BY <3>1, <3>2, <3>3 DEF SoundAt
  <2> QED
    BY <2>1, <2>2
<1>5. \A q \in Processes, d \in 1..MaxExecutions : d > fresh' => held'[q][d] = "unread"
  <2> SUFFICES ASSUME NEW q \in Processes, NEW d \in 1..MaxExecutions, d > fresh'
               PROVE  held'[q][d] = "unread"
    OBVIOUS
  <2>1. fresh \in Nat /\ d > fresh
    BY DEF Inv, Counts
  <2>2. held[q][d] = "unread"
    BY <2>1 DEF GateInv
  <2>3. held'[q][d] = held[q][d]
    BY <1>2, <2>1
  <2> QED
    BY <2>2, <2>3
<1>6. CASE /\ req' # NoRequest /\ db' = db /\ req'.draft = u /\ req'.by = p
           /\ req # NoRequest => req.by = p
  <2>1. Sound(db, held, Processes \ {p}, spoiled)
    BY <1>6 DEF GateInv, Sound, SoundAt
  <2>2. DOMAIN db.approvals \subseteq DOMAIN u.approvals
    BY <1>6 DEF GateInv, InSight, Steady
  <2>3. Sound(db, held', Processes \ {p}, spoiled)
    <3> SUFFICES ASSUME NEW d \in DOMAIN db.approvals \ spoiled
                 PROVE  SoundAt(db, held', Processes \ {p}, d)
      BY DEF Sound
    <3>1. SoundAt(db, held, Processes \ {p}, d) /\ d \in 1..MaxExecutions
      BY <1>3, <2>1, <2>2 DEF Sound
    <3> QED
      BY <1>2, <3>1 DEF SoundAt
  <2> QED
    BY <1>2, <1>4, <1>5, <1>6, <2>2, <2>3 DEF GateInv
<1>7. CASE /\ req = NoRequest /\ req' = NoRequest
           /\ db'.execs = u.execs /\ db'.approvals = u.approvals
  <2>1. Sound(db', held', Processes, spoiled)
    BY <1>4, <1>7 DEF Sound, SoundAt
  <2> QED
    BY <1>2, <1>5, <1>7, <2>1 DEF GateInv
<1> QED
  BY <1>6, <1>7

\* The process that serves goes on with its draft.
LEMMA ReplyMoves ==
    ASSUME Inv, Advancing, NEW m, NEW u, NEW out, Reply(m, u, out)
    PROVE  /\ req.by \in Processes /\ req # NoRequest /\ InSight = Draft
           /\ req' # NoRequest /\ req'.draft = u /\ req'.by = req.by
<1>1. req # NoRequest /\ req.job \in {"step", "run"} /\ req.by \in Replicas
      /\ req = [by |-> req.by, job |-> req.job, draft |-> req.draft, out |-> req.out]
  BY DEF Advancing, Inv, RequestFits
<1>2. req' = [by |-> req.by, job |-> req.job, draft |-> u, out |-> out]
  BY <1>1 DEF Reply
<1>3. req' # NoRequest /\ req'.draft = u /\ req'.by = req.by
  BY <1>1, <1>2, RequestIs
<1> QED
  BY <1>1, <1>3 DEF InSight, Draft, Processes

\* A step that touches no gate.
LEMMA QuietKeeps ==
    ASSUME Inv, Inv', GateInv, NEW p \in Processes, NEW u, fresh' \in {fresh, fresh + 1},
           Steady(InSight, u, 0), UNCHANGED <<held, spoiled>>,
           \/ /\ req' # NoRequest /\ db' = db /\ req'.draft = u /\ req'.by = p
              /\ req # NoRequest => req.by = p
           \/ /\ req = NoRequest /\ req' = NoRequest
              /\ db'.execs = u.execs /\ db'.approvals = u.approvals
    PROVE  GateInv'
<1>1. 0 \notin DOMAIN u.approvals
  BY DEF Inv, RequestFits, TablesFit, RowsFit
<1>2. Touches(p, 0)
  BY UntouchedFits DEF GateInv
<1> QED
  BY <1>1, <1>2, MovesKeep

\* A step that only talks.
LEMMA TalkIsQuiet ==
    ASSUME Inv, Inv', GateInv, Advancing, NEW m, NEW out, Reply(m, Draft, out),
           db' = db, fresh' = fresh, UNCHANGED <<held, spoiled>>
    PROVE  GateInv'
<1>1. /\ req.by \in Processes /\ req # NoRequest /\ InSight = Draft
      /\ req' # NoRequest /\ req'.draft = Draft /\ req'.by = req.by
  BY ReplyMoves
<1>2. Steady(Draft, Draft, 0)
  BY DEF Steady
<1> QED
  BY <1>1, <1>2, QuietKeeps


\* The kernel can close the gate of an approval that nobody has decided.
LEMMA PendingGate ==
    ASSUME NEW t, NEW p \in Processes, NEW e, SoundAt(t, held, Processes, e),
           held[p][e] \in CopyStatuses, t.approvals[e].status = "pending"
    PROVE  t.execs[e].status = "suspended" /\ ~GateIsLeft(p, t, e) /\ ~GateIsRefused(p, t, e)
BY DEF SoundAt, GateOf, CopyStatuses, Shut, Copy, GateIsLeft, GateIsRefused

\* Whoever decides leaves the gate as the decision says.
LEMMA DecisionIsSound ==
    ASSUME GateInv, NEW n \in Nat, NEW t, RowsFit(t, n), n <= MaxExecutions, NEW p \in Processes,
           NEW e, Decidable(t, e), Sound(t, held, Processes, spoiled),
           NEW status \in {"approved", "rejected"},
           NEW u, u = Decided(p, t, e, status, "completed"), NEW h
    PROVE  /\ Steady(t, u, e) /\ RowsFit(u, n)
           /\ e \notin spoiled => SoundAt(u, h, Processes, e)
<1> DEFINE v == ApprovalIs(t, e, status)
<1>1. e \in DOMAIN t.approvals /\ e \in 1..MaxExecutions /\ t.approvals[e].status = "pending"
  BY AgentRunAssumption DEF Decidable, RowsFit
<1>2. status \in ApprovalStatuses /\ status # "pending" /\ GateOf(status) = "completed"
  BY DEF ApprovalStatuses, GateOf
<1>3. /\ RowsFit(v, n) /\ v.execs = t.execs /\ DOMAIN v.approvals = DOMAIN t.approvals
      /\ \A d \in DOMAIN v.approvals :
           v.approvals[d].status = IF d = e THEN status ELSE t.approvals[d].status
  BY <1>1, <1>2, ApprovalIsFits
<1>4. u = ClosedGate(p, v, e, "completed")
  BY DEF Decided
<1> HIDE DEF v
<1>5. GateIsLeft(p, v, e) <=> GateIsLeft(p, t, e)
  BY <1>3 DEF GateIsLeft, Copy
<1>6. /\ RowsFit(u, n) /\ Follows(v, u, n) /\ u.approvals = v.approvals /\ DOMAIN u.execs = DOMAIN v.execs
      /\ \A d \in DOMAIN u.execs : d # e => u.execs[d].status = v.execs[d].status
      /\ ~GateIsLeft(p, v, e) => u.execs[e].status = "completed"
  <2>1. ClosedGate(p, v, e, "completed") = u /\ e \in DOMAIN v.approvals
    BY <1>1, <1>3, <1>4
  <2>2. RowsFit(u, n) /\ Follows(v, u, n) /\ Closes(p, v, e, "completed", u)
    BY <1>3, <2>1, ClosedGateFits
  <2> QED
    BY <2>2 DEF Closes
<1>7. DOMAIN t.approvals \subseteq DOMAIN t.execs
  BY DEF RowsFit
<1>8. Steady(t, u, e)
  BY <1>3, <1>6, <1>7 DEF Steady
<1>9. ASSUME e \notin spoiled
      PROVE  SoundAt(u, h, Processes, e)
  <2>1. SoundAt(t, held, Processes, e) /\ held[p][e] \in CopyStatuses
    BY <1>1, <1>9 DEF Sound, GateInv, Copies
  <2>2. ~GateIsLeft(p, t, e)
    BY <1>1, <2>1, PendingGate
  <2>3. u.execs[e].status = "completed" /\ u.approvals[e].status = status
    BY <1>1, <1>3, <1>5, <1>6, <1>7, <2>2
  <2> QED
    BY <1>2, <2>3 DEF SoundAt
<1> QED
  BY <1>6, <1>8, <1>9

\* The approval that cancel() finds pending is cancelled, one that was decided stays.
LEMMA GateOfTheLoop ==
    ASSUME NEW n \in Nat, NEW t, RowsFit(t, n), NEW l, Knows(l, t), CanCancel(l, t), l.gate # 0,
           NEW u, u = AtTheGate(l, t)
    PROVE  /\ RowsFit(u, n) /\ u.execs = t.execs /\ DOMAIN u.approvals = DOMAIN t.approvals
           /\ l.gate \in DOMAIN t.approvals
           /\ \A d \in DOMAIN u.approvals : d # l.gate => u.approvals[d].status = t.approvals[d].status
           /\ \/ t.approvals[l.gate].status = "pending" /\ u.approvals[l.gate].status = "cancelled"
              \/ t.approvals[l.gate].status # "pending" /\ u = t
<1>1. CASE l.copy = "pending"
  <2>1. /\ l.gate \in DOMAIN t.approvals /\ u = ApprovalIs(t, l.gate, "cancelled")
        /\ t.approvals[l.gate].status = "pending"
    BY <1>1 DEF CanCancel, Decidable, AtTheGate
  <2>2. "cancelled" \in ApprovalStatuses /\ "cancelled" # "pending"
    BY DEF ApprovalStatuses
  <2>3. /\ RowsFit(u, n) /\ Follows(t, u, n) /\ u.execs = t.execs /\ DOMAIN u.approvals = DOMAIN t.approvals
        /\ \A d \in DOMAIN u.approvals :
             u.approvals[d].status = IF d = l.gate THEN "cancelled" ELSE t.approvals[d].status
    BY <2>1, <2>2, ApprovalIsFits
  <2> QED
    BY <2>1, <2>3
<1>2. CASE l.copy # "pending"
  BY <1>2 DEF AtTheGate, Knows
<1> QED
  BY <1>1, <1>2

\* cancel() leaves the gate as the approval says, whether it closes it or is refused.
LEMMA CancellationIsSound ==
    ASSUME GateInv, NEW n \in Nat, NEW t, RowsFit(t, n), n <= MaxExecutions, NEW p \in Processes,
           NEW l, Knows(l, t), CanCancel(l, t), Sound(t, held, Processes, spoiled),
           NEW u, \/ CancelPasses(p, l, t) /\ u = CancelledTables(p, l, t)
                  \/ CancelIsRefused(p, l, t) /\ u = AtTheGate(l, t),
           NEW copy \in Shut, KeepsGate(p, l, copy)
    PROVE  /\ Steady(t, u, l.gate) /\ Touches(p, l.gate) /\ (l.gate <= n \/ UNCHANGED held)
           /\ l.gate \in Nat \/ l.gate = 0
           /\ l.gate \in DOMAIN u.approvals \ spoiled => SoundAt(u, held', Processes, l.gate)
<1> DEFINE g == AtTheGate(l, t)
           e == l.gate
<1>1. /\ DOMAIN t.approvals \subseteq 1..n /\ DOMAIN t.approvals \subseteq DOMAIN t.execs
  BY DEF RowsFit
<1>2. CASE e = 0
  <2>1. UNCHANGED held
    BY <1>2 DEF KeepsGate
  <2>2. u = [t EXCEPT !.snap = CancelledLoop(l), !.intent = "settled"]
    BY <1>2 DEF CancelledTables, CancelIsRefused, AtTheGate
  <2>3. u.execs = t.execs /\ u.approvals = t.approvals
    BY <2>2 DEF RowsFit
  <2>4. Steady(t, u, e) /\ Touches(p, e) /\ e \notin DOMAIN u.approvals
    BY <1>1, <1>2, <2>1, <2>3, UntouchedFits DEF Steady, GateInv
  <2> QED
    BY <1>2, <2>1, <2>4
<1>3. CASE e # 0
  <2>1. /\ RowsFit(g, n) /\ g.execs = t.execs /\ DOMAIN g.approvals = DOMAIN t.approvals
        /\ e \in DOMAIN t.approvals
        /\ \A d \in DOMAIN g.approvals : d # e => g.approvals[d].status = t.approvals[d].status
        /\ \/ t.approvals[e].status = "pending" /\ g.approvals[e].status = "cancelled"
           \/ t.approvals[e].status # "pending" /\ g = t
    BY <1>3, GateOfTheLoop
  <2>2. e \in 1..n /\ e \in 1..MaxExecutions /\ e \in DOMAIN t.execs
    BY <1>1, <2>1, AgentRunAssumption
  <2>3. Touches(p, e)
    <3>1. Keeps(p, e, copy) /\ copy \in CopyStatuses
      BY <1>3 DEF KeepsGate, Shut, CopyStatuses
    <3> QED
      BY <2>2, <3>1, KeepsFits DEF GateInv
  <2>4. ASSUME e \notin spoiled
        PROVE  SoundAt(t, held, Processes, e) /\ held[p][e] \in CopyStatuses
    BY <2>1, <2>2, <2>4 DEF Sound, GateInv, Copies
  <2>5. CASE CancelPasses(p, l, t) /\ u = CancelledTables(p, l, t)
    <3> DEFINE c == ClosedGate(p, g, e, "cancelled")
    <3>1. u = [c EXCEPT !.snap = CancelledLoop(l), !.intent = "settled"]
      BY <1>3, <2>5 DEF CancelledTables
    <3> HIDE DEF g
    <3>2. /\ RowsFit(c, n) /\ Follows(g, c, n) /\ c.approvals = g.approvals /\ DOMAIN c.execs = DOMAIN g.execs
          /\ \A d \in DOMAIN c.execs : d # e => c.execs[d].status = g.execs[d].status
          /\ GateIsLeft(p, g, e) => c = g
          /\ ~GateIsLeft(p, g, e) => c.execs[e].status = "cancelled"
      <4>1. RowsFit(c, n) /\ Follows(g, c, n) /\ Closes(p, g, e, "cancelled", c)
        BY <2>1, ClosedGateFits
      <4> QED
        BY <4>1 DEF Closes
    <3> HIDE DEF c
    <3>3. u.execs = c.execs /\ u.approvals = g.approvals
      BY <3>1, <3>2 DEF RowsFit
    <3>4. Steady(t, u, e)
      BY <1>1, <2>1, <3>2, <3>3 DEF Steady
    <3>5. GateIsLeft(p, g, e) <=> GateIsLeft(p, t, e)
      BY <2>1 DEF GateIsLeft, Copy
    <3>6. ASSUME e \notin spoiled
          PROVE  SoundAt(u, held', Processes, e)
      <4>1. CASE t.approvals[e].status = "pending"
        <5>1. ~GateIsLeft(p, t, e)
          BY <2>4, <3>6, <4>1, PendingGate
        <5>2. u.execs[e].status = "cancelled" /\ u.approvals[e].status = "cancelled"
          BY <2>1, <2>2, <3>2, <3>3, <3>5, <4>1, <5>1
        <5> QED
          BY <5>2 DEF SoundAt, GateOf
      <4>2. CASE t.approvals[e].status # "pending"
        <5>1. t.execs[e].status # "suspended" /\ t.execs[e].status = GateOf(t.approvals[e].status)
          BY <2>4, <3>6, <4>2 DEF SoundAt, GateOf
        <5>2. GateIsLeft(p, t, e)
          BY <1>3, <2>5, <5>1 DEF CancelPasses, GateCloses
        <5>3. u.execs[e].status = t.execs[e].status /\ u.approvals[e].status = t.approvals[e].status
          BY <2>1, <2>2, <3>2, <3>3, <3>5, <4>2, <5>2
        <5> QED
          BY <5>1, <5>3 DEF SoundAt
      <4> QED
        BY <4>1, <4>2
    <3> HIDE DEF e
    <3> QED
      BY <2>2, <2>3, <3>4, <3>6 DEF e
  <2>6. CASE CancelIsRefused(p, l, t) /\ u = g
    <3>1. Steady(t, u, e)
      BY <2>1, <2>6 DEF Steady
    <3>2. ASSUME e \notin spoiled
          PROVE  SoundAt(u, held', Processes, e)
      <4>1. GateIsRefused(p, t, e)
        BY <2>6 DEF CancelIsRefused
      <4>2. t.approvals[e].status # "pending"
        BY <2>4, <3>2, <4>1, PendingGate
      <4>3. u = t /\ t.execs[e].status # "suspended" /\ t.execs[e].status = GateOf(t.approvals[e].status)
        BY <2>1, <2>4, <2>6, <3>2, <4>2 DEF SoundAt, GateOf
      <4> QED
        BY <4>3 DEF SoundAt
    <3> QED
      BY <2>2, <2>3, <3>1, <3>2
  <2> QED
    BY <2>5, <2>6
<1> QED
  BY <1>2, <1>3

\* A step that gives the loop a gate.
LEMMA SuspensionMoves ==
    ASSUME Inv, Inv', GateInv, Advancing, MaySubmit, fresh' = NextId, Keeps(req.by, NextId, "suspended"),
           NEW action \in {"call", "finish"}, NEW m, NEW n, NEW u, u = SuspendedTables(Draft, NextId, action),
           NEW out, Reply(m, [u EXCEPT !.snap = n], out), db' = db, UNCHANGED spoiled
    PROVE  GateInv'
<1> DEFINE v == [u EXCEPT !.snap = n]
           p == req.by
           r == [status |-> "pending", overdue |-> FALSE, action |-> action]
           w == Submitted(Draft, fresh + 1, "gate", "suspended")
           x == Put(Draft.approvals, fresh + 1, r)
           y == Put(Draft.execs, fresh + 1, [kind |-> "gate", status |-> "suspended"])
<1>1. /\ p \in Processes /\ req # NoRequest /\ InSight = Draft
      /\ req' # NoRequest /\ req'.draft = v /\ req'.by = p
  BY ReplyMoves
<1>2. NextId = fresh + 1 /\ fresh \in Nat /\ fresh + 1 <= MaxExecutions
  BY AgentRunAssumption DEF NextId, MaySubmit, Inv, Counts
<1>3. RowsFit(Draft, fresh)
  BY <1>1, LiveSees DEF Sees, TablesFit
<1>4. w = [Draft EXCEPT !.execs = y] /\ u = [w EXCEPT !.approvals = Put(w.approvals, fresh + 1, r)]
  BY <1>2 DEF SuspendedTables, Submitted
<1>5. /\ DOMAIN x = DOMAIN Draft.approvals \cup {fresh + 1} /\ x[fresh + 1].status = "pending"
      /\ \A d \in DOMAIN Draft.approvals : d # fresh + 1 => x[d] = Draft.approvals[d]
  BY DEF Put
<1>6. /\ DOMAIN y = DOMAIN Draft.execs \cup {fresh + 1} /\ y[fresh + 1].status = "suspended"
      /\ \A d \in DOMAIN Draft.execs : d # fresh + 1 => y[d] = Draft.execs[d]
  BY DEF Put
<1> HIDE DEF r, y
<1>7. w.approvals = Draft.approvals /\ w.execs = y
  BY <1>3, <1>4 DEF RowsFit
<1>8. u.approvals = x /\ u.execs = y
  BY <1>3, <1>4, <1>7 DEF RowsFit
<1> HIDE DEF x, w
<1>9. v.approvals = x /\ v.execs = y
  <2>1. u = [snap |-> Draft.snap, execs |-> y, approvals |-> x, intent |-> Draft.intent]
    BY <1>3, <1>4, <1>7, <1>8 DEF RowsFit
  <2> QED
    BY <2>1
<1> HIDE DEF v, p
<1>10. Steady(Draft, v, fresh + 1)
  BY <1>3, <1>5, <1>6, <1>9 DEF Steady, RowsFit
<1>11. Touches(p, fresh + 1) /\ held'[p][fresh + 1] = "suspended"
  <2>1. fresh + 1 \in 1..MaxExecutions /\ "suspended" \in CopyStatuses /\ Keeps(p, fresh + 1, "suspended")
    BY <1>2, AgentRunAssumption DEF CopyStatuses, p
  <2> QED
    BY <1>1, <2>1, KeepsFits DEF GateInv
<1>12. SoundAt(v, held', Processes, fresh + 1)
  <2>1. v.execs[fresh + 1].status = GateOf(v.approvals[fresh + 1].status)
    BY <1>5, <1>6, <1>9 DEF GateOf
  <2>2. ASSUME NEW q \in Processes
        PROVE  held'[q][fresh + 1] \notin Shut
    <3>1. fresh + 1 \in 1..MaxExecutions /\ fresh + 1 > fresh
      BY <1>2, AgentRunAssumption
    <3>2. CASE q = p
      BY <1>11, <3>2 DEF Shut
    <3>3. CASE q # p
      <4>1. held'[q][fresh + 1] = held[q][fresh + 1]
        BY <1>11, <3>1, <3>3 DEF Touches
      <4>2. held[q][fresh + 1] = "unread"
        BY <3>1 DEF GateInv
      <4> QED
        BY <4>1, <4>2 DEF Shut
    <3> QED
      BY <3>2, <3>3
  <2> QED
    BY <2>1, <2>2 DEF SoundAt
<1>13. fresh + 1 \in Nat /\ fresh + 1 <= fresh' /\ fresh' \in {fresh, fresh + 1}
  BY <1>2
<1>14. req.by = p
  BY DEF p
<1> QED
  BY <1>1, <1>14, <1>10, <1>11, <1>12, <1>13, MovesKeep

\* A call has no approval.
LEMMA CallIsQuiet ==
    ASSUME NEW n \in Nat, NEW t, RowsFit(t, n), NEW status,
           NEW u, u = Submitted(t, n + 1, "call", status)
    PROVE  u.approvals = t.approvals /\ \A d \in DOMAIN t.execs : u.execs[d] = t.execs[d]
<1> DEFINE y == Put(t.execs, n + 1, [kind |-> "call", status |-> status])
<1>1. u = [t EXCEPT !.execs = y]
  BY DEF Submitted
<1>2. \A d \in DOMAIN t.execs : d # n + 1 => y[d] = t.execs[d]
  BY DEF Put
<1> HIDE DEF y
<1>3. t.approvals = u.approvals /\ u.execs = y
  BY <1>1 DEF RowsFit
<1>4. ASSUME NEW d \in DOMAIN t.execs
      PROVE  d # n + 1
  BY DEF RowsFit
<1> QED
  BY <1>2, <1>3, <1>4

LEMMA StepCancelsMoves ==
    ASSUME Inv, Inv', GateInv, StepCancels
    PROVE  GateInv'
<1>1. Advancing /\ db' = db /\ fresh' = fresh /\ UNCHANGED spoiled
  BY DEF StepCancels, counters
<1>2. /\ RowsFit(Draft, fresh) /\ Knows(Live, Draft) /\ fresh \in Nat /\ fresh <= MaxExecutions
  BY <1>1, LiveSees, AgentRunAssumption DEF Advancing, Sees, TablesFit, Inv, Counts
<1>3. Sound(Draft, held, Processes, spoiled)
  BY <1>1 DEF GateInv, Advancing, Draft
<1>4. ASSUME NEW m, NEW u, NEW out, NEW copy \in Shut, Reply(m, u, out), KeepsGate(req.by, Live, copy),
             \/ CancelPasses(req.by, Live, Draft) /\ u = CancelledTables(req.by, Live, Draft)
             \/ CancelIsRefused(req.by, Live, Draft) /\ u = AtTheGate(Live, Draft)
      PROVE  GateInv'
  <2>1. /\ req.by \in Processes /\ req # NoRequest /\ InSight = Draft
        /\ req' # NoRequest /\ req'.draft = u /\ req'.by = req.by
    BY <1>1, <1>4, ReplyMoves
  <2>2. CanCancel(Live, Draft)
    BY <1>4 DEF CancelPasses, CancelIsRefused
  <2>3. /\ Steady(Draft, u, Live.gate) /\ Touches(req.by, Live.gate) /\ (Live.gate <= fresh \/ UNCHANGED held)
        /\ Live.gate \in Nat
        /\ Live.gate \in DOMAIN u.approvals \ spoiled => SoundAt(u, held', Processes, Live.gate)
    BY <1>2, <1>3, <1>4, <2>1, <2>2, CancellationIsSound
  <2> QED
    BY <1>1, <2>1, <2>3, MovesKeep
<1>5. CASE /\ CancelPasses(req.by, Live, Draft)
           /\ Reply(Record(CancelledLoop(Live), "cancelled"),
                    CancelledTables(req.by, Live, Draft), "cancelled")
           /\ KeepsGate(req.by, Live, "closed")
  <2>1. "closed" \in Shut
    BY DEF Shut
  <2> QED
    BY <1>4, <1>5, <2>1
<1>6. CASE /\ CancelIsRefused(req.by, Live, Draft)
           /\ Reply(NoGate(Live), AtTheGate(Live, Draft), "refused")
           /\ KeepsGate(req.by, Live, "halfway")
  <2>1. "halfway" \in Shut
    BY DEF Shut
  <2> QED
    BY <1>4, <1>6, <2>1
<1>7. CASE Reply(Live, Draft, "refused") /\ UNCHANGED held
  BY <1>1, <1>7, TalkIsQuiet
<1> QED
  BY <1>5, <1>6, <1>7 DEF StepCancels

LEMMA StepExecutesMoves ==
    ASSUME Inv, Inv', GateInv, StepExecutes
    PROVE  GateInv'
<1>1. Advancing /\ db' = db /\ fresh' = NextId /\ UNCHANGED <<held, spoiled>>
  BY DEF StepExecutes, InBudget, Free
<1>2. PICK m, u, out, status : Reply(m, u, out) /\ u = Submitted(Draft, NextId, "call", status)
  BY DEF StepExecutes
<1>3. /\ req.by \in Processes /\ req # NoRequest /\ InSight = Draft
      /\ req' # NoRequest /\ req'.draft = u /\ req'.by = req.by
  BY <1>1, <1>2, ReplyMoves
<1>4. RowsFit(Draft, fresh) /\ fresh \in Nat /\ NextId = fresh + 1
  BY <1>3, LiveSees DEF Sees, TablesFit, NextId
<1>5. u.approvals = Draft.approvals /\ \A d \in DOMAIN Draft.execs : u.execs[d] = Draft.execs[d]
  BY <1>2, <1>4, CallIsQuiet
<1>6. Steady(Draft, u, 0)
  BY <1>4, <1>5 DEF Steady, RowsFit
<1> QED
  BY <1>1, <1>3, <1>4, <1>6, QuietKeeps

LEMMA StepSuspendsMoves ==
    ASSUME Inv, Inv', GateInv, StepSuspends
    PROVE  GateInv'
<1>1. /\ Advancing /\ MaySubmit /\ fresh' = NextId /\ Keeps(req.by, NextId, "suspended")
      /\ db' = db /\ UNCHANGED spoiled
  BY DEF StepSuspends, InBudget, Free
<1>2. PICK m, n : Reply(m, [SuspendedTables(Draft, NextId, "call") EXCEPT !.snap = n], "waiting_approval")
  BY DEF StepSuspends
<1> QED
  BY <1>1, <1>2, SuspensionMoves

LEMMA StepFinishesMoves ==
    ASSUME Inv, Inv', GateInv, StepFinishes
    PROVE  GateInv'
<1>1. Advancing /\ db' = db /\ UNCHANGED spoiled
  BY DEF StepFinishes, InBudget, Free
<1>2. PICK m, n, out :
        \/ Reply(m, Draft, out) /\ UNCHANGED <<held, fresh>>
        \/ /\ MaySubmit /\ fresh' = NextId /\ Keeps(req.by, NextId, "suspended")
           /\ Reply(m, [SuspendedTables(Draft, NextId, "finish") EXCEPT !.snap = n], out)
  BY DEF StepFinishes
<1>3. CASE Reply(m, Draft, out) /\ UNCHANGED <<held, fresh>>
  BY <1>1, <1>3, TalkIsQuiet
<1>4. CASE /\ MaySubmit /\ fresh' = NextId /\ Keeps(req.by, NextId, "suspended")
           /\ Reply(m, [SuspendedTables(Draft, NextId, "finish") EXCEPT !.snap = n], out)
  BY <1>1, <1>4, SuspensionMoves
<1> QED
  BY <1>2, <1>3, <1>4

LEMMA LoopStepMoves ==
    ASSUME Inv, Inv', GateInv, LoopStep
    PROVE  GateInv'
<1>1. CASE \/ StepWaits \/ StepExhausts \/ StepFailsToPlan \/ StepIsStuck
           \/ StepRefusesAction \/ StepReplans \/ StepIsDenied
  <2>1. Advancing /\ db' = db /\ fresh' = fresh /\ UNCHANGED <<held, spoiled>>
    BY <1>1 DEF StepWaits, StepExhausts, StepFailsToPlan, StepIsStuck, StepRefusesAction,
                StepReplans, StepIsDenied, InBudget, Free, counters
  <2>2. \E m, out : Reply(m, Draft, out)
    BY <1>1 DEF StepWaits, StepExhausts, StepFailsToPlan, StepIsStuck, StepRefusesAction,
                StepReplans, StepIsDenied
  <2> QED
    BY <2>1, <2>2, TalkIsQuiet
<1> QED
  BY <1>1, StepCancelsMoves, StepFinishesMoves, StepSuspendsMoves, StepExecutesMoves DEF LoopStep

\* What a process finds that serves a new request.
LEMMA AtRest ==
    ASSUME Inv, GateInv, req = NoRequest
    PROVE  /\ InSight = db /\ Sound(db, held, Processes, spoiled) /\ held \in Copies
           /\ RowsFit(db, fresh) /\ fresh \in Nat /\ fresh <= MaxExecutions
           /\ Replicas \subseteq Processes /\ Sweeper \in Processes
BY AgentRunAssumption DEF GateInv, InSight, Inv, Counts, TablesFit, Processes

LEMMA BeginAdvanceMoves ==
    ASSUME Inv, Inv', GateInv, NEW p \in Replicas, BeginAdvance(p)
    PROVE  GateInv'
<1>1. PICK job \in {"step", "run"} : Begin(p, job)
  BY DEF BeginAdvance
<1>2. /\ req = NoRequest /\ req' = [by |-> p, job |-> job, draft |-> db, out |-> "none"]
      /\ db' = db /\ fresh' = fresh /\ UNCHANGED <<held, spoiled>>
  BY <1>1 DEF Begin, BeginAdvance, counters
<1>3. req' # NoRequest /\ req'.by = p /\ req'.draft = db
  BY <1>2, RequestIs
<1>4. p \in Processes /\ InSight = db
  BY <1>2, AtRest
<1>5. Steady(db, db, 0)
  BY DEF Steady
<1> QED
  BY <1>2, <1>3, <1>4, <1>5, QuietKeeps

\* A decision, whether the kernel closes the gate or refuses to.
LEMMA DecideMoves ==
    ASSUME Inv, Inv', GateInv, NEW p \in Replicas, Decide(p)
    PROVE  GateInv'
<1>1. req = NoRequest /\ db' = db /\ UNCHANGED spoiled
  BY DEF Decide, MayDecide
<1>2. PICK e \in DOMAIN db.approvals :
        /\ Decidable(db, e)
        /\ \/ (Approve(p, e, Stack(p)) \/ Reject(p, e, Stack(p))) /\ Keeps(p, e, "closed")
           \/ DecisionIsRefused(p, e, Stack(p))
  BY DEF Decide, MayDecide
<1>3. /\ InSight = db /\ Sound(db, held, Processes, spoiled) /\ held \in Copies /\ p \in Processes
      /\ RowsFit(db, fresh) /\ fresh \in Nat /\ fresh <= MaxExecutions
  BY <1>1, AtRest
<1>4. e \in 1..MaxExecutions /\ e \in Nat /\ e <= fresh
  BY <1>3, AgentRunAssumption DEF RowsFit
<1>5. ASSUME NEW status \in {"approved", "rejected"}, NEW u, u = Decided(p, db, e, status, "completed"),
             Keeps(p, e, "closed")
      PROVE  /\ Steady(db, u, e) /\ RowsFit(u, fresh) /\ Touches(p, e)
             /\ e \notin spoiled => SoundAt(u, held', Processes, e)
  <2>1. Touches(p, e)
    BY <1>3, <1>4, <1>5, KeepsFits DEF CopyStatuses
  <2>2. /\ Steady(db, u, e) /\ RowsFit(u, fresh)
        /\ e \notin spoiled => SoundAt(u, held', Processes, e)
    BY <1>2, <1>3, <1>5, DecisionIsSound
  <2> QED
    BY <2>1, <2>2
<1>6. CASE Approve(p, e, Stack(p)) /\ Keeps(p, e, "closed")
  <2> DEFINE u == Decided(p, db, e, "approved", "completed")
  <2>1. /\ Steady(db, u, e) /\ RowsFit(u, fresh) /\ Touches(p, e)
        /\ e \notin spoiled => SoundAt(u, held', Processes, e)
    BY <1>5, <1>6
  <2>2. PICK w, out :
          /\ req' = [by |-> p, job |-> "decide", draft |-> w, out |-> out]
          /\ \/ w = u /\ fresh' = fresh
             \/ \E status : w = Submitted(u, fresh + 1, "call", status) /\ fresh' = fresh + 1
    <3>1. CASE db.approvals[e].action = "finish"
      BY <1>6, <3>1 DEF Approve
    <3>2. CASE db.approvals[e].action # "finish"
      BY <1>6, <3>2 DEF Approve, NextId
    <3> QED
      BY <3>1, <3>2
  <2> HIDE DEF u
  <2>3. DOMAIN w.approvals = DOMAIN u.approvals /\ w.approvals = u.approvals
        /\ \A d \in DOMAIN u.execs : w.execs[d] = u.execs[d]
    BY <1>3, <2>1, <2>2, CallIsQuiet
  <2>4. DOMAIN u.approvals \subseteq DOMAIN u.execs
    BY <2>1 DEF RowsFit
  <2>5. Steady(db, w, e)
    BY <2>1, <2>3, <2>4 DEF Steady
  <2>6. e \in DOMAIN w.approvals \ spoiled => SoundAt(w, held', Processes, e)
    BY <2>1, <2>3, <2>4 DEF SoundAt
  <2>7. req' # NoRequest /\ req'.by = p /\ req'.draft = w
    BY <2>2, RequestIs
  <2>8. e <= fresh' /\ fresh' \in {fresh, fresh + 1}
    BY <1>3, <1>4, <2>2
  <2> QED
    BY <1>1, <1>3, <1>4, <2>1, <2>5, <2>6, <2>7, <2>8, MovesKeep
<1>7. CASE Reject(p, e, Stack(p)) /\ Keeps(p, e, "closed")
  <2> DEFINE u == Decided(p, db, e, "rejected", "completed")
  <2>1. /\ Steady(db, u, e) /\ Touches(p, e)
        /\ e \notin spoiled => SoundAt(u, held', Processes, e)
    BY <1>5, <1>7
  <2>2. req' = [by |-> p, job |-> "decide", draft |-> u, out |-> "denied"] /\ fresh' = fresh
    BY <1>7 DEF Reject
  <2> HIDE DEF u
  <2>3. req' # NoRequest /\ req'.by = p /\ req'.draft = u
    BY <2>2, RequestIs
  <2> QED
    BY <1>1, <1>3, <1>4, <2>1, <2>2, <2>3, MovesKeep
<1>8. CASE DecisionIsRefused(p, e, Stack(p))
  <2>1. PICK status \in {"approved", "rejected"} :
          req' = [by |-> p, job |-> "decide", draft |-> ApprovalIs(db, e, status), out |-> "refused"]
    BY <1>8 DEF DecisionIsRefused
  <2>2. GateIsRefused(p, db, e) /\ Keeps(p, e, "halfway") /\ fresh' = fresh
    BY <1>8 DEF DecisionIsRefused
  <2> DEFINE u == ApprovalIs(db, e, status)
  <2>3. status \in ApprovalStatuses /\ status # "pending" /\ u = ApprovalIs(db, e, status)
    BY DEF ApprovalStatuses
  <2>4. req' # NoRequest /\ req'.by = p /\ req'.draft = u
    BY <2>1, RequestIs
  <2> HIDE DEF u
  <2>5. /\ u.execs = db.execs /\ DOMAIN u.approvals = DOMAIN db.approvals /\ Follows(db, u, fresh)
        /\ \A d \in DOMAIN u.approvals :
             u.approvals[d].status = IF d = e THEN status ELSE db.approvals[d].status
    BY <1>3, <2>3, ApprovalIsFits
  <2>6. Steady(db, u, e)
    BY <2>5 DEF Steady
  <2>7. e \in spoiled
    <3> SUFFICES ASSUME e \notin spoiled PROVE FALSE
      OBVIOUS
    <3>1. SoundAt(db, held, Processes, e)
      BY <1>2, <1>3 DEF Sound
    <3>2. held[p][e] \in CopyStatuses /\ db.approvals[e].status = "pending"
      BY <1>2, <1>3, <1>4 DEF Copies, Decidable
    <3> QED
      BY <1>3, <2>2, <3>1, <3>2, PendingGate
  <2>8. Touches(p, e)
    BY <1>3, <1>4, <2>2, KeepsFits DEF CopyStatuses
  <2> QED
    BY <1>1, <1>3, <1>4, <2>2, <2>4, <2>6, <2>7, <2>8, MovesKeep
<1> QED
  BY <1>2, <1>6, <1>7, <1>8

\* The intent to cancel is no gate's business.
LEMMA AskedIs ==
    ASSUME NEW n \in Nat, RowsFit(db, n)
    PROVE  RowsFit(Asked, n) /\ Asked.execs = db.execs /\ Asked.approvals = db.approvals
<1> DEFINE w == [db EXCEPT !.intent = "requested"]
<1>1. RowsFit(w, n) /\ w.snap = db.snap /\ Follows(db, w, n)
  BY IntentRowsFit
<1>2. w.execs = db.execs /\ w.approvals = db.approvals
  BY DEF RowsFit
<1>3. Asked = db \/ Asked = w
  BY DEF Asked
<1> HIDE DEF w
<1> QED
  BY <1>1, <1>2, <1>3

LEMMA CancelRunMoves ==
    ASSUME Inv, Inv', GateInv, NEW p \in Replicas, CancelRun(p)
    PROVE  GateInv'
<1> DEFINE l == Stack(p)
<1>1. /\ req = NoRequest /\ db' = db /\ fresh' = fresh /\ UNCHANGED spoiled
      /\ mem[p] # NoLoop \/ Loadable
  BY DEF CancelRun, MayCancel, counters
<1>2. /\ InSight = db /\ Sound(db, held, Processes, spoiled) /\ held \in Copies /\ p \in Processes
      /\ RowsFit(db, fresh) /\ fresh \in Nat /\ fresh <= MaxExecutions
  BY <1>1, AtRest
<1>3. Knows(l, db)
  BY <1>1, StackSees DEF Sees
<1>4. PICK u, out :
        /\ req' = [by |-> p, job |-> "cancel", draft |-> u, out |-> out]
        /\ \/ CancelPasses(p, l, db) /\ KeepsGate(p, l, "closed") /\ u = CancelledTables(p, l, db)
           \/ CancelIsRefused(p, l, db) /\ KeepsGate(p, l, "halfway") /\ u = AtTheGate(l, Asked)
           \/ UNCHANGED held /\ u = Asked
  BY DEF CancelRun
<1> HIDE DEF l
<1>5. req' # NoRequest /\ req'.by = p /\ req'.draft = u
  BY <1>4, RequestIs
<1>6. RowsFit(Asked, fresh) /\ Asked.execs = db.execs /\ Asked.approvals = db.approvals
  BY <1>2, AskedIs
<1>7. "closed" \in Shut /\ "halfway" \in Shut
  BY DEF Shut
<1>8. CASE CancelPasses(p, l, db) /\ KeepsGate(p, l, "closed") /\ u = CancelledTables(p, l, db)
  <2>1. CanCancel(l, db)
    BY <1>8 DEF CancelPasses
  <2>2. /\ Steady(db, u, l.gate) /\ Touches(p, l.gate) /\ (l.gate <= fresh \/ UNCHANGED held)
        /\ l.gate \in Nat
        /\ l.gate \in DOMAIN u.approvals \ spoiled => SoundAt(u, held', Processes, l.gate)
    BY <1>2, <1>3, <1>7, <1>8, <2>1, CancellationIsSound
  <2> QED
    BY <1>1, <1>2, <1>5, <2>2, MovesKeep
<1>9. CASE CancelIsRefused(p, l, db) /\ KeepsGate(p, l, "halfway") /\ u = AtTheGate(l, Asked)
  <2>1. CancelIsRefused(p, l, Asked) /\ CanCancel(l, Asked)
    BY <1>6, <1>9 DEF CancelIsRefused, CanCancel, Decidable, GateIsRefused, Copy
  <2>2. Knows(l, Asked)
    BY <1>3, <1>6 DEF Knows
  <2>3. Sound(Asked, held, Processes, spoiled)
    BY <1>2, <1>6 DEF Sound, SoundAt
  <2>4. /\ Steady(Asked, u, l.gate) /\ Touches(p, l.gate) /\ (l.gate <= fresh \/ UNCHANGED held)
        /\ l.gate \in Nat
        /\ l.gate \in DOMAIN u.approvals \ spoiled => SoundAt(u, held', Processes, l.gate)
    BY <1>2, <1>6, <1>7, <1>9, <2>1, <2>2, <2>3, CancellationIsSound
  <2>5. Steady(db, u, l.gate)
    BY <1>6, <2>4 DEF Steady
  <2> QED
    BY <1>1, <1>2, <1>5, <2>4, <2>5, MovesKeep
<1>10. CASE UNCHANGED held /\ u = Asked
  <2>1. Steady(db, u, 0)
    BY <1>6, <1>10 DEF Steady
  <2> QED
    BY <1>1, <1>2, <1>5, <1>10, <2>1, QuietKeeps
<1> QED
  BY <1>4, <1>8, <1>9, <1>10

LEMMA SweepMoves ==
    ASSUME Inv, Inv', GateInv, Sweep
    PROVE  GateInv'
<1>1. /\ req = NoRequest /\ req' = NoRequest /\ fresh' = fresh /\ UNCHANGED spoiled /\ db.snap # NoLoop
  BY DEF Sweep, counters, HasSnapshot
<1>2. /\ InSight = db /\ Sound(db, held, Processes, spoiled) /\ held \in Copies /\ Sweeper \in Processes
      /\ RowsFit(db, fresh) /\ fresh \in Nat /\ fresh <= MaxExecutions
  BY <1>1, AtRest
<1>3. CASE db' = [db EXCEPT !.intent = "settled"] /\ UNCHANGED held
  <2> DEFINE u == [db EXCEPT !.intent = "settled"]
  <2>1. u.execs = db.execs /\ u.approvals = db.approvals /\ db' = u
    BY <1>2, <1>3 DEF RowsFit
  <2> HIDE DEF u
  <2>2. Steady(db, u, 0)
    BY <2>1 DEF Steady
  <2> QED
    BY <1>1, <1>2, <1>3, <2>1, <2>2, QuietKeeps
<1>4. CASE /\ Loadable /\ CancelPasses(Sweeper, Restored(db), db)
           /\ db' = CancelledTables(Sweeper, Restored(db), db)
           /\ KeepsGate(Sweeper, Restored(db), "closed")
  <2> DEFINE l == Restored(db)
             u == CancelledTables(Sweeper, l, db)
  <2>1. /\ CanCancel(l, db) /\ CancelPasses(Sweeper, l, db) /\ KeepsGate(Sweeper, l, "closed")
        /\ db' = u /\ u = CancelledTables(Sweeper, l, db) /\ "closed" \in Shut
    BY <1>4 DEF CancelPasses, Shut
  <2>2. Knows(l, db)
    <3>1. LoopFits(db.snap, fresh) /\ Patient(db.snap) /\ Agrees(db.snap, db)
      BY <1>1 DEF Inv, TablesFit, SnapFits, CopiesAgree, CopiesFit
    <3> QED
      BY <1>2, <1>4, <3>1, RestoredFits DEF Loadable
  <2> HIDE DEF l, u
  <2>3. /\ Steady(db, u, l.gate) /\ Touches(Sweeper, l.gate) /\ (l.gate <= fresh \/ UNCHANGED held)
        /\ l.gate \in Nat
        /\ l.gate \in DOMAIN u.approvals \ spoiled => SoundAt(u, held', Processes, l.gate)
    BY <1>2, <2>1, <2>2, CancellationIsSound
  <2> QED
    BY <1>1, <1>2, <2>1, <2>3, MovesKeep
<1> QED
  BY <1>1, <1>3, <1>4 DEF Sweep

\* What changes the tables while no request is served, and no gate.
LEMMA RowsMove ==
    ASSUME Inv, Inv', GateInv, Intend \/ TimePasses \/ Retry
    PROVE  GateInv'
<1>1. /\ req = NoRequest /\ req' = NoRequest /\ fresh' = fresh /\ UNCHANGED <<held, spoiled>>
  BY DEF Intend, TimePasses, Retry, counters
<1>2. /\ InSight = db /\ Sweeper \in Processes /\ RowsFit(db, fresh) /\ fresh \in Nat
  BY <1>1, AtRest
<1>3. Steady(db, db', 0)
  <2>1. CASE Intend
    <3>1. db'.execs = db.execs /\ db'.approvals = db.approvals
      BY <1>2, <2>1 DEF Intend, RowsFit
    <3> QED
      BY <3>1 DEF Steady
  <2>2. CASE TimePasses
    <3>1. PICK e \in DOMAIN db.approvals : db' = [db EXCEPT !.approvals[e].overdue = TRUE]
      BY <2>2 DEF TimePasses
    <3> DEFINE x == [db.approvals EXCEPT ![e].overdue = TRUE]
    <3>2. db' = [db EXCEPT !.approvals = x]
      BY <3>1
    <3>3. DOMAIN x = DOMAIN db.approvals /\ \A d \in DOMAIN x : x[d].status = db.approvals[d].status
      BY <1>2 DEF RowsFit, Approval
    <3> HIDE DEF x
    <3>4. db'.execs = db.execs /\ db'.approvals = x
      BY <1>2, <3>2 DEF RowsFit
    <3> QED
      BY <3>3, <3>4 DEF Steady
  <2>3. CASE Retry
    <3>1. PICK e \in DOMAIN db.execs, status \in {"completed", "failed"} :
            db.execs[e].status = "pending" /\ db' = [db EXCEPT !.execs[e].status = status]
      BY <2>3 DEF Retry
    <3> DEFINE x == [db.execs EXCEPT ![e].status = status]
    <3>2. db' = [db EXCEPT !.execs = x]
      BY <3>1
    <3>3. \A d \in DOMAIN db.execs : d # e => x[d] = db.execs[d]
      OBVIOUS
    <3> HIDE DEF x
    <3>4. db'.execs = x /\ db'.approvals = db.approvals
      BY <1>2, <3>2 DEF RowsFit
    <3>5. e \notin DOMAIN db.approvals
      BY <1>2, <3>1 DEF RowsFit, GateStatuses
    <3>6. DOMAIN db.approvals \subseteq DOMAIN db.execs
      BY <1>2 DEF RowsFit
    <3> QED
      BY <3>3, <3>4, <3>5, <3>6 DEF Steady
  <2> QED
    BY <2>1, <2>2, <2>3
<1> QED
  BY <1>1, <1>2, <1>3, QuietKeeps

LEMMA CommitMoves ==
    ASSUME Inv, Inv', GateInv, Commit
    PROVE  GateInv'
<1>1. /\ req # NoRequest /\ req' = NoRequest /\ db' = Saved(req.job, req.out, Draft, Live)
      /\ UNCHANGED <<held, fresh, spoiled>>
  BY DEF Commit, Over, counters
<1>2. RowsFit(Draft, fresh)
  BY <1>1, LiveSees DEF Sees, TablesFit
<1>3. db'.execs = Draft.execs /\ db'.approvals = Draft.approvals
  <2> DEFINE u == [Draft EXCEPT !.snap = Live]
  <2>1. u.execs = Draft.execs /\ u.approvals = Draft.approvals
    BY <1>2 DEF RowsFit
  <2>2. db' = Draft \/ db' = u
    BY <1>1 DEF Saved
  <2> HIDE DEF u
  <2> QED
    BY <2>1, <2>2
<1>4. Sound(Draft, held, Processes, spoiled)
  BY <1>1 DEF GateInv, Draft
<1>5. Sound(db', held', Processes, spoiled')
  BY <1>1, <1>3, <1>4 DEF Sound, SoundAt
<1>6. held' \in Copies /\ \A q \in Processes, e \in 1..MaxExecutions : e > fresh' => held'[q][e] = "unread"
  BY <1>1 DEF GateInv
<1> QED
  BY <1>1, <1>5, <1>6 DEF GateInv

\* The process whose request failed may be ahead of the tables at the gates it closed,
\* and at the gate it was closing: they are spoiled.
LEMMA LeavesBehind ==
    ASSUME Inv, GateInv, NEW p \in Processes, req # NoRequest => req.by = p,
           NEW e, Touches(p, e), e <= fresh \/ UNCHANGED held,
           db' = db, fresh' = fresh, req' = NoRequest,
           NEW S, spoiled' = spoiled \cup ClosedIn(InSight) \cup S,
           UNCHANGED held \/ e \in S
    PROVE  GateInv'
<1>1. held' \in Copies
      /\ \A q \in Processes, d \in 1..MaxExecutions : q # p \/ d # e => held'[q][d] = held[q][d]
  BY DEF Touches
<1>2. RowsFit(db, fresh) /\ fresh \in Nat /\ fresh <= MaxExecutions
  BY AgentRunAssumption DEF Inv, TablesFit, Counts
<1>3. DOMAIN db.approvals \subseteq 1..MaxExecutions
  BY <1>2, AgentRunAssumption DEF RowsFit
<1>4. \A q \in Processes, d \in 1..MaxExecutions : d > fresh' => held'[q][d] = "unread"
  BY <1>1, <1>2 DEF GateInv
<1>5. ASSUME NEW d \in DOMAIN db.approvals \ spoiled'
      PROVE  SoundAt(db, held', Processes, d)
  <2>1. d \notin spoiled /\ d \notin ClosedIn(InSight) /\ d \in 1..MaxExecutions
    BY <1>3
  <2>2. \A q \in Processes : held'[q][d] = held[q][d]
    BY <1>1, <2>1
  <2>3. CASE req = NoRequest
    BY <2>1, <2>2, <2>3 DEF GateInv, Sound, SoundAt
  <2>4. CASE req # NoRequest
    <3>1. InSight = req.draft /\ d \in DOMAIN req.draft.approvals
      BY <2>4 DEF InSight, GateInv
    <3>2. req.draft.execs[d] = db.execs[d]
      BY <2>1, <3>1 DEF ClosedIn
    <3>3. \A q \in Processes : held[q][d] \in Shut => db.execs[d].status # "suspended"
      BY <2>1, <2>4, <3>1, <3>2 DEF GateInv, Sound, SoundAt
    <3>4. db.execs[d].status = GateOf(db.approvals[d].status)
      BY <2>1, <2>4 DEF GateInv, Sound, SoundAt
    <3> QED
      BY <2>2, <3>3, <3>4 DEF SoundAt
  <2> QED
    BY <2>3, <2>4
<1>6. Sound(db', held', Processes, spoiled')
  BY <1>5 DEF Sound
<1> QED
  BY <1>1, <1>4, <1>6 DEF GateInv

LEMMA RollbackMoves ==
    ASSUME Inv, GateInv, Rollback
    PROVE  GateInv'
<1>1. /\ req # NoRequest /\ req' = NoRequest /\ spoiled' = spoiled \cup ClosedIn(Draft)
      /\ db' = db /\ fresh' = fresh /\ UNCHANGED held
  BY DEF Rollback
<1>2. req.by \in Processes /\ InSight = Draft
  BY <1>1 DEF Inv, RequestFits, Processes, InSight, Draft
<1>3. Touches(req.by, 0)
  BY <1>1, UntouchedFits DEF GateInv
<1>4. spoiled' = spoiled \cup ClosedIn(InSight) \cup {}
  BY <1>1, <1>2
<1> QED
  BY <1>1, <1>2, <1>3, <1>4, LeavesBehind

\* The 5xx that comes while a gate is closed.
LEMMA FailingMoves ==
    ASSUME Inv, GateInv, NEW p \in Processes, req # NoRequest => req.by = p,
           NEW e \in DOMAIN InSight.approvals, NEW verdict, GateFails(p, InSight, e, verdict), req' = NoRequest
    PROVE  GateInv'
<1>1. /\ db' = db /\ fresh' = fresh /\ spoiled' = spoiled \cup ClosedIn(InSight) \cup {e}
  BY DEF GateFails
<1>2. PICK copy \in {"halfway", "closed"} : Keeps(p, e, copy)
  BY DEF GateFails
<1>3. RowsFit(InSight, fresh) /\ fresh \in Nat /\ fresh <= MaxExecutions
  BY AgentRunAssumption DEF InSight, Inv, RequestFits, TablesFit, Counts
<1>4. e \in 1..MaxExecutions /\ e <= fresh
  BY <1>3, AgentRunAssumption DEF RowsFit
<1>5. Touches(p, e)
  BY <1>2, <1>4, KeepsFits DEF GateInv, CopyStatuses
<1> QED
  BY <1>1, <1>4, <1>5, LeavesBehind

LEMMA FailuresMove ==
    ASSUME Inv, GateInv,
           \/ \E p \in Replicas : DecideFails(p) \/ CancelFails(p)
           \/ StepCancelFails \/ SweepFails
    PROVE  GateInv'
<1>1. ASSUME NEW p \in Replicas, DecideFails(p)
      PROVE  GateInv'
  <2>1. req = NoRequest /\ req' = NoRequest
    BY <1>1 DEF DecideFails, MayDecide
  <2>2. PICK e \in DOMAIN db.approvals : GateFails(p, db, e, "completed")
    BY <1>1 DEF DecideFails
  <2>3. InSight = db /\ p \in Processes
    BY <2>1, AtRest
  <2> QED
    BY <2>1, <2>2, <2>3, FailingMoves
<1>2. ASSUME NEW p \in Replicas, CancelFails(p)
      PROVE  GateInv'
  <2> DEFINE l == Stack(p)
  <2>1. /\ req = NoRequest /\ req' = NoRequest
        /\ mem[p] # NoLoop \/ Loadable
        /\ l.gate # 0 /\ CanCancel(l, db) /\ GateFails(p, db, l.gate, "cancelled")
    BY <1>2 DEF CancelFails, MayCancel
  <2>2. InSight = db /\ p \in Processes /\ RowsFit(db, fresh) /\ fresh \in Nat
    BY <2>1, AtRest
  <2>3. Knows(l, db)
    BY <2>1, StackSees DEF Sees
  <2> HIDE DEF l
  <2>4. l.gate \in DOMAIN db.approvals
    BY <2>1, <2>3 DEF Knows, CanCancel, Decidable
  <2> QED
    BY <2>1, <2>2, <2>4, FailingMoves
<1>3. CASE StepCancelFails
  <2>1. /\ req # NoRequest /\ req' = NoRequest
        /\ Live.gate # 0 /\ CanCancel(Live, Draft) /\ GateFails(req.by, Draft, Live.gate, "cancelled")
    BY <1>3 DEF StepCancelFails, Advancing
  <2>2. Sees(req.by, Live, Draft) /\ fresh \in Nat
    BY <2>1, LiveSees
  <2>3. RowsFit(Draft, fresh) /\ Knows(Live, Draft) /\ req.by \in Processes /\ InSight = Draft
    BY <2>1, <2>2 DEF Sees, TablesFit, Processes, InSight, Draft
  <2>4. Live.gate \in DOMAIN Draft.approvals
    BY <2>1, <2>3 DEF Knows, CanCancel, Decidable
  <2> QED
    BY <2>1, <2>3, <2>4, FailingMoves
<1>4. CASE SweepFails
  <2> DEFINE l == Restored(db)
  <2>1. /\ req = NoRequest /\ req' = NoRequest /\ Loadable /\ db.snap # NoLoop
        /\ db.snap.gate # 0 /\ CanCancel(l, db) /\ GateFails(Sweeper, db, db.snap.gate, "cancelled")
    BY <1>4 DEF SweepFails, Loadable, HasSnapshot
  <2>2. InSight = db /\ Sweeper \in Processes
    BY <2>1, AtRest
  <2>3. db.snap.gate \in DOMAIN db.approvals
    BY <2>1 DEF Loadable
  <2> QED
    BY <2>1, <2>2, <2>3, FailingMoves
<1> QED
  BY <1>1, <1>2, <1>3, <1>4

\* A process that starts again has read nothing.
LEMMA RestartsMove ==
    ASSUME Inv, GateInv, RestartSweeper \/ \E p \in Replicas : Restart(p)
    PROVE  GateInv'
<1>1. PICK p \in Processes :
        /\ held' = [held EXCEPT ![p] = NoCopies] /\ db' = db /\ fresh' = fresh /\ UNCHANGED spoiled
        /\ req' = req \/ (req' = NoRequest /\ req.by = p)
  BY DEF RestartSweeper, Restart, Processes
<1>2. NoCopies \in [1..MaxExecutions -> CopyStatuses] /\ \A e \in 1..MaxExecutions : NoCopies[e] = "unread"
  BY DEF NoCopies, CopyStatuses
<1>3. held' \in Copies
  BY <1>1, <1>2 DEF GateInv, Copies
<1>4. \A q \in Processes, e \in 1..MaxExecutions : held'[q][e] = IF q = p THEN "unread" ELSE held[q][e]
  BY <1>1, <1>2 DEF GateInv, Copies
<1>5. \A q \in Processes, e \in 1..MaxExecutions : e > fresh' => held'[q][e] = "unread"
  BY <1>1, <1>4 DEF GateInv
<1>6. /\ RowsFit(db, fresh) /\ fresh \in Nat /\ fresh <= MaxExecutions
      /\ req # NoRequest => RowsFit(req.draft, fresh)
  BY AgentRunAssumption DEF Inv, TablesFit, Counts, RequestFits
<1>7. /\ DOMAIN db.approvals \subseteq 1..MaxExecutions
      /\ req # NoRequest => DOMAIN req.draft.approvals \subseteq 1..MaxExecutions
  BY <1>6, AgentRunAssumption DEF RowsFit
<1>8. ASSUME NEW t, DOMAIN t.approvals \subseteq 1..MaxExecutions, NEW Q \in SUBSET Processes,
             Sound(t, held, Q, spoiled)
      PROVE  Sound(t, held', Q \cup {p}, spoiled)
  BY <1>4, <1>8 DEF Sound, SoundAt, Shut
<1>9. CASE req = NoRequest
  <2>1. Sound(db, held', Processes \cup {p}, spoiled) /\ Processes \cup {p} = Processes
    BY <1>7, <1>8, <1>9 DEF GateInv
  <2>2. req' = NoRequest
    BY <1>1, <1>9
  <2> QED
    BY <1>1, <1>3, <1>5, <2>1, <2>2 DEF GateInv
<1>10. CASE req # NoRequest
  <2> DEFINE Q == Processes \ {req.by}
  <2>1. Sound(db, held', Q \cup {p}, spoiled) /\ Sound(req.draft, held', Processes \cup {p}, spoiled)
    BY <1>7, <1>8, <1>10 DEF GateInv
  <2>2. Processes \cup {p} = Processes
    OBVIOUS
  <2>3. CASE req' = NoRequest /\ req.by = p
    <3>1. Q \cup {p} = Processes
      BY <2>3
    <3> QED
      BY <1>1, <1>3, <1>5, <2>1, <2>3, <3>1 DEF GateInv
  <2>4. CASE req' = req
    <3>1. Sound(db, held', Q, spoiled)
      BY <2>1 DEF Sound, SoundAt
    <3>2. Sound(req.draft, held', Processes, spoiled) /\ DOMAIN db.approvals \subseteq DOMAIN req.draft.approvals
      BY <1>10, <2>1, <2>2 DEF GateInv
    <3> QED
      BY <1>1, <1>3, <1>5, <1>10, <2>4, <3>1, <3>2 DEF GateInv
  <2> QED
    BY <1>1, <2>3, <2>4
<1> QED
  BY <1>9, <1>10

LEMMA NothingMoves ==
    ASSUME GateInv, UNCHANGED <<db, req, held, fresh, spoiled>>
    PROVE  GateInv'
BY DEF GateInv, Sound, SoundAt

LEMMA NextMoves ==
    ASSUME Inv, Inv', GateInv, [Next]_vars
    PROVE  GateInv'
<1>1. CASE \/ UNCHANGED vars
           \/ \E p \in Replicas : StartRun(p) \/ GetRun(p)
  <2>1. UNCHANGED <<db, req, held, fresh, spoiled>>
    BY <1>1 DEF vars, StartRun, GetRun, counters
  <2> QED
    BY <2>1, NothingMoves
<1>2. CASE \E p \in Replicas : BeginAdvance(p) \/ Decide(p) \/ CancelRun(p)
  BY <1>2, BeginAdvanceMoves, DecideMoves, CancelRunMoves
<1>3. CASE LoopStep \/ Commit \/ Rollback
  BY <1>3, LoopStepMoves, CommitMoves, RollbackMoves
<1>4. CASE \/ \E p \in Replicas : DecideFails(p) \/ CancelFails(p)
           \/ StepCancelFails \/ SweepFails
  BY <1>4, FailuresMove
<1>5. CASE RestartSweeper \/ \E p \in Replicas : Restart(p)
  BY <1>5, RestartsMove
<1>6. CASE Intend \/ TimePasses \/ Retry \/ Sweep
  BY <1>6, RowsMove, SweepMoves
<1> QED
  BY <1>1, <1>2, <1>3, <1>4, <1>5, <1>6 DEF Next, Serve

LEMMA InitSound ==
    ASSUME Init
    PROVE  GateInv
<1>1. db = NoTables /\ req = NoRequest /\ spoiled = {} /\ held = [p \in Processes |-> NoCopies]
  BY DEF Init
<1>2. DOMAIN db.approvals = {}
  BY <1>1 DEF NoTables
<1>3. held \in Copies /\ \A q \in Processes, e \in 1..MaxExecutions : held[q][e] = "unread"
  BY <1>1 DEF Copies, NoCopies, CopyStatuses
<1> QED
  BY <1>1, <1>2, <1>3 DEF GateInv, Sound

\* H-1 to H-3: an approval and the execution that waits for it tell the same story,
\* whoever decides, cancels or sweeps, from whichever copy of the run and of the
\* execution, as long as no request that closed the gate was rolled back (approval.py,
\* decide and cancel; loop.py, approve, reject, _close_gate and _cancel_gate).
THEOREM ApprovalsAndGatesAgree == Spec => []GateTellsTheDecision
<1>1. GateInv => GateTellsTheDecision
  BY DEF GateInv, Sound, SoundAt, GateOf, GateTellsTheDecision, Tells
<1>2. Init => GateInv
  BY InitSound
<1>3. Inv /\ Inv' /\ GateInv /\ [Next]_vars => GateInv'
  BY NextMoves
<1> QED
  BY <1>1, <1>2, <1>3, CopiesRelyOnTheTables, PTL DEF Spec

\* I-11 and I-14: a run that never replanned completes only with calls that succeeded,
\* from whichever process's copy, before or after a restart, it was carried to its end
\* (loop.py, _finish, approve and restore).
THEOREM CompletionIsEarned == Spec => []CompletedIsEarned
<1>1. Inv => CompletedIsEarned
  <2> SUFFICES ASSUME Inv, db.snap # NoLoop, db.snap.status = "completed", db.snap.invalid = NoPlan,
                      NEW i \in DOMAIN db.snap.book, NEW e \in db.snap.book[i].execs \cap DOMAIN db.execs
               PROVE  db.execs[e].status # "failed"
    BY DEF CompletedIsEarned
  <2>1. LoopFits(db.snap, fresh) /\ Agrees(db.snap, db)
    BY DEF Inv, TablesFit, SnapFits, CopiesAgree
  <2>2. Flawless(db.snap)
    BY <2>1 DEF LoopFits, Lawful, Flawless
  <2>3. e \in Work(db.snap) \cap DOMAIN db.execs
    BY InWork
  <2> QED
    BY <2>1, <2>2, <2>3 DEF Agrees, Unproven
<1> QED
  BY <1>1, CopiesRelyOnTheTables, PTL

\* I-10: the budget bounds the calls that are carried out, with every process that
\* has loaded the run, failed request and restart (loop.py, _step; service.py, _try_stack).
THEOREM BudgetBoundsTheWork == Spec => []WorkIsBounded
<1>1. Inv => WorkIsBounded
  <2> SUFFICES ASSUME Inv
               PROVE  WorkIsBounded
    OBVIOUS
  <2>1. /\ fresh \in 0..MaxExecutions /\ ran \in 0..fresh /\ faults \in 0..MaxFaults
        /\ ran <= Cardinality(Seats) + MaxSteps * faults
    BY DEF Inv, Counts
  <2> DEFINE c == Cardinality(Seats)
             r == Cardinality(Replicas)
  <2>2. c \in Nat /\ c <= MaxSteps * r
    BY SeatsAreFinite DEF Seats
  <2>3. r \in Nat /\ MaxSteps \in Nat /\ ran \in Nat /\ faults \in Nat
    BY <2>1, FS_CardinalityType, AgentRunAssumption
  <2>4. ran <= c + MaxSteps * faults
    BY <2>1
  <2> HIDE DEF c, r
  <2>5. MaxSteps * (r + faults) = MaxSteps * r + MaxSteps * faults
    BY <2>3
  <2>6. MaxSteps * r \in Nat /\ MaxSteps * faults \in Nat
    BY <2>3
  <2> DEFINE a == MaxSteps * r
             b == MaxSteps * faults
  <2>7. ran <= c + b /\ c <= a /\ a \in Nat /\ b \in Nat
    BY <2>2, <2>4, <2>6
  <2> HIDE DEF a, b
  <2>8. ran <= a + b
    BY <2>2, <2>3, <2>7
  <2> QED
    BY <2>5, <2>8 DEF a, b, r, WorkIsBounded
<1> QED
  BY <1>1, CopiesRelyOnTheTables, PTL
=============================================================================
