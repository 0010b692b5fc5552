------------------------------ MODULE RunViews ------------------------------
(***************************************************************************)
(* What is told of a run, and whether it is the same before and after a     *)
(* restart: the statuses derived for it, its ledger, the snapshot taken of  *)
(* it, the view, the list and the layers that the API answers.              *)
(*   A live loop is [book, steps, terminal, status, gate, child, state,     *)
(* ledger]: the steps of the run, each with its tasks and its status; the   *)
(* budget's count; how it was declared over, if it was; what it waits for   *)
(* (0: nothing).  A ledger entry is [seq, kind, execution, status].         *)
(***************************************************************************)
EXTENDS Integers, Sequences, FiniteSets

-----------------------------------------------------------------------------
(* Derived statuses.                                                       *)

DerivedStepStatus(statuses) ==
  IF statuses = {} THEN "pending"
  ELSE IF "running" \in statuses THEN "running"
  ELSE IF "suspended" \in statuses THEN "suspended"
  ELSE IF statuses \cap {"pending", "stale"} # {} THEN "pending"
  ELSE IF "cancelled" \in statuses THEN "cancelled"
  ELSE IF "failed" \in statuses THEN "failed"
  ELSE "completed"

DerivedRunStatus(statuses, terminal) ==
  IF terminal # "none" THEN terminal
  ELSE IF statuses = {} THEN "created"
  ELSE IF "running" \in statuses THEN "running"
  ELSE IF "suspended" \in statuses THEN "suspended"
  ELSE IF "pending" \in statuses THEN "queued"
  ELSE "running"

RunsOver == {"completed", "failed", "cancelled"}
LegalRunSteps ==
  [created |-> {"queued", "running", "suspended"} \cup RunsOver, queued |-> {"running", "suspended"} \cup RunsOver,
   running |-> {"queued", "suspended"} \cup RunsOver, suspended |-> {"queued", "running"} \cup RunsOver,
   completed |-> {}, failed |-> {}, cancelled |-> {}]

\* [ok, status]: a status that may not follow the one before it raises.
SyncedRun(status, book, terminal) ==
  LET next == DerivedRunStatus({book[i].status : i \in DOMAIN book}, terminal)
  IN IF next = status \/ next \in LegalRunSteps[status] THEN [ok |-> TRUE, status |-> next]
     ELSE [ok |-> FALSE, status |-> status]

-----------------------------------------------------------------------------
(* The ledger: entries are numbered as they are appended, and restored only *)
(* into an empty one, without a gap.                                        *)

Noted(ledger, kind) == Append(ledger, [seq |-> Len(ledger) + 1, kind |-> kind, execution |-> 0, status |-> "none"])

RestoredLedger(ledger, entries) ==
  IF ledger = <<>> /\ \A i \in DOMAIN entries : entries[i].seq = i THEN [ok |-> TRUE, entries |-> entries]
  ELSE [ok |-> FALSE, entries |-> ledger]

-----------------------------------------------------------------------------
(* Snapshots.  What is written is plain data: a plan that was observed is    *)
(* no Plan any more when it is read, the plan of the state is.               *)

StoredState(state) ==
  [state EXCEPT !.observed = [i \in DOMAIN @ |-> IF @[i] = "plan" THEN "data" ELSE @[i]]]

\* A field that is missing is given its default.
LoadedState(data) ==
  [goal |-> data.goal, plan |-> data.plan, observed |-> data.observed,
   version |-> IF data.version = 0 THEN 1 ELSE data.version]

LoadedStep(data) == [tasks |-> data.tasks, status |-> IF data.status = "none" THEN "pending" ELSE data.status]

\* A timeout of 0 is a timeout, and -1 is none; undo = 0: it declares no compensation.
StoredAction(action) == [empty |-> FALSE, type |-> action.type, timeout |-> action.timeout, risk |-> action.risk, undo |-> action.undo]
LoadedAction(data) ==
  IF data.empty THEN [ok |-> FALSE, action |-> data]
  ELSE [ok |-> TRUE, action |-> [type |-> data.type, timeout |-> data.timeout, undo |-> data.undo,
                                 risk |-> IF data.risk = "none" THEN "low" ELSE data.risk]]

SnapshotIsBuilt(s) == s.status = "suspended" => s.gate # 0 \/ s.child # 0

Captured(loop) ==
  [status |-> loop.status, state |-> StoredState(loop.state), book |-> loop.book, steps |-> loop.steps,
   gate |-> loop.gate, child |-> loop.child, ledger |-> loop.ledger]

\* restore() into a loop that was just made: [ok, loop].  The tables say which
\* approvals and which child runs there are.
RestoredUnsynced(s, tables) ==
  LET ledger == RestoredLedger(<<>>, s.ledger)
      fits == /\ s.status \notin RunsOver /\ ledger.ok
              /\ s.gate = 0 \/ s.gate \in tables.approvals
              /\ s.child = 0 \/ s.child \in tables.children
  IN [ok |-> fits,
      loop |-> [book |-> [i \in DOMAIN s.book |-> LoadedStep(s.book[i])], steps |-> s.steps, terminal |-> "none",
                status |-> "created", gate |-> s.gate, child |-> s.child, state |-> LoadedState(s.state),
                ledger |-> IF fits THEN Noted(ledger.entries, "run.recovered") ELSE <<>>]]
RestoredRun(s, tables) ==
  LET restored == RestoredUnsynced(s, tables)
  IN [restored EXCEPT !.loop.status = SyncedRun("created", restored.loop.book, "none").status]

-----------------------------------------------------------------------------
(* Views.  A live loop tells how many steps there are, a snapshot how many  *)
(* were charged; an approval is named before a child run.                   *)

ViewOf(run, loop) ==
  [run |-> run, status |-> loop.status, steps |-> Len(loop.book),
   waits |-> IF loop.gate # 0 THEN [for |-> "approval", id |-> loop.gate]
             ELSE IF loop.child # 0 THEN [for |-> "child", id |-> loop.child] ELSE [for |-> "nothing", id |-> 0]]

TerminalView(run, s) == [run |-> run, status |-> s.status, steps |-> s.steps, waits |-> [for |-> "nothing", id |-> 0]]

\* Stores: memory is a partial function from runs to loops, snaps the snapshots
\* [run, at, snap] that were saved, at being a time.
LatestOf(snaps, run) ==
  LET of == {i \in DOMAIN snaps : snaps[i].run = run} IN {i \in of : \A j \in of : j <= i}
HasSnap(store, run) == LatestOf(store.snaps, run) # {}
LatestSnap(store, run) == store.snaps[CHOOSE i \in LatestOf(store.snaps, run) : TRUE].snap

\* [found, view]: memory first; then the run is rebuilt, or told from its
\* snapshot when it is over.
GetRunView(store, run) ==
  IF run \in DOMAIN store.memory THEN [found |-> TRUE, view |-> ViewOf(run, store.memory[run])]
  ELSE IF ~HasSnap(store, run) THEN [found |-> FALSE, view |-> [run |-> run]]
  ELSE LET s == LatestSnap(store, run)
           rebuilt == RestoredRun(s, store.tables)
       IN IF s.status \in RunsOver THEN [found |-> TRUE, view |-> TerminalView(run, s)]
          ELSE IF rebuilt.ok THEN [found |-> TRUE, view |-> ViewOf(run, rebuilt.loop)]
          ELSE [found |-> FALSE, view |-> [run |-> run]]

\* The n-th number of a set, counted from the lowest one, and from the highest one.
Lowest(S, n) == CHOOSE x \in S : Cardinality({y \in S : y < x}) = n - 1
Highest(S, n) == CHOOSE x \in S : Cardinality({y \in S : y > x}) = n - 1

\* One snapshot for a run, the newest of these, at most limit.
SnapshotSummaries(store, limit) ==
  LET newest == {i \in DOMAIN store.snaps : i \in LatestOf(store.snaps, store.snaps[i].run)}
  IN {i \in newest : Cardinality({j \in newest : j > i}) < limit}

\* The runs in memory by their names, then, the newest first, those that only
\* snapshots know of.
ListRuns(store, limit) ==
  LET inMemory == DOMAIN store.memory
      unseen == {i \in SnapshotSummaries(store, limit) : store.snaps[i].run \notin inMemory}
      live(run) == [view |-> ViewOf(run, store.memory[run]), source |-> "memory", loadable |-> TRUE]
      saved(row) == [view |-> TerminalView(row.run, row.snap), source |-> "snapshots", loadable |-> FALSE]
  IN [n \in 1 .. Cardinality(inMemory) |-> live(Lowest(inMemory, n))]
     \o [n \in 1 .. Cardinality(unseen) |-> saved(store.snaps[Highest(unseen, n)])]

-----------------------------------------------------------------------------
(* The layers of a ledger.                                                  *)

EntriesOf(ledger, kind) == SelectSeq(ledger, LAMBDA e : e.kind = kind)
SeqsOf(entries) == [i \in DOMAIN entries |-> entries[i].seq]

\* An execution is told with the status of its first observation.
FirstOfEach(ledger) ==
  SelectSeq(ledger, LAMBDA e : /\ e.kind = "execution.observed" /\ e.execution # 0
                               /\ \A i \in DOMAIN ledger : ledger[i].kind = e.kind /\ ledger[i].execution = e.execution => i >= e.seq)

LayersOfLoop(loop) ==
  [actions |-> EntriesOf(loop.ledger, "task.submitted"), executions |-> FirstOfEach(loop.ledger),
   context |-> SeqsOf(EntriesOf(loop.ledger, "context.built")),
   approvals |-> SeqsOf(EntriesOf(loop.ledger, "approval.requested")),
   guardrails |-> SeqsOf(EntriesOf(loop.ledger, "guardrail.rejected")),
   status |-> loop.status, steps |-> Len(loop.book)]

LayersFromTrace(s) ==
  LET actions == EntriesOf(s.ledger, "task.submitted")
  IN [actions |-> actions, executions |-> FirstOfEach(s.ledger),
      context |-> SeqsOf(EntriesOf(s.ledger, "context.built")), approvals |-> <<>>, guardrails |-> <<>>,
      status |-> s.status, steps |-> Len(actions)]

\* [source, entries, layers], or not found.
GetTrace(store, run) ==
  IF run \in DOMAIN store.memory
  THEN LET loop == store.memory[run] IN [source |-> "memory", entries |-> loop.ledger, layers |-> LayersOfLoop(loop)]
  ELSE IF HasSnap(store, run)
       THEN LET s == LatestSnap(store, run) IN [source |-> "snapshot", entries |-> s.ledger, layers |-> LayersFromTrace(s)]
       ELSE [source |-> "nothing", entries |-> <<>>, layers |-> <<>>]

-----------------------------------------------------------------------------
(* Claims: each for one input.                                             *)

\* A step that is added or whose executions move on never makes the status of a
\* run raise: what is derived is a function of the steps as they are, and may
\* follow what was derived before (B-2, B-3; AgentRunStateMachine).
StatusesFollow(c) ==
  LET book == [i \in DOMAIN c.before |-> [status |-> DerivedStepStatus(c.before[i])]]
      later == [i \in DOMAIN c.after |-> [status |-> DerivedStepStatus(c.after[i])]]
      before == SyncedRun("created", book, "none")
  IN before.ok /\ (Len(book) <= Len(later) => SyncedRun(before.status, later, c.terminal).ok)

\* A run whose process is replaced tells the same as before, and taking its
\* snapshot again gives the same: the status is not "created" again, it waits for
\* the same, its budget goes on, and the ledger goes on without a gap (R-1, R-4, M74).
RestartIsSilent(c) ==
  LET s == Captured(c.loop)
      restored == RestoredRun(s, c.tables)
      again == Captured(restored.loop)
      kept == Len(s.ledger)
  IN SnapshotIsBuilt(s) /\ restored.ok =>
       /\ ViewOf(1, restored.loop) = ViewOf(1, c.loop)
       /\ [again EXCEPT !.ledger = <<>>] = [s EXCEPT !.ledger = <<>>]
       /\ SubSeq(again.ledger, 1, kept) = s.ledger
       /\ \A i \in DOMAIN again.ledger : again.ledger[i].seq = i
       /\ again.status = "suspended" => restored.loop.gate \in c.tables.approvals \/ restored.loop.child \in c.tables.children

\* An action that waits in an approval is the action that was asked about.
ActionSurvives(action) ==
  LET loaded == LoadedAction(StoredAction(action)) IN loaded.ok /\ loaded.action = action

\* Each run is listed once, whichever store knows of it, and asking for a run
\* that is listed tells the status the list told; its ledger is found, and the
\* layers of actions, executions and contexts do not depend on where it was found.
ListTellsGet(c) ==
  LET listed == ListRuns(c.store, c.limit)
      all == DOMAIN c.store.memory \cup {c.store.snaps[i].run : i \in DOMAIN c.store.snaps}
      told(run) == GetRunView(c.store, run)
  IN /\ \A i, j \in DOMAIN listed : listed[i].view.run = listed[j].view.run => i = j
     /\ Len(listed) <= c.limit + Cardinality(DOMAIN c.store.memory)
     /\ Cardinality(all) <= c.limit => {listed[i].view.run : i \in DOMAIN listed} = all
     /\ \A i \in DOMAIN listed :
          LET run == listed[i].view.run
              trace == GetTrace(c.store, run)
              live == [ledger |-> trace.entries, status |-> "running", book |-> <<>>]
          IN /\ told(run).found => told(run).view.status = listed[i].view.status
             /\ trace.source # "nothing"
             /\ \A layer \in {"actions", "executions", "context"} : trace.layers[layer] = LayersOfLoop(live)[layer]

\* A run that is not over, and that asking for it loads, is listed as one that
\* can be opened (RunView.loadable).
LoadableMeansLoadable(c) ==
  LET listed == ListRuns(c.store, c.limit)
  IN \A i \in DOMAIN listed :
       listed[i].view.status \notin RunsOver /\ GetRunView(c.store, listed[i].view.run).found => listed[i].loadable
=============================================================================
