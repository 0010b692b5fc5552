----------------------------- MODULE RuleClaims -----------------------------
(***************************************************************************)
(* What LoopRules, RunViews and HarnessRules promise, of any inputs: a step *)
(* picks one input of one part, and the invariants say what must hold of    *)
(* what is computed from it.                                                *)
(***************************************************************************)
EXTENDS LoopRules, RunViews, HarnessRules

CONSTANTS
    Plans, Waits, Restores, Observations,           \* inputs of LoopRules
    StatusChanges, Restarts, Asked, Stores,         \* of RunViews
    Judged, Documents, Gates, Budgets, Decisions, Secrets   \* of HarnessRules

VARIABLE case   \* [of, in]: the part and its input

-----------------------------------------------------------------------------
(* The inputs that there may be.                                            *)

Duration == [type : STRING, n : Int]
KnownNames == [known : BOOLEAN, set : SUBSET STRING]
PlanInput ==
  [plan : [nodes : Seq([kind : STRING, deps : SUBSET Nat, tool : STRING, labels : SUBSET STRING]), run : STRING],
   run : STRING, tools : KnownNames, labels : KnownNames, branches : Nat]
WaitInput ==
  [max : Duration, ceiling : Nat, default : Int, handle : [spawned : Nat, until : Nat, timeout : Duration]]
Port == [stateful : BOOLEAN, at : STRING, resume : STRING]
Observation == [source : STRING, kind : STRING, execution : Nat, attempt : Nat]

\* The provers know of no literal that it is a STRING.
Word == STRING \cup {"none", "data", "run.recovered"}
Step == [tasks : SUBSET Nat, status : Word \ {"none"}]
StateData == [goal : STRING, plan : STRING, observed : Seq(Word), version : Nat \ {0}]
Entry == [seq : Nat, kind : Word, execution : Nat, status : Word]
Loop ==
  [book : Seq(Step), steps : Nat, terminal : RunsOver \cup {"none"}, status : STRING, gate : Nat, child : Nat,
   state : StateData, ledger : Seq(Entry)]

\* The status is derived from the steps whenever they change, and the entries
\* are numbered as they are noted.
IsLive(loop) ==
  /\ loop \in Loop
  /\ loop.status = DerivedRunStatus({loop.book[i].status : i \in DOMAIN loop.book}, loop.terminal)
  /\ \A i \in DOMAIN loop.ledger : loop.ledger[i].seq = i

\* What capture() writes of such a loop.
Snapshot ==
  [status : STRING, state : StateData, book : Seq(Step), steps : Nat, gate : Nat, child : Nat, ledger : Seq(Entry)]
IsTaken(s) ==
  /\ s \in Snapshot
  /\ s.status \notin RunsOver => s.status = DerivedRunStatus({s.book[i].status : i \in DOMAIN s.book}, "none")

Tables == [approvals : SUBSET Nat, children : SUBSET Nat]
IsStore(store) ==
  /\ DOMAIN store.memory \subseteq Nat /\ IsFiniteSet(DOMAIN store.memory)
  /\ \A run \in DOMAIN store.memory : IsLive(store.memory[run])
  /\ store.snaps \in Seq(Range(store.snaps))
  /\ \A i \in DOMAIN store.snaps : store.snaps[i].run \in Nat /\ IsTaken(store.snaps[i].snap)
  /\ store.tables \in Tables

LoopRulesAssumption ==
  /\ Plans \subseteq PlanInput /\ Waits \subseteq WaitInput /\ Restores \subseteq [captured : Port, made : Port]
  /\ Observations \subseteq Seq(Observation)

RunViewsAssumption ==
  /\ StatusChanges \subseteq [before : Seq(SUBSET STRING), after : Seq(SUBSET STRING), terminal : RunsOver \cup {"none"}]
  /\ \A c \in Restarts : IsLive(c.loop) /\ c.tables \in Tables
  /\ Asked \subseteq [type : STRING, timeout : Int, risk : STRING \ {"none"}, undo : Nat]
  /\ \A c \in Stores : IsStore(c.store) /\ c.limit \in Nat

-----------------------------------------------------------------------------
Limit == KnownNames
Rule == [name : STRING, verdict : ToSet(Verdicts), reason : BOOLEAN, types : Limit, risk : Nat, tools : Limit,
         tenants : Limit, attributes : SUBSET STRING, priority : Int]
Guard == [kind : {"tool-allowlist", "secret-pattern", "sensitive-topic"}, stage : STRING, set : SUBSET STRING]
Action == [type : STRING, risk : Nat, tool : STRING, undo : STRING]
Context == [tenant : STRING, attributes : SUBSET STRING]
Costs == {"cost", "tokens", "steps"}
Cost == [Costs -> Nat]
NumberOrNone == [known : BOOLEAN, set : SUBSET Nat]
Limits == [Costs -> NumberOrNone]
Harness ==
  [policy : [default : ToSet(Verdicts), rules : Seq(Rule)], guards : Seq(Guard), spent : Cost, limits : Limits]
DecisionOp == [does : {"overdue", "guard", "transition"}, who : Nat, to : STRING \ {"nothing", "pending"}]
Text == [kind : {"plain", "malformed", "reference"}, scheme : STRING, key : STRING]

\* Documents and providers are what somebody wrote: little can be said of them.
IsDocument(d) ==
  /\ d = [keys |-> d.keys, default |-> d.default, rules |-> d.rules]
  /\ d.rules \in Seq(Range(d.rules))

HarnessAssumption ==
  /\ Judged \subseteq [harness : Harness, action : Action, ctx : Context, rule : Rule, guard : Guard]
  /\ \A c \in Documents : IsDocument(c.document) /\ c.action \in Action /\ c.ctx \in Context
  /\ Gates \subseteq [risks : SUBSET Nat, guards : Seq(Guard), spent : Cost, limits : Limits, action : Action, ctx : Context]
  /\ Budgets \subseteq [limits : Limits, calls : Seq(Cost)]
  /\ \A c \in Decisions : c.ops \in Seq(DecisionOp) /\ \A i \in DOMAIN c.ops : c.ops[i].who \in c.deciders
  /\ \A c \in Secrets : c.text \in Text

ASSUME RuleClaimsAssumption == LoopRulesAssumption /\ RunViewsAssumption /\ HarnessAssumption

-----------------------------------------------------------------------------
Pick(of, inputs) == case.of = "nothing" /\ \E i \in inputs : case' = [of |-> of, in |-> i]

Init == case = [of |-> "nothing"]

Next == \/ Pick("plan", Plans)
        \/ Pick("wait", Waits)
        \/ Pick("restore", Restores)
        \/ Pick("state", Observations)
        \/ Pick("statuses", StatusChanges)
        \/ Pick("restart", Restarts)
        \/ Pick("action", Asked)
        \/ Pick("list", Stores)
        \/ Pick("strict", Judged)
        \/ Pick("document", Documents)
        \/ Pick("gate", Gates)
        \/ Pick("budget", Budgets)
        \/ Pick("approval", Decisions)
        \/ Pick("secret", Secrets)

Spec == Init /\ [][Next]_case

-----------------------------------------------------------------------------
\* A run: its plan, its waits, its restart and how it is told to its readers.
RunsAreRead ==
  /\ case.of = "plan" => PlanRunsOut(case.in)
  /\ case.of = "wait" => WaitIsBounded(case.in)
  /\ case.of = "restore" => RestoredGoesOn(case.in)
  /\ case.of = "state" => StateIsFolded(case.in)
  /\ case.of = "statuses" => StatusesFollow(case.in)
  /\ case.of = "restart" => RestartIsSilent(case.in)
  /\ case.of = "action" => ActionSurvives(case.in)
  /\ case.of = "list" => ListTellsGet(case.in)

\* What stands between a decision and its execution: the harness never turns more
\* lenient, documents decide, gates ask, budgets hold, approvals are decided
\* once and secrets are not texts.
ActionsAreGated ==
  /\ case.of = "strict" => HarnessIsStrict(case.in)
  /\ case.of = "document" => DocumentDecides(case.in)
  /\ case.of = "gate" => GateAsks(case.in)
  /\ case.of = "budget" => BudgetHolds(case.in)
  /\ case.of = "approval" => DecidedOnce(case.in)
  /\ case.of = "secret" => SecretsAreNotTexts(case.in)

\* Violated: a run that is only in the snapshots is listed as one that cannot be opened.
ListedOpens == case.of = "list" => LoadableMeansLoadable(case.in)
=============================================================================
