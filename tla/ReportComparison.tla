-------------------------- MODULE ReportComparison --------------------------
(***************************************************************************)
(* What is concluded from reports: this one against the last one            *)
(* (regression), retrievers side by side (comparison), several arms against *)
(* a baseline (experiment), a case against what was expected of its run     *)
(* (verdict), and the report made of runs of the agent loop itself.         *)
(*                                                                         *)
(* An answer report is [identity, at, items, metrics]: what must not differ *)
(* between two of them, when it was made (0: not told), its scores, each    *)
(* with its question, and the metrics, whole numbers or NotMeasured.        *)
(***************************************************************************)
EXTENDS AnswerEvaluation

TaskIds(items) == {s.task : s \in ToSet(items)}
RowsOf(items, task) == SelectSeq(items, LAMBDA s : s.task = task)

-----------------------------------------------------------------------------
(* The verdict on a run, and verdicts against earlier ones.                *)

\* expect and facts are records; what is not expected is "", "either" or {}.
Evaluate(expect, facts) ==
  IF expect.status \notin {"", facts.status} THEN "unexpected_status"
  ELSE IF expect.outcome \notin {"", facts.outcome} THEN "unexpected_outcome"
  ELSE IF \/ expect.approval = "required" /\ facts.approvals = 0
          \/ expect.approval = "none" /\ facts.approvals > 0 THEN "approval_mismatch"
  ELSE IF ~(expect.actions \subseteq facts.actions) THEN "missing_action"
  ELSE IF ~(expect.tools \subseteq facts.tools) THEN "missing_tool"
  ELSE IF expect.not_degraded /\ (facts.degraded \/ facts.fallback > 0) THEN "model_degraded"
  ELSE "passed"

\* A trace entry is [kind, action, tool, degraded, fallback].
Extract(trace, view) ==
  LET seen(kind) == {i \in DOMAIN trace : trace[i].kind = kind}
      fallbacks == {trace[i].fallback : i \in DOMAIN trace} \cup {0}
  IN [status |-> view.status, outcome |-> view.outcome,
      actions |-> {trace[i].action : i \in seen("task.submitted")} \ {""},
      approvals |-> Cardinality(seen("approval.requested")),
      tools |-> {trace[i].tool : i \in DOMAIN trace} \ {""},
      degraded |-> \E i \in DOMAIN trace : trace[i].degraded,
      fallback |-> CHOOSE n \in fallbacks : \A m \in fallbacks : m <= n]

EndedViews == {"completed", "failed", "cancelled"}

\* The views the interface answers with, the first to the start; one with an
\* error ends the drive.  A run that has not ended by then is never judged.
RunCase(expect, limit, views, trace) ==
  LET at(i) == views[LesserOf(i, Len(views))]
      goesOn(i) == at(i).status \notin EndedViews /\ at(i).code < 400
      last == CHOOSE i \in 1 .. limit + 1 :
                /\ i = limit + 1 \/ ~goesOn(i)
                /\ \A j \in 1 .. i - 1 : goesOn(j)
  IN IF views[1].code >= 400 THEN "start failed"
     ELSE IF at(last).status \notin EndedViews THEN "never_terminated"
     ELSE Evaluate(expect, Extract(trace, at(last)))

RunDataset(cases) == [i \in DOMAIN cases |-> RunCase(cases[i].expect, cases[i].limit, cases[i].views, cases[i].trace)]

\* A verdict is [case, passed, why]; before is a function from cases to whether they passed.
DeltaOf(before, v) ==
  [case |-> v.case, why |-> IF v.passed THEN "" ELSE v.why,
   kind |-> IF v.case \notin DOMAIN before THEN "new"
            ELSE IF before[v.case] /\ ~v.passed THEN "regressed"
            ELSE IF ~before[v.case] /\ v.passed THEN "improved"
            ELSE "unchanged"]

Compare(before, after) == {DeltaOf(before, v) : v \in after}
OfKindIn(deltas, kind) == {d.case : d \in {x \in deltas : x.kind = kind}}

Summarize(verdicts) ==
  LET failed == {v \in verdicts : ~v.passed}
  IN [total |-> Cardinality(verdicts), failed |-> Cardinality(failed),
      by |-> [w \in {v.why : v \in failed} |-> Cardinality({v \in failed : v.why = w})]]

-----------------------------------------------------------------------------
(* This report against the last one.                                       *)

Why(rows) ==
  IF \E r \in rows : r.error THEN "generation_error"
  ELSE IF \E r \in rows : Passed(r) THEN "flaky"
  ELSE "wrong_answer"


\* A question passed when every sample of it passed; one without points is not measured.
TaskVerdict(items, task) ==
  LET scorable == {r \in ToSet(RowsOf(items, task)) : r.points > 0}
      passed == \A r \in scorable : Passed(r)
  IN [case |-> task, passed |-> passed, why |-> IF passed THEN "" ELSE Why(scorable)]

Unmeasurable(items) == {t \in TaskIds(items) : \A r \in ToSet(RowsOf(items, t)) : r.points = 0}
TaskVerdicts(items) == {TaskVerdict(items, t) : t \in TaskIds(items) \ Unmeasurable(items)}

Baseline(items) ==
  LET verdicts == TaskVerdicts(items)
  IN [t \in {v.case : v \in verdicts} |-> (CHOOSE v \in verdicts : v.case = t).passed]

Deltas(before, after) == Compare(Baseline(before.items), TaskVerdicts(after.items))
OnlyInBefore(before, after) == TaskIds(before.items) \ TaskIds(after.items)
CountKinds(deltas) ==
  [k \in {"regressed", "improved", "unchanged", "new"} |-> Cardinality(OfKindIn(deltas, k))]

\* Only the first score of a question is looked at.
Rewritten(before, after) ==
  LET first(report, t) == Head(RowsOf(report.items, t))
  IN {t \in TaskIds(before.items) \cap TaskIds(after.items) :
        first(before, t).question # first(after, t).question \/ first(before, t).points # first(after, t).points}

\* The first question of two reports: may they be compared at all?
Incomparable(before, after) ==
  {[field |-> f] : f \in {g \in DOMAIN before.identity : before.identity[g] # after.identity[g]}}
  \cup {[task |-> t] : t \in Rewritten(before, after)}

LooksReversed(before, after) == before.at # 0 /\ after.at # 0 /\ after.at < before.at

TaskView(items, task) ==
  LET rows == RowsOf(items, task)
  IN [passed |-> CountOf(rows, Passed), total |-> Len(rows), errored |-> \E r \in ToSet(rows) : r.error]

RegressionRefusal == [comparable |-> FALSE]

RegressionTold(before, after) ==
  LET deltas == Deltas(before, after)
      views(kind) == [t \in OfKindIn(deltas, kind) |-> <<TaskView(before.items, t), TaskView(after.items, t)>>]
  IN IF Incomparable(before, after) # {} THEN RegressionRefusal
     ELSE [comparable |-> TRUE, reversed |-> LooksReversed(before, after), counts |-> CountKinds(deltas),
           regressed |-> views("regressed"), improved |-> views("improved"),
           stuck |-> {d.case : d \in {x \in deltas : x.kind = "unchanged" /\ x.why # ""}},
           new |-> OfKindIn(deltas, "new"), gone |-> OnlyInBefore(before, after), blind |-> Unmeasurable(after.items),
           metrics |-> [m \in DOMAIN before.metrics |-> <<before.metrics[m], after.metrics[m]>>]]

\* What the command ends with and what it writes: 3 when a report cannot be read, 2 when
\* they cannot be compared, though the page that says so is written either way.
RegressionCommand(before, after, readable) ==
  IF ~readable THEN [code |-> 3, written |-> {}]
  ELSE [code |-> IF Incomparable(before, after) # {} THEN 2 ELSE 0, written |-> {RegressionTold(before, after)}]

-----------------------------------------------------------------------------
(* Retrievers side by side: reports [retriever, topic, semantic, top_k,     *)
(* items], the items [task, evidence, hit, gaps].                           *)

SideBySideProblems(reports) ==
  LET all(Of(_)) == Cardinality({Of(r) : r \in ToSet(reports)}) <= 1
      truth(r) == [t \in TaskIds(r.items) |-> Head(RowsOf(r.items, t)).evidence]
  IN IF Len(reports) < 2 THEN {"too few"}
     ELSE (IF all(LAMBDA r : r.topic) THEN {} ELSE {"topic"})
          \cup (IF \A r \in ToSet(reports) : r.semantic THEN {} ELSE {"embedder"})
          \cup (IF all(LAMBDA r : r.top_k) THEN {} ELSE {"top_k"})
          \cup (IF \A r \in ToSet(reports) : DOMAIN truth(r) = DOMAIN truth(reports[1]) THEN {} ELSE {"tasks"})
          \cup (IF \E r \in ToSet(reports) : /\ DOMAIN truth(r) = DOMAIN truth(reports[1])
                                             /\ truth(r) # truth(reports[1])
                THEN {"evidence"} ELSE {})

\* Reports of one retriever are told apart by their number among its reports.
ReportLabels(reports) ==
  LET same(i) == {j \in DOMAIN reports : reports[j].retriever = reports[i].retriever}
  IN [i \in DOMAIN reports |->
        <<reports[i].retriever, IF same(i) = {i} THEN 0 ELSE Cardinality({j \in same(i) : j <= i})>>]

Disagreement(a, b) ==
  LET hit(r) == {s.task : s \in {x \in ToSet(r.items) : x.hit}}
      shared == TaskIds(a.items) \cap TaskIds(b.items)
      neither == shared \ (hit(a) \cup hit(b))
      gaps == {s.task : s \in {x \in ToSet(a.items) : x.gaps}}
  IN [only_first |-> shared \cap (hit(a) \ hit(b)), only_second |-> shared \cap (hit(b) \ hit(a)),
      with_gap |-> neither \cap gaps, without_gap |-> neither \ gaps]

SideBySide(reports) ==
  IF SideBySideProblems(reports) # {} THEN [comparable |-> FALSE]
  ELSE [comparable |-> TRUE, labels |-> ReportLabels(reports),
        disagreement |-> IF Len(reports) = 2 THEN <<Disagreement(reports[1], reports[2])>> ELSE <<>>]

SideBySideCommand(reports, readable) ==
  IF ~readable THEN 3 ELSE IF SideBySide(reports).comparable THEN 0 ELSE 2

-----------------------------------------------------------------------------
(* Arms against a baseline: arms [label, report], noise one of a number and *)
(* NotMeasured.                                                             *)

ArmsProblems(arms, vary) ==
  {f \in DOMAIN arms[1].report.identity \ {vary} :
     Cardinality({a.report.identity[f] : a \in ToSet(arms)}) > 1}
  \cup (IF Cardinality({[i \in DOMAIN a.report.items |-> a.report.items[i].task] : a \in ToSet(arms)}) > 1
        THEN {"tasks"} ELSE {})

Classify(delta, noise) ==
  IF delta > noise THEN "better" ELSE IF -delta > noise THEN "worse" ELSE "indistinguishable"

\* The last arm of a label is its arm; no arm of the baseline's label gets a verdict.
ArmVerdicts(arms, baseline, noise) ==
  LET base == arms[CHOOSE i \in DOMAIN arms :
                     /\ arms[i].label = baseline
                     /\ \A j \in DOMAIN arms : arms[j].label = baseline => j <= i].report
      judged(m, a) ==
        IF base.metrics[m] = NotMeasured \/ a.report.metrics[m] = NotMeasured \/ noise = NotMeasured
        THEN "unmeasurable" ELSE Classify(a.report.metrics[m] - base.metrics[m], noise)
  IN {[metric |-> m, label |-> a.label, conclusion |-> judged(m, a)] :
        m \in DOMAIN base.metrics, a \in {x \in ToSet(arms) : x.label # baseline}}

ExperimentCommand(arms, vary, noise) ==
  IF \/ Len(arms) < 2
     \/ noise < 0 /\ noise # NotMeasured
     \/ vary \notin DOMAIN arms[1].report.identity
     \/ ArmsProblems(arms, vary) # {}
  THEN [code |-> 2, told |-> {}]
  ELSE [code |-> 0, told |-> ArmVerdicts(arms, arms[1].label, noise)]

-----------------------------------------------------------------------------
(* A data set answered by runs of the agent loop: one run for each sample,  *)
(* which searches, then asks the model, then finishes.                      *)

EvalDecision(calls) == IF calls = 1 THEN "tool_call" ELSE IF calls = 2 THEN "llm_call" ELSE "finish"

\* What a run of one question observed: its last search and its last answer.  A
\* run without a search is not a sample, one without an answer is an error.
ExtractSample(setup, item, observed, status) ==
  LET searches == SelectSeq(observed, LAMBDA o : o.tool = "kb.search")
      answers == SelectSeq(observed, LAMBDA o : o.tool = "" /\ o.answer.text # {})
      found == searches[Len(searches)]
  IN IF searches = <<>> THEN [error |-> TRUE]
     ELSE [error |-> FALSE, task |-> item.id, status |-> status, retrieved |-> found.retrieved, plan |-> found.plan,
           answer |-> IF answers = <<>> THEN [text |-> {}, reported |-> FALSE, cites |-> {}, cost |-> 0, error |-> TRUE]
                      ELSE answers[Len(answers)].answer]

\* The knowledge base as a tool: what it found, and what of it fits.
SearchTool(setup, item) ==
  LET context == AssembledFor(setup, item)
  IN [tool |-> "kb.search", retrieved |-> Ids(Searched(setup.chunks, setup.top_k)), plan |-> context.plan]

ScoreSample(setup, item, sample) ==
  LET available == ToSet(Ids(sample.plan.kept))
  IN [task |-> item.id, level |-> item.level, points |-> Len(item.points), hits |-> Hits(item, sample.answer.text),
      citation |-> ScoreCitations(sample.answer, available, ToSet(sample.retrieved), ResolvedEvidence(item, setup.chunks)),
      cost |-> sample.answer.cost, error |-> sample.answer.error, gaps |-> item.gaps,
      tokens |-> sample.plan.used, dropped |-> Len(sample.plan.dropped)]

StatusForTrace(statuses) ==
  IF statuses = {"completed"} THEN "completed"
  ELSE IF "failed" \in statuses \/ statuses = {} THEN "failed"
  ELSE IF "cancelled" \in statuses THEN "cancelled"
  ELSE CHOOSE s \in statuses : TRUE

SampleEvents(sample, score) ==
  <<[kind |-> "retrieval", data |-> [task |-> sample.task, kept |-> sample.retrieved,
                                     context |-> ToSet(Ids(sample.plan.kept))]],
    [kind |-> "generation", data |-> [task |-> sample.task, reported |-> sample.answer.reported,
                                      citations |-> sample.answer.cites]],
    [kind |-> "scoring", data |-> [task |-> sample.task, points |-> score.points, hits |-> score.hits,
                                   fabricated |-> score.citation.fabricated]]>>

EvaluateSamples(setup, samples) ==
  LET item(s) == CHOOSE i \in ToSet(setup.items) : i.id = s.task
      scores == [n \in DOMAIN samples |-> ScoreSample(setup, item(samples[n]), samples[n])]
      level(l) == SelectSeq(scores, LAMBDA s : s.level = l)
      report == [items |-> scores, samples |-> setup.samples, overall |-> Group(scores, setup.samples),
                 levels |-> [l \in {s.level : s \in ToSet(scores)} \cap ToSet(Levels) |-> Group(level(l), setup.samples)],
                 calibration |-> FALSE, budget |-> setup.budget, perToken |-> setup.perToken, top_k |-> setup.top_k]
      trace == Numbered(
        <<[kind |-> "run.started", data |-> [top_k |-> setup.top_k, budget |-> setup.budget,
                                             perToken |-> setup.perToken, samples |-> setup.samples]]>>
        \o FlattenSeq([n \in DOMAIN samples |-> SampleEvents(samples[n], scores[n])])
        \o <<[kind |-> "run.finished", data |-> [status |-> StatusForTrace({s.status : s \in ToSet(samples)}),
                                                 samples |-> Len(scores)]]>>)
  IN IF \/ samples = <<>> \/ \E s \in ToSet(samples) : s.error
        \/ \E i, j \in DOMAIN setup.items : i # j /\ setup.items[i].id = setup.items[j].id
        \/ \E s \in ToSet(samples) : s.task \notin {i.id : i \in ToSet(setup.items)}
        \/ \E s \in ToSet(samples) : CountOf(samples, LAMBDA x : x.task = s.task) # setup.samples
        \/ ~TraceIsWhole(trace) \/ TraceDrifts(trace, report)
     THEN [refused |-> TRUE]
     ELSE [refused |-> FALSE, report |-> report, trace |-> trace]

\* One run for each sample of each question; said[n] is what the model answers in
\* the n-th run of a question, searched says whether that run's search came back.
RunEvaluation(setup, searched) ==
  LET observed(item, n) ==
        (IF searched[n] THEN <<SearchTool(setup, item)>> ELSE <<>>)
        \o <<[tool |-> "", answer |-> Answered("model", item, {}, setup.said[n])]>>
      of(item) == [n \in 1 .. setup.samples |-> ExtractSample(setup, item, observed(item, n), "completed")]
  IN EvaluateSamples(setup, FlattenSeq([i \in DOMAIN setup.items |-> of(setup.items[i])]))

-----------------------------------------------------------------------------
(* What must hold of them.                                                 *)

\* Two reports that may not be compared tell nothing but that.  Of two that may,
\* every question of either is told once: changed, not changed, new, gone or
\* not measured; nothing that was not measured is called a step back; and
\* exchanging the reports exchanges steps back and forward.
RegressionTellsAll(before, after) ==
  LET told == RegressionTold(before, after)
      deltas == Deltas(before, after)
      back == Deltas(after, before)
      unchanged == OfKindIn(deltas, "unchanged")
  IN IF told = RegressionRefusal THEN RegressionTold(after, before) = RegressionRefusal
     ELSE /\ UNION {DOMAIN told.regressed, DOMAIN told.improved, unchanged, told.new, told.gone, told.blind}
                = TaskIds(before.items) \cup TaskIds(after.items)
          /\ Cardinality(OfKindIn(deltas, "new")) + told.counts["regressed"] + told.counts["improved"]
               + told.counts["unchanged"] + Cardinality(told.gone) + Cardinality(told.blind)
                = Cardinality(TaskIds(before.items) \cup TaskIds(after.items))
          /\ DOMAIN told.regressed = OfKindIn(back, "improved")
          /\ told.blind \cap (DOMAIN told.regressed \cup told.stuck) = {}
          /\ \A t \in DOMAIN told.regressed :
               told.regressed[t][1].passed = told.regressed[t][1].total
               /\ told.regressed[t][2].passed < told.regressed[t][2].total
          /\ ~(LooksReversed(before, after) /\ LooksReversed(after, before))

\* A case passes when its run ended, came to what was expected and did what was
\* expected on the way: there is no other way.
VerdictIsEarned(in) ==
  LET verdict == RunCase(in.expect, in.limit, in.views, in.trace)
      ended == {i \in 1 .. LesserOf(in.limit + 1, Len(in.views)) : in.views[i].status \in EndedViews}
  IN verdict = "passed" =>
       /\ \E i \in ended : /\ in.expect.status \in {"", in.views[i].status}
                           /\ \A j \in 1 .. i - 1 : in.views[j].code < 400
       /\ \A a \in in.expect.actions : \E e \in ToSet(in.trace) : e.kind = "task.submitted" /\ e.action = a
       /\ in.expect.approval = "required" => \E e \in ToSet(in.trace) : e.kind = "approval.requested"
       /\ in.expect.not_degraded => \A e \in ToSet(in.trace) : ~e.degraded /\ e.fallback = 0

\* Of reports side by side no two have one name, and which of two retrievers found
\* what is told of every question.
SideBySideTellsAll(reports) ==
  LET told == SideBySide(reports)
  IN told.comparable =>
       /\ IsInjective(told.labels)
       /\ \A d \in ToSet(told.disagreement) :
            LET both == TaskIds(SelectSeq(reports[1].items, LAMBDA s : s.hit))
                        \cap TaskIds(SelectSeq(reports[2].items, LAMBDA s : s.hit))
            IN UNION {d.only_first, d.only_second, d.with_gap, d.without_gap, both} = TaskIds(reports[1].items)

\* Each arm is judged once by each metric, the other way round it is judged the
\* other way, and without a threshold nothing is concluded.
ExperimentIsFair(in) ==
  LET told == ExperimentCommand(in.arms, in.vary, in.noise).told
      turned == ExperimentCommand(Reverse(in.arms), in.vary, in.noise).told
      other(c) == CASE c = "better" -> "worse" [] c = "worse" -> "better" [] OTHER -> c
  IN told # {} =>
       /\ Cardinality(told) = Cardinality(DOMAIN in.arms[1].report.metrics) * (Len(in.arms) - 1)
       /\ in.noise = NotMeasured => \A v \in told : v.conclusion = "unmeasurable"
       /\ Len(in.arms) = 2 =>
            \A v \in told : \E w \in turned : w.metric = v.metric /\ w.conclusion = other(v.conclusion)

\* What the loop's runs answered is scored as the same answers are without the
\* loop, a run whose search never came back makes no report, and an evaluation that is
\* not refused can be stored and read back.
ScoredAlike(in, told) ==
  /\ (\E n \in 1 .. in.setup.samples : ~in.searched[n]) => told.refused
  /\ ~told.refused =>
       /\ ~ReportIsRefused(told.report)
       /\ (\A n \in 1 .. in.setup.samples : in.setup.said[n].text # {}) => told.report = Report(in.setup)

LoopScoresAlike(in) == ScoredAlike(in, RunEvaluation(in.setup, in.searched))
=============================================================================
