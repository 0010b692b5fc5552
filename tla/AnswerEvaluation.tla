-------------------------- MODULE AnswerEvaluation --------------------------
(***************************************************************************)
(* The evaluation of the knowledge base: a data set is tied to the corpus,  *)
(* its questions are searched and answered, the answers and their citations *)
(* are scored, the scores are aggregated, and a trace of the evaluation     *)
(* tells the same numbers a second time.                                    *)
(*                                                                         *)
(* A text is the set of the phrases it mentions.  A chunk also has a unit   *)
(* and a section; its owner is its visibility.  A question (item) is [id,   *)
(* level, answer, evidence, points, gaps]: evidence is a sequence of [unit, *)
(* section], points one of sequences of phrases.  A rate is a whole number  *)
(* of Units, or NotMeasured.                                                *)
(***************************************************************************)
EXTENDS ContextAssembly

Units == 720
NotMeasured == -1

Rate(part, whole) == IF whole = 0 THEN NotMeasured ELSE (part * Units) \div whole

SumOf(seq) == FoldLeft(LAMBDA a, b : a + b, 0, seq)
MeanOf(seq) == IF seq = <<>> THEN 0 ELSE SumOf(seq) \div Len(seq)
MeasuredOf(seq) == SelectSeq(seq, LAMBDA r : r # NotMeasured)
CountOf(seq, Test(_)) == Len(SelectSeq(seq, Test))

-----------------------------------------------------------------------------
(* The data set.                                                           *)

Levels == <<"simple", "medium", "hard">>

\* Which of a point's phrases the text mentions first; 0 when none.
MatchedBy(point, text) ==
  LET at == {i \in DOMAIN point : point[i] \in text}
  IN IF at = {} THEN 0 ELSE CHOOSE i \in at : \A j \in at : i <= j

SectionsOf(chunks, unit) == {chunks[i].section : i \in {j \in DOMAIN chunks : chunks[j].unit = unit}}

ItemProblems(item, chunks) ==
  (IF item.level \notin ToSet(Levels) THEN {"difficulty"} ELSE {})
  \cup (IF item.answer = {} THEN {"no reference answer"} ELSE {})
  \cup (IF item.evidence = <<>> THEN {"no evidence"} ELSE {})
  \cup (IF \E i \in DOMAIN item.evidence :
             LET sections == SectionsOf(chunks, item.evidence[i].unit)
             IN sections = {} \/ item.evidence[i].section \notin sections \cup {""}
        THEN {"evidence not in corpus"} ELSE {})
  \cup (IF \E i \in DOMAIN item.points : MatchedBy(item.points[i], item.answer) = 0
        THEN {"point nobody can answer"} ELSE {})

Problems(items, chunks) ==
  UNION {ItemProblems(items[i], chunks) : i \in DOMAIN items}
  \cup (IF \E i, j \in DOMAIN items : i # j /\ items[i].id = items[j].id THEN {"duplicate"} ELSE {})

ResolvedEvidence(item, chunks) ==
  {chunks[i].id : i \in {j \in DOMAIN chunks : \E e \in ToSet(item.evidence) :
                           chunks[j].unit = e.unit /\ e.section \in {"", chunks[j].section}}}

-----------------------------------------------------------------------------
(* Searching and answering.                                                *)

\* The knowledge base shows what is public, and what the index put among the first.
Searched(chunks, limit) ==
  SelectSeq(IndexSearch(chunks, [limit |-> limit, tenant |-> "", version |-> ""]), LAMBDA c : c.owner = "public")

\* An answer is [text, reported, cites, cost, error]; one that reports no citations cites nothing.
Answered(answerer, item, context, said) ==
  CASE answerer = "oracle" -> [text |-> item.answer, reported |-> TRUE, cites |-> context, cost |-> 0, error |-> FALSE]
    [] answerer = "null" -> [text |-> {}, reported |-> TRUE, cites |-> {}, cost |-> 0, error |-> FALSE]
    [] answerer = "fabricator" ->
         [text |-> item.answer, reported |-> TRUE, cites |-> {1001, 1002}, cost |-> 0, error |-> FALSE]
    [] OTHER -> said

IsCalibration(answerer) == answerer \in {"oracle", "null", "fabricator"}

ScoreCitationsByRetrieved(answer, available, retrieved, evidence) ==
  [reported |-> answer.reported,
   cited |-> answer.cites,
   fabricated |-> answer.cites \ retrieved,
   evidence_cited |-> answer.cites \cap retrieved \cap evidence,
   evidence_not_retrieved |-> evidence \ retrieved,
   evidence_dropped |-> (evidence \cap retrieved) \ available,
   evidence_ignored |-> IF answer.reported THEN (evidence \cap available) \ answer.cites ELSE {}]

ScoreCitations(answer, available, retrieved, evidence) ==
  [reported |-> answer.reported,
   cited |-> answer.cites,
   fabricated |-> answer.cites \ available,
   evidence_cited |-> answer.cites \cap available \cap evidence,
   evidence_not_retrieved |-> evidence \ retrieved,
   evidence_dropped |-> (evidence \cap retrieved) \ available,
   evidence_ignored |-> IF answer.reported THEN (evidence \cap available) \ answer.cites ELSE {}]

EvidenceTotal(v) == Cardinality(v.evidence_cited) + Cardinality(v.evidence_not_retrieved)
                    + Cardinality(v.evidence_dropped) + Cardinality(v.evidence_ignored)

GroundedRate(v) ==
  IF v.reported THEN Rate(Cardinality(v.cited) - Cardinality(v.fabricated), Cardinality(v.cited)) ELSE NotMeasured
EvidenceRecall(v) == IF v.reported THEN Rate(Cardinality(v.evidence_cited), EvidenceTotal(v)) ELSE NotMeasured
EvidenceUsed(v) ==
  IF v.reported THEN Rate(Cardinality(v.evidence_cited), Cardinality(v.evidence_cited) + Cardinality(v.evidence_ignored))
  ELSE NotMeasured

Hits(item, text) == {i \in DOMAIN item.points : MatchedBy(item.points[i], text) # 0}

Passed(s) == s.points > 0 /\ Cardinality(s.hits) = s.points

\* One question: what was found, what fits, and one score for each sample.
AssembledFor(setup, item) ==
  LET found == Searched(setup.chunks, setup.top_k)
  IN [retrieved |-> ToSet(Ids(found)), plan |-> AssembledContext(found, setup.budget, setup.perToken),
      evidence |-> ResolvedEvidence(item, setup.chunks)]

Scored(item, context, answer) ==
  [task |-> item.id, level |-> item.level, points |-> Len(item.points), hits |-> Hits(item, answer.text),
   citation |-> ScoreCitations(answer, ToSet(Ids(context.plan.kept)), context.retrieved, context.evidence),
   cost |-> answer.cost, error |-> answer.error, gaps |-> item.gaps,
   tokens |-> context.plan.used, dropped |-> Len(context.plan.dropped)]

SampleIn(setup, item, n, context) ==
  Scored(item, context, Answered(setup.answerer, item, ToSet(Ids(context.plan.kept)), setup.said[n]))
Sample(setup, item, n) == SampleIn(setup, item, n, AssembledFor(setup, item))

Scores(setup) ==
  FlattenSeq([i \in DOMAIN setup.items |-> [n \in 1 .. setup.samples |-> Sample(setup, setup.items[i], n)]])

-----------------------------------------------------------------------------
(* Aggregation.                                                            *)

\* The chance that k of n samples, c of which passed, hold one that passed.
PassAtK(n, c, k) ==
  LET few == LesserOf(k, n)
      falling(m) == FoldLeft(LAMBDA product, i : product * (m - i), 1, [i \in 1 .. few |-> i - 1])
  IN IF n <= 0 \/ k <= 0 \/ c <= 0 THEN 0
     ELSE IF n - c < few THEN Units
     ELSE Units - Rate(falling(n - c), falling(n))

Group(scores, samples) ==
  LET scorable == SelectSeq(scores, LAMBDA s : s.points > 0)
      of(task) == SelectSeq(scorable, LAMBDA s : s.task = task)
      tasks == SetToSeq({s.task : s \in ToSet(scorable)})
      reported == SelectSeq(scores, LAMBDA s : s.citation.reported)
      rates(Of(_)) == MeasuredOf([i \in DOMAIN reported |-> Of(reported[i].citation)])
      mean(Of(_)) == IF rates(Of) = <<>> THEN NotMeasured ELSE MeanOf(rates(Of))
  IN [n |-> Len(scores), scorable |-> Len(scorable),
      unscorable |-> Cardinality({s.task : s \in {x \in ToSet(scores) : x.points = 0}}),
      recall |-> MeanOf([i \in DOMAIN scorable |-> Rate(Cardinality(scorable[i].hits), scorable[i].points)]),
      pass_1 |-> MeanOf([i \in DOMAIN scorable |-> IF Passed(scorable[i]) THEN Units ELSE 0]),
      pass_k |-> MeanOf([i \in DOMAIN tasks |-> PassAtK(Len(of(tasks[i])), CountOf(of(tasks[i]), Passed), samples)]),
      cost |-> SumOf([i \in DOMAIN scores |-> scores[i].cost]),
      errors |-> CountOf(scores, LAMBDA s : s.error),
      tokens |-> SumOf([i \in DOMAIN scores |-> scores[i].tokens]),
      dropped |-> SumOf([i \in DOMAIN scores |-> scores[i].dropped]),
      with_citations |-> Len(reported),
      without_citations |-> Len(scores) - Len(reported),
      fabricated |-> SumOf([i \in DOMAIN reported |-> Cardinality(reported[i].citation.fabricated)]),
      grounded |-> mean(GroundedRate), evidence_recall |-> mean(EvidenceRecall), evidence_used |-> mean(EvidenceUsed)]

ReportOf(setup, scores) ==
  LET level(l) == SelectSeq(scores, LAMBDA s : s.level = l)
  IN [items |-> scores, samples |-> setup.samples, overall |-> Group(scores, setup.samples),
      levels |-> [l \in {s.level : s \in ToSet(scores)} \cap ToSet(Levels) |-> Group(level(l), setup.samples)],
      calibration |-> IsCalibration(setup.answerer), budget |-> setup.budget, perToken |-> setup.perToken,
      top_k |-> setup.top_k]
Report(setup) == ReportOf(setup, Scores(setup))

\* A stored report is computed again from its own samples: the overall group, but for its size and its cost.
Compared(group) == [f \in DOMAIN group \ {"n", "cost"} |-> group[f]]

ReportDrifts(report) ==
  report.items # <<>> /\
    \/ Compared(report.overall) # Compared(Group(report.items, report.samples))
    \/ \E s \in ToSet(report.items) : CountOf(report.items, LAMBDA x : x.task = s.task) # report.samples

\* What a stored score lacks is read as nothing, but for what would be a false conclusion then.
ScoreIsOld(row) == ~({"citation", "tokens"} \subseteq DOMAIN row)

LoadScore(row) ==
  row @@ [level |-> "", points |-> 0, hits |-> {}, cost |-> 0, error |-> FALSE, gaps |-> FALSE, dropped |-> 0]

ReportIsRefused(report) ==
  \/ \E row \in ToSet(report.items) : ScoreIsOld(row)
  \/ ReportDrifts([report EXCEPT !.items = [i \in DOMAIN report.items |-> LoadScore(report.items[i])]])

\* What the page says of the numbers before it shows them, and what of single questions.
Shown(report) ==
  [calibration |-> report.calibration,
   cost |-> IF report.calibration THEN "none" ELSE IF report.overall.cost > 0 THEN "measured" ELSE "not measured",
   pass_k |-> report.samples > 1, unscorable |-> report.overall.unscorable, errors |-> report.overall.errors]

ShownTasks(report) ==
  LET of(task) == SelectSeq(report.items, LAMBDA s : s.task = task)
      tasks == {s.task : s \in ToSet(report.items)}
  IN [unscorable |-> {t \in tasks : Head(of(t)).points = 0},
      nothing_answered |-> {t \in tasks : Head(of(t)).points > 0 /\ \A s \in ToSet(of(t)) : s.hits = {}},
      fabricated |-> {t \in tasks : \E s \in ToSet(of(t)) : s.citation.fabricated # {}},
      dropped |-> {t \in tasks : \E s \in ToSet(of(t)) : s.dropped > 0},
      not_retrieved |-> SumOf([i \in DOMAIN report.items |-> Cardinality(report.items[i].citation.evidence_not_retrieved)]),
      not_fitted |-> SumOf([i \in DOMAIN report.items |-> Cardinality(report.items[i].citation.evidence_dropped)]),
      ignored |-> SumOf([i \in DOMAIN report.items |-> Cardinality(report.items[i].citation.evidence_ignored)])]

-----------------------------------------------------------------------------
(* The retrieval alone.                                                    *)

ItemScore(setup, item) ==
  LET retrieved == Ids(Searched(setup.chunks, setup.top_k))
      evidence == ResolvedEvidence(item, setup.chunks)
      hits == {i \in DOMAIN retrieved : retrieved[i] \in evidence}
  IN [task |-> item.id, retrieved |-> retrieved, evidence |-> evidence, hits |-> hits, gaps |-> item.gaps,
      recall |-> IF evidence = {} THEN 0 ELSE Rate(Cardinality(hits), Cardinality(evidence)),
      precision |-> IF retrieved = <<>> THEN 0 ELSE Rate(Cardinality(hits), Len(retrieved)),
      first |-> IF hits = {} THEN 0 ELSE CHOOSE i \in hits : \A j \in hits : i <= j]

ItemRecall(s) == IF s.evidence = {} THEN 0 ELSE Rate(Cardinality(s.hits), Cardinality(s.evidence))
ItemPrecision(s) == IF s.retrieved = <<>> THEN 0 ELSE Rate(Cardinality(s.hits), Len(s.retrieved))

GroupScore(scores, topK) ==
  LET withEvidence == SelectSeq(scores, LAMBDA s : s.evidence # {})
      of(Of(_)) == MeanOf([i \in DOMAIN scores |-> Of(scores[i])])
  IN [recall |-> of(ItemRecall), precision |-> of(ItemPrecision),
      hit_rate |-> of(LAMBDA s : IF s.hits = {} THEN 0 ELSE Units),
      mrr |-> of(LAMBDA s : IF s.first = 0 THEN 0 ELSE Rate(1, s.first)),
      ceiling |-> IF withEvidence = <<>> THEN Units
                  ELSE MeanOf([i \in DOMAIN withEvidence |->
                         LET n == Cardinality(withEvidence[i].evidence) IN Rate(LesserOf(n, topK), n)]),
      gaps |-> CountOf(scores, LAMBDA s : s.gaps)]

RetrievalReport(setup) ==
  LET scores == [i \in DOMAIN setup.items |-> ItemScore(setup, setup.items[i])]
  IN [items |-> scores, top_k |-> setup.top_k, overall |-> GroupScore(scores, setup.top_k)]

\* A stored score carries its own recall and precision, and says whether the corpus has gaps.
ItemIsRefused(row) ==
  "gaps" \notin DOMAIN row \/ row.recall # ItemRecall(row) \/ row.precision # ItemPrecision(row)

RetrievalDrifts(report) == report.items # <<>> /\ report.overall # GroupScore(report.items, report.top_k)

RetrievalShown(report) ==
  [missed |-> {s.task : s \in {x \in ToSet(report.items) : x.hits = {}}},
   partly |-> {s.task : s \in {x \in ToSet(report.items) : x.hits # {} /\ ItemRecall(x) < Units}},
   gaps |-> {s.task : s \in {x \in ToSet(report.items) : x.gaps}}]

-----------------------------------------------------------------------------
(* The trace: events [kind, seq, data].                                    *)

RequiredFields(kind) ==
  CASE kind = "run.started" -> {"top_k", "budget", "perToken"}
    [] kind = "retrieval" -> {"task", "kept", "context"}
    [] kind = "generation" -> {"task", "reported", "citations"}
    [] kind = "scoring" -> {"task", "points", "hits", "fabricated"}
    [] OTHER -> {"status", "samples"}

Numbered(events) == [i \in DOMAIN events |-> [kind |-> events[i].kind, seq |-> i - 1, data |-> events[i].data]]

EventsOf(setup, item) ==
  LET found == Ids(Searched(setup.chunks, setup.top_k))
      scored == [n \in 1 .. setup.samples |-> Sample(setup, item, n)]
      told(s) == <<[kind |-> "generation", data |-> [task |-> s.task, reported |-> s.citation.reported,
                                                    citations |-> s.citation.cited]],
                   [kind |-> "scoring", data |-> [task |-> s.task, points |-> s.points, hits |-> s.hits,
                                                 fabricated |-> s.citation.fabricated]]>>
  IN <<[kind |-> "retrieval",
        data |-> [task |-> item.id, kept |-> found,
                  context |-> ToSet(Ids(AssembledFor(setup, item).plan.kept))]]>>
     \o FlattenSeq([n \in DOMAIN scored |-> told(scored[n])])

TraceOf(setup) ==
  LET told == FlattenSeq([i \in DOMAIN setup.items |-> EventsOf(setup, setup.items[i])])
  IN Numbered(<<[kind |-> "run.started",
                 data |-> [top_k |-> setup.top_k, budget |-> setup.budget, perToken |-> setup.perToken,
                           samples |-> setup.samples]]>>
              \o told
              \o <<[kind |-> "run.finished",
                    data |-> [status |-> "ok", samples |-> CountOf(told, LAMBDA e : e.kind = "scoring")]]>>)

TraceIsWhole(events) ==
  /\ events # <<>>
  /\ Head(events).kind = "run.started" /\ events[Len(events)].kind = "run.finished"
  /\ \A i \in DOMAIN events :
       /\ events[i].seq = i - 1
       /\ RequiredFields(events[i].kind) \subseteq DOMAIN events[i].data

OfKind(events, kind) == SelectSeq(events, LAMBDA e : e.kind = kind)

GivenTo(events, task) ==
  LET told == SelectSeq(events, LAMBDA e : e.kind = "retrieval" /\ e.data.task = task)
  IN IF told = <<>> THEN {} ELSE told[Len(told)].data.context

\* The numbers computed from the trace alone against those of the report.
TraceDrifts(events, report) ==
  LET started == Head(events).data
      scoring == OfKind(events, "scoring")
      scorable == SelectSeq(scoring, LAMBDA e : e.data.points > 0)
      passed(e) == Cardinality(e.data.hits) = e.data.points
      of(task) == SelectSeq(scorable, LAMBDA e : e.data.task = task)
      tasks == SetToSeq({e.data.task : e \in ToSet(scorable)})
      reported == SelectSeq(OfKind(events, "generation"), LAMBDA e : e.data.reported)
      made(e) == e.data.citations \ GivenTo(events, e.data.task)
      o == report.overall
  IN \/ scoring = <<>>
     \/ o.recall # MeanOf([i \in DOMAIN scorable |-> Rate(Cardinality(scorable[i].data.hits), scorable[i].data.points)])
     \/ o.pass_1 # MeanOf([i \in DOMAIN scorable |-> IF passed(scorable[i]) THEN Units ELSE 0])
     \/ o.pass_k # MeanOf([i \in DOMAIN tasks |->
                            PassAtK(Len(of(tasks[i])), CountOf(of(tasks[i]), passed), started.samples)])
     \/ o.scorable # Len(scorable)
     \/ <<report.budget, report.perToken>> # <<started.budget, started.perToken>>
     \/ o.fabricated # SumOf([i \in DOMAIN reported |-> Cardinality(made(reported[i]))])
     \/ o.with_citations # Len(reported)
     \/ o.without_citations # Len(OfKind(events, "generation")) - Len(reported)
     \/ \E i \in 2 .. Len(events) :
          /\ events[i].kind = "scoring" /\ events[i - 1].kind = "generation" /\ events[i - 1].data.reported
          /\ events[i].data.fabricated # made(events[i - 1])

TraceRetrievalDrifts(events, report) ==
  \/ Head(events).data.top_k # report.top_k
  \/ \E s \in ToSet(report.items) :
       ~\E e \in ToSet(OfKind(events, "retrieval")) : e.data.task = s.task /\ e.data.kept = s.retrieved

\* What the reader is shown of one question: the chunks the model never saw among those found.
Explain(events, task) ==
  LET of == SelectSeq(events, LAMBDA e : "task" \in DOMAIN e.data /\ e.data.task = task)
      told == OfKind(of, "retrieval")
  IN IF of = <<>> THEN [error |-> TRUE, unseen |-> {}, unmeasured |-> FALSE]
     ELSE [error |-> FALSE, unseen |-> ToSet(told[1].data.kept) \ told[1].data.context,
           unmeasured |-> \E e \in ToSet(OfKind(of, "scoring")) : e.data.points = 0]

-----------------------------------------------------------------------------
(* The commands: nothing is written of a data set that is not sound.        *)

AnswersCommand(setup) ==
  IF setup.chunks = <<>> \/ Problems(setup.items, setup.chunks) # {} THEN [code |-> 2]
  ELSE [code |-> 0, report |-> Report(setup)]

RetrievalCommand(setup) ==
  IF setup.chunks = <<>> \/ Problems(setup.items, setup.chunks) # {} THEN [code |-> 2]
  ELSE [code |-> 0, report |-> RetrievalReport(setup)]

TraceCommand(setup) ==
  IF setup.chunks = <<>> \/ Problems(setup.items, setup.chunks) # {} THEN [code |-> 2]
  ELSE IF TraceDrifts(TraceOf(setup), Report(setup)) THEN [code |-> 2]
  ELSE [code |-> 0, trace |-> TraceOf(setup)]

-----------------------------------------------------------------------------
(* What must hold of them.                                                 *)

\* Each piece of evidence is cited, not found, not fitted or ignored, and only one
\* of them: whose fault a missing piece is, is never told twice.
EvidenceIsAttributed(report, setup) ==
  \A s \in {x \in ToSet(report.items) : x.citation.reported} :
    LET item == CHOOSE i \in ToSet(setup.items) : i.id = s.task
    IN EvidenceTotal(s.citation) = Cardinality(ResolvedEvidence(item, setup.chunks))

\* The answerers that need no model mark the ends of the scale, and an oracle
\* whose context was not cut cites what the retrieval found of the evidence.
Calibrated(report, retrieval, setup) ==
  LET o == report.overall
  IN /\ setup.answerer = "oracle" =>
          /\ o.fabricated = 0 /\ (o.scorable > 0 => o.recall = Units /\ o.pass_k = Units)
          /\ o.dropped = 0 => o.evidence_recall = retrieval.overall.recall
     /\ setup.answerer = "null" => o.recall = 0 /\ o.pass_k = 0 /\ o.grounded = NotMeasured
     /\ setup.answerer = "fabricator" => o.grounded = 0 /\ ShownTasks(report).fabricated = {i.id : i \in ToSet(setup.items)}

\* The command's trace and its report tell the same, a stored report is taken
\* back and one whose samples were changed or lost a field that counts is not,
\* and a trace that lost or exchanged an event is refused.
EvaluationAgrees(setup, report, retrieval, trace) ==
  LET without(i) == RemoveAt(trace, i)
      exchanged(i) == [trace EXCEPT ![i] = trace[i + 1], ![i + 1] = trace[i]]
      grade(i) == [report EXCEPT !.items[i].hits = IF @ = {} THEN {1} ELSE {}]
      cut(i, f) == [report EXCEPT !.items[i] = [g \in DOMAIN @ \ {f} |-> @[g]]]
      counts(s) == {"citation", "tokens"} \cup (IF s.points > 0 THEN {"points"} ELSE {}) \cup (IF s.hits # {} THEN {"hits"} ELSE {})
                   \cup (IF s.dropped > 0 THEN {"dropped"} ELSE {}) \cup (IF s.error THEN {"error"} ELSE {})
  IN /\ TraceIsWhole(trace) /\ ~TraceRetrievalDrifts(trace, retrieval)
     /\ ~ReportIsRefused(report) /\ ~RetrievalDrifts(retrieval)
     /\ \A row \in ToSet(retrieval.items) : ~ItemIsRefused(row)
     /\ Shown(report).cost = "none" <=> setup.answerer # "model"
     /\ \A i \in DOMAIN report.items : \A f \in counts(report.items[i]) : ReportIsRefused(cut(i, f))
     /\ EvidenceIsAttributed(report, setup)
     /\ Calibrated(report, retrieval, setup)
     /\ retrieval.overall.recall <= retrieval.overall.ceiling
     /\ \A i \in DOMAIN trace : ~TraceIsWhole(without(i))
     /\ \A i \in 1 .. Len(trace) - 1 : ~TraceIsWhole(exchanged(i))
     /\ \A i \in DOMAIN report.items : report.items[i].points > 0 => ReportDrifts(grade(i))
     /\ \A item \in ToSet(setup.items) :
          /\ ~Explain(trace, item.id).error
          /\ item.id \in ShownTasks(report).dropped <=> Explain(trace, item.id).unseen # {}
          /\ item.id \in RetrievalShown(retrieval).missed =>
               \A s \in ToSet(report.items) : s.task = item.id => s.citation.evidence_cited = {}

EvaluationHolds(setup) ==
  AnswersCommand(setup).code = 0 =>
    /\ TraceCommand(setup).code = 0
    /\ EvaluationAgrees(setup, AnswersCommand(setup).report, RetrievalCommand(setup).report, TraceOf(setup))
=============================================================================
