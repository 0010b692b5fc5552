------------------------------ MODULE MCValues ------------------------------
(***************************************************************************)
(* All pure parts of the system on bounded inputs: those of RuleClaims, and *)
(* the same for the parts about which nothing is proved.                    *)
(***************************************************************************)
EXTENDS MCRuleClaims, ReportComparison, OutboundCalls, KnowledgeIndex

-----------------------------------------------------------------------------
(* ContextAssembly.                                                        *)

\* Requests of up to two messages, three memories, two chunks and two tools.
Sizes == 0 .. 2
Memory1 == [id |-> 1, layer |-> "semantic", subject |-> "me", run |-> "", chars |-> 2, says |-> TRUE]
Memory2 == [Memory1 EXCEPT !.id = 2, !.layer = "episodic", !.run = "r"]
Memory3 == [Memory1 EXCEPT !.id = 3, !.subject = "other"]
Chunk(i, score, owner, version) ==
  [id |-> i, score |-> score, coverage |-> (3 * i) % 4, owner |-> owner, version |-> version, chars |-> i + 1]
ContextCases ==
  [request : [system : {0, 2}, messages : {<<>>} \cup {<<m>> : m \in [role : {"user"}, chars : {1, 4}]}
                                         \cup {<<[role |-> "user", chars |-> 3], [role |-> "assistant", chars |-> n]>> : n \in 1 .. 4},
              memory : {<<>>, <<Memory1, Memory2, Memory3>>}, subject : {"", "me"},
              knowledge : {<<>>, <<Chunk(2, 1, "t", "v"), Chunk(1, 1, "t", "v")>>},
              state : {0, 1}, tools : {<<>>, <<2, 1>>}],
   budget : [total : {0, 3, 5, 8, 12}, reserved : {0, 2}], perToken : {1, 2}]

Owned == [owner : {"t", "u"}, version : {"v", "w"}, score : 0 .. 2]
RetrievalCases ==
  [registry : {EmptyRegistry, Register(EmptyRegistry, "v", FALSE), Register(Register(EmptyRegistry, "v", FALSE), "w", TRUE)},
   pinned : {"", "v"}, filters : BOOLEAN, k : {1, 60},
   chunks : {[i \in 1 .. 3 |-> Chunk(i, o[i].score, o[i].owner, o[i].version)] : o \in [1 .. 3 -> Owned]},
   query : [limit : {2, 3}, tenant : {"", "t"}, version : {""}]]

Calls == [op : {"register"}, version : {"v", "w"}, current : BOOLEAN] \cup [op : {"current"}, version : {"v", "w"}, current : {FALSE}]
RegistryCases == UNION {[1 .. n -> Calls] : n \in 0 .. 4}

ContextHolds ==
  /\ case.of = "context" => ContextFits(case.in)
  /\ case.of = "retrieval" => RetrievalKeepsApart(case.in)
  /\ case.of = "registry" => RegistryIsResolved(case.in)

-----------------------------------------------------------------------------
(* AnswerEvaluation.                                                       *)

\* Three chunks in two units, the third of which may be private, and one or two questions.
Corpora == {[i \in 1 .. 3 |-> [id |-> i, unit |-> IF i = 1 THEN 1 ELSE 2, section |-> IF i = 3 THEN "b" ELSE "a",
                               score |-> score[i], coverage |-> 0, chars |-> i, version |-> "v",
                               owner |-> IF i = 3 THEN owner ELSE "public"]] :
            score \in {<<1, 2, 3>>, <<3, 2, 1>>, <<2, 0, 1>>, <<0, 0, 0>>}, owner \in {"public", "private"}}
Question(id, evidence, points, answer) ==
  [id |-> id, level |-> "simple", answer |-> answer, evidence |-> evidence, points |-> points, gaps |-> id = 2]
Whole(u) == [unit |-> u, section |-> ""]
Part(u, s) == [unit |-> u, section |-> s]
Questions == {Question(1, <<Whole(2), Whole(1)>>, <<<<1, 2>>, <<3>>>>, {2, 3}),
              Question(1, <<Part(2, "a"), Part(2, "b")>>, <<<<1>>>>, {1}),
              Question(1, <<Part(1, "b")>>, <<>>, {1}),
              Question(1, <<Whole(1)>>, <<<<4>>>>, {1})}
Second == Question(2, <<Whole(1)>>, <<>>, {1})
Spoken == [text : {{}, {1}, {2, 3}}, reported : {TRUE}, cites : {{}, {1, 2}, {3}}, cost : {0}, error : {FALSE}]
        \cup {[text |-> {1}, reported |-> FALSE, cites |-> {}, cost |-> 1, error |-> TRUE]}
Setups ==
  [chunks : Corpora, items : {<<q>> : q \in Questions} \cup {<<q, Second>> : q \in Questions},
   top_k : {1, 3}, samples : {1}, perToken : {1}, budget : [total : {3, 8}, reserved : {1}],
   answerer : {"oracle", "null", "fabricator"}, said : {<<>>}]
  \cup [chunks : Corpora, items : {<<q, Second>> : q \in Questions},
        top_k : {3}, samples : {2}, perToken : {1}, budget : [total : {3, 8}, reserved : {1}],
        answerer : {"model"}, said : Spoken \X Spoken]

EvaluationsHold == case.of = "evaluation" => EvaluationHolds(case.in)

-----------------------------------------------------------------------------
(* ReportComparison.                                                       *)

\* Reports of up to two questions, each asked twice, and one thing they may differ in.
Score(task, question, points, hit, error) ==
  [task |-> task, question |-> question, points |-> points, hits |-> IF hit THEN {1} ELSE {}, error |-> error]
Twice(task) ==
  {<<>>} \cup {<<Score(task, 1, 0, FALSE, FALSE), Score(task, 1, 0, FALSE, FALSE)>>}
  \cup {<<Score(task, 1, 1, a, FALSE), Score(task, 1, 1, b, e /\ ~b)>> : a, b, e \in BOOLEAN}
Identities == [retriever : {"bm25", "dense"}]
Numbers(n) == [recall |-> n, grounded |-> NotMeasured]
AnswerReports(second, identities, ats) ==
  {[identity |-> i, at |-> at, items |-> one \o two, metrics |-> Numbers(1)] :
     i \in identities, at \in ats, one \in Twice(1), two \in second}
RegressionCases ==
  [before : AnswerReports(Twice(2), {[retriever |-> "bm25"]}, {1}), after : AnswerReports(Twice(2), {[retriever |-> "bm25"]}, {2})]
  \cup [before : AnswerReports({<<>>}, Identities, {0, 1}),
        after : AnswerReports({<<>>}, Identities, {0, 1}) \cup
                {[identity |-> [retriever |-> "bm25"], at |-> 1, items |-> <<Score(1, 2, 1, TRUE, FALSE)>>, metrics |-> Numbers(1)]}]

Expects == [status : {"", "completed"}, outcome : {"", "finished"}, approval : {"either", "required", "none"},
            actions : {{}, {"tool_call"}}, tools : {{}}, not_degraded : BOOLEAN]
View(status, code) == [status |-> status, outcome |-> IF status = "completed" THEN "finished" ELSE "", code |-> code]
Views == {View("running", 200), View("completed", 200), View("failed", 200), View("", 500)}
Traced == {<<>>, <<[kind |-> "task.submitted", action |-> "tool_call", tool |-> "", degraded |-> FALSE, fallback |-> 1]>>,
           <<[kind |-> "approval.requested", action |-> "", tool |-> "", degraded |-> FALSE, fallback |-> 0]>>,
           <<[kind |-> "task.submitted", action |-> "tool_call", tool |-> "kb", degraded |-> FALSE, fallback |-> 0],
             [kind |-> "approval.requested", action |-> "", tool |-> "", degraded |-> FALSE, fallback |-> 0]>>}
VerdictCases == [expect : Expects, limit : {1, 2}, views : UNION {[1 .. n -> Views] : n \in {1, 3}}, trace : Traced]

Retrieved(task, evidence, hit, gaps) == [task |-> task, evidence |-> evidence, hit |-> hit, gaps |-> gaps]
RetrievalReports ==
  {[retriever |-> r, topic |-> "redis", semantic |-> s, top_k |-> k, items |-> items] :
     r \in {"bm25", "dense"}, s \in BOOLEAN, k \in {1, 2},
     items \in {<<Retrieved(1, {1}, a, TRUE), Retrieved(2, {1}, b, FALSE)>> : a, b \in BOOLEAN}
              \cup {<<Retrieved(1, {2}, TRUE, TRUE)>>, <<Retrieved(1, {2}, TRUE, TRUE), Retrieved(2, {1}, TRUE, FALSE)>>}}
SideBySideCases ==
  {<<r>> : r \in RetrievalReports} \cup {<<r, s>> : r, s \in RetrievalReports}
  \cup {<<r, r, s>> : r, s \in {x \in RetrievalReports : x.semantic /\ x.top_k = 1}}

Arm(label, retriever, n, g) ==
  [label |-> label, report |-> [identity |-> [retriever |-> retriever, top_k |-> 1], at |-> 0,
                                items |-> <<Score(1, 1, 1, TRUE, FALSE)>>, metrics |-> [recall |-> n, grounded |-> g]]]
ExperimentCases ==
  [arms : {<<Arm("a", "bm25", 2, g), Arm("b", r, n, h)>> : r \in {"bm25", "dense"}, n \in 0 .. 4, g, h \in {NotMeasured, 1}}
          \cup {<<Arm("a", "bm25", 2, 1), Arm("b", "dense", 3, 1), Arm("c", "dense", 1, 1)>>, <<Arm("a", "bm25", 2, 1)>>},
   vary : {"retriever", "top_k", "corpus"}, noise : -2 .. 3]

LoopCases == [setup : {s \in Setups : s.answerer = "model"}, searched : [{1, 2} -> BOOLEAN]]

ComparisonsHold ==
  /\ case.of = "regression" => RegressionTellsAll(case.in.before, case.in.after)
  /\ case.of = "verdict" => VerdictIsEarned(case.in)
  /\ case.of = "reports" => SideBySideTellsAll(case.in)
  /\ case.of = "experiment" => ExperimentIsFair(case.in)
  /\ case.of = "loop" => LoopScoresAlike(case.in)

-----------------------------------------------------------------------------
(* OutboundCalls.                                                          *)

Deployment(id, model, priority) ==
  [id |-> id, model |-> model, provider |-> IF id = 4 THEN "other" ELSE "deepseek", priority |-> priority, load |-> 0,
   enabled |-> TRUE, healthy |-> TRUE, tenants |-> {}]
Mini(up, tenants) == [Deployment(2, "mini", 0) EXCEPT !.healthy = up, !.tenants = tenants]
Fleets == [models : {[m \in {"big", "mini"} |-> [capabilities |-> IF m = "big" THEN {"text", "vision"} ELSE {"text"}, price |-> IF m = "big" THEN 2 ELSE 1]]},
           deployments : {<<Mini(up, ts), Deployment(1, "big", 1), Deployment(3, "big", p), Deployment(4, "big", q)>> :
                            up \in BOOLEAN, ts \in {{}, {"u"}}, p \in {0, 2}, q \in {0, 3}}]
Deepseek == {DeepseekComplete(key, status, understood) : key \in BOOLEAN, status \in {0, 200, 400, 429, 503}, understood \in BOOLEAN}
GatewayCases ==
  [gateway : [fleet : Fleets, adapters : {{"deepseek"}, {"deepseek", "other"}}, max_fallbacks : {0, 1, 3}, default : {"big"}],
   request : [model : {"", "mini"}, capabilities : {{}, {"vision"}}],
   ctx : [tenant : {"t"}, capabilities : {{}}, allow_degraded : BOOLEAN, fallback_models : {{"mini"}}, prefer_cheap : {FALSE}],
   answers : {[d \in 1 .. 4 |-> IF d = 1 THEN a ELSE IF d = 2 THEN Failure("AUTH_FAILED", FALSE) ELSE b] : a, b \in Deepseek}]

NoSchema == [required |-> {}, properties |-> <<>>]
Tool(version, sandboxed, effect) ==
  [name |-> "t", version |-> version, sandboxed |-> sandboxed, side_effect |-> effect, timeout |-> {2},
   schema |-> [required |-> {"n"}, properties |-> [f \in {"n"} |-> "number"]]]
ToolOps == [does : {"register"}, tool : {Tool("1", FALSE, "read"), Tool("1", TRUE, "write"), Tool("2", TRUE, "unknown")},
            sandbox : BOOLEAN, make_default : BOOLEAN]
           \cup [does : {"set_default"}, tool : {Tool("1", FALSE, "read"), Tool("2", FALSE, "read")}, sandbox : {FALSE}, make_default : {FALSE}]
ToolCases == [ops : UNION {[1 .. n -> ToolOps] : n \in 0 .. 3},
              call : [name : {"t"}, version : {"", "2"}, args : [{"n"} -> {"integer", "string"}], key : {"", "k"}, default : {3}, timeout : {{}, {1}}]]

\* The path "link" is written inside of the root and leads out of it.
Paths == {"root", "inside", "outside", "link"}
Leads == [p \in Paths |-> CASE p = "root" -> <<"srv">> [] p = "inside" -> <<"srv", "a">> [] OTHER -> <<"etc">>]
SandboxCases ==
  [profile : [timeout : {2}, output : {1}, env : {{"PATH"}}, source : {[v \in {"PATH", "KEY"} |-> 1]},
              workdir : {{}, {"inside"}, {"link"}}, read : SUBSET {"root", "outside"}, write : SUBSET {"root"}],
   call : [command : {"argv", "shell", "bad"}, timeout : {{}, {1}, {3}},
           paths : {{}} \cup {{p} : p \in [path : Paths, write : BOOLEAN]}],
   run : [took : 1 .. 3, bytes : 0 .. 2, code : {0, 1}], real : {Leads}]

Payload(id, result, error, for) == [id |-> id, version |-> "2.0", result |-> result, error |-> error, for |-> for]
Lines(id) == {Payload(id, TRUE, FALSE, id), Payload(0, FALSE, FALSE, 0), Payload(id, FALSE, TRUE, id), Payload(id, TRUE, TRUE, id)}
Stale(id) == IF id = 1 THEN {} ELSE {Payload(id - 1, TRUE, FALSE, id - 1)}
Writes(id) == {<<>>} \cup {<<a>> : a \in Lines(id)} \cup {<<a, b>> : a \in Stale(id) \cup Lines(id), b \in Lines(id)}
RpcCases == [transport : {"stdio", "body", "stream"}, peer : {<<a, b>> : a \in Writes(1), b \in Writes(2)}]

Entries == [name : {"", "a", "b"}, hint : {"true", "yes", ""}, schema : {NoSchema}]
McpCases == [listing : UNION {[1 .. n -> Entries] : n \in 0 .. 2},
             reply : [told : {"error"}, code : {-32601, -32000}] \cup [told : {"result"}, is_error : BOOLEAN] \cup [told : {"neither"}]]

Responses == [kind : {"task"}, state : {"working", "input-required", "completed", "rejected", "paused"}]
             \cup [kind : {"message", "neither", "error"}, state : {""}]
DelegationOps == [does : {"spawn", "ask"}, response : Responses]
DelegationCases == UNION {[1 .. n -> DelegationOps] : n \in 0 .. 3}

CoverageCases == [executors : [http : {{}, {"llm_call"}}, native : SUBSET {"tool_call", "skill", "human_approval"},
                               agent_runtime : {{}, {"agent_delegation"}}], cancelled : BOOLEAN,
                  answer : {Successful, Failure("X", TRUE), Failure("X", FALSE)}]

OutboundHolds ==
  /\ case.of = "gateway" => GatewayIsBounded(case.in)
  /\ case.of = "tools" => ToolsAreGuarded(case.in)
  /\ case.of = "sandbox" => SandboxKeepsIn(case.in)
  /\ case.of = "rpc" => CallsGetTheirOwn(case.in)
  /\ case.of = "mcp" => McpToolsAreKeyed(case.in)
  /\ case.of = "delegation" => DelegationEndsOnce(case.in)
  /\ case.of = "coverage" => CoverageTells(case.in)

\* Violated: what is worth another attempt is decided by a list of codes.
GatewayTells == case.of = "gateway" => RetriedOnlyIfRetryable(case.in)

\* Violated: a delegation that is answered by a message is never over.
MessageEnds == case.of = "delegation" => MessageIsAnAnswer(case.in)

-----------------------------------------------------------------------------
(* KnowledgeIndex.                                                         *)

BlockShapes == [kind : {"text"}, chars : {1, 3, 6}, runs : {<<>>}]
               \cup {[kind |-> "code", chars |-> CodeChars(runs), runs |-> runs] : runs \in {<<2>>, <<2, 2>>, <<1, 3, 2>>}}
Texts == {[i \in DOMAIN shapes |-> [id |-> i, part |-> 0, kind |-> shapes[i].kind, chars |-> shapes[i].chars, runs |-> shapes[i].runs]] :
            shapes \in UNION {[1 .. n -> BlockShapes] : n \in 0 .. 4}}
PackingCases == [blocks : Texts, budget : {4, 6}, overlap : {0, 1, 3}, minimum : {0, 4}]

Unit(i) == [id : {i}, reply : {"ok", "http_error", "network_error"}, cached : BOOLEAN, chunks : {<<>>, <<<<i, 0>>, <<i, 1>>>>}]
IngestCases == [units : {<<a, b>> : a \in Unit(1), b \in Unit(2)}, offline : BOOLEAN, only : {{}, {2}}]

RowsOfReply == UNION {[1 .. n -> [index : 0 .. 1, of : 0 .. 1, dim : {2}]] : n \in 0 .. 2} \cup {<<[index |-> 0, of |-> 0, dim |-> 3]>>}
Replies == [code : {0, 400, 429}, rows : {<<>>}] \cup [code : {200}, rows : RowsOfReply]
VectorCases == UNION {[count : 1 .. 2, dim : {2}, retries : {n}, replies : [1 .. n + 1 -> Replies]] : n \in 0 .. 1}

Embedders == {[name |-> "bge", slug |-> "bge", dim |-> 2, semantic |-> TRUE],
              [name |-> "hash", slug |-> "hash", dim |-> 2, semantic |-> FALSE]}
Runs == [does : {"index"}, by : Embedders, recreate : BOOLEAN, limit : {0}, reach : {0, 1, 9}]
        \cup [does : {"index"}, by : Embedders, recreate : BOOLEAN, limit : {1}, reach : {9}]
IndexOps == Runs \cup [does : {"ingest"}, corpus : {<<"a">>, <<"b", "c">>}]
IndexCases == [ops : {<<>>} \cup UNION {[1 .. n -> IndexOps] : n \in 1 .. 3}, by : Embedders, allowed : BOOLEAN]

Written == [is : {"key", "number", "other"}, n : 0 .. 3]
CitationCases == [content : [json : BOOLEAN, list : BOOLEAN, raw : UNION {[1 .. n -> Written] : n \in 0 .. 2}], count : 0 .. 2]

KnowledgeHolds ==
  /\ case.of = "packing" => TextIsKept(case.in)
  /\ case.of = "ingest" => UnitsAreAccounted(case.in)
  /\ case.of = "vectors" => VectorsAnswerTexts(case.in)
  /\ case.of = "index" => IndexHolds(case.in)
  /\ case.of = "citations" => CitationsAreGiven(case.in)

\* Violated: an index that is not stale may answer from chunks that are gone.
IndexTells == case.of = "index" => SearchTellsTheCorpus(case.in)

-----------------------------------------------------------------------------
(* What the run checks next to RunsAreRead and ActionsAreGated. *)

\* What is asked of others: a call costs and reaches no more than it may and gets
\* its own answer, and what is told of the knowledge base is what was indexed,
\* found, put into a context and scored.
AnswersAreTold == OutboundHolds /\ KnowledgeHolds /\ ContextHolds /\ EvaluationsHold /\ ComparisonsHold

-----------------------------------------------------------------------------
(* The parts of RuleClaims and the other ones. *)

EveryPart ==
        \/ Next
        \/ Pick("context", ContextCases)
        \/ Pick("retrieval", RetrievalCases)
        \/ Pick("registry", RegistryCases)
        \/ Pick("evaluation", Setups)
        \/ Pick("regression", RegressionCases)
        \/ Pick("verdict", VerdictCases)
        \/ Pick("reports", SideBySideCases)
        \/ Pick("experiment", ExperimentCases)
        \/ Pick("loop", LoopCases)
        \/ Pick("gateway", GatewayCases)
        \/ Pick("tools", ToolCases)
        \/ Pick("sandbox", SandboxCases)
        \/ Pick("rpc", RpcCases)
        \/ Pick("mcp", McpCases)
        \/ Pick("delegation", DelegationCases)
        \/ Pick("coverage", CoverageCases)
        \/ Pick("packing", PackingCases)
        \/ Pick("ingest", IngestCases)
        \/ Pick("vectors", VectorCases)
        \/ Pick("index", IndexCases)
        \/ Pick("citations", CitationCases)

ValuesSpec == Init /\ [][EveryPart]_case
=============================================================================
