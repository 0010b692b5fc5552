---------------------------- MODULE MCRuleClaims ----------------------------
(* Bounded inputs for RuleClaims. *)
EXTENDS RuleClaims

-----------------------------------------------------------------------------
(* LoopRules.                                                              *)

KnownOrNot(sets) == {[known |-> FALSE, set |-> {}]} \cup {[known |-> TRUE, set |-> x] : x \in sets}

\* Every graph of three nodes, and two nodes with every kind, tool and label.
Graphs3 == [1 .. 3 -> [kind : {"task"}, deps : SUBSET (1 .. 3), tool : {""}, labels : {{}}]]
Nodes2 == [kind : PlanNodeKinds, deps : {{}, {1}, {2}}, tool : {"", "t"}, labels : {{}, {"gpu"}}]
PlanCases ==
  [plan : [nodes : Graphs3, run : {"r"}], run : {"r"}, tools : KnownOrNot({}), labels : KnownOrNot({}), branches : {0}]
  \cup [plan : [nodes : [1 .. 2 -> Nodes2], run : {"r", "s"}], run : {"r"}, tools : KnownOrNot({{}, {"t"}}),
        labels : KnownOrNot({{}}), branches : {0}]

Durations == [type : {"none", "text", "boolean"}, n : {1}] \cup [type : {"seconds", "delta"}, n : -1 .. 5]
WaitCases == [max : Durations, ceiling : {4}, default : 0 .. 5,
              handle : [spawned : {3}, until : {0} \cup 2 .. 8, timeout : Durations]]

Ports == [stateful : BOOLEAN, at : {"start", "halfway", "later"}, resume : {"missing", "ignores", "moves", "breaks"}]
RestoreCases == [captured : Ports, made : Ports]

Observed == [source : {"execution_result"}, kind : {"execution"}, execution : {0, 1, 2}, attempt : 0 .. 1]
            \cup [source : {"system"}, kind : {"plan.created", "approval.requested", "approval.decided", "run.cancelled"},
                  execution : {0, 1}, attempt : {0}]
StateCases == UNION {[1 .. n -> Observed] : n \in 0 .. 3}

-----------------------------------------------------------------------------
(* HarnessRules.                                                           *)

ActionOf(type, risk, tool, undo) == [type |-> type, risk |-> risk, tool |-> tool, undo |-> undo]
Actions == {ActionOf("tool_call", r, t, u) : r \in 0 .. 2, t \in {"rm", "ls"}, u \in {"", "rm"}}
           \cup {ActionOf("ask_user", 0, "", ""), ActionOf("finish", 1, "", "")}
Only(x) == [known |-> TRUE, set |-> {x}]
Rules == {[AskingRule("any", p, NoLimit, r) EXCEPT !.verdict = v, !.tools = t] :
            v \in ToSet(Verdicts), t \in {NoLimit, Only("rm")}, r \in {0, 2}, p \in {0, 20}}
Guards == {[kind |-> "tool-allowlist", stage |-> "tool", set |-> {"ls"}], [kind |-> "sensitive-topic", stage |-> "action", set |-> {"rm"}],
           [kind |-> "secret-pattern", stage |-> "output", set |-> {"rm"}]}
Somebody == [tenant |-> "t", attributes |-> {"prod"}]
NoCost == [cost |-> 0, tokens |-> 0, steps |-> 0]
Unlimited == [k \in DOMAIN NoCost |-> NoLimit]
Harnesses == [policy : {DefaultGate({}), DefaultGate({1}), NoPolicy} \cup {RiskGate(2, <<r>>) : r \in Rules},
              guards : {<<>>} \cup {<<g>> : g \in Guards}, spent : {[NoCost EXCEPT !.steps = 1]},
              limits : {Unlimited, [Unlimited EXCEPT !.steps = Only(0)]}]
StrictCases == [harness : {h \in Harnesses : h.policy # NoPolicy}, action : Actions, ctx : {Somebody}, rule : {r \in Rules : r.risk = 2}, guard : Guards]

Given == [is : {"null", "wrong"}, set : {{}}] \cup [is : {"list"}, set : {{}, {"rm"}}]
Whens == {<<>>} \cup [{"tools"} -> Given] \cup [{"tool"} -> Given] \cup [{"min_risk"} -> [is : {"list"}, set : {{2}}]]
RawRules == [keys : {{"name", "effect"}}, name : {"a", "b"}, effect : {"allow", "deny", "permit"}, reason : BOOLEAN, priority : {0, 1}, when : Whens]
GoodRules == {r \in RawRules : r.effect = "deny" /\ r.reason /\ r.name = "b" /\ DOMAIN r.when = {"tools"}}
DocumentCases == [document : [keys : {{"default"}, {"rules"}, {"default", "rules"}, {"default", "rules", "extra"}}, default : {"allow", "deny", ""},
                              rules : {<<>>} \cup {<<r>> : r \in RawRules} \cup {<<r, s>> : r \in RawRules, s \in GoodRules}],
                  action : {ActionOf("tool_call", r, t, "") : r \in {0, 2}, t \in {"rm", "ls"}}, ctx : {Somebody}]

GateCases == [risks : SUBSET (0 .. 2), guards : {<<g>> : g \in Guards}, spent : {NoCost}, limits : {Unlimited}, action : Actions, ctx : {Somebody}]
Charges == [cost : 0 .. 2, tokens : {0, 2}, steps : {1}]
BudgetCases == [limits : [cost : {Only(2), NoLimit}, tokens : {Only(0), Only(3)}, steps : {Only(2), NoLimit}], calls : [1 .. 3 -> Charges]]

DecisionOps == [does : {"overdue"}, who : {1}, to : {""}] \cup [does : {"transition"}, who : 1 .. 2, to : {""}]
             \cup [does : {"guard"}, who : 1 .. 2, to : {"approved", "expired"}]
ApprovalCases == [deciders : {1 .. 2}, ops : UNION {[1 .. n -> DecisionOps] : n \in 0 .. 5}]

Provider(scheme) == [scheme |-> scheme, values |-> [k \in {"key"} |-> "s3cret"]]
SecretCases == [text : [kind : {"plain", "malformed", "reference"}, scheme : {"env", "vault"}, key : {"key", "other"}],
                providers : {<<>>} \cup [{"env"} -> {Provider("env"), Provider("memory")}] \cup [{"env", "vault"} -> {Provider("env"), Provider("vault")}]]

-----------------------------------------------------------------------------
(* RunViews.                                                               *)

SmallBooks(S, n) == UNION {[1 .. k -> S] : k \in 0 .. n}
ExecutionStatuses == {"pending", "running", "suspended", "stale", "completed", "failed", "cancelled"}
FewStatuses == {x \in SUBSET ExecutionStatuses : Cardinality(x) <= 1} \cup {{"failed", "completed"}, {"running", "suspended"}}
StatusCases == [before : SmallBooks(FewStatuses, 2), after : SmallBooks(FewStatuses, 2), terminal : {"none", "cancelled"}]

\* The ledgers of a run that has not begun, of one that has carried out an
\* execution in two attempts, and of one that was stopped on its way.
Ledger(kinds) == [i \in DOMAIN kinds |-> [seq |-> i, kind |-> kinds[i][1], execution |-> kinds[i][2], status |-> kinds[i][3]]]
NoEntries == Ledger(<<>>)
Retried == Ledger(<<<<"task.submitted", 1, "none">>, <<"context.built", 0, "none">>, <<"execution.observed", 1, "retrying">>,
                    <<"execution.observed", 1, "completed">>>>)
Gated == Ledger(<<<<"guardrail.rejected", 0, "none">>, <<"task.submitted", 2, "none">>, <<"approval.requested", 2, "none">>>>)

LoopOf(book, steps, terminal, gate, child, state, ledger) ==
  [book |-> book, steps |-> steps, terminal |-> terminal, gate |-> gate, child |-> child, state |-> state, ledger |-> ledger,
   status |-> SyncedRun("created", book, terminal).status]
Books == SmallBooks([tasks : {{1}}, status : {"pending", "suspended", "completed"}], 2)
RunStates == [goal : {"g"}, plan : {"none", "p"}, observed : {<<>>, <<"data", "result">>}, version : {1, 3}]
RestartCases ==
  [loop : {LoopOf(b, n, t, g, d, s, e) : b \in Books, n \in 0 .. 1, t \in {"none", "failed"}, g \in 0 .. 1, d \in 0 .. 1,
           s \in RunStates, e \in {NoEntries, Retried, Gated}}, tables : [approvals : {{}, {1}}, children : {{1}}]]

ActionCases == [type : {"tool_call", "human_approval"}, timeout : -1 .. 1, risk : {"low", "high"}, undo : 0 .. 1]

OneStep(status) == <<[tasks |-> {1}, status |-> status]>>
FirstState == [goal |-> "g", plan |-> "none", observed |-> <<>>, version |-> 1]
Waiting == LoopOf(OneStep("suspended"), 0, "none", 1, 0, FirstState, Gated)
Going == LoopOf(OneStep("completed"), 1, "none", 0, 0, FirstState, Retried)
Gone == LoopOf(OneStep("completed"), 1, "completed", 0, 0, FirstState, Retried)
Memories == UNION {[S -> {Waiting, Gone}] : S \in SUBSET (1 .. 2)}
Saved == [run : 1 .. 2, snap : {Captured(Waiting), Captured(Going), Captured(Gone)}]
ListCases ==
  [store : [memory : Memories, snaps : SmallBooks(Saved, 3), tables : [approvals : {{}, {1}}, children : {{}}]], limit : 1 .. 2]

=============================================================================
