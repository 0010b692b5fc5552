---------------------------- MODULE HarnessRules ----------------------------
(***************************************************************************)
(* What stands between a decision and its execution: the rules of a policy  *)
(* and the document they are written in, the guardrails, the budget, the    *)
(* decision of a human, and what a text that names a secret stands for.     *)
(*                                                                         *)
(* A limit of a rule is [known, set]: what is not known admits everything.  *)
(* An action is [type, risk, tool, undo], undo the tool of its declared     *)
(* compensation, "" for none; risks are 0 (low) to 2 (high).                *)
(***************************************************************************)
EXTENDS Integers, Sequences, SequencesExt, Functions

Verdicts == <<"allow", "require_approval", "deny">>
Stricter(v, w) == \E i, j \in DOMAIN Verdicts : i > j /\ Verdicts[i] = v /\ Verdicts[j] = w

Admits(limit, x) == limit.known => x \in limit.set
NoLimit == [known |-> FALSE, set |-> {}]

-----------------------------------------------------------------------------
(* The policy: a sequence of rules and the verdict where none matches.      *)

Matches(rule, action, ctx) ==
  /\ Admits(rule.types, action.type)
  /\ action.risk >= rule.risk
  /\ Admits(rule.tools, action.tool)
  /\ Admits(rule.tenants, ctx.tenant)
  /\ rule.attributes \subseteq ctx.attributes

\* The first of the matching rules of the highest priority.  H-1: a refusal
\* without a reason cannot even be made.
PolicyVerdict(policy, action, ctx) ==
  LET matching == {i \in DOMAIN policy.rules : Matches(policy.rules[i], action, ctx)}
      first == CHOOSE i \in matching :
                 \A j \in matching \ {i} :
                   \/ policy.rules[j].priority < policy.rules[i].priority
                   \/ policy.rules[j].priority = policy.rules[i].priority /\ i < j
  IN IF matching = {} THEN policy.default
     ELSE IF policy.rules[first].verdict # "allow" /\ ~policy.rules[first].reason THEN "raises"
     ELSE policy.rules[first].verdict

\* A rule that asks a human about actions of some types, of a risk at least.
AskingRule(name, priority, types, risk) ==
  [name |-> name, verdict |-> "require_approval", reason |-> TRUE, types |-> types, risk |-> risk, tools |-> NoLimit,
   tenants |-> NoLimit, attributes |-> {}, priority |-> priority]

HumanActions == [known |-> TRUE, set |-> {"human_approval", "ask_user"}]
RiskGate(risk, extra) ==
  [default |-> "allow",
   rules |-> <<AskingRule("human-in-the-loop-actions", 100, HumanActions, 0), AskingRule("risk-gate", 10, NoLimit, risk)>>
             \o extra]

\* Harness.default: the lowest of the risks that need a human, the highest there is when none is named.
DefaultGate(risks) == RiskGate(IF risks = {} THEN 2 ELSE CHOOSE r \in risks : \A s \in risks : r <= s, <<>>)

-----------------------------------------------------------------------------
(* The document.  What a condition says is [is, set]: "null", a "list" or   *)
(* something "wrong" (a scalar, a member nobody knows, nothing at all).     *)

WhenKeys == {"action_types", "tools", "tenants", "min_risk", "attributes"}

RuleIsWellFormed(raw) ==
  /\ raw.keys \subseteq {"name", "effect", "reason", "priority", "when"} /\ raw.name # ""
  /\ raw.effect \in ToSet(Verdicts) /\ (raw.effect # "allow" => raw.reason)
  /\ raw.priority \in Int
  /\ DOMAIN raw.when \subseteq WhenKeys
  /\ \A k \in DOMAIN raw.when : raw.when[k].is # "wrong" /\ (raw.when[k].is = "list" => raw.when[k].set # {})

\* A condition that is null says as little as one that is not there.
LimitOf(raw, key) ==
  IF key \in DOMAIN raw.when /\ raw.when[key].is = "list" THEN [known |-> TRUE, set |-> raw.when[key].set] ELSE NoLimit

RuleOf(raw) ==
  LET risk == LimitOf(raw, "min_risk")
  IN [name |-> raw.name, verdict |-> raw.effect, reason |-> raw.reason, priority |-> raw.priority,
      types |-> LimitOf(raw, "action_types"), tools |-> LimitOf(raw, "tools"), tenants |-> LimitOf(raw, "tenants"),
      risk |-> IF risk.known THEN CHOOSE r \in risk.set : TRUE ELSE 0, attributes |-> LimitOf(raw, "attributes").set]

NoPolicy == [default |-> "refused", rules |-> <<>>]

PolicyOf(document) ==
  IF /\ document.keys \subseteq {"rules", "default"} /\ "default" \in document.keys
     /\ document.default \in ToSet(Verdicts)
     /\ \A i \in DOMAIN document.rules : RuleIsWellFormed(document.rules[i])
     /\ \A i, j \in DOMAIN document.rules : document.rules[i].name = document.rules[j].name => i = j
  THEN [default |-> document.default, rules |-> [i \in DOMAIN document.rules |-> RuleOf(document.rules[i])]]
  ELSE NoPolicy

-----------------------------------------------------------------------------
(* Guardrails: [kind, stage, set], the targets [tool, words].               *)

FindingOf(guard, target) ==
  CASE guard.kind = "tool-allowlist" -> IF target.tool \in guard.set \cup {""} THEN "none" ELSE "block"
    [] guard.kind = "secret-pattern" -> IF target.words \cap guard.set = {} THEN "none" ELSE "block"
    [] guard.kind = "sensitive-topic" -> IF target.words \cap guard.set = {} THEN "none" ELSE "review"

GuardVerdict(guards, stage, target) ==
  LET findings == {FindingOf(guards[i], target) : i \in {j \in DOMAIN guards : guards[j].stage = stage}}
  IN IF "block" \in findings THEN "blocked" ELSE IF "review" \in findings THEN "needs_review" ELSE "passed"

\* What the loop makes of its first and of its last text: only the last one can be reviewed.
GuardInput(guards, words) ==
  IF GuardVerdict(guards, "input", [tool |-> "", words |-> words]) = "passed" THEN "goes on" ELSE "failed"

GuardOutput(guards, words) ==
  LET verdict == GuardVerdict(guards, "output", [tool |-> "", words |-> words])
  IN IF words = {} \/ verdict = "passed" THEN "goes on" ELSE IF verdict = "needs_review" THEN "waits" ELSE "failed"

-----------------------------------------------------------------------------
(* The budget.  A cost is [cost, tokens, steps], and so are its limits,     *)
(* those of tokens and steps [known, set] of one number.                    *)

Charged(spent, by) == [k \in DOMAIN spent |-> spent[k] + by[k]]

Exceeded(spent, limits) == \E k \in DOMAIN spent : limits[k].known /\ \E max \in limits[k].set : spent[k] > max

-----------------------------------------------------------------------------
(* Harness.before_action.  harness is [policy, guards, spent, limits].      *)

\* The inverse as an action of its own: with the risk of what it undoes, whatever that was.
CompensationAction(action) == [type |-> "tool_call", risk |-> action.risk, tool |-> action.undo, undo |-> ""]

TargetOf(action) == [tool |-> action.tool, words |-> {action.type, action.tool}]

\* The compensation is not looked at.
BeforeActionAlone(harness, action, ctx) ==
  LET decision == PolicyVerdict(harness.policy, action, ctx)
      guard(stage) == GuardVerdict(harness.guards, stage, TargetOf(action))
  IN IF Exceeded(harness.spent, harness.limits) THEN "deny"
     ELSE IF decision \in {"deny", "raises"} THEN decision
     ELSE IF "blocked" \in {guard("action"), guard("tool")} THEN "deny"
     ELSE IF decision = "require_approval" \/ "needs_review" \in {guard("action"), guard("tool")} THEN "require_approval"
     ELSE "allow"

BeforeAction(harness, action, ctx) ==
  LET decision == PolicyVerdict(harness.policy, action, ctx)
      undo == IF action.undo = "" THEN "allow" ELSE PolicyVerdict(harness.policy, CompensationAction(action), ctx)
      guard(stage) == GuardVerdict(harness.guards, stage, TargetOf(action))
  IN IF Exceeded(harness.spent, harness.limits) \/ decision = "deny" THEN "deny"
     ELSE IF "raises" \in {decision, undo} THEN "raises"
     ELSE IF undo = "deny" \/ "blocked" \in {guard("action"), guard("tool")} THEN "deny"
     ELSE IF "require_approval" \in {decision, undo} \/ "needs_review" \in {guard("action"), guard("tool")} THEN "require_approval"
     ELSE "allow"

-----------------------------------------------------------------------------
(* The decision on an approval.  Whoever decides reads the request, checks  *)
(* what was read, and writes where the row is still pending; the sweep of   *)
(* what is overdue does the same.                                           *)

Requested(deciders) == [status |-> "pending", due |-> FALSE, armed |-> [w \in deciders |-> "nothing"], told |-> <<>>]

\* H-6, H-8: what has been read is pending, and a person comes in time.
GuardDecidable(r, who, to) ==
  IF r.status = "pending" /\ (r.due <=> to = "expired") THEN [r EXCEPT !.armed[who] = to]
  ELSE [r EXCEPT !.armed[who] = "nothing"]

\* A-11: one statement that tells whether it changed the row.
Transition(r, who) ==
  IF r.armed[who] = "nothing" \/ r.status # "pending" THEN [r EXCEPT !.armed[who] = "nothing"]
  ELSE [r EXCEPT !.status = r.armed[who], !.armed[who] = "nothing", !.told = Append(@, r.armed[who])]

Decided(r, op) ==
  CASE op.does = "overdue" -> [r EXCEPT !.due = TRUE]
    [] op.does = "guard" -> GuardDecidable(r, op.who, op.to)
    [] op.does = "transition" -> Transition(r, op.who)

-----------------------------------------------------------------------------
(* Secrets.  A text is [kind, scheme, key]; providers are functions from a  *)
(* scheme to [scheme, values]: what it was configured as, and what it is.   *)

NotFound == [error |-> "SecretNotFound"]

ResolveSecret(text, providers) ==
  IF text.scheme \notin DOMAIN providers THEN NotFound
  ELSE LET provider == providers[text.scheme]
       IN IF provider.scheme # text.scheme \/ text.key \notin DOMAIN provider.values THEN NotFound
          ELSE [value |-> provider.values[text.key]]

Resolve(text, providers) ==
  CASE text.kind = "plain" -> [value |-> text.key]
    [] text.kind = "malformed" -> [error |-> "ValueError"]
    [] text.kind = "reference" -> ResolveSecret(text, providers)

-----------------------------------------------------------------------------
(* What has to be true of them.                                            *)

WithRule(harness, rule) == [harness EXCEPT !.policy.rules = Append(@, rule)]
WithGuard(harness, guard) == [harness EXCEPT !.guards = Append(@, guard)]

\* What the harness makes of an action is the strictest of what any part of it
\* says: a guardrail more never loosens it, a rule more changes nothing for an
\* action that neither is nor is undone by what the rule is about; and what is
\* let through may be undone as well, without asking again.
HarnessIsStrict(in) ==
  LET before == BeforeAction(in.harness, in.action, in.ctx)
      touches == \/ Matches(in.rule, in.action, in.ctx)
                 \/ in.action.undo # "" /\ Matches(in.rule, CompensationAction(in.action), in.ctx)
  IN /\ ~Stricter(before, BeforeAction(WithGuard(in.harness, in.guard), in.action, in.ctx))
     /\ ~touches => BeforeAction(WithRule(in.harness, in.rule), in.action, in.ctx) = before
     /\ Stricter("deny", before) /\ in.action.undo # "" =>
          LET undo == BeforeAction([in.harness EXCEPT !.guards = <<>>], CompensationAction(in.action), in.ctx)
          IN undo \in {"allow", before}

\* A document that is accepted decides about every action, never by a refusal
\* that cannot be made, and about one that no rule matches as it says itself;
\* the order of its rules tells only where priorities are equal; and none of
\* its conditions is lost.
DocumentDecides(in) ==
  LET policy == PolicyOf(in.document)
      verdict == PolicyVerdict(policy, in.action, in.ctx)
      backwards == PolicyOf([in.document EXCEPT !.rules = Reverse(@)])
      raw == in.document.rules
  IN policy # NoPolicy =>
       /\ verdict \in ToSet(Verdicts)
       /\ (\A i \in DOMAIN policy.rules : ~Matches(policy.rules[i], in.action, in.ctx)) => verdict = in.document.default
       /\ IsInjective([i \in DOMAIN raw |-> raw[i].priority]) => PolicyVerdict(backwards, in.action, in.ctx) = verdict
       /\ \A i \in DOMAIN raw : "tools" \in DOMAIN raw[i].when /\ raw[i].when["tools"].is = "list" =>
            (Matches(policy.rules[i], in.action, in.ctx) => in.action.tool \in raw[i].when["tools"].set)

\* An action that a human has to decide about by its nature, or one of a risk
\* that was named, is never carried out without one.
GateAsks(in) ==
  LET harness == [policy |-> DefaultGate(in.risks), guards |-> in.guards, spent |-> in.spent, limits |-> in.limits]
  IN in.action.type \in {"human_approval", "ask_user"} \/ in.action.risk \in in.risks =>
       BeforeAction(harness, in.action, in.ctx) # "allow"

\* Calls that are each asked for while the budget is not exceeded spend no more
\* than the budget and the last of them.
BudgetHolds(in) ==
  LET admitted(m, by) == IF Exceeded(m.spent, in.limits) THEN m ELSE [spent |-> Charged(m.spent, by), last |-> by]
      none == [k \in DOMAIN in.limits |-> 0]
      after[n \in 0 .. Len(in.calls)] ==
        IF n = 0 THEN [spent |-> none, last |-> none] ELSE admitted(after[n - 1], in.calls[n])
      end == after[Len(in.calls)]
  IN \A k \in DOMAIN none : in.limits[k].known => \A max \in in.limits[k].set : end.spent[k] <= max + end.last[k]

\* However those who decide overlap, an approval is decided at most once, by
\* the one who was told so, and a person who came too late is never told so
\* once the sweep was.
DecidedOnce(in) ==
  LET after[n \in 0 .. Len(in.ops)] ==
        IF n = 0 THEN Requested(in.deciders) ELSE Decided(after[n - 1], in.ops[n])
      r == after[Len(in.ops)]
  IN /\ Len(r.told) <= 1
     /\ r.status = IF r.told = <<>> THEN "pending" ELSE Head(r.told)
     /\ r.status = "expired" => r.due

\* A text that refers to a secret never stands for itself: it is the secret or
\* an error; and whoever does not refer to one gets what was written.
SecretsAreNotTexts(in) ==
  LET told == Resolve(in.text, in.providers)
  IN "value" \in DOMAIN told =>
       CASE in.text.kind = "plain" -> told.value = in.text.key
         [] OTHER -> \E s \in DOMAIN in.providers :
                       /\ in.providers[s].scheme = s /\ in.text.scheme = s
                       /\ told.value \in Range(in.providers[s].values)
=============================================================================
