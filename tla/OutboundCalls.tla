--------------------------- MODULE OutboundCalls ---------------------------
(***************************************************************************)
(* The calls that leave the system: to a model through the gateway, to a    *)
(* tool through its runtime and its sandbox, to a peer over JSON-RPC, to an *)
(* MCP server and to an agent that speaks A2A; and the executors that make  *)
(* the outcome of a task of what comes back.                                *)
(***************************************************************************)
EXTENDS Integers, Sequences, SequencesExt, FiniteSets

Failure(code, retryable) == [ok |-> FALSE, code |-> code, retryable |-> retryable]
Successful == [ok |-> TRUE, code |-> "", retryable |-> FALSE]

\* What the kernel is told of a failure: whether another attempt has a point.
FailureClassOf(failure) == IF failure.retryable THEN "transient" ELSE "permanent"

-----------------------------------------------------------------------------
(* Which deployments may serve a request, and in which order.  A fleet is   *)
(* [models, deployments]: what a model is capable of and costs, and the     *)
(* deployments [id, model, provider, priority, load, enabled, healthy,      *)
(* tenants], the load standing for what is measured of it.                  *)

Rejected(fleet, d, request, ctx) ==
  \/ ~d.enabled
  \/ d.tenants # {} /\ ctx.tenant \notin d.tenants
  \/ d.model # request.model /\ ~(ctx.allow_degraded /\ d.model \in ctx.fallback_models)
  \/ d.model \notin DOMAIN fleet.models
  \/ ~(request.capabilities \cup ctx.capabilities \subseteq fleet.models[d.model].capabilities)
  \/ ~d.healthy

DegradedFor(d, request) == d.model # request.model

ScoreOf(fleet, d, request, ctx) ==
  LET cost == fleet.models[d.model].price
  IN <<IF DegradedFor(d, request) THEN 1 ELSE 0>>
     \o (IF ctx.prefer_cheap THEN <<cost, d.priority>> ELSE <<d.priority, cost>>)
     \o <<d.load, d.id>>

ScoresBefore(s, t) == \E i \in DOMAIN s : s[i] < t[i] /\ \A j \in 1 .. i - 1 : s[j] = t[j]

SelectDeployments(fleet, request, ctx) ==
  LET usable(d) == ~Rejected(fleet, d, request, ctx)
  IN SortSeq(SelectSeq(fleet.deployments, usable),
             LAMBDA d, e : ScoresBefore(ScoreOf(fleet, d, request, ctx), ScoreOf(fleet, e, request, ctx)))

-----------------------------------------------------------------------------
(* The gateway: [fleet, adapters, max_fallbacks, default], and what each    *)
(* deployment would answer.                                                *)

NonRetryableCodes == {"NO_ADAPTER", "CONTEXT_LENGTH_EXCEEDED", "INVALID_REQUEST", "AUTH_FAILED", "CONTENT_FILTERED"}

GatewayFailure(code, attempts, retryable) ==
  [ok |-> FALSE, code |-> code, attempts |-> attempts, retryable |-> retryable, degraded |-> FALSE]

AttemptOf(gateway, d, answers) ==
  IF d.provider \in gateway.adapters THEN answers[d.id] ELSE Failure("NO_ADAPTER", TRUE)


\* The candidates are tried in their order until one answers, one fails for good,
\* or no fallback is left.  An adapter that is missing is not a failure for good.
Tried(gateway, candidates, answers) ==
  LET made(i) == AttemptOf(gateway, candidates[i], answers)
      ends(i) == \/ i = Len(candidates) \/ i = gateway.max_fallbacks + 1
                 \/ made(i).ok \/ ~made(i).retryable
      last == CHOOSE i \in DOMAIN candidates : ends(i) /\ \A j \in 1 .. i - 1 : ~ends(j)
  IN [i \in 1 .. last |-> [id |-> candidates[i].id, answer |-> made(i)]]

ResolveModel(gateway, request) == IF request.model = "" THEN [request EXCEPT !.model = gateway.default] ELSE request

CompleteRequest(gateway, asked, ctx, answers) ==
  LET request == ResolveModel(gateway, asked)
      candidates == SelectDeployments(gateway.fleet, request, ctx)
      attempts == Tried(gateway, candidates, answers)
      end == attempts[Len(attempts)]
  IN IF request.model = "" THEN GatewayFailure("NO_MODEL_REQUESTED", <<>>, FALSE)
     ELSE IF candidates = <<>> THEN GatewayFailure("NO_CANDIDATE", <<>>, FALSE)
     ELSE IF end.answer.ok
          THEN [ok |-> TRUE, code |-> "", attempts |-> attempts, retryable |-> FALSE,
                degraded |-> DegradedFor(candidates[Len(attempts)], request)]
     ELSE GatewayFailure("ALL_DEPLOYMENTS_FAILED", attempts,
                         \E i \in DOMAIN attempts : attempts[i].answer.code \notin NonRetryableCodes)

\* What the one provider of this system makes of an answer over HTTP; status 0: none came.
DeepseekComplete(key, status, understood) ==
  IF ~key THEN Failure("DEEPSEEK_API_KEY_MISSING", FALSE)
  ELSE IF status = 0 THEN Failure("DEEPSEEK_NETWORK_ERROR", TRUE)
  ELSE IF status >= 400 THEN Failure("DEEPSEEK_HTTP", status = 429 \/ status >= 500)
  ELSE IF ~understood THEN Failure("DEEPSEEK_BAD_RESPONSE", FALSE)
  ELSE Successful

-----------------------------------------------------------------------------
(* Tools.  A registry is [rows, defaults]: the tool and its invoker under a *)
(* name and a version, and the version that a name stands for.              *)

NoTools == [rows |-> <<>>, defaults |-> <<>>]
With(f, k, v) == [x \in DOMAIN f \cup {k} |-> IF x = k THEN v ELSE f[x]]

\* A tool is [name, version, sandboxed, side_effect, timeout, schema]; op.sandbox
\* tells whether its invoker is a sandboxed one.
RegisterTool(registry, op) ==
  LET key == <<op.tool.name, op.tool.version>>
  IN IF op.tool.sandboxed /\ ~op.sandbox THEN registry
     ELSE IF key \in DOMAIN registry.rows /\ ~op.make_default THEN registry
     ELSE [rows |-> With(registry.rows, key, [tool |-> op.tool, sandbox |-> op.sandbox]),
           defaults |-> IF op.make_default \/ op.tool.name \notin DOMAIN registry.defaults
                        THEN With(registry.defaults, op.tool.name, op.tool.version) ELSE registry.defaults]

SetDefault(registry, name, version) ==
  IF <<name, version>> \in DOMAIN registry.rows
  THEN [registry EXCEPT !.defaults = With(@, name, version)] ELSE registry

Registers(registry, op) ==
  IF op.does = "register" THEN RegisterTool(registry, op) ELSE SetDefault(registry, op.tool.name, op.tool.version)

\* The row a name, and a version where one is said, stands for: none or one.
ResolveTool(registry, name, version) ==
  LET v == IF version # "" THEN version ELSE IF name \in DOMAIN registry.defaults THEN registry.defaults[name] ELSE ""
  IN {registry.rows[k] : k \in DOMAIN registry.rows \cap {<<name, v>>}}

\* Arguments and schemas are functions from a field to a type: what is required
\* has to be there, what is declared has to be of its type, the rest is let in.
ValidInput(schema, args) ==
  /\ schema.required \subseteq DOMAIN args
  /\ \A f \in DOMAIN schema.properties \cap DOMAIN args :
       args[f] = schema.properties[f] \/ (schema.properties[f] = "number" /\ args[f] = "integer")

ShortestOf(timeouts) == CHOOSE t \in timeouts : \A u \in timeouts : t <= u
EffectiveTimeout(tool, default, asked) == ShortestOf({default} \cup tool.timeout \cup asked)

NotInvoked(code) == [invoked |-> {}, answer |-> Failure(code, FALSE)]

\* ToolRuntime.call: nothing is invoked before all of the checks are passed; what
\* the invoker raises is retryable unless it says that it is not.
CallTool(registry, call, answer) ==
  LET found == ResolveTool(registry, call.name, call.version)
      row == CHOOSE r \in found : TRUE
  IN IF found = {} THEN NotInvoked("TOOL_NOT_FOUND")
     ELSE IF ~ValidInput(row.tool.schema, call.args) THEN NotInvoked("BAD_PAYLOAD")
     ELSE IF row.tool.side_effect # "read" /\ call.key = "" THEN NotInvoked("IDEMPOTENCY_KEY_REQUIRED")
     ELSE [invoked |-> {[row |-> row, key |-> call.key, timeout |-> EffectiveTimeout(row.tool, call.default, call.timeout)]},
           answer |-> answer]

-----------------------------------------------------------------------------
(* The sandbox: a profile [timeout, output, env, workdir, read, write].  A  *)
(* path is a sequence of names; real tells where it leads to.               *)

IsWithin(path, root, real) == IsPrefix(real[root], real[path])

PathAllowed(profile, path, write, real) ==
  \E root \in profile.write \cup (IF write THEN {} ELSE profile.read) : IsWithin(path, root, real)

\* command: "argv", a "shell" string or something "bad"; run: what becomes of the
\* process, [took, bytes, code].
SandboxInvoke(profile, call, run, real) ==
  LET timeout == ShortestOf({profile.timeout} \cup call.timeout)
      started == [env |-> DOMAIN profile.source \cap profile.env, timeout |-> timeout, workdir |-> profile.workdir, paths |-> call.paths]
  IN IF call.command = "shell" THEN NotInvoked("SANDBOX_SHELL_REFUSED")
     ELSE IF call.command = "bad" THEN NotInvoked("SANDBOX_BAD_COMMAND")
     ELSE IF \/ \E p \in call.paths : ~PathAllowed(profile, p.path, p.write, real)
             \/ \E w \in profile.workdir : ~PathAllowed(profile, w, TRUE, real) THEN NotInvoked("SANDBOX_PATH_DENIED")
     ELSE [invoked |-> {started},
           answer |-> IF run.took > timeout THEN Failure("SANDBOX_TIMEOUT", FALSE)
                      ELSE IF run.bytes > profile.output THEN Failure("SANDBOX_OUTPUT_LIMIT", FALSE)
                      ELSE IF run.code # 0 THEN Failure("SANDBOX_COMMAND_FAILED", FALSE)
                      ELSE Successful]

-----------------------------------------------------------------------------
(* Executors.  A task is [type, tool, prompt]; what a call comes back with  *)
(* is an answer as above.                                                   *)

Refuses(code) == [outcome |-> "permanent", code |-> code]
OutcomeOf(answer) ==
  IF answer.ok THEN [outcome |-> "result", code |-> ""] ELSE [outcome |-> FailureClassOf(answer), code |-> answer.code]

ExecuteToolCall(task, cancelled, answer) ==
  IF task.tool = "" THEN Refuses("BAD_PAYLOAD")
  ELSE IF cancelled THEN Refuses("CANCELLED")
  ELSE OutcomeOf(answer)

ExecuteLlmCall(task, cancelled, call) ==
  IF task.prompt = "" THEN Refuses("BAD_PAYLOAD")
  ELSE IF cancelled THEN Refuses("CANCELLED")
  ELSE IF call.ok THEN [outcome |-> "result", code |-> ""]
  ELSE [outcome |-> FailureClassOf(call), code |-> "GATEWAY_FAILED"]

\* What belongs to the loop is refused by whoever is given it (H-4).
Deferring == {"human_approval", "skill", "agent_delegation"}
ExecuteDeferred(task) ==
  CASE task.type = "human_approval" -> Refuses("GATE_NOT_WORKER_EXECUTABLE")
    [] task.type = "skill" -> Refuses("SKILL_NOT_WORKER_EXECUTABLE")
    [] task.type = "agent_delegation" -> Refuses("DELEGATION_NOT_WORKER_EXECUTABLE")

\* The task type and the executor of the action types that become a task.
ActionToTask ==
  [llm_call |-> <<"http", "llm_call">>, tool_call |-> <<"native", "tool_call">>, skill_call |-> <<"native", "skill">>,
   agent_delegation |-> <<"agent_runtime", "agent_delegation">>, human_approval |-> <<"native", "human_approval">>,
   ask_user |-> <<"native", "human_approval">>]

\* Executors are functions from a type to what they have handlers for.
ExecuteByType(executors, pair, task, cancelled, answer) ==
  IF pair[2] \notin executors[pair[1]] THEN Refuses("EXECUTOR_NOT_FOUND")
  ELSE IF pair[2] \in Deferring THEN ExecuteDeferred(task)
  ELSE IF pair[2] = "tool_call" THEN ExecuteToolCall(task, cancelled, answer)
  ELSE ExecuteLlmCall(task, cancelled, answer)

ExecutorCoverage(executors) ==
  LET covered == UNION {{<<e, t>> : t \in executors[e]} : e \in DOMAIN executors}
  IN [covered |-> covered, deferred |-> {p \in covered : p[2] \in Deferring}, unrouted |-> Range(ActionToTask) \ covered]

-----------------------------------------------------------------------------
(* JSON-RPC.  A payload is [id, version, result, error, for]: which members *)
(* it has, and the call that it answers, 0 for none.                        *)

ProtocolError == [told |-> "protocol error"]
TransportFailed == [told |-> "transport error"]

\* The answer is taken for the one to the last call, whatever its id.
UnwrapAnything(payload, expected) ==
  IF payload.version # "2.0" \/ payload.result = payload.error THEN ProtocolError
  ELSE [told |-> IF payload.error THEN "error" ELSE "result", of |-> payload.for]

UnwrapResponse(payload, expected) ==
  IF payload.version # "2.0" \/ payload.id # expected \/ payload.result = payload.error THEN ProtocolError
  ELSE [told |-> IF payload.error THEN "error" ELSE "result", of |-> payload.for]

\* A peer on pipes: a call writes its line and reads the next one there is.
StdioCall(c, id, writes) ==
  LET lines == c.unread \o writes
  IN IF lines = <<>> THEN [unread |-> <<>>, told |-> Append(c.told, TransportFailed)]
     ELSE [unread |-> Tail(lines), told |-> Append(c.told, UnwrapResponse(Head(lines), id))]

\* A peer on HTTP that answers with a body: one payload, whatever its id.
HttpCall(c, id, writes) ==
  LET told == IF Len(writes) # 1 THEN TransportFailed ELSE UnwrapResponse(Head(writes), id)
  IN [unread |-> <<>>, told |-> Append(c.told, told)]

\* With a stream of events: the first payload that has the id counts.
StreamCall(c, id, writes) ==
  LET own == {i \in DOMAIN writes : writes[i].id = id}
      first == CHOOSE i \in own : \A j \in own : i <= j
      told == IF own = {} THEN TransportFailed ELSE UnwrapResponse(writes[first], id)
  IN [unread |-> <<>>, told |-> Append(c.told, told)]

CallsOn(transport, peer) ==
  LET none == [unread |-> <<>>, told |-> <<>>]
      call(c, id) == CASE transport = "stdio" -> StdioCall(c, id, peer[id])
                       [] transport = "body" -> HttpCall(c, id, peer[id])
                       [] transport = "stream" -> StreamCall(c, id, peer[id])
  IN FoldLeft(call, none, [id \in 1 .. Len(peer) |-> id]).told

-----------------------------------------------------------------------------
(* MCP: entries [name, hint, schema] of a listing, and answers to a call.   *)

McpPermanentCodes == {-32700, -32600, -32601, -32602}

\* reply: "error" with a code, a "result" that may say that it is one, or what is neither.
McpInvoke(reply) ==
  CASE reply.told = "error" -> Failure("MCP_ERROR", reply.code \notin McpPermanentCodes)
    [] reply.told = "result" -> IF reply.is_error THEN Failure("MCP_TOOL_ERROR", FALSE) ELSE Successful
    [] OTHER -> Failure("TOOL_FAILED", TRUE)

McpToolOf(entry, version) ==
  [name |-> entry.name, version |-> version, sandboxed |-> FALSE, side_effect |-> IF entry.hint = "true" THEN "read" ELSE "unknown",
   timeout |-> {}, schema |-> entry.schema]

\* A listing with a tool without a name, or with one twice, registers nothing.
RegisterMcpTools(registry, listing, version) ==
  IF \/ \E i \in DOMAIN listing : listing[i].name = ""
     \/ \E i, j \in DOMAIN listing : i # j /\ listing[i].name = listing[j].name
  THEN registry
  ELSE FoldLeft(LAMBDA r, e : RegisterTool(r, [tool |-> McpToolOf(e, version), sandbox |-> FALSE, make_default |-> TRUE]),
                registry, listing)

-----------------------------------------------------------------------------
(* A2A.  The one delegation of an execution: what has been sent for it, and *)
(* the child it is bound to, its status "none" before that.  A response is  *)
(* [kind, state]: a task, a message, neither of them, or an error.          *)

A2AStates == {"submitted", "working", "input-required", "completed", "canceled", "failed", "rejected", "auth-required", "unknown"}
TerminalA2AStates == {"completed", "canceled", "failed", "rejected"}

ToAgentStatus(state) == CASE state = "canceled" -> "cancelled" [] state = "rejected" -> "failed" [] OTHER -> state

NotDelegated == [sent |-> 0, status |-> "none", known |-> FALSE, raised |-> FALSE]

StateOf(response) == IF response.kind = "task" THEN response.state ELSE "completed"

\* Recorded where the state is a terminal one; one that nobody knows is refused (A-3).
RecordTerminal(d, response) ==
  IF StateOf(response) \notin A2AStates THEN [d EXCEPT !.raised = TRUE]
  ELSE IF StateOf(response) \in TerminalA2AStates THEN [d EXCEPT !.status = ToAgentStatus(StateOf(response))]
  ELSE d

\* The message is sent before anything is bound; the id of a message is made up.
SpawnDelegation(d, response) ==
  LET sent == [d EXCEPT !.sent = @ + 1]
      bound == [sent EXCEPT !.status = "created", !.known = response.kind = "task"]
  IN IF d.status # "none" THEN d
     ELSE IF response.kind \notin {"task", "message"} THEN [sent EXCEPT !.raised = TRUE]
     ELSE IF response.kind = "task" THEN RecordTerminal(bound, response)
     ELSE bound

\* poll and cancel_child: what has ended is not asked again.
AskDelegation(d, response) ==
  IF d.status = "none" \/ response.kind = "error" THEN [d EXCEPT !.raised = TRUE]
  ELSE IF d.status # "created" THEN d
  ELSE RecordTerminal(d, response)

Delegated(d, op) ==
  IF op.does = "spawn" THEN SpawnDelegation([d EXCEPT !.raised = FALSE], op.response)
  ELSE AskDelegation([d EXCEPT !.raised = FALSE], op.response)

-----------------------------------------------------------------------------
(* What has to be true of them.                                            *)

\* A request is tried on no deployment twice, on none that may not serve it, on no
\* more than the fallbacks allow, on another model only after the own one, and on
\* none after one has answered or failed for good.
GatewayIsBounded(in) ==
  LET call == CompleteRequest(in.gateway, in.request, in.ctx, in.answers)
      request == ResolveModel(in.gateway, in.request)
      of(i) == CHOOSE d \in ToSet(in.gateway.fleet.deployments) : d.id = call.attempts[i].id
      tried == DOMAIN call.attempts
  IN /\ Len(call.attempts) <= in.gateway.max_fallbacks + 1
     /\ \A i, j \in tried : call.attempts[i].id = call.attempts[j].id => i = j
     /\ \A i \in tried : ~Rejected(in.gateway.fleet, of(i), request, in.ctx)
     /\ \A i \in tried, d \in ToSet(in.gateway.fleet.deployments) :
          DegradedFor(of(i), request) /\ ~DegradedFor(d, request) /\ ~Rejected(in.gateway.fleet, d, request, in.ctx)
            => \E j \in tried : j < i /\ of(j) = d
     /\ \A i \in tried : i < Len(call.attempts) => ~call.attempts[i].answer.ok /\ call.attempts[i].answer.retryable
     /\ call.ok <=> \E i \in tried : call.attempts[i].answer.ok

\* What a registry has under a name and a version is what was registered there
\* unless a default was made of another; a name always stands for something; what
\* is declared to be sandboxed is; and only what is known to read is called
\* without a key, for no longer than anybody allows.
ToolsAreGuarded(in) ==
  LET registry == FoldLeft(Registers, NoTools, in.ops)
      made == CallTool(registry, in.call, Successful)
      registered(k) == {i \in DOMAIN in.ops : in.ops[i].does = "register" /\ <<in.ops[i].tool.name, in.ops[i].tool.version>> = k}
  IN /\ \A n \in DOMAIN registry.defaults : ResolveTool(registry, n, "") # {}
     /\ \A k \in DOMAIN registry.rows :
          /\ registry.rows[k].tool.sandboxed => registry.rows[k].sandbox
          /\ (\A i \in registered(k) : ~in.ops[i].make_default) =>
               \E i \in registered(k) :
                 /\ registry.rows[k] = [tool |-> in.ops[i].tool, sandbox |-> in.ops[i].sandbox]
                 /\ \A j \in registered(k) : j < i => in.ops[j].tool.sandboxed /\ ~in.ops[j].sandbox
     /\ \A i \in made.invoked :
          /\ i.row.tool.side_effect # "read" => i.key # ""
          /\ i.timeout <= in.call.default /\ \A t \in i.row.tool.timeout : i.timeout <= t

\* A sandboxed process starts with what it was allowed: paths that lead to where it
\* may read, or write, however they are written, and a directory it may write to.
SandboxKeepsIn(in) ==
  LET made == SandboxInvoke(in.profile, in.call, in.run, in.real)
      leads(p, roots) == \E r \in roots : IsPrefix(in.real[r], in.real[p])
  IN \A s \in made.invoked :
       /\ \A p \in s.paths : leads(p.path, in.profile.write) \/ (~p.write /\ leads(p.path, in.profile.read))
       /\ \A w \in s.workdir : leads(w, in.profile.write)
       /\ s.env \subseteq in.profile.env /\ s.timeout <= in.profile.timeout
       /\ made.answer.ok => in.run.took <= in.profile.timeout /\ in.run.bytes <= in.profile.output

\* A call is never told the answer to another one, whatever else a peer writes;
\* and one that answers each call and writes nothing else answers all of them.
CallsGetTheirOwn(in) ==
  LET told == CallsOn(in.transport, in.peer)
      exact(id) == Len(in.peer[id]) = 1 /\ LET p == Head(in.peer[id]) IN p.id = id /\ p.for = id /\ p.result # p.error
  IN /\ \A id \in DOMAIN told : told[id].told = "result" => told[id].of = id
     /\ (\A id \in DOMAIN told : exact(id)) => \A id \in DOMAIN told : told[id].told \in {"result", "error"}

\* What a listing registers is all of it or nothing, and needs a key unless the
\* server says in so many words that it only reads.
McpToolsAreKeyed(in) ==
  LET registry == RegisterMcpTools(NoTools, in.listing, "1")
      call(e) == CallTool(registry, [name |-> e.name, version |-> "", args |-> <<>>, key |-> "", default |-> 1, timeout |-> {}], McpInvoke(in.reply))
  IN /\ \A e \in ToSet(in.listing) : e.hint # "true" => call(e).invoked = {}
     /\ registry = NoTools \/ \A e \in ToSet(in.listing) : ResolveTool(registry, e.name, "") # {}

\* A delegation ends once, as the first terminal state says that the peer reports
\* of it (a response without a state counts as completed), and not before; and
\* what is bound is never sent again.
DelegationEndsOnce(ops) ==
  LET upto(n) == FoldLeft(Delegated, NotDelegated, SubSeq(ops, 1, n))
      reported(i) == ops[i].response.kind = "task" /\ ops[i].response.state \in TerminalA2AStates
  IN \A n \in DOMAIN ops :
       LET before == upto(n - 1)
           after == upto(n)
       IN /\ before.status # "none" => after.sent = before.sent
          /\ before.status \notin {"none", "created"} => after.status = before.status
          /\ after.status # before.status /\ after.status # "created" =>
               ops[n].response.kind # "task" \/ (reported(n) /\ after.status = ToAgentStatus(ops[n].response.state))

\* Where every pair that an action may become is covered, no task is without an
\* executor, and the ones nobody may carry out but the loop are told to be so.
CoverageTells(in) ==
  LET c == ExecutorCoverage(in.executors)
  IN \A a \in DOMAIN ActionToTask :
       LET pair == ActionToTask[a]
           end == ExecuteByType(in.executors, pair, [type |-> pair[2], tool |-> "t", prompt |-> "p"], in.cancelled, in.answer)
       IN /\ pair \notin c.unrouted => end.code # "EXECUTOR_NOT_FOUND"
          /\ pair \in c.deferred => end.outcome = "permanent"
          /\ end.outcome = "transient" => in.answer.retryable /\ ~in.cancelled

-----------------------------------------------------------------------------
(* Two things the code says and does not do.                                *)

\* A failure of all deployments is worth another attempt only if one of the
\* failures is.
RetriedOnlyIfRetryable(in) ==
  LET call == CompleteRequest(in.gateway, in.request, in.ctx, in.answers)
  IN ~call.ok /\ call.retryable =>
       \E i \in DOMAIN call.attempts : call.attempts[i].answer.code # "NO_ADAPTER" /\ call.attempts[i].answer.retryable

\* A message is an answer: a delegation that one is the response to has ended.
MessageIsAnAnswer(ops) ==
  LET upto(n) == FoldLeft(Delegated, NotDelegated, SubSeq(ops, 1, n))
  IN \A n \in DOMAIN ops :
       ops[n].does = "spawn" /\ ops[n].response.kind = "message" /\ upto(n - 1).status = "none" => upto(n).status = "completed"
=============================================================================
