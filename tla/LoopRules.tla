------------------------------ MODULE LoopRules ------------------------------
(***************************************************************************)
(* What the agent loop decides without looking at anybody else: whether a   *)
(* plan can be built and carried out, which tasks an action becomes, what a *)
(* restored loop's planner and decision engine must say about their         *)
(* progress, how long a child run may be waited for, and what the state     *)
(* makes of its observations.                                               *)
(***************************************************************************)
EXTENDS Integers, Sequences, FiniteSets

-----------------------------------------------------------------------------
(* Plans: a sequence of nodes [kind, deps, tool, labels], named by their    *)
(* place in it, and the run the plan says it belongs to.                    *)

PlanNodeKinds == {"task", "tool", "agent", "human", "decision"}

NodeIsValid(nodes, i) ==
  /\ i \notin nodes[i].deps
  /\ nodes[i].kind \in PlanNodeKinds
  /\ nodes[i].kind = "tool" => nodes[i].tool # ""

\* assert_acyclic takes away nodes whose dependencies are all taken away.
Visited(nodes) ==
  LET after[n \in 0 .. Len(nodes)] ==
        IF n = 0 THEN {}
        ELSE after[n - 1] \cup {i \in DOMAIN nodes : nodes[i].deps \subseteq after[n - 1]}
  IN after[Len(nodes)]

PlanIsBuilt(nodes) ==
  /\ \A i \in DOMAIN nodes : NodeIsValid(nodes, i) /\ nodes[i].deps \subseteq DOMAIN nodes
  /\ Visited(nodes) = DOMAIN nodes

\* The kinds of action a node of a kind may be given (I-21).
TaskProducing == {"llm_call", "tool_call", "skill_call", "agent_delegation", "human_approval", "ask_user"}
LoopHandled == {"finish", "replan"}
Unexecutable == {"wait"}
ActionTypes == TaskProducing \cup LoopHandled \cup Unexecutable
Executable == TaskProducing \cup LoopHandled

AllowedActions(kind) ==
  CASE kind = "task" -> Executable
    [] kind = "tool" -> {"tool_call"}
    [] kind = "human" -> {"human_approval", "ask_user"}
    [] kind = "agent" -> {"agent_delegation"}
    [] kind = "decision" -> {"replan"}
    [] OTHER -> {}

\* Nothing known of tools or labels is not the same as knowing of none.
UnknownTools(nodes, known) == {i \in DOMAIN nodes : nodes[i].kind = "tool" /\ nodes[i].tool \notin known}
UnavailableResources(nodes, labels) == {i \in DOMAIN nodes : ~(nodes[i].labels \subseteq labels)}

PlanDefects(plan, run, tools, labels) ==
  (IF plan.run # run THEN {"PLAN_BELONGS_TO_ANOTHER_RUN"} ELSE {})
  \cup (IF \E i \in DOMAIN plan.nodes : plan.nodes[i].kind \notin PlanNodeKinds
        THEN {"PLAN_NODE_KIND_NOT_EXECUTABLE"} ELSE {})
  \cup (IF tools.known /\ UnknownTools(plan.nodes, tools.set) # {} THEN {"PLAN_TOOL_NOT_FOUND"} ELSE {})
  \cup (IF labels.known /\ UnavailableResources(plan.nodes, labels.set) # {}
        THEN {"PLAN_RESOURCE_UNAVAILABLE"} ELSE {})

-----------------------------------------------------------------------------
(* Actions and their tasks.  NOTE: a delegation is given to from_action,    *)
(* which refuses branches.                                                  *)

\* An action that may leave something behind may declare how to undo it (S-13),
\* and a question to a human carries a timeout (I-8).
Compensable == {"tool_call", "skill_call", "agent_delegation"}
ActionIsBuilt(action) ==
  /\ action.undo => action.type \in Compensable
  /\ action.type = "human_approval" => action.timeout # 0
  /\ action.timeout >= 0

\* from_actions: a task for each branch, or one; from_action refuses branches.
FansOut(action) == action.branches > 0
TasksOf(action) ==
  IF action.type \notin TaskProducing THEN [ok |-> FALSE, n |-> 0]
  ELSE [ok |-> TRUE, n |-> IF FansOut(action) THEN action.branches ELSE 1]

-----------------------------------------------------------------------------
(* R-7: a port [stateful, at, resume] says where it is; resume moves it     *)
(* there, does nothing, or raises halfway.  "none" is the absence of a      *)
(* value.                                                                   *)

Says(port) == IF port.stateful THEN port.at ELSE "none"

ResumedPort(port, progress) ==
  CASE port.resume = "moves" -> [port EXCEPT !.at = progress]
    [] port.resume = "breaks" -> [port EXCEPT !.at = "halfway"]
    [] OTHER -> port

\* [ok, port]: whether the snapshot is accepted, and the port after it was asked
\* to go on from there.
RestoredPort(port, want) ==
  IF want = "none" THEN [ok |-> Says(port) = "none", port |-> port]
  ELSE LET resumed == ResumedPort(port, want) IN [ok |-> Says(resumed) = want, port |-> resumed]

-----------------------------------------------------------------------------
(* Waiting for a child: durations are [type, n], instants numbers.          *)

NoWait == [ok |-> TRUE, set |-> FALSE, n |-> 0]
Refused == [ok |-> FALSE, set |-> FALSE, n |-> 0]

WithinBounds(agreed, maximum) == agreed > 0 /\ agreed <= maximum

\* A number must be finite and a boolean is not a number of seconds.
AsWaitTimeout(value, ceiling) ==
  CASE value.type = "none" -> NoWait
    [] value.type \in {"seconds", "delta"} /\ WithinBounds(value.n, ceiling) -> [ok |-> TRUE, set |-> TRUE, n |-> value.n]
    [] OTHER -> Refused

ResolveCeiling(max, ceiling) ==
  CASE max.type = "none" -> [ok |-> TRUE, set |-> TRUE, n |-> ceiling]
    [] max.type = "delta" /\ WithinBounds(max.n, ceiling) -> [ok |-> TRUE, set |-> TRUE, n |-> max.n]
    [] OTHER -> Refused

\* A handle says its deadline, or how long it asks for, or neither: then it is
\* the registry's default.  The bound is checked on what was agreed.
Agreed(handle, default, ceiling) ==
  IF handle.until # 0 THEN [ok |-> TRUE, set |-> TRUE, n |-> handle.until - handle.spawned]
  ELSE LET declared == AsWaitTimeout(handle.timeout, ceiling)
       IN IF declared.ok /\ ~declared.set THEN [ok |-> TRUE, set |-> TRUE, n |-> default] ELSE declared

AcceptedUnlessFrozen(handle, agreed, maximum) == WithinBounds(agreed, maximum) \/ handle.until # 0
Accepted(handle, agreed, maximum) == WithinBounds(agreed, maximum)

\* [ok, until]: the deadline that is written down, once and for all.
FreezeWaitDeadline(handle, default, maximum, ceiling) ==
  LET agreed == Agreed(handle, default, ceiling)
  IN IF agreed.ok /\ Accepted(handle, agreed.n, maximum)
     THEN [ok |-> TRUE, until |-> handle.spawned + agreed.n] ELSE [ok |-> FALSE, until |-> 0]

-----------------------------------------------------------------------------
(* The state is what its reducer makes of the observations, in their order. *)
(* An observation is [source, kind, execution, attempt]; 0 is no value.      *)

ObservationIsBuilt(o) ==
  IF o.source = "execution_result" THEN o.execution # 0 /\ o.attempt >= 1 ELSE o.execution = 0

EmptyState == [plan |-> FALSE, completed |-> <<>>, waits |-> FALSE, finished |-> FALSE, denied |-> 0, version |-> 1]

ReducedExecution(state, o) ==
  IF o.execution \in {state.completed[i] : i \in DOMAIN state.completed} THEN state
  ELSE [state EXCEPT !.completed = Append(@, o.execution)]

Reduced(state, o) ==
  LET next == CASE o.kind = "plan.created" -> [state EXCEPT !.plan = TRUE]
                [] o.kind = "plan.invalidated" -> [state EXCEPT !.plan = FALSE]
                [] o.kind = "execution" -> ReducedExecution(state, o)
                [] o.kind = "run.finished" -> [state EXCEPT !.finished = TRUE]
                [] o.kind = "policy.denied" -> [state EXCEPT !.denied = @ + 1]
                [] o.kind = "approval.requested" -> [state EXCEPT !.waits = TRUE]
                [] o.kind = "approval.decided" -> [state EXCEPT !.waits = FALSE]
                [] OTHER -> state
  IN [next EXCEPT !.version = @ + 1]

StateAfter(observations) ==
  LET after[n \in 0 .. Len(observations)] ==
        IF n = 0 THEN EmptyState ELSE Reduced(after[n - 1], observations[n])
  IN after[Len(observations)]
-----------------------------------------------------------------------------
(* Claims: each for one input.                                             *)

\* A loop takes the first node whose dependencies are done (_next_plan_node).
Carried(nodes) ==
  LET done[n \in 0 .. Len(nodes)] ==
        IF n = 0 THEN <<>>
        ELSE LET before == done[n - 1]
                 ready == {i \in DOMAIN nodes : /\ \A k \in DOMAIN before : before[k] # i
                                                /\ \A d \in nodes[i].deps : \E k \in DOMAIN before : before[k] = d}
             IN IF ready = {} THEN before ELSE Append(before, CHOOSE i \in ready : \A j \in ready : i <= j)
  IN done[Len(nodes)]

\* A plan that can be built and has no defects is carried out to its last node:
\* no group of nodes waits for itself, and each node has an action that the loop
\* accepts for it and that becomes at least one task or is the loop's own
\* (Plan.assert_acyclic, plan_defects, PLAN_NODE_ACTION_TYPES against ACTION_TO_TASK).
PlanRunsOut(c) ==
  LET nodes == c.plan.nodes
      knot == \E group \in (SUBSET DOMAIN nodes) \ {{}} : \A i \in group : nodes[i].deps \cap group # {}
  IN /\ PlanIsBuilt(nodes) => ~knot
     /\ PlanIsBuilt(nodes) /\ PlanDefects(c.plan, c.run, c.tools, c.labels) = {} =>
          /\ Len(Carried(nodes)) = Len(nodes)
          /\ \A i \in DOMAIN nodes : \E type \in AllowedActions(nodes[i].kind) :
               \/ type \in LoopHandled
               \/ TasksOf([type |-> type, branches |-> c.branches]).n >= 1

\* A wait that is agreed on ends after it begins and within the registry's and
\* the platform's ceilings, whoever asked for it, and freezing it again changes
\* nothing (D-31, D-32).
WaitIsBounded(c) ==
  LET max == ResolveCeiling(c.max, c.ceiling)
      frozen == FreezeWaitDeadline(c.handle, c.default, max.n, c.ceiling)
      again == FreezeWaitDeadline([c.handle EXCEPT !.until = frozen.until, !.timeout.type = "none"],
                                  c.default, max.n, c.ceiling)
  IN max.ok /\ frozen.ok => /\ frozen.until > c.handle.spawned
                            /\ frozen.until <= c.handle.spawned + c.ceiling
                            /\ frozen.until <= c.handle.spawned + max.n
                            /\ again = frozen

\* A loop that is restored goes on where the snapshot was taken, with a planner
\* that was just made, or is refused: it never starts over in silence (R-7).
RestoredGoesOn(c) ==
  LET restored == RestoredPort(c.made, Says(c.captured))
  IN restored.ok => Says(restored.port) = Says(c.captured)

\* The state counts an execution once, whatever is observed of it and how often,
\* and waits for an approval exactly when the last word on approvals was a request.
StateIsFolded(c) ==
  LET state == StateAfter(c)
      gates == {i \in DOMAIN c : c[i].kind \in {"approval.requested", "approval.decided"}}
  IN (\A i \in DOMAIN c : ObservationIsBuilt(c[i])) =>
     /\ \A i, j \in DOMAIN state.completed : i # j => state.completed[i] # state.completed[j]
     /\ {state.completed[i] : i \in DOMAIN state.completed} = {c[i].execution : i \in {k \in DOMAIN c : c[k].kind = "execution"}}
     /\ state.waits <=> (\E i \in gates : c[i].kind = "approval.requested" /\ \A k \in gates : k <= i)
     /\ state.version = 1 + Len(c)
=============================================================================
