------------------------- MODULE AgentRunProperties -------------------------
(***************************************************************************)
(* What the control plane and the loop promise about one run.  The rules    *)
(* I-9 to I-16, H-1 to H-8, A-5 and L-7 are the repository's own names,     *)
(* from loop.py, approval.py, service.py and harness.py.                    *)
(***************************************************************************)
EXTENDS AgentRun

StepRecord == [node : Nodes \cup {NoNode}, execs : SUBSET (1..MaxExecutions),
               status : TerminalStepStatuses \cup {"pending", "suspended"}]

LoopOK(m) ==
    /\ m.status \in ActiveStatuses \cup TerminalRunStatuses
    /\ m.steps \in 0..MaxSteps /\ m.denials \in 0..(MaxDenials - 1) \cup {1}
    /\ {m.plan, m.created, m.invalid} \subseteq Plans \cup {NoPlan}
    /\ m.known \subseteq {"created", "invalid"} /\ m.failures \in BOOLEAN
    /\ m.book \in Seq(StepRecord) /\ m.current \in 0..Len(m.book)
    /\ m.gate \in 0..MaxExecutions

TablesOK(t) ==
    /\ t.snap # NoLoop => LoopOK(t.snap)
    /\ DOMAIN t.approvals \subseteq DOMAIN t.execs
    /\ t.intent \in {"none", "requested", "settled"}

Outcomes == StopOutcomes \cup {"none", "failed", "replanned", "denied", "executed"}

\* The shape of the state.  A loop that goes on has been denied less than
\* max_consecutive_denials times in a row; a human who rejects is one denial.
TypeOK ==
    /\ TablesOK(db)
    /\ \A p \in Replicas : mem[p] # NoLoop => LoopOK(mem[p])
    /\ req # NoRequest => TablesOK(req.draft) /\ req.out \in Outcomes
    /\ fresh \in 0..MaxExecutions /\ ran \in 0..MaxExecutions /\ faults \in 0..MaxFaults

CallsOf(i) ==
    {e \in db.snap.book[i].execs \cap DOMAIN db.execs : db.execs[e].kind = "call"}

Tells(e) ==
    db.execs[e].status =
        CASE db.approvals[e].status = "pending" -> "suspended"
          [] db.approvals[e].status = "cancelled" -> "cancelled"
          [] OTHER -> "completed"

\* H-1 to H-3: an approval and the execution that waits for it tell the same
\* story, whoever decides, cancels or sweeps, from whichever copy of the run and
\* of the execution, as long as no request that closed the gate was rolled back.
GateTellsTheDecision == \A e \in DOMAIN db.approvals \ spoiled : Tells(e)

\* I-11 and I-14: a run that never replanned completes only with calls that
\* succeeded, as the kernel tells it, whatever a worker makes of a call later.
CompletedIsEarned ==
    db.snap # NoLoop /\ db.snap.status = "completed" /\ db.snap.invalid = NoPlan =>
        \A i \in DOMAIN db.snap.book : \A e \in db.snap.book[i].execs \cap DOMAIN db.execs :
            db.execs[e].status # "failed"

\* I-10: every API process that has loaded the run carries out at most max_steps of
\* its calls; one that comes back from a failed request or a restart with an older
\* loop may do as many again.
WorkIsBounded == ran <= MaxSteps * (Cardinality(Replicas) + faults)

\* L-7 and I-10: what a client waits for comes; the loop behind POST
\* /runs/{id}/run is denied, replans and fails only so many times.
RequestEnds == []<>(req = NoRequest)

(***************************************************************************)
(* What the code says and does not keep.                                    *)
(***************************************************************************)
\* A decision that was made has its gate closed, also by who tries again: the close that
\* was rolled back is still in the kernel's copy, and the gate stays suspended.
ClosedWithTheDecision == \A e \in DOMAIN db.approvals : Tells(e)

\* R-10: a run that was cancelled, by whichever process, stays so.
CancelledStays ==
    [][db.snap # NoLoop /\ db.snap.status = "cancelled" => db'.snap.status = "cancelled"]_vars

\* I-16: a node of the plan runs only when what it depends on has a product.
DependentsHaveProducts ==
    db.snap # NoLoop =>
        \A i, j \in DOMAIN db.snap.book :
            /\ CallsOf(i) # {} /\ db.snap.book[i].node # NoNode
            /\ db.snap.book[j].node \in Needs[db.snap.book[i].node]
            => \E k \in DOMAIN db.snap.book :
                   db.snap.book[k].node = db.snap.book[j].node /\ CallsOf(k) # {}
=============================================================================
