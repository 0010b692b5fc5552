--------------------------- MODULE OutboxDelivery ---------------------------
(***************************************************************************)
(* The outbox publishers: the rows the kernel committed, the delivery table *)
(* the publishers share, and the log of the broker.                         *)
(*                                                                          *)
(* One drain() is one tick and one PostgreSQL transaction, so a claim is    *)
(* never committed: claimed_by and claimed_until are set and cleared in the *)
(* same transaction, and what keeps others out is the lock on the delivery  *)
(* row.  A publisher keeps nothing from one tick to the next, so a failed   *)
(* tick, a killed process and a restarted one look alike.                   *)
(*                                                                          *)
(* Events are numbered in the order in which their aggregate wrote them.    *)
(***************************************************************************)
EXTENDS Naturals, FiniteSets, Sequences, SequencesExt

CONSTANTS
    Publishers,         \* apps/outbox_publisher replicas
    Events,             \* event_id, a number
    AggregateOf,        \* aggregate_type and aggregate_id of an event
    OccurredAt,         \* occurred_at: the clock of the process that wrote it
    Poison,             \* events the broker can never accept
    PoisonErrors,       \* what publish raises for them: "named", "unnamed" or either
    BatchSize,          \* OutboxPublisher.batch_size
    MaxAttempts,        \* OutboxPublisher.max_attempts
    DeadLimit,          \* the limit of OutboxDeliveryStore.dead_ids
    MaxRefusals,        \* bound: publish calls that fail though no event is bad
    MaxDrops,           \* bound: events whose delivery error nobody reads
    MaxAborts,          \* bound: transactions that fail, processes killed
    MaxReopens          \* bound: dead letters a human reopens

ASSUME OutboxAssumption ==
    /\ Events \subseteq Nat /\ IsFiniteSet(Events)
    /\ OccurredAt \in [Events -> Nat]
    /\ DOMAIN AggregateOf = Events
    /\ Poison \subseteq Events
    /\ PoisonErrors \subseteq {"named", "unnamed"}
    /\ BatchSize \in Nat \ {0} /\ MaxAttempts \in Nat \ {0} /\ DeadLimit \in Nat \ {0}
    /\ MaxRefusals \in Nat /\ MaxDrops \in Nat /\ MaxAborts \in Nat /\ MaxReopens \in Nat

VARIABLES
    appended,   \* outbox_events: the committed rows
    published,  \* outbox_events: those with published_at
    delivery,   \* outbox_delivery: the row of each event that has one
    deaths,     \* the clock that dead_at is read from
    log,        \* what the broker has accepted
    phase,      \* phase[p]: where p is in drain()
    todo,       \* todo[p]: candidates still to claim, then events still to send
    claimed,    \* claimed[p]: events whose delivery row p has locked
    sent,       \* sent[p]: events p accounts as sent
    failed,     \* failed[p]: events p accounts as failed
    unnamed,    \* unnamed[p]: `last`, an error that indicts no event
    refusals, drops, aborts, reopens   \* the bounded counters

rows == <<appended, published, delivery, deaths>>
counters == <<refusals, drops, aborts, reopens>>
tick == <<phase, todo, claimed, sent, failed, unnamed>>
vars == <<rows, log, tick, counters>>

\* inserting: the UPDATE of the claim found no row to update.
Phases == {"idle", "claiming", "inserting", "publishing", "isolating"}

\* deadAt is 0 while dead_at is NULL.
DeliveryRecord == [attempts : 0 .. MaxAttempts, deadAt : Nat]

Init ==
    /\ appended = {} /\ published = {}
    /\ delivery = [e \in {} |-> 0] /\ deaths = 0
    /\ log = <<>>
    /\ phase = [p \in Publishers |-> "idle"]
    /\ todo = [p \in Publishers |-> <<>>]
    /\ claimed = [p \in Publishers |-> <<>>]
    /\ sent = [p \in Publishers |-> {}]
    /\ failed = [p \in Publishers |-> {}]
    /\ unnamed = [p \in Publishers |-> FALSE]
    /\ refusals = 0 /\ drops = 0 /\ aborts = 0 /\ reopens = 0

-----------------------------------------------------------------------------
(* The two tables. *)

HasRow(e) == e \in DOMAIN delivery
IsDead(e) == HasRow(e) /\ delivery[e].deadAt > 0
OnLog(e) == e \in ToSet(log)

\* ORDER BY key LIMIT n: what SQL may return for the rows S.
Limited(S, n, key) ==
    LET size == IF Cardinality(S) < n THEN Cardinality(S) ELSE n
    IN  {s \in [1 .. size -> S] :
           /\ IsInjective(s)
           /\ \A i, j \in 1 .. size : i < j => key[s[i]] <= key[s[j]]
           /\ \A e \in S \ ToSet(s) : \A i \in 1 .. size : key[s[i]] <= key[e]}

\* dead_ids
DeadIds ==
    LET dead == {e \in Events : IsDead(e)}
    IN  {ToSet(s) : s \in Limited(dead, DeadLimit, [e \in dead |-> delivery[e].deadAt])}

\* Mutant: dead_ids forgets dead_at IS NOT NULL, and reopened events stay out.
CandidatesWithoutRow == Limited(appended \ (published \cup DOMAIN delivery), BatchSize, OccurredAt)

\* pending
Candidates ==
    UNION {Limited(appended \ (published \cup exclude), BatchSize, OccurredAt) :
             exclude \in DeadIds}

\* A human repairs what made the broker refuse the event, or believes so.
Reopen(e) ==
    /\ IsDead(e) /\ reopens < MaxReopens
    /\ delivery' = [delivery EXCEPT ![e] = [attempts |-> 0, deadAt |-> 0]]
    /\ reopens' = reopens + 1
    /\ UNCHANGED <<appended, published, deaths, log, tick, refusals, drops, aborts>>

\* A transaction of the kernel commits an event.  The row lock of the
\* aggregate orders the events of one aggregate.
AppendOutbox(e) ==
    /\ e \notin appended
    /\ \A f \in Events : f < e /\ AggregateOf[f] = AggregateOf[e] => f \in appended
    /\ appended' = appended \cup {e}
    /\ UNCHANGED <<published, delivery, deaths, log, tick, counters>>

-----------------------------------------------------------------------------
(* drain(), first half: candidates, then one claim after the other. *)

Scan(p) ==
    /\ phase[p] = "idle"
    /\ \E candidates \in Candidates :
         /\ todo' = [todo EXCEPT ![p] = candidates]
         /\ phase' = [phase EXCEPT ![p] = IF candidates = <<>> THEN "idle" ELSE "claiming"]
    /\ UNCHANGED <<rows, log, claimed, sent, failed, unnamed, counters>>

\* Mutant: no row is locked.
NeverWaits(p, e) == e \in Events /\ p \in Publishers

\* Another open transaction has updated or inserted the delivery row.
Unlocked(p, e) == \A q \in Publishers \ {p} : e \notin ToSet(claimed[q])

Take(p, e) ==
    /\ claimed' = [claimed EXCEPT ![p] = Append(@, e)]
    /\ todo' = [todo EXCEPT ![p] = Tail(@)]
    /\ phase' = [phase EXCEPT ![p] = "claiming"]

PassOver(p) ==
    /\ todo' = [todo EXCEPT ![p] = Tail(@)]
    /\ phase' = [phase EXCEPT ![p] = "claiming"]
    /\ UNCHANGED claimed

Claims(p) == UNCHANGED <<rows, log, sent, failed, unnamed, counters>>

\* Mutant: CLAIM_DELIVERY without its dead_at clause.
ClaimableDead(e) == HasRow(e)

Claimable(e) == HasRow(e) /\ ~ IsDead(e)

\* CLAIM_DELIVERY: the UPDATE waits for the lock of a row it can see.
ClaimByUpdate(p) ==
    /\ phase[p] = "claiming" /\ todo[p] # <<>>
    /\ LET e == Head(todo[p])
       IN  /\ HasRow(e) => Unlocked(p, e)
           /\ \/ Claimable(e) /\ Take(p, e)
              \/ /\ ~ Claimable(e)
                 /\ phase' = [phase EXCEPT ![p] = "inserting"]
                 /\ UNCHANGED <<todo, claimed>>
    /\ Claims(p)

\* Mutant: the INSERT does not wait for a row another transaction inserts.
ClaimByInsertSkipsLocked(p) ==
    /\ phase[p] = "inserting"
    /\ LET e == Head(todo[p])
       IN  \/ ~ HasRow(e) /\ Unlocked(p, e) /\ Take(p, e)
           \/ (HasRow(e) \/ ~ Unlocked(p, e)) /\ PassOver(p)
    /\ Claims(p)

\* INSERT_DELIVERY ... ON CONFLICT DO NOTHING waits for a row that another
\* transaction is inserting, and then for nothing.
ClaimByInsert(p) ==
    /\ phase[p] = "inserting"
    /\ LET e == Head(todo[p])
       IN  /\ Unlocked(p, e)
           /\ \/ ~ HasRow(e) /\ Take(p, e)
              \/ HasRow(e) /\ PassOver(p)
    /\ Claims(p)

\* Every candidate has been tried: what was claimed is published.
Publish(p) ==
    /\ phase[p] = "claiming" /\ todo[p] = <<>> /\ claimed[p] # <<>>
    /\ phase' = [phase EXCEPT ![p] = "publishing"]
    /\ todo' = [todo EXCEPT ![p] = claimed[p]]
    /\ UNCHANGED <<rows, log, claimed, sent, failed, unnamed, counters>>

EndTick(p) ==
    /\ phase' = [phase EXCEPT ![p] = "idle"]
    /\ todo' = [todo EXCEPT ![p] = <<>>]
    /\ claimed' = [claimed EXCEPT ![p] = <<>>]
    /\ sent' = [sent EXCEPT ![p] = {}]
    /\ failed' = [failed EXCEPT ![p] = {}]
    /\ unnamed' = [unnamed EXCEPT ![p] = FALSE]

ClaimsNothing(p) ==
    /\ phase[p] = "claiming" /\ todo[p] = <<>> /\ claimed[p] = <<>>
    /\ EndTick(p)
    /\ UNCHANGED <<rows, log, counters>>

-----------------------------------------------------------------------------
(* drain(), second half: the batch, or one event after the other, is sent. *)

IsSending(p) == phase[p] \in {"publishing", "isolating"}

Sends(p, e) == IsSending(p) /\ todo[p] # <<>> /\ e = Head(todo[p])

Settles(p) ==
    /\ todo' = [todo EXCEPT ![p] = Tail(@)]
    /\ UNCHANGED <<rows, phase, claimed, aborts, reopens>>

\* produce() is asynchronous, and flush() returns whatever became of the
\* message: one that could not be delivered is reported to nobody.
Accepted(p, e) ==
    /\ Sends(p, e) /\ e \notin Poison
    /\ \/ log' = Append(log, e) /\ UNCHANGED drops
       \/ drops < MaxDrops /\ drops' = drops + 1 /\ UNCHANGED log
    /\ sent' = [sent EXCEPT ![p] = @ \cup {e}]
    /\ Settles(p) /\ UNCHANGED <<failed, unnamed, refusals>>

\* Mutant: what the broker named is marked sent with the rest.
NamedAsSent(p, e) ==
    /\ Sends(p, e) /\ e \in Poison /\ "named" \in PoisonErrors
    /\ sent' = [sent EXCEPT ![p] = @ \cup {e}]
    /\ Settles(p) /\ UNCHANGED <<log, failed, unnamed, refusals, drops>>

\* PartialPublishError: _quarantine fails the events it names, no others.
Named(p, e) ==
    /\ Sends(p, e) /\ e \in Poison /\ "named" \in PoisonErrors
    /\ failed' = [failed EXCEPT ![p] = @ \cup {e}]
    /\ Settles(p) /\ UNCHANGED <<log, sent, unnamed, refusals, drops>>

\* The event at the head cannot be sent and cannot be named, or the broker
\* refuses for reasons of its own, which flush() may report at the very end.
Refusal(p) ==
    \/ /\ \E e \in Poison : Sends(p, e)
       /\ "unnamed" \in PoisonErrors /\ UNCHANGED refusals
    \/ refusals < MaxRefusals /\ refusals' = refusals + 1

\* Mutant: an error that indicts no event fails the whole batch.
BatchRaisesFailsAll(p) ==
    /\ phase[p] = "publishing" /\ Refusal(p)
    /\ todo' = [todo EXCEPT ![p] = <<>>]
    /\ sent' = [sent EXCEPT ![p] = {}]
    /\ failed' = [failed EXCEPT ![p] = ToSet(claimed[p])]
    /\ UNCHANGED <<rows, log, phase, claimed, unnamed, drops, aborts, reopens>>

\* The batch raises: _isolate sends every event of it again, on its own.
BatchRaises(p) ==
    /\ phase[p] = "publishing" /\ Refusal(p)
    /\ phase' = [phase EXCEPT ![p] = "isolating"]
    /\ todo' = [todo EXCEPT ![p] = claimed[p]]
    /\ sent' = [sent EXCEPT ![p] = {}]
    /\ failed' = [failed EXCEPT ![p] = {}]
    /\ UNCHANGED <<rows, log, claimed, unnamed, drops, aborts, reopens>>

\* One event raises in _isolate; a timeout does not say whether the broker has it.
IsolatedRaises(p, e) ==
    /\ phase[p] = "isolating" /\ Sends(p, e) /\ Refusal(p)
    /\ \/ UNCHANGED log
       \/ e \notin Poison /\ log' = Append(log, e)
    /\ failed' = [failed EXCEPT ![p] = @ \cup {e}]
    /\ unnamed' = [unnamed EXCEPT ![p] = TRUE]
    /\ Settles(p) /\ UNCHANGED <<sent, drops>>

-----------------------------------------------------------------------------
(* The end of the tick. *)

\* Mutant: nothing was sent, so the broker is down.
IsSystemicWhenEmpty(p) == sent[p] = {}

\* Nothing was sent and some error named no event: the broker is down.
IsSystemic(p) == sent[p] = {} /\ unnamed[p]

\* drain re-raises, the tick fails, and its transaction is rolled back.
RaiseLast(p) ==
    /\ IsSending(p) /\ todo[p] = <<>> /\ IsSystemic(p)
    /\ EndTick(p)
    /\ UNCHANGED <<rows, log, counters>>

Attempts(e) == IF HasRow(e) THEN delivery[e].attempts ELSE 0

Dies(e) == Attempts(e) + 1 >= MaxAttempts

MarkFailed(e) ==
    [attempts |-> Attempts(e) + 1, deadAt |-> IF Dies(e) THEN deaths + 1 ELSE 0]

\* mark_published and mark_sent for what was sent, mark_failed for the rest.
Commit(p) ==
    /\ IsSending(p) /\ todo[p] = <<>> /\ ~ IsSystemic(p)
    /\ published' = published \cup sent[p]
    /\ delivery' = [e \in (DOMAIN delivery \cup failed[p]) \ sent[p] |->
                      IF e \in failed[p] THEN MarkFailed(e) ELSE delivery[e]]
    /\ deaths' = IF \E e \in failed[p] : Dies(e) THEN deaths + 1 ELSE deaths
    /\ EndTick(p)
    /\ UNCHANGED <<appended, log, counters>>

\* A statement fails, or the process is killed: PostgreSQL rolls back.
Abort(p) ==
    /\ phase[p] # "idle" /\ aborts < MaxAborts
    /\ aborts' = aborts + 1
    /\ EndTick(p)
    /\ UNCHANGED <<rows, log, refusals, drops, reopens>>

-----------------------------------------------------------------------------

Drain(p) ==
    \/ Scan(p) \/ ClaimByUpdate(p) \/ ClaimByInsert(p) \/ ClaimsNothing(p) \/ Publish(p)
    \/ \E e \in Events : Accepted(p, e) \/ Named(p, e) \/ IsolatedRaises(p, e)
    \/ BatchRaises(p) \/ RaiseLast(p) \/ Commit(p)

Next ==
    \/ \E e \in Events : AppendOutbox(e) \/ Reopen(e)
    \/ \E p \in Publishers : Drain(p) \/ Abort(p)

Spec == Init /\ [][Next]_vars

\* ProcessRuntime calls tick again and again, and restarts are the platform's.
FairSpec == Spec /\ \A p \in Publishers : WF_vars(Drain(p))
=============================================================================
