---------------------- MODULE OutboxDeliveryProperties ----------------------
(* What the outbox publishers are supposed to guarantee. *)
EXTENDS OutboxDelivery

\* Type invariant: every variable stays within its type; the rows of the
\* living have attempts left, those of the dead have none.
TypeOK ==
    /\ appended \subseteq Events /\ published \subseteq Events
    /\ DOMAIN delivery \subseteq Events
    /\ delivery \in [DOMAIN delivery -> DeliveryRecord]
    /\ \A e \in DOMAIN delivery : IsDead(e) <=> delivery[e].attempts = MaxAttempts
    /\ deaths \in Nat
    /\ log \in Seq(Events)
    /\ phase \in [Publishers -> Phases]
    /\ todo \in [Publishers -> Seq(Events)]
    /\ claimed \in [Publishers -> Seq(Events)]
    /\ sent \in [Publishers -> SUBSET Events]
    /\ failed \in [Publishers -> SUBSET Events]
    /\ unnamed \in [Publishers -> BOOLEAN]
    /\ refusals \in Nat /\ drops \in Nat /\ aborts \in Nat /\ reopens \in Nat

\* publisher.py, "publish first, mark afterwards": an event that counts as
\* published is on the log, whatever publishers, crashes and refusals did.
PublishedIsOnLog == \A e \in published : OnLog(e)

\* PR-3: at any time at most one publisher is busy with an event.
TerritoriesAreDisjoint ==
    \A p, q \in Publishers : p # q => ToSet(claimed[p]) \cap ToSet(claimed[q]) = {}

\* PR-10: a dead letter stays one until a human reopens it; no publisher that
\* read it as a candidate earlier sends it, frees it or deletes its row.
DeadLettersStay ==
    [][\A e \in Events : IsDead(e) => IsDead(e)' \/ Reopen(e)]_vars

\* PR-5: one bad event, or one failing batch, does not drag good events along
\* into the dead letters: a good event dies of max_attempts refusals of its own.
OnlyPoisonDies ==
    refusals < MaxAttempts => \A e \in Events : IsDead(e) => e \in Poison

\* PR-9 and kafka.py key_for: as long as the broker has refused no good event,
\* consumers that drop repetitions see the good events of one aggregate in the
\* order in which it wrote them.
FirstOnLog(e) == CHOOSE i \in DOMAIN log : log[i] = e /\ \A j \in 1 .. i - 1 : log[j] # e
FirstDeliveriesInOrder ==
    refusals = 0 /\ drops = 0 =>
        \A e, f \in Events \ Poison :
            e < f /\ AggregateOf[e] = AggregateOf[f] /\ OnLog(f)
                => OnLog(e) /\ FirstOnLog(e) < FirstOnLog(f)

\* PR-5, PR-6: every good event in the outbox reaches the log and is marked, dead
\* letters and poison in front of it notwithstanding, unless the broker refused
\* it as often as a dead letter is refused; a human who reopens it restarts this.
GoodIsDelivered ==
    \A e \in Events \ Poison :
        e \in appended ~> (e \in published /\ OnLog(e)) \/ IsDead(e)

\* PR-5: an event that can never be delivered makes way: no publisher meets one
\* that the broker names for ever.
NamedPoisonDies ==
    \A e \in Poison : <>[][~ \E p \in Publishers : Named(p, e)]_vars

\* outbox_delivery.py: with the claims in the database, several replicas do
\* not multiply the messages while nothing fails.
SentOnce == IsInjective(log)

\* DeliveryRecord: delivered events have no row, the table only holds what is
\* under way or dead.
RowsAreInFlight == \A e \in published : ~ HasRow(e)
=============================================================================
