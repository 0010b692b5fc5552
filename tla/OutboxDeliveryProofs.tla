------------------------ MODULE OutboxDeliveryProofs ------------------------
(***************************************************************************)
(* Proofs about OutboxDelivery for any number of publishers and events, any *)
(* batch size and any number of failures.                                   *)
(***************************************************************************)
EXTENDS OutboxDeliveryProperties, SequenceTheorems, FiniteSetTheorems,
        WellFoundedInduction, TLAPS

-----------------------------------------------------------------------------
(* Facts about sequences and about the SELECTs. *)

\* What a claim adds to the events a publisher has locked.
LEMMA SetOfAppend ==
    ASSUME NEW S, NEW s \in Seq(S), NEW e \in S
    PROVE  /\ Append(s, e) \in Seq(S)
           /\ ToSet(Append(s, e)) = ToSet(s) \cup {e}
<1>1. /\ Append(s, e) \in Seq(S)
      /\ Len(Append(s, e)) = Len(s) + 1
      /\ \A i \in 1 .. Len(s) : Append(s, e)[i] = s[i]
      /\ Append(s, e)[Len(s) + 1] = e
  BY AppendProperties
<1>2. DOMAIN s = 1 .. Len(s) /\ DOMAIN Append(s, e) = 1 .. Len(s) + 1 /\ Len(s) \in Nat
  BY <1>1, LenProperties
<1> QED
  BY <1>1, <1>2 DEF ToSet

\* What is left of the candidates once the first of them is settled.
LEMMA SetOfTail ==
    ASSUME NEW S, NEW s \in Seq(S), s # <<>>
    PROVE  /\ Head(s) \in S /\ Head(s) \in ToSet(s)
           /\ Tail(s) \in Seq(S)
           /\ ToSet(Tail(s)) \subseteq ToSet(s)
<1>1. /\ Head(s) \in S /\ Tail(s) \in Seq(S)
      /\ Len(s) >= 1 /\ Len(Tail(s)) = Len(s) - 1
      /\ Head(s) = s[1]
      /\ \A i \in 1 .. Len(Tail(s)) : Tail(s)[i] = s[i + 1]
  BY HeadTailProperties, EmptySeq, LenProperties
<1>2. DOMAIN s = 1 .. Len(s) /\ DOMAIN Tail(s) = 1 .. Len(Tail(s)) /\ Len(s) \in Nat
  BY <1>1, LenProperties
<1>3. Head(s) \in ToSet(s)
  BY <1>1, <1>2 DEF ToSet
<1>4. ToSet(Tail(s)) \subseteq ToSet(s)
  <2> SUFFICES ASSUME NEW i \in 1 .. Len(Tail(s)) PROVE Tail(s)[i] \in ToSet(s)
    BY <1>2 DEF ToSet
  <2>1. i + 1 \in 1 .. Len(s) /\ Tail(s)[i] = s[i + 1]
    BY <1>1, <1>2
  <2> QED
    BY <2>1, <1>2 DEF ToSet
<1> QED
  BY <1>1, <1>3, <1>4

\* pending() returns events.
LEMMA CandidatesType == ASSUME NEW s \in Candidates, appended \subseteq Events
                        PROVE  s \in Seq(Events)
<1>1. PICK exclude \in DeadIds :
        s \in Limited(appended \ (published \cup exclude), BatchSize, OccurredAt)
  BY DEF Candidates
<1> DEFINE S == appended \ (published \cup exclude)
           size == IF Cardinality(S) < BatchSize THEN Cardinality(S) ELSE BatchSize
<1>2. IsFiniteSet(S) /\ S \subseteq Events
  BY OutboxAssumption, FS_Subset DEF OutboxAssumption
<1>3. size \in Nat
  BY <1>2, FS_CardinalityType, OutboxAssumption DEF OutboxAssumption
<1>4. s \in [1 .. size -> S]
  BY <1>1 DEF Limited
<1> HIDE DEF size, S
<1>5. s \in [1 .. size -> Events]
  BY <1>2, <1>4
<1> QED
  BY <1>3, <1>5

-----------------------------------------------------------------------------
(* The inductive invariant: besides the types, what the rows and sets of a  *)
(* publisher have to do with each other at its place in the tick.           *)

InTick(p) ==
    /\ phase[p] = "idle" => ToSet(claimed[p]) = {}
    /\ phase[p] \in {"idle", "claiming", "inserting"} => sent[p] = {} /\ failed[p] = {}
    /\ phase[p] = "inserting" => todo[p] # <<>>
    /\ IsSending(p) => ToSet(todo[p]) \subseteq ToSet(claimed[p])
    /\ sent[p] \subseteq ToSet(claimed[p])
    /\ failed[p] \subseteq ToSet(claimed[p])
    /\ \A e \in ToSet(claimed[p]) : ~ IsDead(e)

IInv ==
    /\ TypeOK
    /\ TerritoriesAreDisjoint
    /\ \A p \in Publishers : InTick(p)

\* Nothing is claimed, and nothing is dead, when the publishers start.
LEMMA InitIInv == Init => IInv
<1> SUFFICES ASSUME Init PROVE IInv
  OBVIOUS
<1>1. \A p \in Publishers : ToSet(claimed[p]) = {}
  BY DEF Init, ToSet
<1>2. <<>> \in Seq(Events) /\ DOMAIN delivery = {}
  BY EmptySeq DEF Init
<1>3. TypeOK
  BY <1>2 DEF Init, TypeOK, Phases
<1>4. TerritoriesAreDisjoint
  BY <1>1 DEF TerritoriesAreDisjoint
<1>5. ASSUME NEW p \in Publishers PROVE InTick(p)
  BY <1>1, <1>5 DEF InTick, Init, IsSending
<1> QED
  BY <1>3, <1>4, <1>5 DEF IInv

\* Steps that only fill the outbox.
LEMMA AppendKeepsIInv ==
    ASSUME IInv, NEW e \in Events, AppendOutbox(e) PROVE IInv'
<1>1. TypeOK'
  BY DEF IInv, TypeOK, AppendOutbox, tick, counters, IsDead, HasRow
<1>2. TerritoriesAreDisjoint'
  BY DEF IInv, TerritoriesAreDisjoint, AppendOutbox, tick
<1>3. ASSUME NEW p \in Publishers PROVE InTick(p)'
  BY <1>3 DEF IInv, InTick, AppendOutbox, tick, IsSending, IsDead, HasRow
<1> QED
  BY <1>1, <1>2, <1>3 DEF IInv

\* Reopening a dead letter: no publisher has it, since dead rows are not claimed.
LEMMA ReopenKeepsIInv ==
    ASSUME IInv, NEW e \in Events, Reopen(e) PROVE IInv'
<1> USE DEF IInv
<1>1. /\ DOMAIN delivery' = DOMAIN delivery
      /\ delivery' \in [DOMAIN delivery' -> DeliveryRecord]
      /\ delivery'[e] = [attempts |-> 0, deadAt |-> 0]
      /\ \A f \in DOMAIN delivery \ {e} : delivery'[f] = delivery[f]
  BY OutboxAssumption DEF Reopen, TypeOK, DeliveryRecord, IsDead, HasRow, OutboxAssumption
<1>2. \A f \in DOMAIN delivery' : IsDead(f)' <=> delivery'[f].attempts = MaxAttempts
  <2>1. ~ IsDead(e)' /\ delivery'[e].attempts # MaxAttempts
    BY <1>1, OutboxAssumption DEF IsDead, OutboxAssumption
  <2>2. \A f \in DOMAIN delivery \ {e} : IsDead(f)' <=> IsDead(f)
    BY <1>1 DEF IsDead, HasRow
  <2> QED
    BY <1>1, <2>1, <2>2 DEF TypeOK
<1>3. TypeOK'
  BY <1>1, <1>2 DEF TypeOK, Reopen, tick
<1>4. TerritoriesAreDisjoint'
  BY DEF TerritoriesAreDisjoint, Reopen, tick
<1>5. \A f : ~ IsDead(f) => ~ IsDead(f)'
  BY <1>1 DEF IsDead, HasRow
<1>6. ASSUME NEW p \in Publishers PROVE InTick(p)'
  BY <1>5, <1>6 DEF InTick, Reopen, tick, IsSending
<1> QED
  BY <1>3, <1>4, <1>6

\* Steps of p that leave the tables and the claims of everybody as they are.
LEMMA OthersKeepInTick ==
    ASSUME IInv, NEW p \in Publishers, UNCHANGED <<rows, claimed>>,
           \A q \in Publishers \ {p} :
               /\ phase'[q] = phase[q] /\ todo'[q] = todo[q]
               /\ sent'[q] = sent[q] /\ failed'[q] = failed[q],
           InTick(p)', TypeOK'
    PROVE  IInv'
<1>1. TerritoriesAreDisjoint'
  BY DEF IInv, TerritoriesAreDisjoint
<1>2. ASSUME NEW q \in Publishers \ {p} PROVE InTick(q)'
  BY <1>2 DEF IInv, InTick, rows, IsSending, IsDead, HasRow
<1> QED
  BY <1>1, <1>2 DEF IInv

\* Reading the candidates keeps the invariant.
LEMMA ScanKeepsIInv ==
    ASSUME IInv, NEW p \in Publishers, Scan(p) PROVE IInv'
<1>1. PICK c \in Candidates :
        /\ todo' = [todo EXCEPT ![p] = c]
        /\ phase' = [phase EXCEPT ![p] = IF c = <<>> THEN "idle" ELSE "claiming"]
  BY DEF Scan
<1>2. c \in Seq(Events)
  BY CandidatesType DEF IInv, TypeOK
<1>3. TypeOK'
  BY <1>1, <1>2 DEF IInv, TypeOK, Scan, rows, counters, Phases, IsDead, HasRow
<1>4. InTick(p)'
  BY <1>1 DEF IInv, TypeOK, InTick, Scan, rows, IsSending, IsDead, HasRow
<1> QED
  BY <1>1, <1>3, <1>4, OthersKeepInTick DEF Scan, IInv, TypeOK

\* A claim that succeeds: the row was not dead, and nobody else had it.
LEMMA TakeKeepsIInv ==
    ASSUME IInv, NEW p \in Publishers, NEW e, phase[p] \in {"claiming", "inserting"},
           todo[p] # <<>>, e = Head(todo[p]), Take(p, e), Claims(p),
           Unlocked(p, e), ~ IsDead(e)
    PROVE  IInv'
<1>1. /\ e \in Events /\ Tail(todo[p]) \in Seq(Events)
  BY SetOfTail DEF IInv, TypeOK
<1>2. /\ Append(claimed[p], e) \in Seq(Events)
      /\ ToSet(Append(claimed[p], e)) = ToSet(claimed[p]) \cup {e}
  BY <1>1, SetOfAppend DEF IInv, TypeOK
<1>3. TypeOK'
  BY <1>1, <1>2 DEF IInv, TypeOK, Take, Claims, rows, counters, Phases, IsDead, HasRow
<1>4. /\ ToSet(claimed'[p]) = ToSet(claimed[p]) \cup {e}
      /\ \A q \in Publishers \ {p} : claimed'[q] = claimed[q]
  BY <1>2 DEF IInv, TypeOK, Take
<1>5. TerritoriesAreDisjoint'
  BY <1>4 DEF IInv, TerritoriesAreDisjoint, Unlocked
<1>6. InTick(p)'
  BY <1>4 DEF IInv, TypeOK, InTick, Take, Claims, rows, IsSending, IsDead, HasRow
<1>7. ASSUME NEW q \in Publishers \ {p} PROVE InTick(q)'
  BY <1>4, <1>7 DEF IInv, TypeOK, InTick, Take, Claims, rows, IsSending, IsDead, HasRow
<1> QED
  BY <1>3, <1>5, <1>6, <1>7 DEF IInv

\* Claiming an existing row keeps the invariant: the row was not locked by another.
LEMMA ClaimByUpdateKeepsIInv ==
    ASSUME IInv, NEW p \in Publishers, ClaimByUpdate(p) PROVE IInv'
<1> DEFINE e == Head(todo[p])
<1>1. CASE Claimable(e) /\ Take(p, e)
  BY <1>1, TakeKeepsIInv DEF ClaimByUpdate, Claimable
<1>2. CASE /\ phase' = [phase EXCEPT ![p] = "inserting"]
           /\ UNCHANGED <<todo, claimed>>
  <2>1. TypeOK'
    BY <1>2 DEF IInv, TypeOK, ClaimByUpdate, Claims, rows, counters, Phases, IsDead, HasRow
  <2>2. InTick(p)'
    BY <1>2 DEF IInv, TypeOK, InTick, ClaimByUpdate, Claims, rows, IsSending, IsDead, HasRow
  <2> QED
    BY <1>2, <2>1, <2>2, OthersKeepInTick DEF ClaimByUpdate, Claims, IInv, TypeOK
<1> QED
  BY <1>1, <1>2 DEF ClaimByUpdate

\* Claiming by a new row keeps the invariant: nobody else is inserting it.
LEMMA ClaimByInsertKeepsIInv ==
    ASSUME IInv, NEW p \in Publishers, ClaimByInsert(p) PROVE IInv'
<1> DEFINE e == Head(todo[p])
<1>1. todo[p] # <<>>
  BY DEF ClaimByInsert, IInv, InTick
<1>2. CASE ~ HasRow(e) /\ Take(p, e)
  BY <1>1, <1>2, TakeKeepsIInv DEF ClaimByInsert, IsDead
<1>3. CASE PassOver(p)
  <2>1. Tail(todo[p]) \in Seq(Events)
    BY <1>1, SetOfTail DEF IInv, TypeOK
  <2>2. TypeOK'
    BY <1>3, <2>1 DEF IInv, TypeOK, ClaimByInsert, PassOver, Claims, rows, counters,
                      Phases, IsDead, HasRow
  <2>3. InTick(p)'
    BY <1>3 DEF IInv, TypeOK, InTick, ClaimByInsert, PassOver, Claims, rows, IsSending,
                IsDead, HasRow
  <2> QED
    BY <1>3, <2>2, <2>3, OthersKeepInTick DEF ClaimByInsert, PassOver, Claims, IInv, TypeOK
<1> QED
  BY <1>2, <1>3 DEF ClaimByInsert

\* Handing the claimed events to the broker keeps the invariant.
LEMMA PublishKeepsIInv ==
    ASSUME IInv, NEW p \in Publishers, Publish(p) PROVE IInv'
<1>1. TypeOK'
  BY DEF IInv, TypeOK, Publish, rows, counters, Phases, IsDead, HasRow
<1>2. InTick(p)'
  BY DEF IInv, TypeOK, InTick, Publish, rows, IsSending, IsDead, HasRow
<1> QED
  BY <1>1, <1>2, OthersKeepInTick DEF Publish, IInv, TypeOK

\* Whatever becomes of an event that was sent: it was one of p's claims.
LEMMA SendsClaimed ==
    ASSUME IInv, NEW p \in Publishers, NEW e, Sends(p, e)
    PROVE  /\ e \in Events /\ e \in ToSet(claimed[p])
           /\ Tail(todo[p]) \in Seq(Events)
           /\ ToSet(Tail(todo[p])) \subseteq ToSet(claimed[p])
<1>1. /\ e \in Events /\ e \in ToSet(todo[p])
      /\ Tail(todo[p]) \in Seq(Events)
      /\ ToSet(Tail(todo[p])) \subseteq ToSet(todo[p])
  BY SetOfTail DEF Sends, IInv, TypeOK
<1>2. ToSet(todo[p]) \subseteq ToSet(claimed[p])
  BY DEF IInv, InTick, Sends
<1> QED
  BY <1>1, <1>2

\* An accepted event keeps the invariant.
LEMMA AcceptedKeepsIInv ==
    ASSUME IInv, NEW p \in Publishers, NEW e \in Events, Accepted(p, e) PROVE IInv'
<1>1. /\ e \in ToSet(claimed[p]) /\ Tail(todo[p]) \in Seq(Events)
      /\ ToSet(Tail(todo[p])) \subseteq ToSet(claimed[p])
  BY SendsClaimed DEF Accepted
<1>2. log \in Seq(Events) /\ drops \in Nat /\ Append(log, e) \in Seq(Events)
  BY SetOfAppend DEF IInv, TypeOK
<1>3. \/ log' = Append(log, e) /\ drops' = drops
      \/ log' = log /\ drops' = drops + 1
  BY DEF Accepted
<1>4. log' \in Seq(Events) /\ drops' \in Nat
  BY <1>2, <1>3
<1>5. TypeOK'
  BY <1>1, <1>4 DEF IInv, TypeOK, Accepted, Settles, rows, IsDead, HasRow
<1>6. InTick(p)'
  BY <1>1 DEF IInv, TypeOK, InTick, Accepted, Settles, Sends, rows, IsSending, IsDead, HasRow
<1> QED
  BY <1>5, <1>6, OthersKeepInTick DEF Accepted, Settles, IInv, TypeOK

\* An event the broker names keeps the invariant.
LEMMA NamedKeepsIInv ==
    ASSUME IInv, NEW p \in Publishers, NEW e \in Events, Named(p, e) PROVE IInv'
<1>1. /\ e \in ToSet(claimed[p]) /\ Tail(todo[p]) \in Seq(Events)
      /\ ToSet(Tail(todo[p])) \subseteq ToSet(claimed[p])
  BY SendsClaimed DEF Named
<1>2. TypeOK'
  BY <1>1 DEF IInv, TypeOK, Named, Settles, rows, IsDead, HasRow
<1>3. InTick(p)'
  BY <1>1 DEF IInv, TypeOK, InTick, Named, Settles, Sends, rows, IsSending, IsDead, HasRow
<1> QED
  BY <1>2, <1>3, OthersKeepInTick DEF Named, Settles, IInv, TypeOK

\* Falling back to one event at a time keeps the invariant.
LEMMA BatchRaisesKeepsIInv ==
    ASSUME IInv, NEW p \in Publishers, BatchRaises(p) PROVE IInv'
<1>1. refusals' \in Nat
  BY DEF BatchRaises, Refusal, IInv, TypeOK
<1>2. TypeOK'
  BY <1>1 DEF IInv, TypeOK, BatchRaises, rows, Phases, IsDead, HasRow
<1>3. InTick(p)'
  BY DEF IInv, TypeOK, InTick, BatchRaises, rows, IsSending, IsDead, HasRow
<1> QED
  BY <1>2, <1>3, OthersKeepInTick DEF BatchRaises, IInv, TypeOK

\* An event that fails on its own keeps the invariant.
LEMMA IsolatedRaisesKeepsIInv ==
    ASSUME IInv, NEW p \in Publishers, NEW e \in Events, IsolatedRaises(p, e) PROVE IInv'
<1>1. /\ e \in ToSet(claimed[p]) /\ Tail(todo[p]) \in Seq(Events)
      /\ ToSet(Tail(todo[p])) \subseteq ToSet(claimed[p])
  BY SendsClaimed DEF IsolatedRaises
<1>2. log' \in Seq(Events)
  <2>1. log \in Seq(Events) /\ Append(log, e) \in Seq(Events)
    BY SetOfAppend DEF IInv, TypeOK
  <2>2. log' = log \/ log' = Append(log, e)
    BY DEF IsolatedRaises
  <2> QED
    BY <2>1, <2>2
<1>3. refusals' \in Nat
  BY DEF IsolatedRaises, Refusal, IInv, TypeOK
<1>4. TypeOK'
  BY <1>1, <1>2, <1>3 DEF IInv, TypeOK, IsolatedRaises, Settles, rows, IsDead, HasRow
<1>5. InTick(p)'
  BY <1>1 DEF IInv, TypeOK, InTick, IsolatedRaises, Settles, Sends, rows, IsSending,
              IsDead, HasRow
<1> QED
  BY <1>4, <1>5, OthersKeepInTick DEF IsolatedRaises, Settles, IInv, TypeOK

\* A tick that ends without a commit: the claims are gone, the rows are as before.
LEMMA RolledBackKeepsIInv ==
    ASSUME IInv, NEW p \in Publishers, EndTick(p), UNCHANGED <<rows, log>>,
           refusals' \in Nat, drops' \in Nat, aborts' \in Nat, reopens' \in Nat
    PROVE  IInv'
<1>1. <<>> \in Seq(Events) /\ ToSet(<<>>) = {}
  BY EmptySeq DEF ToSet
<1>2. TypeOK'
  BY <1>1 DEF IInv, TypeOK, EndTick, rows, Phases, IsDead, HasRow
<1>3. TerritoriesAreDisjoint'
  BY <1>1 DEF IInv, TypeOK, TerritoriesAreDisjoint, EndTick
<1>4. ASSUME NEW q \in Publishers PROVE InTick(q)'
  BY <1>1, <1>4 DEF IInv, TypeOK, InTick, EndTick, rows, IsSending, IsDead, HasRow
<1> QED
  BY <1>2, <1>3, <1>4 DEF IInv

\* The rows after a commit: an event that failed has one attempt more and dies
\* with the last one; all other rows that remain are what they were.
LEMMA CommitRows ==
    ASSUME IInv, NEW p \in Publishers, Commit(p)
    PROVE  /\ DOMAIN delivery' = (DOMAIN delivery \cup failed[p]) \ sent[p]
           /\ delivery' \in [DOMAIN delivery' -> DeliveryRecord]
           /\ \A e \in DOMAIN delivery' : IsDead(e)' <=> delivery'[e].attempts = MaxAttempts
           /\ \A e \in Events \ ToSet(claimed[p]) : IsDead(e)' <=> IsDead(e)
<1>1. failed[p] \subseteq ToSet(claimed[p]) /\ sent[p] \subseteq ToSet(claimed[p])
  BY DEF IInv, InTick
<1>2. ASSUME NEW e \in failed[p]
      PROVE  /\ MarkFailed(e) \in DeliveryRecord
             /\ MarkFailed(e).deadAt > 0 <=> MarkFailed(e).attempts = MaxAttempts
  <2>1. ~ IsDead(e)
    BY <1>1 DEF IInv, InTick
  <2>2. Attempts(e) \in 0 .. MaxAttempts - 1
    <3>1. CASE HasRow(e)
      <4>1. delivery[e].attempts \in 0 .. MaxAttempts /\ delivery[e].attempts # MaxAttempts
        BY <2>1, <3>1 DEF IInv, TypeOK, DeliveryRecord, HasRow
      <4> QED
        BY <3>1, <4>1, OutboxAssumption DEF Attempts, OutboxAssumption
    <3>2. CASE ~ HasRow(e)
      BY <3>2, OutboxAssumption DEF Attempts, OutboxAssumption
    <3> QED
      BY <3>1, <3>2
  <2>3. deaths \in Nat
    BY DEF IInv, TypeOK
  <2> QED
    BY <2>2, <2>3, OutboxAssumption DEF MarkFailed, Dies, DeliveryRecord, OutboxAssumption
<1>3. /\ DOMAIN delivery' = (DOMAIN delivery \cup failed[p]) \ sent[p]
      /\ \A e \in DOMAIN delivery' :
           delivery'[e] = IF e \in failed[p] THEN MarkFailed(e) ELSE delivery[e]
  BY DEF Commit
<1>4. ASSUME NEW e \in DOMAIN delivery'
      PROVE  /\ delivery'[e] \in DeliveryRecord
             /\ IsDead(e)' <=> delivery'[e].attempts = MaxAttempts
  <2>1. CASE e \in failed[p]
    BY <1>2, <1>3, <2>1 DEF IsDead, HasRow
  <2>2. CASE e \notin failed[p]
    <3>1. e \in DOMAIN delivery /\ delivery'[e] = delivery[e]
      BY <1>3, <2>2
    <3> QED
      BY <3>1 DEF IInv, TypeOK, IsDead, HasRow
  <2> QED
    BY <2>1, <2>2
<1>5. delivery' = [e \in DOMAIN delivery' |-> delivery'[e]]
  BY DEF Commit
<1>6. delivery' \in [DOMAIN delivery' -> DeliveryRecord]
  BY <1>4, <1>5
<1>7. \A e \in Events \ ToSet(claimed[p]) : IsDead(e)' <=> IsDead(e)
  BY <1>1, <1>3 DEF IsDead, HasRow
<1> QED
  BY <1>3, <1>4, <1>6, <1>7

\* Accounting and commit keep the invariant.
LEMMA CommitKeepsIInv ==
    ASSUME IInv, NEW p \in Publishers, Commit(p) PROVE IInv'
<1>1. <<>> \in Seq(Events) /\ ToSet(<<>>) = {}
  BY EmptySeq DEF ToSet
<1>2. TypeOK'
  <2>1. /\ DOMAIN delivery' \subseteq Events
        /\ delivery' \in [DOMAIN delivery' -> DeliveryRecord]
        /\ \A e \in DOMAIN delivery' : IsDead(e)' <=> delivery'[e].attempts = MaxAttempts
    BY CommitRows DEF IInv, TypeOK
  <2>2. published' \subseteq Events /\ appended' \subseteq Events /\ log' \in Seq(Events)
    BY DEF IInv, TypeOK, Commit
  <2>3. deaths' \in Nat
    BY DEF IInv, TypeOK, Commit
  <2>4. /\ phase' \in [Publishers -> Phases]
        /\ todo' \in [Publishers -> Seq(Events)]
        /\ claimed' \in [Publishers -> Seq(Events)]
        /\ sent' \in [Publishers -> SUBSET Events]
        /\ failed' \in [Publishers -> SUBSET Events]
        /\ unnamed' \in [Publishers -> BOOLEAN]
    BY <1>1 DEF IInv, TypeOK, Commit, EndTick, Phases
  <2>5. refusals' \in Nat /\ drops' \in Nat /\ aborts' \in Nat /\ reopens' \in Nat
    BY DEF IInv, TypeOK, Commit, counters
  <2> QED
    BY <2>1, <2>2, <2>3, <2>4, <2>5 DEF TypeOK
<1>3. TerritoriesAreDisjoint'
  BY <1>1 DEF IInv, TypeOK, TerritoriesAreDisjoint, Commit, EndTick
<1>4. InTick(p)'
  BY <1>1 DEF IInv, TypeOK, InTick, Commit, EndTick, IsSending
<1>5. ASSUME NEW q \in Publishers \ {p} PROVE InTick(q)'
  <2>1. ToSet(claimed[q]) \subseteq Events \ ToSet(claimed[p])
    <3>1. ToSet(claimed[q]) \subseteq Events
      BY DEF IInv, TypeOK, ToSet
    <3> QED
      BY <3>1 DEF IInv, TerritoriesAreDisjoint
  <2>2. \A e \in ToSet(claimed[q]) : IsDead(e)' <=> IsDead(e)
    BY <2>1, CommitRows
  <2> QED
    BY <2>2 DEF IInv, TypeOK, InTick, Commit, EndTick, IsSending
<1> QED
  BY <1>2, <1>3, <1>4, <1>5 DEF IInv

-----------------------------------------------------------------------------
(* The theorems. *)

\* Every step keeps the inductive invariant.
LEMMA NextKeepsIInv == IInv /\ [Next]_vars => IInv'
<1> SUFFICES ASSUME IInv, [Next]_vars PROVE IInv'
  OBVIOUS
<1>1. ASSUME NEW e \in Events, AppendOutbox(e) \/ Reopen(e) PROVE IInv'
  BY <1>1, AppendKeepsIInv, ReopenKeepsIInv
<1>2. ASSUME NEW p \in Publishers, Drain(p) PROVE IInv'
  <2>1. CASE Scan(p)
    BY <2>1, ScanKeepsIInv
  <2>2. CASE ClaimByUpdate(p) \/ ClaimByInsert(p)
    BY <2>2, ClaimByUpdateKeepsIInv, ClaimByInsertKeepsIInv
  <2>3. CASE Publish(p)
    BY <2>3, PublishKeepsIInv
  <2>4. CASE ClaimsNothing(p) \/ RaiseLast(p)
    BY <2>4, RolledBackKeepsIInv DEF ClaimsNothing, RaiseLast, counters, IInv, TypeOK
  <2>5. CASE \E e \in Events : Accepted(p, e) \/ Named(p, e) \/ IsolatedRaises(p, e)
    BY <2>5, AcceptedKeepsIInv, NamedKeepsIInv, IsolatedRaisesKeepsIInv
  <2>6. CASE BatchRaises(p)
    BY <2>6, BatchRaisesKeepsIInv
  <2>7. CASE Commit(p)
    BY <2>7, CommitKeepsIInv
  <2> QED
    BY <1>2, <2>1, <2>2, <2>3, <2>4, <2>5, <2>6, <2>7 DEF Drain
<1>3. ASSUME NEW p \in Publishers, Abort(p) PROVE IInv'
  BY <1>3, RolledBackKeepsIInv DEF Abort, IInv, TypeOK
<1>4. CASE UNCHANGED vars
  <2>1. TypeOK'
    BY <1>4 DEF IInv, TypeOK, vars, rows, tick, counters, IsDead, HasRow
  <2>2. TerritoriesAreDisjoint'
    BY <1>4 DEF IInv, TerritoriesAreDisjoint, vars, tick
  <2>3. ASSUME NEW p \in Publishers PROVE InTick(p)'
    BY <1>4, <2>3 DEF IInv, InTick, vars, rows, tick, IsSending, IsDead, HasRow
  <2> QED
    BY <2>1, <2>2, <2>3 DEF IInv
<1> QED
  BY <1>1, <1>2, <1>3, <1>4 DEF Next

\* The invariant holds in every reachable state.
THEOREM Invariance == Spec => []IInv
<1> QED
  BY InitIInv, NextKeepsIInv, PTL DEF Spec

\* Every variable keeps its type, and exactly the dead have no attempts left.
THEOREM TypeCorrect == Spec => []TypeOK
<1>1. IInv => TypeOK
  BY DEF IInv
<1> QED
  BY <1>1, Invariance, PTL

\* PR-3: however many replicas there are, two are never busy with one event.
THEOREM OnePublisherPerEvent == Spec => []TerritoriesAreDisjoint
<1>1. IInv => TerritoriesAreDisjoint
  BY DEF IInv
<1> QED
  BY <1>1, Invariance, PTL

\* PR-10: the step that ends a dead letter is a human's.  Sending one would take
\* a claim, and what a publisher has claimed is not dead.
THEOREM DeadLettersAreFinal == Spec => DeadLettersStay
<1>1. ASSUME IInv, [Next]_vars, NEW e \in Events, IsDead(e), ~ Reopen(e)
      PROVE  IsDead(e)'
  <2>1. CASE delivery' = delivery
    BY <1>1, <2>1 DEF IsDead, HasRow
  <2>2. ASSUME NEW f \in Events, Reopen(f) PROVE IsDead(e)'
    BY <1>1, <2>2 DEF Reopen, IsDead, HasRow
  <2>3. ASSUME NEW p \in Publishers, Commit(p) PROVE IsDead(e)'
    <3>1. e \notin ToSet(claimed[p])
      BY <1>1 DEF IInv, InTick
    <3> QED
      BY <1>1, <2>3, <3>1, CommitRows
  <2> QED
    BY <1>1, <2>1, <2>2, <2>3 DEF Next, vars, rows, AppendOutbox, Abort, Drain, Scan,
       ClaimByUpdate, ClaimByInsert, Claims, ClaimsNothing, Publish, Accepted, Named,
       IsolatedRaises, Settles, BatchRaises, RaiseLast
<1>2. IInv /\ [Next]_vars => [\A e \in Events : IsDead(e) => IsDead(e)' \/ Reopen(e)]_vars
  BY <1>1
<1> QED
  BY <1>2, Invariance, PTL DEF Spec, DeadLettersStay

\* What a publisher counts as sent, and what is marked published, is on the log.
SentIsOnLog ==
    /\ published \subseteq ToSet(log)
    /\ \A p \in Publishers : sent[p] \subseteq ToSet(log)

\* The log only grows.
LEMMA LogGrows ==
    ASSUME IInv, [Next]_vars PROVE ToSet(log) \subseteq ToSet(log')
<1>1. CASE log' = log
  BY <1>1
<1>2. ASSUME NEW e \in Events, log' = Append(log, e) PROVE ToSet(log) \subseteq ToSet(log')
  BY <1>2, SetOfAppend DEF IInv, TypeOK
<1> QED
  BY <1>1, <1>2 DEF Next, vars, AppendOutbox, Reopen, Abort, Drain, Scan,
     ClaimByUpdate, ClaimByInsert, Claims, ClaimsNothing, Publish, Accepted, Named,
     IsolatedRaises, BatchRaises, RaiseLast, Commit

\* A step that drops nothing keeps what is sent or published on the log.
LEMMA SentIsOnLogInductive ==
    ASSUME drops' = drops, IInv, SentIsOnLog, [Next]_vars PROVE SentIsOnLog'
<1>1. ToSet(log) \subseteq ToSet(log')
  BY LogGrows
<1>2. CASE UNCHANGED published /\ \A q \in Publishers : sent'[q] \subseteq sent[q]
  BY <1>1, <1>2 DEF SentIsOnLog
<1>3. ASSUME NEW p \in Publishers, NEW e \in Events, Accepted(p, e) PROVE SentIsOnLog'
  <2>1. log' = Append(log, e) /\ log \in Seq(Events)
    <3>1. drops \in Nat /\ drops' # drops + 1
      BY DEF IInv, TypeOK
    <3> QED
      BY <1>3, <3>1 DEF Accepted, IInv, TypeOK
  <2>2. e \in ToSet(log')
    BY <2>1, SetOfAppend
  <2>3. /\ published' = published
        /\ \A q \in Publishers : sent'[q] \subseteq sent[q] \cup {e}
    BY <1>3 DEF Accepted, Settles, rows, IInv, TypeOK
  <2> QED
    BY <1>1, <2>2, <2>3 DEF SentIsOnLog
<1>4. ASSUME NEW p \in Publishers, Commit(p) PROVE SentIsOnLog'
  BY <1>1, <1>4 DEF SentIsOnLog, Commit, EndTick, IInv, TypeOK
<1>5. ASSUME NEW p \in Publishers, EndTick(p), UNCHANGED published PROVE SentIsOnLog'
  BY <1>1, <1>5 DEF SentIsOnLog, EndTick, IInv, TypeOK
<1>6. ASSUME NEW p \in Publishers, BatchRaises(p) PROVE SentIsOnLog'
  BY <1>1, <1>6 DEF SentIsOnLog, BatchRaises, rows, IInv, TypeOK
<1> QED
  BY <1>2, <1>3, <1>4, <1>5, <1>6 DEF Next, vars, rows, tick, AppendOutbox, Reopen, Abort,
     Drain, Scan, ClaimByUpdate, ClaimByInsert, Claims, ClaimsNothing, Publish, Named,
     IsolatedRaises, Settles, RaiseLast

\* At least once: if the client library reports every message it could not
\* deliver, what the outbox calls published is on the log.
THEOREM AtLeastOnce == MaxDrops = 0 => (Spec => []PublishedIsOnLog)
<1> SUFFICES ASSUME MaxDrops = 0 PROVE Spec => []PublishedIsOnLog
  OBVIOUS
<1>1. Init => SentIsOnLog
  BY DEF Init, SentIsOnLog
<1>2. IInv /\ SentIsOnLog /\ [Next]_vars => SentIsOnLog'
  <2> SUFFICES ASSUME IInv, SentIsOnLog, [Next]_vars PROVE SentIsOnLog'
    OBVIOUS
  <2>1. ~ drops < MaxDrops
    BY DEF IInv, TypeOK
  <2>2. drops' = drops
    BY <2>1 DEF Next, vars, counters, AppendOutbox, Reopen, Abort, Drain, Scan, ClaimByUpdate,
       ClaimByInsert, Claims, ClaimsNothing, Publish, Accepted, Named, IsolatedRaises,
       BatchRaises, RaiseLast, Commit
  <2> QED
    BY <2>2, SentIsOnLogInductive
<1>3. SentIsOnLog => PublishedIsOnLog
  BY DEF SentIsOnLog, PublishedIsOnLog, OnLog
<1> QED
  BY <1>1, <1>2, <1>3, Invariance, PTL DEF Spec

-----------------------------------------------------------------------------
(* Only poison dies: every attempt on the account of a good event, booked or *)
(* still held by a publisher, is a refusal of the broker.                    *)

BeingFailed(e) == \E p \in Publishers : e \in failed[p]

IsRefused(e) ==
    /\ HasRow(e) => refusals > 0
    /\ Attempts(e) <= refusals
    /\ BeingFailed(e) => Attempts(e) + 1 <= refusals

GoodFailsByRefusal == \A e \in Events \ Poison : IsRefused(e)

\* Attempts are counted by a number.
LEMMA AttemptsType == ASSUME TypeOK, NEW e PROVE Attempts(e) \in Nat
<1>1. CASE HasRow(e)
  BY <1>1, OutboxAssumption DEF Attempts, HasRow, TypeOK, DeliveryRecord, OutboxAssumption
<1>2. CASE ~ HasRow(e)
  BY <1>2 DEF Attempts
<1> QED
  BY <1>1, <1>2

\* Refusals, and lost delivery errors, are only ever counted up.
LEMMA CountersGrow ==
    ASSUME IInv, [Next]_vars
    PROVE  refusals' \in Nat /\ refusals' >= refusals /\ drops' \in Nat /\ drops' >= drops
<1>1. refusals \in Nat /\ drops \in Nat
  BY DEF IInv, TypeOK
<1>2. refusals' = refusals \/ refusals' = refusals + 1
  BY DEF Next, vars, counters, AppendOutbox, Reopen, Abort, Drain, Scan, ClaimByUpdate,
     ClaimByInsert, Claims, ClaimsNothing, Publish, Accepted, Named, IsolatedRaises,
     BatchRaises, RaiseLast, Commit, Refusal
<1>3. drops' = drops \/ drops' = drops + 1
  BY DEF Next, vars, counters, AppendOutbox, Reopen, Abort, Drain, Scan, ClaimByUpdate,
     ClaimByInsert, Claims, ClaimsNothing, Publish, Accepted, Named, IsolatedRaises,
     BatchRaises, RaiseLast, Commit
<1> QED
  BY <1>1, <1>2, <1>3

\* Steps that book nothing and hold no further good event for failed.
LEMMA NothingFails ==
    ASSUME IInv, GoodFailsByRefusal, [Next]_vars, delivery' = delivery,
           \A q \in Publishers : failed'[q] \subseteq failed[q] \cup Poison
    PROVE  GoodFailsByRefusal'
<1> SUFFICES ASSUME NEW e \in Events \ Poison PROVE IsRefused(e)'
  BY DEF GoodFailsByRefusal
<1>1. HasRow(e)' = HasRow(e) /\ Attempts(e)' = Attempts(e)
  BY DEF HasRow, Attempts
<1>2. BeingFailed(e)' => BeingFailed(e)
  BY DEF BeingFailed
<1>3. IsRefused(e) /\ Attempts(e) \in Nat /\ refusals \in Nat
  BY AttemptsType DEF GoodFailsByRefusal, IInv, TypeOK
<1>4. refusals' \in Nat /\ refusals' >= refusals
  BY CountersGrow
<1> QED
  BY <1>1, <1>2, <1>3, <1>4 DEF IsRefused

\* A good event fails on its own when the broker refuses it.
LEMMA IsolatedFails ==
    ASSUME IInv, GoodFailsByRefusal, NEW p \in Publishers, NEW e \in Events,
           IsolatedRaises(p, e)
    PROVE  GoodFailsByRefusal'
<1> SUFFICES ASSUME NEW f \in Events \ Poison PROVE IsRefused(f)'
  BY DEF GoodFailsByRefusal
<1>1. HasRow(f)' = HasRow(f) /\ Attempts(f)' = Attempts(f)
  BY DEF HasRow, Attempts, IsolatedRaises, Settles, rows
<1>2. IsRefused(f) /\ Attempts(f) \in Nat /\ refusals \in Nat
  BY AttemptsType DEF GoodFailsByRefusal, IInv, TypeOK
<1>3. CASE f = e
  <2>1. ~ \E d \in Poison : Sends(p, d)
    BY <1>3 DEF IsolatedRaises, Sends
  <2>2. refusals' = refusals + 1
    BY <2>1 DEF IsolatedRaises, Refusal
  <2> QED
    BY <1>1, <1>2, <2>2 DEF IsRefused
<1>4. CASE f # e
  <2>1. BeingFailed(f)' => BeingFailed(f)
    BY <1>4 DEF BeingFailed, IsolatedRaises, IInv, TypeOK
  <2>2. refusals' = refusals \/ refusals' = refusals + 1
    BY DEF IsolatedRaises, Refusal
  <2> QED
    BY <1>1, <1>2, <2>1, <2>2 DEF IsRefused
<1> QED
  BY <1>3, <1>4

\* A reopened event starts over, and no publisher has it.
LEMMA ReopenForgives ==
    ASSUME IInv, GoodFailsByRefusal, NEW e \in Events, Reopen(e)
    PROVE  GoodFailsByRefusal'
<1> SUFFICES ASSUME NEW f \in Events \ Poison PROVE IsRefused(f)'
  BY DEF GoodFailsByRefusal
<1>1. refusals' = refusals /\ BeingFailed(f)' = BeingFailed(f) /\ HasRow(f)' = HasRow(f)
  BY DEF Reopen, tick, BeingFailed, HasRow, IInv, TypeOK
<1>2. IsRefused(f) /\ Attempts(f) \in Nat /\ refusals \in Nat
  BY AttemptsType DEF GoodFailsByRefusal, IInv, TypeOK
<1>3. HasRow(e) /\ delivery' = [delivery EXCEPT ![e] = [attempts |-> 0, deadAt |-> 0]]
  BY DEF Reopen, IsDead
<1>4. CASE f = e
  <2>1. Attempts(f)' = 0
    BY <1>3, <1>4 DEF Attempts, HasRow
  <2> QED
    BY <1>1, <1>2, <1>3, <1>4, <2>1 DEF IsRefused
<1>5. CASE f # e
  <2>1. Attempts(f)' = Attempts(f)
    BY <1>3, <1>5 DEF Attempts, HasRow
  <2> QED
    BY <1>1, <1>2, <2>1 DEF IsRefused
<1> QED
  BY <1>4, <1>5

\* mark_failed books the failure the publisher held, once.
LEMMA CommitBooks ==
    ASSUME IInv, GoodFailsByRefusal, NEW p \in Publishers, Commit(p)
    PROVE  GoodFailsByRefusal'
<1> SUFFICES ASSUME NEW f \in Events \ Poison PROVE IsRefused(f)'
  BY DEF GoodFailsByRefusal
<1>1. IsRefused(f) /\ Attempts(f) \in Nat /\ refusals \in Nat /\ refusals' = refusals
  BY AttemptsType DEF GoodFailsByRefusal, IInv, TypeOK, Commit, counters
<1>2. /\ DOMAIN delivery' = (DOMAIN delivery \cup failed[p]) \ sent[p]
      /\ \A e \in DOMAIN delivery' :
           delivery'[e] = IF e \in failed[p] THEN MarkFailed(e) ELSE delivery[e]
  BY DEF Commit
<1>3. BeingFailed(f)' => BeingFailed(f) /\ f \notin failed[p]
  <2> SUFFICES ASSUME NEW q \in Publishers, f \in failed'[q] PROVE BeingFailed(f) /\ f \notin failed[p]
    BY DEF BeingFailed
  <2>1. q # p /\ f \in failed[q]
    BY DEF Commit, EndTick, IInv, TypeOK
  <2>2. f \notin failed[p]
    <3>1. f \in ToSet(claimed[q]) /\ failed[p] \subseteq ToSet(claimed[p])
      BY <2>1 DEF IInv, InTick
    <3>2. ToSet(claimed[p]) \cap ToSet(claimed[q]) = {}
      BY <2>1 DEF IInv, TerritoriesAreDisjoint
    <3> QED
      BY <3>1, <3>2
  <2> QED
    BY <2>1, <2>2 DEF BeingFailed
<1>4. CASE HasRow(f)' /\ f \in failed[p]
  <2>1. Attempts(f)' = Attempts(f) + 1
    <3>1. delivery'[f] = MarkFailed(f)
      BY <1>2, <1>4 DEF HasRow
    <3>2. MarkFailed(f).attempts = Attempts(f) + 1
      BY DEF MarkFailed
    <3>3. Attempts(f)' = delivery'[f].attempts
      BY <1>4 DEF Attempts, HasRow
    <3> QED
      BY <3>1, <3>2, <3>3
  <2>2. BeingFailed(f)
    BY <1>4 DEF BeingFailed
  <2> QED
    BY <1>1, <1>3, <1>4, <2>1, <2>2 DEF IsRefused
<1>5. CASE HasRow(f)' /\ f \notin failed[p]
  <2>1. HasRow(f) /\ Attempts(f)' = Attempts(f)
    BY <1>2, <1>5 DEF Attempts, HasRow
  <2> QED
    BY <1>1, <1>3, <2>1 DEF IsRefused
<1>6. CASE ~ HasRow(f)'
  <2>1. Attempts(f)' = 0
    BY <1>6 DEF Attempts
  <2>2. BeingFailed(f)' => 1 <= refusals
    BY <1>1, <1>3 DEF IsRefused
  <2> QED
    BY <1>1, <1>6, <2>1, <2>2 DEF IsRefused
<1> QED
  BY <1>4, <1>5, <1>6

\* Every step keeps the account of the good events.
LEMMA NextKeepsAccount ==
    ASSUME IInv, GoodFailsByRefusal, [Next]_vars PROVE GoodFailsByRefusal'
<1>1. CASE \E e \in Events : Reopen(e)
  BY <1>1, ReopenForgives
<1>2. CASE \E p \in Publishers : Commit(p)
  BY <1>2, CommitBooks
<1>3. CASE \E p \in Publishers : \E e \in Events : IsolatedRaises(p, e)
  BY <1>3, IsolatedFails
<1>4. CASE UNCHANGED delivery /\ UNCHANGED failed
  BY <1>4, NothingFails
<1>5. CASE UNCHANGED delivery /\ \E p \in Publishers : failed' = [failed EXCEPT ![p] = {}]
  BY <1>5, NothingFails DEF IInv, TypeOK
<1>6. ASSUME NEW p \in Publishers, NEW e \in Events, Named(p, e) PROVE GoodFailsByRefusal'
  BY <1>6, NothingFails DEF Named, Settles, rows, IInv, TypeOK
<1> QED
  BY <1>1, <1>2, <1>3, <1>4, <1>5, <1>6 DEF Next, vars, rows, tick, AppendOutbox, Abort, Drain,
     Scan, ClaimByUpdate, ClaimByInsert, Claims, ClaimsNothing, Publish, Accepted, EndTick,
     Settles, BatchRaises, RaiseLast

\* Nobody has failed yet when the publishers start.
LEMMA InitAccount == Init => GoodFailsByRefusal
<1> SUFFICES ASSUME Init, NEW e \in Events \ Poison PROVE IsRefused(e)
  BY DEF GoodFailsByRefusal
<1>1. ~ HasRow(e) /\ ~ BeingFailed(e) /\ refusals = 0
  BY DEF Init, HasRow, BeingFailed
<1> QED
  BY <1>1 DEF IsRefused, Attempts

\* The account holds in every reachable state.
LEMMA AccountInvariance == Spec => []GoodFailsByRefusal
<1>1. IInv /\ GoodFailsByRefusal /\ [Next]_vars => GoodFailsByRefusal'
  BY NextKeepsAccount
<1> QED
  BY <1>1, InitAccount, Invariance, PTL DEF Spec

\* A dead letter has used up its attempts, and a good one by refusals.
LEMMA DeathTakesRefusals ==
    ASSUME IInv, GoodFailsByRefusal, NEW e \in Events \ Poison, IsDead(e)
    PROVE  refusals >= MaxAttempts
<1>1. HasRow(e) /\ delivery[e].attempts = MaxAttempts
  BY DEF IsDead, HasRow, IInv, TypeOK
<1>2. Attempts(e) = MaxAttempts
  BY <1>1 DEF Attempts
<1> QED
  BY <1>2, OutboxAssumption DEF GoodFailsByRefusal, IsRefused, OutboxAssumption, IInv, TypeOK

\* PR-5: however many bad events and failing batches there are, a good event
\* only dies of max_attempts refusals of the broker.
THEOREM GoodEventsSurvive == Spec => []OnlyPoisonDies
<1>1. IInv /\ GoodFailsByRefusal => OnlyPoisonDies
  <2> SUFFICES ASSUME IInv, GoodFailsByRefusal, refusals < MaxAttempts,
                      NEW e \in Events, IsDead(e)
               PROVE  e \in Poison
    BY DEF OnlyPoisonDies
  <2>1. ~ refusals >= MaxAttempts
    BY OutboxAssumption DEF OutboxAssumption, IInv, TypeOK
  <2> QED
    BY <2>1, DeathTakesRefusals
<1> QED
  BY <1>1, Invariance, AccountInvariance, PTL

-----------------------------------------------------------------------------
(* First deliveries come in order.  The clocks that occurred_at is read from *)
(* must agree with the order in which an aggregate writes its events; then,  *)
(* as long as nothing good was refused or lost, whatever is on its way to    *)
(* the broker comes after what precedes it in its aggregate.                 *)

ClocksAgree ==
    \A e, f \in Events :
        e < f /\ AggregateOf[e] = AggregateOf[f] => OccurredAt[e] < OccurredAt[f]

Before(e, f) ==
    e \in Events \ Poison /\ f \in Events \ Poison /\ e < f /\ AggregateOf[e] = AggregateOf[f]

\* Before each event of s come its predecessors, but for those that are known.
InOrder(known, s) ==
    \A i \in 1 .. Len(s) : \A e \in Events :
        Before(e, s[i]) => e \in known \/ \E j \in 1 .. i - 1 : s[j] = e

Known(p) == IF IsSending(p) THEN ToSet(log) ELSE ToSet(log) \cup ToSet(claimed[p])

AppendedInOrder == \A e, f \in Events : Before(e, f) /\ f \in appended => e \in appended

Quiet == refusals = 0 /\ drops = 0

LogInOrder == InOrder({}, log)
ClaimsInOrder == \A p \in Publishers : InOrder(ToSet(log), claimed[p])
TodoInOrder == \A p \in Publishers : InOrder(Known(p), todo[p])

SendsInOrder ==
    /\ AppendedInOrder
    /\ Quiet => SentIsOnLog /\ LogInOrder /\ ClaimsInOrder /\ TodoInOrder

\* More may be known.
LEMMA KnowingMore ==
    ASSUME NEW known, NEW more, known \subseteq more, NEW s, InOrder(known, s)
    PROVE  InOrder(more, s)
  BY DEF InOrder

\* An empty sequence is in order.
LEMMA NothingInOrder == ASSUME NEW known PROVE InOrder(known, <<>>)
  BY DEF InOrder

\* An event may follow when its predecessors came.
LEMMA OneMoreInOrder ==
    ASSUME NEW known, NEW s \in Seq(Events), InOrder(known, s), NEW e \in Events,
           \A d \in Events : Before(d, e) => d \in known \cup ToSet(s)
    PROVE  InOrder(known, Append(s, e))
<1> DEFINE t == Append(s, e)
<1>1. /\ Len(t) = Len(s) + 1 /\ Len(s) \in Nat
      /\ \A i \in 1 .. Len(s) : t[i] = s[i]
      /\ t[Len(s) + 1] = e
  BY AppendProperties, LenProperties
<1>2. DOMAIN s = 1 .. Len(s)
  BY LenProperties
<1> HIDE DEF t
<1> SUFFICES ASSUME NEW i \in 1 .. Len(t), NEW d \in Events, Before(d, t[i])
             PROVE  d \in known \/ \E j \in 1 .. i - 1 : t[j] = d
  BY DEF InOrder, t
<1>3. CASE i \in 1 .. Len(s)
  <2>1. Before(d, s[i])
    BY <1>1, <1>3
  <2>2. d \in known \/ \E j \in 1 .. i - 1 : s[j] = d
    BY <1>3, <2>1 DEF InOrder
  <2>3. \A j \in 1 .. i - 1 : t[j] = s[j]
    BY <1>1, <1>3
  <2> QED
    BY <2>2, <2>3
<1>4. CASE i = Len(s) + 1
  <2>1. d \in known \cup ToSet(s)
    BY <1>1, <1>4
  <2>2. d \in ToSet(s) => \E j \in 1 .. Len(s) : s[j] = d
    BY <1>2 DEF ToSet
  <2>3. i - 1 = Len(s)
    BY <1>1, <1>4
  <2> QED
    BY <1>1, <2>1, <2>2, <2>3
<1> QED
  BY <1>1, <1>3, <1>4

\* What comes first needs nothing but what is known.
LEMMA FirstInOrder ==
    ASSUME NEW known, NEW s \in Seq(Events), s # <<>>, InOrder(known, s),
           NEW d \in Events, Before(d, Head(s))
    PROVE  d \in known
<1>1. Head(s) = s[1] /\ Len(s) >= 1 /\ Len(s) \in Nat
  BY HeadTailProperties, EmptySeq, LenProperties
<1>2. 1 \in 1 .. Len(s)
  BY <1>1
<1>3. d \in known \/ \E j \in 1 .. 1 - 1 : s[j] = d
  BY <1>1, <1>2 DEF InOrder
<1> QED
  BY <1>3

\* The rest stays in order when what came first is known, or nothing waits for it.
LEMMA RestInOrder ==
    ASSUME NEW known, NEW more, known \subseteq more, NEW s \in Seq(Events), s # <<>>,
           InOrder(known, s), Head(s) \in more \/ Head(s) \notin Events \ Poison
    PROVE  InOrder(more, Tail(s))
<1>1. /\ Head(s) = s[1] /\ Len(s) \in Nat /\ Len(s) >= 1 /\ Len(Tail(s)) = Len(s) - 1
      /\ \A i \in 1 .. Len(Tail(s)) : Tail(s)[i] = s[i + 1]
  BY HeadTailProperties, EmptySeq, LenProperties
<1> SUFFICES ASSUME NEW i \in 1 .. Len(Tail(s)), NEW d \in Events, Before(d, Tail(s)[i])
             PROVE  d \in more \/ \E j \in 1 .. i - 1 : Tail(s)[j] = d
  BY DEF InOrder
<1>2. i \in Nat /\ i + 1 \in 1 .. Len(s) /\ Before(d, s[i + 1]) /\ (i + 1) - 1 = i
  BY <1>1
<1>3. d \in known \/ \E j \in 1 .. (i + 1) - 1 : s[j] = d
  BY <1>2 DEF InOrder
<1>4. ASSUME NEW j \in 1 .. i, s[j] = d
      PROVE  d \in more \/ \E k \in 1 .. i - 1 : Tail(s)[k] = d
  <2>1. CASE j = 1
    BY <1>1, <1>4, <2>1 DEF Before
  <2>2. CASE j # 1
    <3>1. j - 1 \in 1 .. i - 1 /\ j - 1 \in 1 .. Len(Tail(s)) /\ (j - 1) + 1 = j
      BY <1>1, <1>2, <2>2
    <3>2. Tail(s)[j - 1] = d
      BY <1>1, <1>4, <3>1
    <3> QED
      BY <3>1, <3>2
  <2> QED
    BY <2>1, <2>2
<1> QED
  BY <1>2, <1>3, <1>4

\* What the publishers select next is in order: a good event that is left out
\* was delivered before, or is younger than all that were selected.
LEMMA CandidatesInOrder ==
    ASSUME ClocksAgree, IInv, GoodFailsByRefusal, SendsInOrder, Quiet, NEW s \in Candidates
    PROVE  InOrder(ToSet(log), s)
<1>1. PICK exclude \in DeadIds :
        s \in Limited(appended \ (published \cup exclude), BatchSize, OccurredAt)
  BY DEF Candidates
<1> DEFINE S == appended \ (published \cup exclude)
           size == IF Cardinality(S) < BatchSize THEN Cardinality(S) ELSE BatchSize
<1>2. IsFiniteSet(S) /\ S \subseteq Events
  BY OutboxAssumption, FS_Subset DEF OutboxAssumption, IInv, TypeOK
<1>3. size \in Nat
  BY <1>2, FS_CardinalityType, OutboxAssumption DEF OutboxAssumption
<1>4. /\ s \in [1 .. size -> S]
      /\ \A i, j \in 1 .. size : i < j => OccurredAt[s[i]] <= OccurredAt[s[j]]
      /\ \A e \in S \ ToSet(s) : \A i \in 1 .. size : OccurredAt[s[i]] <= OccurredAt[e]
  BY <1>1 DEF Limited
<1>5. exclude \subseteq Poison
  <2>1. exclude \subseteq {e \in Events : IsDead(e)}
    <3> DEFINE dead == {e \in Events : IsDead(e)}
               key == [e \in dead |-> delivery[e].deadAt]
               length == IF Cardinality(dead) < DeadLimit THEN Cardinality(dead) ELSE DeadLimit
    <3>1. PICK t \in Limited(dead, DeadLimit, key) : exclude = ToSet(t)
      BY DEF DeadIds
    <3>2. t \in [1 .. length -> dead]
      BY <3>1 DEF Limited
    <3> HIDE DEF dead, length
    <3>3. ToSet(t) \subseteq dead
      BY <3>2 DEF ToSet
    <3> QED
      BY <3>1, <3>3 DEF dead
  <2>2. ASSUME NEW e \in Events \ Poison, IsDead(e) PROVE FALSE
    <3>1. refusals >= MaxAttempts
      BY <2>2, DeathTakesRefusals
    <3> QED
      BY <3>1, OutboxAssumption DEF Quiet, OutboxAssumption
  <2> QED
    BY <2>1, <2>2
<1>6. \A e \in published : e \in ToSet(log)
  BY DEF SendsInOrder, SentIsOnLog
<1>7. Len(s) = size
  <2> HIDE DEF size, S
  <2> QED
    BY <1>3, <1>4
<1>8. ASSUME NEW e \in S, e \notin Events PROVE FALSE
  BY <1>2, <1>8
<1>9. ASSUME NEW e \in S PROVE e \in appended
  OBVIOUS
<1>10. ASSUME NEW e \in appended, e \notin S PROVE e \in published \cup exclude
  BY <1>10
<1> HIDE DEF size, S
<1> SUFFICES ASSUME NEW i \in 1 .. size, NEW d \in Events, Before(d, s[i])
             PROVE  d \in ToSet(log) \/ \E j \in 1 .. i - 1 : s[j] = d
  BY <1>7 DEF InOrder
<1>11. s[i] \in S /\ s[i] \in Events /\ s[i] \in appended
  BY <1>4, <1>8, <1>9
<1>12. d \in appended
  BY <1>11 DEF SendsInOrder, AppendedInOrder
<1>13. CASE d \notin S
  BY <1>5, <1>6, <1>10, <1>12, <1>13 DEF Before
<1>14. CASE d \in S
  <2>1. /\ OccurredAt[d] < OccurredAt[s[i]]
        /\ OccurredAt[d] \in Nat /\ OccurredAt[s[i]] \in Nat
    BY <1>11, OutboxAssumption DEF ClocksAgree, Before, OutboxAssumption
  <2>2. d \in ToSet(s)
    BY <1>4, <1>14, <2>1
  <2>3. PICK j \in 1 .. size : s[j] = d
    BY <1>4, <2>2 DEF ToSet
  <2>4. ~ i < j
    BY <1>4, <2>1, <2>3
  <2>5. i # j
    BY <2>1, <2>3
  <2>6. j \in 1 .. i - 1
    BY <1>3, <2>4, <2>5
  <2> QED
    BY <2>3, <2>6
<1> QED
  BY <1>13, <1>14

\* Steps that change neither the log nor what p has to send keep p in order.
LEMMA LongerLogKeepsOrder ==
    ASSUME IInv, [Next]_vars, NEW p \in Publishers,
           InOrder(ToSet(log), claimed[p]), InOrder(Known(p), todo[p]),
           claimed'[p] = claimed[p], todo'[p] = todo[p], Known(p) \subseteq Known(p)'
    PROVE  InOrder(ToSet(log), claimed[p])' /\ InOrder(Known(p), todo[p])'
<1>1. ToSet(log) \subseteq ToSet(log)'
  BY LogGrows
<1>2. InOrder(ToSet(log)', claimed[p]) /\ InOrder(Known(p)', todo[p])
  BY <1>1, KnowingMore, Zenon
<1> QED
  BY <1>2 DEF InOrder, Before

\* What is known to a publisher that another's step leaves alone is still known.
LEMMA KnownToOthers ==
    ASSUME IInv, [Next]_vars, NEW p \in Publishers,
           phase'[p] = phase[p], claimed'[p] = claimed[p]
    PROVE  Known(p) \subseteq Known(p)'
<1>1. ToSet(log) \subseteq ToSet(log)'
  BY LogGrows
<1> QED
  BY <1>1 DEF Known, IsSending

\* A step of p: it suffices to look at the log and at p.
LEMMA OthersKeepOrder ==
    ASSUME IInv, [Next]_vars, ClaimsInOrder, TodoInOrder, NEW p \in Publishers,
           \A q \in Publishers \ {p} :
               phase'[q] = phase[q] /\ claimed'[q] = claimed[q] /\ todo'[q] = todo[q],
           InOrder(ToSet(log'), claimed'[p]), InOrder(Known(p)', todo'[p])
    PROVE  ClaimsInOrder' /\ TodoInOrder'
<1>1. ASSUME NEW q \in Publishers \ {p}
      PROVE  InOrder(ToSet(log), claimed[q])' /\ InOrder(Known(q), todo[q])'
  <2>1. Known(q) \subseteq Known(q)'
    BY KnownToOthers
  <2>2. InOrder(ToSet(log), claimed[q]) /\ InOrder(Known(q), todo[q])
    BY DEF ClaimsInOrder, TodoInOrder
  <2> QED
    BY <2>1, <2>2, LongerLogKeepsOrder
<1>2. InOrder(ToSet(log), claimed[p])' /\ InOrder(Known(p), todo[p])'
  BY DEF InOrder, Before
<1> QED
  BY <1>1, <1>2 DEF ClaimsInOrder, TodoInOrder

\* Steps that change nothing but the rows.
LEMMA RowsKeepOrder ==
    ASSUME IInv, [Next]_vars, ClaimsInOrder, TodoInOrder, UNCHANGED tick
    PROVE  ClaimsInOrder' /\ TodoInOrder'
<1> SUFFICES ASSUME NEW p \in Publishers
             PROVE  InOrder(ToSet(log), claimed[p])' /\ InOrder(Known(p), todo[p])'
  BY DEF ClaimsInOrder, TodoInOrder
<1>1. Known(p) \subseteq Known(p)'
  BY KnownToOthers DEF tick
<1>2. InOrder(ToSet(log), claimed[p]) /\ InOrder(Known(p), todo[p])
  BY DEF ClaimsInOrder, TodoInOrder
<1> QED
  BY <1>1, <1>2, LongerLogKeepsOrder DEF tick

\* What is selected is in order.
LEMMA ScanInOrder ==
    ASSUME ClocksAgree, IInv, [Next]_vars, GoodFailsByRefusal, SendsInOrder, Quiet,
           NEW p \in Publishers, Scan(p)
    PROVE  ClaimsInOrder' /\ TodoInOrder'
<1>1. PICK c \in Candidates :
        /\ todo' = [todo EXCEPT ![p] = c]
        /\ phase' = [phase EXCEPT ![p] = IF c = <<>> THEN "idle" ELSE "claiming"]
  BY DEF Scan
<1>2. /\ todo'[p] = c /\ phase'[p] \in {"idle", "claiming"} /\ claimed' = claimed /\ log' = log
      /\ \A q \in Publishers \ {p} : phase'[q] = phase[q] /\ todo'[q] = todo[q]
  BY <1>1 DEF Scan, IInv, TypeOK
<1>3. ClaimsInOrder /\ TodoInOrder
  BY DEF SendsInOrder
<1>4. InOrder(ToSet(log), c)
  BY CandidatesInOrder
<1>5. ToSet(log) \subseteq Known(p)'
  BY <1>2 DEF Known, IsSending
<1>6. InOrder(Known(p)', todo'[p])
  BY <1>2, <1>4, <1>5, KnowingMore
<1>7. InOrder(ToSet(log'), claimed'[p])
  BY <1>2, <1>3 DEF ClaimsInOrder
<1> QED
  BY <1>2, <1>3, <1>6, <1>7, OthersKeepOrder

\* A claim takes the next event.
LEMMA TakeInOrder ==
    ASSUME IInv, [Next]_vars, ClaimsInOrder, TodoInOrder, NEW p \in Publishers, NEW e,
           phase[p] \in {"claiming", "inserting"}, todo[p] # <<>>, e = Head(todo[p]),
           Take(p, e), Claims(p)
    PROVE  ClaimsInOrder' /\ TodoInOrder'
<1>1. /\ claimed'[p] = Append(claimed[p], e) /\ todo'[p] = Tail(todo[p])
      /\ phase'[p] = "claiming" /\ log' = log
      /\ \A q \in Publishers \ {p} :
           phase'[q] = phase[q] /\ claimed'[q] = claimed[q] /\ todo'[q] = todo[q]
  BY DEF Take, Claims, IInv, TypeOK
<1>2. /\ todo[p] \in Seq(Events) /\ claimed[p] \in Seq(Events) /\ e \in Events
      /\ ToSet(Append(claimed[p], e)) = ToSet(claimed[p]) \cup {e}
  BY SetOfTail, SetOfAppend DEF IInv, TypeOK
<1>3. Known(p) = ToSet(log) \cup ToSet(claimed[p])
  BY DEF Known, IsSending
<1>4. Known(p)' = ToSet(log) \cup ToSet(claimed[p]) \cup {e}
  BY <1>1, <1>2 DEF Known, IsSending
<1>5. InOrder(ToSet(log), claimed[p]) /\ InOrder(Known(p), todo[p])
  BY DEF ClaimsInOrder, TodoInOrder
<1>6. \A d \in Events : Before(d, e) => d \in ToSet(log) \cup ToSet(claimed[p])
  BY <1>2, <1>3, <1>5, FirstInOrder
<1>7. InOrder(ToSet(log'), claimed'[p])
  BY <1>1, <1>2, <1>5, <1>6, OneMoreInOrder
<1>8. InOrder(Known(p)', todo'[p])
  BY <1>1, <1>2, <1>3, <1>4, <1>5, RestInOrder
<1> QED
  BY <1>1, <1>7, <1>8, OthersKeepOrder

\* A row that exists is found by the UPDATE, or the event waits for the INSERT.
LEMMA ClaimByUpdateInOrder ==
    ASSUME IInv, [Next]_vars, ClaimsInOrder, TodoInOrder, NEW p \in Publishers,
           ClaimByUpdate(p)
    PROVE  ClaimsInOrder' /\ TodoInOrder'
<1>1. CASE Take(p, Head(todo[p]))
  BY <1>1, TakeInOrder DEF ClaimByUpdate
<1>2. CASE phase' = [phase EXCEPT ![p] = "inserting"] /\ UNCHANGED <<todo, claimed>>
  <2>1. /\ phase'[p] = "inserting" /\ log' = log
        /\ \A q \in Publishers \ {p} : phase'[q] = phase[q]
    BY <1>2 DEF ClaimByUpdate, Claims, IInv, TypeOK
  <2>2. Known(p)' = Known(p)
    BY <1>2, <2>1 DEF Known, IsSending, ClaimByUpdate
  <2>3. InOrder(ToSet(log'), claimed'[p]) /\ InOrder(Known(p)', todo'[p])
    BY <1>2, <2>1, <2>2 DEF ClaimsInOrder, TodoInOrder
  <2> QED
    BY <1>2, <2>1, <2>3, OthersKeepOrder
<1> QED
  BY <1>1, <1>2 DEF ClaimByUpdate

\* Without refusals a good event has no row, so none is passed over.
LEMMA ClaimByInsertInOrder ==
    ASSUME IInv, [Next]_vars, GoodFailsByRefusal, Quiet, ClaimsInOrder, TodoInOrder,
           NEW p \in Publishers, ClaimByInsert(p)
    PROVE  ClaimsInOrder' /\ TodoInOrder'
<1> DEFINE e == Head(todo[p])
<1>1. todo[p] # <<>>
  BY DEF ClaimByInsert, IInv, InTick
<1>2. CASE Take(p, e)
  BY <1>1, <1>2, TakeInOrder DEF ClaimByInsert
<1>3. CASE HasRow(e) /\ PassOver(p)
  <2>1. /\ todo'[p] = Tail(todo[p]) /\ phase'[p] = "claiming"
        /\ log' = log /\ claimed' = claimed
        /\ \A q \in Publishers \ {p} : phase'[q] = phase[q] /\ todo'[q] = todo[q]
    BY <1>3 DEF PassOver, ClaimByInsert, Claims, IInv, TypeOK
  <2>2. Known(p)' = Known(p)
    BY <2>1 DEF Known, IsSending, ClaimByInsert
  <2>3. e \notin Events \ Poison
    BY <1>3 DEF GoodFailsByRefusal, IsRefused, Quiet
  <2>4. InOrder(Known(p), todo[p]) /\ InOrder(ToSet(log), claimed[p]) /\ todo[p] \in Seq(Events)
    BY DEF ClaimsInOrder, TodoInOrder, IInv, TypeOK
  <2>5. InOrder(Known(p), Tail(todo[p]))
    BY <1>1, <2>3, <2>4, RestInOrder
  <2>6. InOrder(ToSet(log'), claimed'[p]) /\ InOrder(Known(p)', todo'[p])
    BY <2>1, <2>2, <2>4, <2>5
  <2> QED
    BY <2>1, <2>6, OthersKeepOrder
<1> QED
  BY <1>2, <1>3 DEF ClaimByInsert

\* What was claimed is sent from its start: first as a batch, then one by one.
LEMMA SendFromStart ==
    ASSUME IInv, [Next]_vars, ClaimsInOrder, TodoInOrder, NEW p \in Publishers,
           claimed' = claimed, log' = log, todo' = [todo EXCEPT ![p] = claimed[p]],
           \A q \in Publishers \ {p} : phase'[q] = phase[q]
    PROVE  ClaimsInOrder' /\ TodoInOrder'
<1>1. todo'[p] = claimed[p] /\ \A q \in Publishers \ {p} : todo'[q] = todo[q]
  BY DEF IInv, TypeOK
<1>2. InOrder(ToSet(log), claimed[p]) /\ InOrder(ToSet(log'), claimed'[p])
  BY DEF ClaimsInOrder
<1>3. ToSet(log) \subseteq Known(p)'
  BY DEF Known
<1>4. InOrder(Known(p)', todo'[p])
  BY <1>1, <1>2, <1>3, KnowingMore
<1> QED
  BY <1>1, <1>2, <1>4, OthersKeepOrder

\* A tick that ends has nothing left to send.
LEMMA EndInOrder ==
    ASSUME IInv, [Next]_vars, ClaimsInOrder, TodoInOrder, NEW p \in Publishers, EndTick(p)
    PROVE  ClaimsInOrder' /\ TodoInOrder'
<1>1. /\ todo'[p] = <<>> /\ claimed'[p] = <<>>
      /\ \A q \in Publishers \ {p} :
           phase'[q] = phase[q] /\ claimed'[q] = claimed[q] /\ todo'[q] = todo[q]
  BY DEF EndTick, IInv, TypeOK
<1>2. InOrder(ToSet(log'), claimed'[p]) /\ InOrder(Known(p)', todo'[p])
  BY <1>1, NothingInOrder
<1> QED
  BY <1>1, <1>2, OthersKeepOrder

\* What one event less is left to send after, when it is on the log or not good.
LEMMA SettledInOrder ==
    ASSUME IInv, [Next]_vars, ClaimsInOrder, TodoInOrder, NEW p \in Publishers,
           NEW e, Sends(p, e), Settles(p), e \in ToSet(log') \/ e \notin Events \ Poison
    PROVE  ClaimsInOrder' /\ TodoInOrder'
<1>1. /\ todo'[p] = Tail(todo[p]) /\ claimed' = claimed /\ phase' = phase
      /\ \A q \in Publishers \ {p} : todo'[q] = todo[q]
  BY DEF Settles, IInv, TypeOK
<1>2. Known(p) = ToSet(log) /\ Known(p)' = ToSet(log') /\ ToSet(log) \subseteq ToSet(log')
  BY <1>1, LogGrows DEF Known, Sends, IsSending
<1>3. /\ InOrder(ToSet(log), todo[p]) /\ InOrder(ToSet(log), claimed[p])
      /\ todo[p] \in Seq(Events) /\ todo[p] # <<>> /\ e = Head(todo[p])
  BY <1>2 DEF ClaimsInOrder, TodoInOrder, Sends, IInv, TypeOK
<1>4. InOrder(ToSet(log'), Tail(todo[p]))
  BY <1>2, <1>3, RestInOrder
<1>5. InOrder(ToSet(log'), claimed[p])
  BY <1>2, <1>3, KnowingMore
<1>6. InOrder(ToSet(log'), claimed'[p]) /\ InOrder(Known(p)', todo'[p])
  BY <1>1, <1>2, <1>4, <1>5
<1> QED
  BY <1>1, <1>6, OthersKeepOrder

\* The broker accepts an event when it has accepted the predecessors.
LEMMA AcceptedInOrder ==
    ASSUME IInv, [Next]_vars, LogInOrder, ClaimsInOrder, TodoInOrder, drops' = drops,
           NEW p \in Publishers, NEW e \in Events, Accepted(p, e)
    PROVE  LogInOrder' /\ ClaimsInOrder' /\ TodoInOrder'
<1>1. drops \in Nat /\ drops' # drops + 1
  BY DEF IInv, TypeOK
<1>2. log' = Append(log, e) /\ log \in Seq(Events)
  BY <1>1 DEF Accepted, IInv, TypeOK
<1>3. e \in ToSet(log')
  BY <1>2, SetOfAppend
<1>4. Known(p) = ToSet(log) /\ InOrder(Known(p), todo[p])
  BY DEF Known, Accepted, Sends, TodoInOrder
<1>5. todo[p] \in Seq(Events) /\ todo[p] # <<>> /\ e = Head(todo[p])
  BY DEF Accepted, Sends, IInv, TypeOK
<1>6. \A d \in Events : Before(d, e) => d \in {} \cup ToSet(log)
  BY <1>4, <1>5, FirstInOrder
<1>7. InOrder({}, Append(log, e))
  BY <1>2, <1>6, OneMoreInOrder DEF LogInOrder
<1>8. LogInOrder'
  BY <1>2, <1>7 DEF LogInOrder, InOrder, Before
<1>9. Sends(p, e) /\ Settles(p)
  BY DEF Accepted
<1> QED
  BY <1>3, <1>8, <1>9, SettledInOrder

\* Events are appended in the order of their aggregate.
LEMMA AppendsInOrder ==
    ASSUME IInv, AppendedInOrder, [Next]_vars PROVE AppendedInOrder'
<1>1. CASE appended' = appended
  BY <1>1 DEF AppendedInOrder, Before
<1>2. ASSUME NEW e \in Events, AppendOutbox(e) PROVE AppendedInOrder'
  BY <1>2 DEF AppendOutbox, AppendedInOrder, Before
<1> QED
  BY <1>1, <1>2, ZenonT(30) DEF Next, vars, rows, Reopen, Abort, Drain, Scan, ClaimByUpdate,
     ClaimByInsert, Claims, ClaimsNothing, Publish, Accepted, Named, IsolatedRaises,
     Settles, BatchRaises, RaiseLast, Commit

\* While nothing good is refused or lost, every step keeps the order.
LEMMA NextKeepsOrder ==
    ASSUME ClocksAgree, IInv, GoodFailsByRefusal, SendsInOrder, [Next]_vars
    PROVE  SendsInOrder'
<1>1. AppendedInOrder'
  BY AppendsInOrder DEF SendsInOrder
<1> SUFFICES ASSUME Quiet'
             PROVE  SentIsOnLog' /\ LogInOrder' /\ ClaimsInOrder' /\ TodoInOrder'
  BY <1>1 DEF SendsInOrder
<1>2. refusals = 0 /\ refusals' = 0 /\ drops = 0 /\ drops' = drops
  BY CountersGrow DEF Quiet, IInv, TypeOK
<1>3. Quiet /\ SentIsOnLog /\ LogInOrder /\ ClaimsInOrder /\ TodoInOrder
  BY <1>2 DEF Quiet, SendsInOrder
<1>4. SentIsOnLog'
  BY <1>2, <1>3, SentIsOnLogInductive
<1> SUFFICES LogInOrder' /\ ClaimsInOrder' /\ TodoInOrder'
  BY <1>4
<1>5. log' = log => LogInOrder'
  BY <1>3 DEF LogInOrder, InOrder, Before
<1>6. ASSUME NEW e \in Events, AppendOutbox(e) \/ Reopen(e)
      PROVE  LogInOrder' /\ ClaimsInOrder' /\ TodoInOrder'
  BY <1>3, <1>5, <1>6, RowsKeepOrder DEF AppendOutbox, Reopen
<1>7. ASSUME UNCHANGED vars PROVE LogInOrder' /\ ClaimsInOrder' /\ TodoInOrder'
  BY <1>3, <1>5, <1>7, RowsKeepOrder DEF vars
<1>8. ASSUME NEW p \in Publishers, EndTick(p), log' = log
      PROVE  LogInOrder' /\ ClaimsInOrder' /\ TodoInOrder'
  BY <1>3, <1>5, <1>8, EndInOrder
<1>9. ASSUME NEW p \in Publishers, Drain(p)
      PROVE  LogInOrder' /\ ClaimsInOrder' /\ TodoInOrder'
  <2>1. CASE Scan(p)
    BY <1>3, <1>5, <2>1, ScanInOrder DEF Scan
  <2>2. CASE ClaimByUpdate(p)
    BY <1>3, <1>5, <2>2, ClaimByUpdateInOrder DEF ClaimByUpdate, Claims
  <2>3. CASE ClaimByInsert(p)
    BY <1>3, <1>5, <2>3, ClaimByInsertInOrder DEF ClaimByInsert, Claims
  <2>4. CASE ClaimsNothing(p) \/ RaiseLast(p) \/ Commit(p)
    BY <1>8, <2>4 DEF ClaimsNothing, RaiseLast, Commit
  <2>5. CASE Publish(p) \/ BatchRaises(p)
    <3>1. /\ claimed' = claimed /\ log' = log /\ todo' = [todo EXCEPT ![p] = claimed[p]]
          /\ \A q \in Publishers \ {p} : phase'[q] = phase[q]
      BY <2>5 DEF Publish, BatchRaises, IInv, TypeOK
    <3> QED
      BY <1>3, <1>5, <3>1, SendFromStart
  <2>6. ASSUME NEW e \in Events, Accepted(p, e)
        PROVE  LogInOrder' /\ ClaimsInOrder' /\ TodoInOrder'
    BY <1>2, <1>3, <2>6, AcceptedInOrder
  <2>7. ASSUME NEW e \in Events, Named(p, e)
        PROVE  LogInOrder' /\ ClaimsInOrder' /\ TodoInOrder'
    BY <1>3, <1>5, <2>7, SettledInOrder DEF Named
  <2>8. ASSUME NEW e \in Events, IsolatedRaises(p, e)
        PROVE  LogInOrder' /\ ClaimsInOrder' /\ TodoInOrder'
    <3>1. e \in Poison
      BY <1>2, <2>8 DEF IsolatedRaises, Refusal, Sends
    <3>2. log' = log /\ Sends(p, e) /\ Settles(p)
      BY <2>8, <3>1 DEF IsolatedRaises
    <3> QED
      BY <1>3, <1>5, <3>1, <3>2, SettledInOrder
  <2> QED
    BY <1>9, <2>1, <2>2, <2>3, <2>4, <2>5, <2>6, <2>7, <2>8 DEF Drain
<1>10. ASSUME NEW p \in Publishers, Abort(p)
       PROVE  LogInOrder' /\ ClaimsInOrder' /\ TodoInOrder'
  BY <1>8, <1>10 DEF Abort
<1> QED
  BY <1>6, <1>7, <1>9, <1>10 DEF Next

\* Nothing is on its way when the publishers start.
LEMMA InitInOrder == Init => SendsInOrder
<1> SUFFICES ASSUME Init PROVE SendsInOrder
  OBVIOUS
<1>1. AppendedInOrder /\ SentIsOnLog
  BY DEF Init, AppendedInOrder, SentIsOnLog
<1>2. LogInOrder /\ ClaimsInOrder /\ TodoInOrder
  BY NothingInOrder DEF Init, LogInOrder, ClaimsInOrder, TodoInOrder
<1> QED
  BY <1>1, <1>2 DEF SendsInOrder

\* An event on the log has a first position there.
LEMMA FirstOnLogExists ==
    ASSUME log \in Seq(Events), NEW e, OnLog(e)
    PROVE  /\ FirstOnLog(e) \in 1 .. Len(log) /\ log[FirstOnLog(e)] = e
           /\ \A j \in 1 .. FirstOnLog(e) - 1 : log[j] # e
<1> DEFINE S == {i \in 1 .. Len(log) : log[i] = e}
           R == {s \in Nat \X Nat : s[1] < s[2]}
<1>1. DOMAIN log = 1 .. Len(log) /\ Len(log) \in Nat
  BY LenProperties
<1>2. S # {} /\ S \in SUBSET Nat
  BY <1>1 DEF OnLog, ToSet
<1>3. IsWellFoundedOn(R, Nat)
  BY NatLessThanWellFounded, Zenon DEF OpToRel
<1> HIDE DEF R, S
<1>4. PICK i \in S : \A j \in S : ~ (<<j, i>> \in R)
  BY <1>2, <1>3, WFMin, Zenon
<1>5. i \in 1 .. Len(log) /\ log[i] = e /\ i \in Nat
  BY <1>1, <1>4 DEF S
<1>6. ASSUME NEW j \in 1 .. i - 1, log[j] = e PROVE FALSE
  <2>1. j \in S /\ <<j, i>> \in Nat \X Nat /\ j < i
    BY <1>1, <1>5, <1>6 DEF S
  <2>2. <<j, i>> \in R
    BY <2>1 DEF R
  <2> QED
    BY <1>4, <2>1, <2>2
<1>7. i \in DOMAIN log /\ log[i] = e /\ \A j \in 1 .. i - 1 : log[j] # e
  BY <1>1, <1>5, <1>6
<1>8. /\ FirstOnLog(e) \in DOMAIN log /\ log[FirstOnLog(e)] = e
      /\ \A j \in 1 .. FirstOnLog(e) - 1 : log[j] # e
  BY <1>7, Zenon DEF FirstOnLog
<1> QED
  BY <1>1, <1>8

\* PR-9: however many publishers there are, and whichever of them are killed,
\* the first deliveries of the good events of an aggregate are in the order in
\* which it wrote them, as long as the broker refused and lost none of them.
\* The clocks of the processes that write one aggregate must agree with that order.
THEOREM DeliveriesComeInOrder == ClocksAgree => (Spec => []FirstDeliveriesInOrder)
<1> SUFFICES ASSUME ClocksAgree PROVE Spec => []FirstDeliveriesInOrder
  OBVIOUS
<1>1. IInv /\ GoodFailsByRefusal /\ SendsInOrder /\ [Next]_vars => SendsInOrder'
  BY NextKeepsOrder
<1>2. IInv /\ SendsInOrder => FirstDeliveriesInOrder
  <2> SUFFICES ASSUME IInv, SendsInOrder, refusals = 0 /\ drops = 0,
                      NEW e \in Events \ Poison, NEW f \in Events \ Poison,
                      e < f /\ AggregateOf[e] = AggregateOf[f] /\ OnLog(f)
               PROVE  OnLog(e) /\ FirstOnLog(e) < FirstOnLog(f)
    BY DEF FirstDeliveriesInOrder
  <2> DEFINE i == FirstOnLog(f)
  <2>1. log \in Seq(Events) /\ DOMAIN log = 1 .. Len(log) /\ Len(log) \in Nat
    BY LenProperties DEF IInv, TypeOK
  <2>2. i \in 1 .. Len(log) /\ log[i] = f
    BY <2>1, FirstOnLogExists
  <2>3. Before(e, log[i])
    BY <2>2 DEF Before
  <2> HIDE DEF i
  <2>4. PICK j \in 1 .. i - 1 : log[j] = e
    BY <2>2, <2>3 DEF SendsInOrder, Quiet, LogInOrder, InOrder
  <2>5. j \in 1 .. Len(log) /\ j < i /\ i \in Nat
    BY <2>1, <2>2
  <2>6. OnLog(e)
    BY <2>1, <2>4, <2>5 DEF OnLog, ToSet
  <2>7. /\ FirstOnLog(e) \in 1 .. Len(log)
        /\ \A k \in 1 .. FirstOnLog(e) - 1 : log[k] # e
    BY <2>1, <2>6, FirstOnLogExists
  <2> DEFINE h == FirstOnLog(e)
  <2> HIDE DEF h
  <2>8. h \in 1 .. Len(log) /\ \A k \in 1 .. h - 1 : log[k] # e
    BY <2>7 DEF h
  <2>9. ~ j \in 1 .. h - 1
    BY <2>4, <2>8
  <2>10. h < i
    BY <2>1, <2>5, <2>8, <2>9
  <2> QED
    BY <2>6, <2>10 DEF h, i
<1> QED
  BY <1>1, <1>2, InitInOrder, Invariance, AccountInvariance, PTL DEF Spec
=============================================================================
