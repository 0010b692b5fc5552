----------------------- MODULE CompensationLedgerProofs -----------------------
(***************************************************************************)
(* Proofs about CompensationLedger for any number of processes, calls and   *)
(* delegations, and any number of failures.                                 *)
(***************************************************************************)
EXTENDS CompensationLedgerProperties, SequenceTheorems, FiniteSetTheorems, TLAPS

-----------------------------------------------------------------------------
(* The inductive invariant. *)

Jobs == {"drive", "wake", "expire", "cancel"}
ItemRecord == [exec : Executions, at : Nat, status : OpenStatuses, version : Nat]
WrittenStatuses == ExecutionStatuses \ {"none"}

TickRecord ==
    [phase : Phases, job : Jobs \cup {"none"}, child : Delegations \cup {None},
     status : {"running", "unsaved"} \cup TerminalStatuses,
     pending : Delegations \cup {None},
     fwd : UNION {[D -> WrittenStatuses] : D \in SUBSET Executions},
     row : UNION {[D -> CompensationRecord] : D \in SUBSET Executions},
     queued : SUBSET QueuedUndo, delivers : SUBSET Delegations,
     expires : SUBSET Delegations, todo : Seq(ItemRecord),
     seen : SUBSET Executions, called : SUBSET Executions]

ChildRecord ==
    [status : ChildStatuses \cup {"none", "running"},
     result : BOOLEAN, expired : BOOLEAN, delivered : BOOLEAN]

\* The row of e as the transaction t sees it.
SeenIn(t, e) == IF e \in DOMAIN t.row THEN t.row[e] ELSE row[e]

\* What a transaction wrote belongs to it alone, is newer than what is committed
\* and replaces nothing final; what it wrote a row for, it or somebody before it
\* has executed; and it leaves no row `running` but the one whose undo it calls.
WritesOK(p, t) ==
    \A e \in DOMAIN t.row :
        /\ \A q \in Processes \ {p} : e \notin DOMAIN tick[q].row
        /\ fwd[e] # "none" \/ e \in DOMAIN t.fwd
        /\ t.row[e].version > row[e].version
        /\ row[e].status \notin FinalStatuses
        /\ t.row[e].status = "running" => t.phase = "calling" /\ e = Head(t.todo).exec

\* The undo that is called is the one claimed.
CallingOK(t) == t.phase = "calling" => t.todo # <<>> /\ Head(t.todo).exec \in DOMAIN t.row

\* What a verdict has read is older than the row, or the row has not changed.
TodoOK(t) ==
    \A i \in ToSet(t.todo) :
        /\ i.version <= SeenIn(t, i.exec).version
        /\ i.version = SeenIn(t, i.exec).version => i.status = SeenIn(t, i.exec).status

\* Results are settled when they are there, waits end when there is something to
\* wait for.
ChildrenOK(t) ==
    /\ t.job = "wake" => t.child \in Delegations /\ Finished(t.child)
    /\ t.job = "expire" => t.child \in Delegations /\ child[t.child].status # "none"
    /\ \A d \in t.delivers : Finished(d)
    /\ \A d \in t.expires : child[d].status # "none"

TickInv(p, t) == WritesOK(p, t) /\ CallingOK(t) /\ TodoOK(t) /\ ChildrenOK(t)

\* What is committed: nobody is registered or booked before it is executed.
TablesTyped ==
    /\ run \in {"running"} \cup TerminalStatuses
    /\ pending \in Delegations \cup {None}
    /\ fwd \in [Executions -> ExecutionStatuses]
    /\ row \in [Executions -> CompensationRecord \cup {NoRow}]
    /\ queued \subseteq QueuedUndo
    /\ child \in [Delegations -> ChildRecord]

TablesFollow ==
    /\ \A e \in Executions : row[e] # NoRow => fwd[e] # "none"
    /\ \A e \in Executions : row[e].status # "running"
    /\ \A d \in Delegations :
           /\ child[d].status # "none" => fwd[d] # "none"
           /\ child[d].delivered => Finished(d)
           /\ child[d].expired => child[d].status # "none"
           /\ child[d].result => child[d].status = "completed"

IInv ==
    /\ TablesTyped
    /\ TablesFollow
    /\ tick \in [Processes -> TickRecord]
    /\ \A p \in Processes : TickInv(p, tick[p])

Partial(R) == UNION {[D -> R] : D \in SUBSET Executions}

-----------------------------------------------------------------------------
(* Functions of a transaction's writes, sequences of items, time stamps. *)

\* A write adds one row to a transaction's writes and leaves the others.
LEMMA WriteFacts ==
    ASSUME NEW R, NEW f \in Partial(R), NEW e \in Executions, NEW v \in R
    PROVE  /\ Write(f, e, v) \in Partial(R)
           /\ DOMAIN Write(f, e, v) = DOMAIN f \cup {e}
           /\ Write(f, e, v)[e] = v
           /\ \A x \in DOMAIN f : x # e => Write(f, e, v)[x] = f[x]
<1>1. PICK D \in SUBSET Executions : f \in [D -> R]
  BY DEF Partial
<1>2. Write(f, e, v) \in [D \cup {e} -> R]
  BY <1>1 DEF Write
<1>3. D \cup {e} \in SUBSET Executions
  OBVIOUS
<1> QED
  BY <1>1, <1>2, <1>3 DEF Write, Partial

\* The same for the status of an execution and for a row.
LEMMA StatusWrite ==
    ASSUME NEW f \in Partial(WrittenStatuses), NEW e \in Executions,
           NEW v \in WrittenStatuses
    PROVE  /\ Write(f, e, v) \in Partial(WrittenStatuses)
           /\ DOMAIN Write(f, e, v) = DOMAIN f \cup {e}
<1> DEFINE R == WrittenStatuses
<1> HIDE DEF R
<1>1. f \in Partial(R) /\ v \in R
  BY DEF R
<1>2. /\ Write(f, e, v) \in Partial(R)
      /\ DOMAIN Write(f, e, v) = DOMAIN f \cup {e}
  BY <1>1, WriteFacts
<1> QED
  BY <1>2 DEF R

LEMMA RowWrite ==
    ASSUME NEW f \in Partial(CompensationRecord), NEW e \in Executions,
           NEW v \in CompensationRecord
    PROVE  Write(f, e, v) \in Partial(CompensationRecord)
<1> DEFINE R == CompensationRecord
<1> HIDE DEF R
<1>1. f \in Partial(R) /\ v \in R
  BY DEF R
<1>2. Write(f, e, v) \in Partial(R)
  BY <1>1, WriteFacts
<1> QED
  BY <1>2 DEF R

\* What the writes of a transaction are made of.
LEMMA PartialFacts ==
    ASSUME NEW R, NEW f \in Partial(R)
    PROVE  DOMAIN f \subseteq Executions /\ \A e \in DOMAIN f : f[e] \in R
BY DEF Partial

\* What is left of the items once the first of them is dealt with.
LEMMA TailFacts ==
    ASSUME NEW S, NEW s \in Seq(S), s # <<>>
    PROVE  /\ Head(s) \in S /\ Head(s) \in ToSet(s)
           /\ Tail(s) \in Seq(S)
           /\ ToSet(Tail(s)) \subseteq ToSet(s)
           /\ ToSet(s) \subseteq S
<1>1. /\ Head(s) \in S /\ Tail(s) \in Seq(S)
      /\ Len(s) >= 1 /\ Len(Tail(s)) = Len(s) - 1
      /\ Head(s) = s[1]
      /\ \A i \in 1 .. Len(Tail(s)) : Tail(s)[i] = s[i + 1]
  BY HeadTailProperties, EmptySeq, LenProperties
<1>2. /\ DOMAIN s = 1 .. Len(s) /\ DOMAIN Tail(s) = 1 .. Len(Tail(s)) /\ Len(s) \in Nat
      /\ \A i \in 1 .. Len(s) : s[i] \in S
  BY <1>1, LenProperties, ElementOfSeq
<1>3. Head(s) \in ToSet(s) /\ ToSet(s) \subseteq S
  BY <1>1, <1>2 DEF ToSet
<1>4. ASSUME NEW i \in 1 .. Len(Tail(s)) PROVE Tail(s)[i] \in ToSet(s)
  <2>1. i + 1 \in 1 .. Len(s) /\ Tail(s)[i] = s[i + 1]
    BY <1>1, <1>2
  <2> QED
    BY <2>1, <1>2 DEF ToSet
<1>5. ToSet(Tail(s)) \subseteq ToSet(s)
  BY <1>2, <1>4 DEF ToSet
<1> QED
  BY <1>1, <1>3, <1>5

\* A finite set of numbers that is not empty has a largest one.
LEMMA LargestNumber ==
    ASSUME NEW S \in SUBSET Nat, IsFiniteSet(S), S # {}
    PROVE  \E m \in S : \A n \in S : n <= m
<1> DEFINE NoLargest == {T \in SUBSET S : T # {} /\ ~ \E m \in T : \A n \in T : n <= m}
<1> SUFFICES ASSUME NoLargest # {} PROVE FALSE
  OBVIOUS
<1>1. FiniteSubsetsOf(S) = SUBSET S
  BY FS_FiniteSubsetsOfFinite
<1>2. IsWellFoundedOn(StrictSubsetOrdering(S), SUBSET S)
  BY <1>1, FS_StrictSubsetOrderingWellFounded
<1>3. PICK T \in NoLargest : \A U \in NoLargest : ~ (<<U, T>> \in StrictSubsetOrdering(S))
  BY <1>2, WFMin
<1>4. PICK t \in T : TRUE
  OBVIOUS
<1>5. CASE T \ {t} = {}
  BY <1>3, <1>4, <1>5
<1>6. CASE T \ {t} # {}
  <2>1. T \ {t} \in SUBSET S /\ <<T \ {t}, T>> \in StrictSubsetOrdering(S)
    BY <1>4 DEF StrictSubsetOrdering
  <2>2. PICK m \in T \ {t} : \A n \in T \ {t} : n <= m
    BY <2>1, <1>3, <1>6
  <2>3. t \in Nat /\ m \in Nat /\ T \subseteq Nat
    BY <1>4
  <2>4. (\A n \in T : n <= m) \/ (\A n \in T : n <= t)
    BY <2>2, <2>3
  <2> QED
    BY <2>4, <1>3, <1>4
<1> QED
  BY <1>5, <1>6

\* What a function makes of a finite set is finite.
LEMMA FiniteImage ==
    ASSUME NEW S, IsFiniteSet(S), NEW f, DOMAIN f = S, f = [x \in S |-> f[x]]
    PROVE  IsFiniteSet({f[x] : x \in S})
<1> DEFINE T == {f[x] : x \in S}
<1>1. f \in [S -> T] /\ \A y \in T : \E x \in S : f[x] = y
  OBVIOUS
<1>2. f \in Surjection(S, T)
  BY <1>1 DEF Surjection
<1> QED
  BY <1>2, FS_Surjection

\* The stamp of a new row is a number.
LEMMA NextStampType ==
    ASSUME TablesTyped, tick \in [Processes -> TickRecord], NEW e \in Executions
    PROVE  NextStamp \in Nat
<1> DEFINE at == [x \in Executions |-> row[x].at]
           AtOf(q) == [x \in DOMAIN tick[q].row |-> tick[q].row[x].at]
           Of(q) == {AtOf(q)[x] : x \in DOMAIN tick[q].row}
           of == [q \in Processes |-> Of(q)]
<1>1. IsFiniteSet(Executions) /\ IsFiniteSet(Processes)
  BY LedgerAssumption, FS_Union DEF Executions
<1>2. IsFiniteSet({at[x] : x \in Executions})
  <2>1. DOMAIN at = Executions /\ at = [x \in Executions |-> at[x]]
    OBVIOUS
  <2> HIDE DEF at
  <2> QED
    BY <2>1, <1>1, FiniteImage
<1>3. ASSUME NEW q \in Processes PROVE IsFiniteSet(Of(q)) /\ Of(q) \subseteq Nat
  <2>1. tick[q].row \in Partial(CompensationRecord)
    BY DEF TickRecord, Partial
  <2>2. /\ DOMAIN tick[q].row \subseteq Executions
        /\ \A x \in DOMAIN tick[q].row : tick[q].row[x] \in CompensationRecord
    BY <2>1, PartialFacts
  <2>3. \A x \in DOMAIN tick[q].row : AtOf(q)[x] \in Nat
    BY <2>2 DEF CompensationRecord
  <2>4. IsFiniteSet(DOMAIN tick[q].row)
    BY <2>2, <1>1, FS_Subset
  <2>5. DOMAIN AtOf(q) = DOMAIN tick[q].row /\ AtOf(q) = [x \in DOMAIN tick[q].row |-> AtOf(q)[x]]
    OBVIOUS
  <2> HIDE DEF AtOf
  <2> QED
    BY <2>3, <2>4, <2>5, FiniteImage
<1>4. IsFiniteSet({of[q] : q \in Processes})
  <2>1. DOMAIN of = Processes /\ of = [q \in Processes |-> of[q]]
    OBVIOUS
  <2> HIDE DEF of
  <2> QED
    BY <2>1, <1>1, FiniteImage
<1>5. IsFiniteSet(UNION {of[q] : q \in Processes})
  <2>1. \A T \in {of[q] : q \in Processes} : IsFiniteSet(T)
    BY <1>3
  <2> HIDE DEF of
  <2> QED
    BY <2>1, <1>4, FS_UNION
<1>6. Stamps = {at[x] : x \in Executions} \cup UNION {of[q] : q \in Processes}
  <2>1. {at[x] : x \in Executions} = {row[x].at : x \in Executions}
    OBVIOUS
  <2> DEFINE Raw(q) == {tick[q].row[x].at : x \in DOMAIN tick[q].row}
  <2>2. ASSUME NEW q \in Processes PROVE of[q] = Raw(q)
    OBVIOUS
  <2>3. {of[q] : q \in Processes} = {Raw(q) : q \in Processes}
    <3> HIDE DEF of, Raw
    <3> QED
      BY <2>2
  <2>4. Stamps = {row[x].at : x \in Executions} \cup UNION {Raw(q) : q \in Processes}
    BY DEF Stamps
  <2> QED
    BY <2>1, <2>3, <2>4
<1>7. at[e] \in Stamps /\ IsFiniteSet(Stamps)
  <2> HIDE DEF at, of
  <2> QED
    BY <1>2, <1>5, <1>6, FS_Union
<1>8. {at[x] : x \in Executions} \subseteq Nat
  <2>1. \A x \in Executions : row[x].at \in Nat
    BY DEF TablesTyped, CompensationRecord, NoRow
  <2> QED
    BY <2>1
<1>9. Stamps \subseteq Nat
  BY <1>3, <1>6, <1>8
<1>10. \E s \in Stamps : \A u \in Stamps : u <= s
  BY <1>7, <1>9, LargestNumber
<1>11. PICK s \in Stamps : NextStamp = 1 + s
  BY <1>10 DEF NextStamp
<1>12. s \in Nat /\ 1 + s \in Nat
  BY <1>9
<1> QED
  BY <1>11, <1>12, Zenon

-----------------------------------------------------------------------------
(* Steps inside one transaction. *)

\* A transaction that has not begun satisfies everything that is asked of one.
LEMMA IdleFacts == IdleTick \in TickRecord /\ \A p \in Processes : TickInv(p, IdleTick)
<1>1. NoWrites \in [{} -> WrittenStatuses] /\ NoWrites \in [{} -> CompensationRecord]
  BY DEF NoWrites
<1>2. <<>> \in Seq(ItemRecord) /\ ToSet(<<>>) = {}
  BY EmptySeq DEF ToSet
<1>3. IdleTick \in TickRecord
  BY <1>1, <1>2 DEF IdleTick, TickRecord, Phases
<1>4. ASSUME NEW p \in Processes PROVE TickInv(p, IdleTick)
  BY <1>1, <1>2 DEF TickInv, WritesOK, CallingOK, TodoOK, ChildrenOK, IdleTick
<1> QED
  BY <1>3, <1>4

\* A step that changes one transaction and nothing that is committed keeps the
\* invariant when the transaction is still in order.
LEMMA LocalStep ==
    ASSUME IInv, NEW p \in Processes, NEW t \in TickRecord, TickInv(p, t),
           tick' = [tick EXCEPT ![p] = t], UNCHANGED tables
    PROVE  IInv'
<1>1. /\ UNCHANGED <<run, pending, fwd, row, queued, child>>
      /\ tick \in [Processes -> TickRecord]
  BY DEF tables, IInv
<1>2. TablesTyped' /\ TablesFollow'
  BY <1>1 DEF IInv, TablesTyped, TablesFollow, Finished
<1>3. tick' \in [Processes -> TickRecord]
  BY <1>1
<1>4. tick'[p] = t /\ \A q \in Processes \ {p} : tick'[q] = tick[q]
  BY <1>1
<1>5. ASSUME NEW q \in Processes PROVE TickInv(q, tick[q])'
  <2>1. ASSUME NEW u, TickInv(q, u) PROVE (CallingOK(u) /\ TodoOK(u) /\ ChildrenOK(u))'
    BY <2>1, <1>1 DEF TickInv, CallingOK, TodoOK, ChildrenOK, SeenIn, Finished
  <2>2. CASE q = p
    <3>1. \A e \in DOMAIN t.row : \A r \in Processes \ {p} : e \notin DOMAIN tick'[r].row
      BY <1>4 DEF TickInv, WritesOK
    <3>2. (WritesOK(p, tick[p]))'
      BY <3>1, <1>1, <1>4 DEF TickInv, WritesOK
    <3> QED
      BY <3>2, <2>1, <2>2, <1>4 DEF TickInv, CallingOK, TodoOK, ChildrenOK, SeenIn, Finished
  <2>3. CASE q # p
    <3>1. TickInv(q, tick[q])
      BY DEF IInv
    <3>2. ASSUME NEW e \in DOMAIN tick[q].row, NEW r \in Processes \ {q}
          PROVE  e \notin DOMAIN tick'[r].row
      BY <3>1, <2>3, <1>4 DEF TickInv, WritesOK
    <3>3. (WritesOK(q, tick[q]))'
      BY <3>1, <3>2, <2>3, <1>1, <1>4 DEF TickInv, WritesOK
    <3> QED
      BY <3>1, <3>3, <2>1, <2>3, <1>4 DEF TickInv, CallingOK, TodoOK, ChildrenOK, SeenIn, Finished
  <2> QED
    BY <2>2, <2>3
<1> QED
  BY <1>2, <1>3, <1>5 DEF IInv

\* Every row, as a transaction sees it, is the row it was or a newer one.
Grows(p, t) ==
    \A x \in Executions :
        \/ SeenIn(t, x) = RowSeenBy(p, x)
        \/ SeenIn(t, x).version > RowSeenBy(p, x).version

\* The types of what a transaction has written and of what it sees.
LEMMA TickFacts ==
    ASSUME IInv, NEW p \in Processes
    PROVE  /\ tick[p] \in TickRecord /\ TickInv(p, tick[p])
           /\ tick[p].fwd \in Partial(WrittenStatuses)
           /\ tick[p].row \in Partial(CompensationRecord)
           /\ DOMAIN tick[p].row \subseteq Executions
           /\ \A e \in DOMAIN tick[p].row : tick[p].row[e] \in CompensationRecord
           /\ \A e \in DOMAIN tick[p].fwd : tick[p].fwd[e] \in WrittenStatuses
           /\ \A e \in Executions : /\ RowSeenBy(p, e) \in CompensationRecord \cup {NoRow}
                                     /\ RowSeenBy(p, e).version \in Nat
           /\ ToSet(tick[p].todo) \subseteq ItemRecord
<1>1. tick[p] \in TickRecord /\ TickInv(p, tick[p])
  BY DEF IInv
<1>2. tick[p].fwd \in Partial(WrittenStatuses) /\ tick[p].row \in Partial(CompensationRecord)
  BY <1>1 DEF TickRecord, Partial
<1>3. /\ DOMAIN tick[p].row \subseteq Executions
      /\ \A e \in DOMAIN tick[p].row : tick[p].row[e] \in CompensationRecord
      /\ \A e \in DOMAIN tick[p].fwd : tick[p].fwd[e] \in WrittenStatuses
  BY <1>2, PartialFacts
<1>4. ASSUME NEW e \in Executions
      PROVE  RowSeenBy(p, e) \in CompensationRecord \cup {NoRow}
  BY <1>3 DEF RowSeenBy, IInv, TablesTyped
<1>5. \A r \in CompensationRecord \cup {NoRow} : r.version \in Nat
  BY DEF CompensationRecord, NoRow
<1>6. ToSet(tick[p].todo) \subseteq ItemRecord
  <2>1. tick[p].todo \in Seq(ItemRecord)
    BY <1>1 DEF TickRecord
  <2>2. tick[p].todo = <<>> => ToSet(tick[p].todo) = {}
    BY DEF ToSet
  <2> QED
    BY <2>1, <2>2, TailFacts
<1> QED
  BY <1>1, <1>2, <1>3, <1>4, <1>5, <1>6

\* A transaction writes one row: the row is its own, not final, and the version
\* that is written is the newest.
LEMMA RowIsWritten ==
    ASSUME IInv, NEW p \in Processes, NEW t \in TickRecord, NEW e \in Executions,
           NEW v \in CompensationRecord,
           t.row = Write(tick[p].row, e, v), DOMAIN tick[p].fwd \subseteq DOMAIN t.fwd,
           RowUnlocked(p, e), v.version > RowSeenBy(p, e).version,
           e \in DOMAIN tick[p].row \/ row[e].status \notin FinalStatuses,
           fwd[e] # "none" \/ e \in DOMAIN t.fwd,
           tick[p].phase = "calling" => e = Head(tick[p].todo).exec,
           v.status = "running" => t.phase = "calling" /\ e = Head(t.todo).exec
    PROVE  WritesOK(p, t) /\ Grows(p, t)
<1>1. /\ tick[p].row \in Partial(CompensationRecord)
      /\ WritesOK(p, tick[p])
      /\ DOMAIN tick[p].row \subseteq Executions
      /\ \A x \in DOMAIN tick[p].row : tick[p].row[x] \in CompensationRecord
  BY TickFacts DEF TickInv
<1>2. /\ DOMAIN t.row = DOMAIN tick[p].row \cup {e}
      /\ t.row[e] = v
      /\ \A x \in DOMAIN tick[p].row : x # e => t.row[x] = tick[p].row[x]
  BY <1>1 DEF Write
<1>3. row[e].version \in Nat /\ v.version \in Nat
  BY DEF IInv, TablesTyped, CompensationRecord, NoRow
<1>4. v.version > row[e].version /\ row[e].status \notin FinalStatuses
  <2>1. CASE e \in DOMAIN tick[p].row
    <3>1. RowSeenBy(p, e) = tick[p].row[e] /\ tick[p].row[e].version \in Nat
      BY <2>1, <1>1 DEF RowSeenBy, CompensationRecord
    <3> QED
      BY <3>1, <2>1, <1>1, <1>3 DEF WritesOK
  <2>2. CASE e \notin DOMAIN tick[p].row
    BY <2>2 DEF RowSeenBy
  <2> QED
    BY <2>1, <2>2
<1>5. WritesOK(p, t)
  <2> SUFFICES ASSUME NEW x \in DOMAIN t.row
               PROVE  /\ \A q \in Processes \ {p} : x \notin DOMAIN tick[q].row
                      /\ fwd[x] # "none" \/ x \in DOMAIN t.fwd
                      /\ t.row[x].version > row[x].version
                      /\ row[x].status \notin FinalStatuses
                      /\ t.row[x].status = "running" =>
                             t.phase = "calling" /\ x = Head(t.todo).exec
    BY DEF WritesOK
  <2>1. CASE x = e
    BY <2>1, <1>2, <1>4 DEF RowUnlocked
  <2>2. CASE x # e
    <3>1. x \in DOMAIN tick[p].row /\ t.row[x] = tick[p].row[x]
      BY <2>2, <1>2
    <3>2. t.row[x].status # "running"
      BY <3>1, <2>2, <1>1 DEF WritesOK
    <3> QED
      BY <3>1, <3>2, <1>1 DEF WritesOK
  <2> QED
    BY <2>1, <2>2
<1>6. Grows(p, t)
  BY <1>2 DEF Grows, SeenIn, RowSeenBy
<1> QED
  BY <1>5, <1>6

\* A transaction that writes no row.
LEMMA RowsAreKept ==
    ASSUME IInv, NEW p \in Processes, NEW t,
           t.row = tick[p].row, DOMAIN tick[p].fwd \subseteq DOMAIN t.fwd,
           tick[p].phase # "calling"
    PROVE  WritesOK(p, t) /\ Grows(p, t)
<1>1. WritesOK(p, tick[p])
  BY TickFacts DEF TickInv
<1>2. WritesOK(p, t)
  BY <1>1 DEF WritesOK
<1>3. Grows(p, t)
  BY DEF Grows, SeenIn, RowSeenBy
<1> QED
  BY <1>2, <1>3

\* What a verdict has read stays old enough.
LEMMA TodoStays ==
    ASSUME IInv, NEW p \in Processes, NEW t \in TickRecord, Grows(p, t),
           ToSet(t.todo) \subseteq ToSet(tick[p].todo)
    PROVE  TodoOK(t)
<1> SUFFICES ASSUME NEW i \in ToSet(t.todo)
             PROVE  /\ i.version <= SeenIn(t, i.exec).version
                    /\ i.version = SeenIn(t, i.exec).version => i.status = SeenIn(t, i.exec).status
  BY DEF TodoOK
<1>1. i \in ToSet(tick[p].todo) /\ i \in ItemRecord /\ TodoOK(tick[p])
  BY TickFacts DEF TickInv
<1>2. i.exec \in Executions /\ i.version \in Nat
  BY <1>1 DEF ItemRecord
<1>3. SeenIn(tick[p], i.exec) = RowSeenBy(p, i.exec) /\ RowSeenBy(p, i.exec).version \in Nat
  BY <1>2, TickFacts DEF SeenIn, RowSeenBy
<1>4. SeenIn(t, i.exec).version \in Nat
  <2>1. t.row \in Partial(CompensationRecord)
    BY DEF TickRecord, Partial
  <2>2. \A e \in DOMAIN t.row : t.row[e] \in CompensationRecord
    BY <2>1, PartialFacts
  <2> QED
    BY <1>2, <2>2 DEF SeenIn, IInv, TablesTyped, CompensationRecord, NoRow
<1>5. /\ i.version <= RowSeenBy(p, i.exec).version
      /\ i.version = RowSeenBy(p, i.exec).version => i.status = RowSeenBy(p, i.exec).status
  BY <1>1, <1>3 DEF TodoOK
<1>6. \/ SeenIn(t, i.exec) = RowSeenBy(p, i.exec)
      \/ SeenIn(t, i.exec).version > RowSeenBy(p, i.exec).version
  BY <1>2 DEF Grows
<1> QED
  BY <1>2, <1>3, <1>4, <1>5, <1>6

\* A step of a transaction that writes no row.
LEMMA StepWithoutRow ==
    ASSUME IInv, NEW p \in Processes, NEW t \in TickRecord,
           t.row = tick[p].row, DOMAIN tick[p].fwd \subseteq DOMAIN t.fwd,
           tick[p].phase # "calling", t.phase # "calling",
           ToSet(t.todo) \subseteq ToSet(tick[p].todo), ChildrenOK(t),
           tick' = [tick EXCEPT ![p] = t], UNCHANGED tables
    PROVE  IInv'
<1>1. WritesOK(p, t) /\ Grows(p, t)
  BY RowsAreKept
<1>2. TodoOK(t)
  BY <1>1, TodoStays
<1>3. TickInv(p, t)
  BY <1>1, <1>2 DEF TickInv, CallingOK
<1> QED
  BY <1>3, LocalStep

-----------------------------------------------------------------------------
(* The steps of a transaction that write no row. *)

LEMMA RebuildStep ==
    ASSUME IInv, NEW p \in Processes, NEW job \in JobsOf[p],
           NEW d \in Delegations \cup {None}, Rebuild(p, job, d)
    PROVE  IInv'
<1> DEFINE t == [IdleTick EXCEPT !.phase = "rebuilt", !.job = job, !.child = d,
                                 !.pending = pending]
<1>1. IdleTick \in TickRecord /\ TickInv(p, IdleTick)
  BY IdleFacts
<1>2. job \in Jobs /\ pending \in Delegations \cup {None}
  BY LedgerAssumption DEF Jobs, IInv, TablesTyped
<1>3. t \in TickRecord
  BY <1>1, <1>2 DEF TickRecord, Phases
<1>4. t.row = IdleTick.row /\ t.phase = "rebuilt" /\ t.todo = <<>>
  BY DEF IdleTick
<1>5. WritesOK(p, t) /\ CallingOK(t)
  BY <1>1, <1>4 DEF WritesOK, CallingOK, IdleTick, NoWrites
<1>6. TodoOK(t)
  BY <1>4 DEF TodoOK, ToSet
<1>7. ChildrenOK(t)
  <2>1. t.job = job /\ t.child = d /\ t.delivers = {} /\ t.expires = {}
    BY DEF IdleTick
  <2>2. /\ job = "wake" => d \in Delegations /\ Finished(d)
        /\ job = "expire" => d \in Delegations /\ child[d].status = "running"
    BY DEF Rebuild, ToDeliver, Overdue, Running
  <2> QED
    BY <2>1, <2>2 DEF ChildrenOK
<1>8. tick' = [tick EXCEPT ![p] = t] /\ UNCHANGED tables
  BY DEF Rebuild, Continue
<1> QED
  BY <1>3, <1>5, <1>6, <1>7, <1>8, LocalStep DEF TickInv

LEMMA RollBackStep ==
    ASSUME IInv, NEW p \in Processes, RollBack(p)
    PROVE  IInv'
BY IdleFacts, LocalStep DEF RollBack, Continue

LEMMA AlreadyClosedStep ==
    ASSUME IInv, NEW p \in Processes, AlreadyClosed(p)
    PROVE  IInv'
<1> DEFINE phase == IF RunIsOver THEN "closing" ELSE "driving"
           status == IF RunIsOver THEN "unsaved" ELSE tick[p].status
           delivers == IF tick[p].job = "wake" THEN {tick[p].child} ELSE {}
           expires == IF tick[p].job = "expire" THEN {tick[p].child} ELSE {}
           t == [tick[p] EXCEPT !.phase = phase, !.status = status, !.pending = pending,
                                !.delivers = delivers, !.expires = expires]
<1>1. tick[p] \in TickRecord /\ ChildrenOK(tick[p]) /\ tick[p].phase = "rebuilt"
  BY TickFacts DEF TickInv, AlreadyClosed, In
<1>2. pending \in Delegations \cup {None}
  BY DEF IInv, TablesTyped
<1>3. /\ delivers \in SUBSET Delegations /\ expires \in SUBSET Delegations
      /\ \A d \in delivers : Finished(d)
      /\ \A d \in expires : child[d].status # "none"
      /\ phase \in {"closing", "driving"} /\ status \in {"unsaved", tick[p].status}
  BY <1>1 DEF ChildrenOK
<1>4. tick' = [tick EXCEPT ![p] = t] /\ UNCHANGED tables
  <2>1. tick' = [tick EXCEPT ![p] = [tick[p] EXCEPT
            !.phase = phase, !.status = IF RunIsOver THEN "unsaved" ELSE @,
            !.pending = pending, !.delivers = delivers, !.expires = expires]]
    BY DEF AlreadyClosed, Continue
  <2> QED
    BY <2>1, <1>1 DEF AlreadyClosed, TickRecord
<1> HIDE DEF phase, status, delivers, expires
<1>5. t \in TickRecord
  BY <1>1, <1>2, <1>3 DEF TickRecord, Phases
<1>6. /\ t.row = tick[p].row /\ t.fwd = tick[p].fwd /\ t.todo = tick[p].todo
      /\ t.phase = phase /\ t.job = tick[p].job /\ t.child = tick[p].child
      /\ t.delivers = delivers /\ t.expires = expires
  BY <1>1 DEF TickRecord
<1>7. ChildrenOK(t) /\ t.phase # "calling"
  BY <1>1, <1>3, <1>6 DEF ChildrenOK
<1> HIDE DEF t
<1> QED
  BY <1>1, <1>4, <1>5, <1>6, <1>7, StepWithoutRow

LEMMA DriveStep ==
    ASSUME IInv, NEW p \in Processes, Drive(p)
    PROVE  IInv'
<1>1. /\ tick[p] \in TickRecord /\ ChildrenOK(tick[p]) /\ tick[p].phase = "unblocked"
      /\ UNCHANGED tables
  BY TickFacts DEF TickInv, Drive, In
<1>2. ASSUME NEW phase \in {"driving", "closing"},
             NEW status \in {"unsaved", tick[p].status},
             tick' = [tick EXCEPT ![p] = [tick[p] EXCEPT !.phase = phase, !.status = status]]
      PROVE  IInv'
  <2> DEFINE t == [tick[p] EXCEPT !.phase = phase, !.status = status]
  <2>1. t \in TickRecord
    BY <1>1 DEF TickRecord, Phases
  <2>2. /\ t.row = tick[p].row /\ t.fwd = tick[p].fwd /\ t.todo = tick[p].todo
        /\ t.phase # "calling" /\ t.job = tick[p].job /\ t.child = tick[p].child
        /\ t.delivers = tick[p].delivers /\ t.expires = tick[p].expires
    BY <1>1 DEF TickRecord
  <2>3. ChildrenOK(t)
    BY <1>1, <2>2 DEF ChildrenOK
  <2> QED
    BY <1>1, <1>2, <2>1, <2>2, <2>3, StepWithoutRow
<1>3. [tick[p] EXCEPT !.phase = "driving"]
      = [tick[p] EXCEPT !.phase = "driving", !.status = tick[p].status]
  BY <1>1 DEF TickRecord
<1> QED
  BY <1>2, <1>3 DEF Drive, Continue

LEMMA PauseStep ==
    ASSUME IInv, NEW p \in Processes, Pause(p)
    PROVE  IInv'
<1> DEFINE t == [tick[p] EXCEPT !.phase = "closing"]
<1>1. tick[p] \in TickRecord /\ ChildrenOK(tick[p]) /\ tick[p].phase = "driving"
  BY TickFacts DEF TickInv, Pause, In
<1>2. t \in TickRecord
  BY <1>1 DEF TickRecord, Phases
<1>3. /\ t.row = tick[p].row /\ t.fwd = tick[p].fwd /\ t.todo = tick[p].todo
      /\ t.phase # "calling" /\ t.job = tick[p].job /\ t.child = tick[p].child
      /\ t.delivers = tick[p].delivers /\ t.expires = tick[p].expires
  BY <1>1 DEF TickRecord
<1>4. ChildrenOK(t)
  BY <1>1, <1>3 DEF ChildrenOK
<1>5. tick' = [tick EXCEPT ![p] = t] /\ UNCHANGED tables
  BY DEF Pause, Continue
<1> QED
  BY <1>1, <1>2, <1>3, <1>4, <1>5, StepWithoutRow

LEMMA DelegateStep ==
    ASSUME IInv, NEW p \in Processes, NEW d \in Delegations, Delegate(p, d)
    PROVE  IInv'
<1> DEFINE f == Write(tick[p].fwd, d, "suspended")
           t == [tick[p] EXCEPT !.phase = "closing", !.pending = d, !.fwd = f]
<1>1. /\ tick[p] \in TickRecord /\ ChildrenOK(tick[p]) /\ tick[p].phase = "driving"
      /\ tick[p].fwd \in Partial(WrittenStatuses)
  BY TickFacts DEF TickInv, Delegate, CanStep, In
<1>2. d \in Executions /\ "suspended" \in WrittenStatuses
  BY DEF Executions, WrittenStatuses, ExecutionStatuses
<1>3. f \in Partial(WrittenStatuses) /\ DOMAIN f = DOMAIN tick[p].fwd \cup {d}
  BY <1>1, <1>2, StatusWrite
<1>4. t \in TickRecord
  <2> HIDE DEF f
  <2> QED
    BY <1>1, <1>3 DEF TickRecord, Phases, Partial
<1>5. /\ t.row = tick[p].row /\ t.fwd = f /\ t.todo = tick[p].todo
      /\ t.phase # "calling" /\ t.job = tick[p].job /\ t.child = tick[p].child
      /\ t.delivers = tick[p].delivers /\ t.expires = tick[p].expires
  BY <1>1 DEF TickRecord
<1>6. ChildrenOK(t)
  BY <1>1, <1>5 DEF ChildrenOK
<1>7. tick' = [tick EXCEPT ![p] = t] /\ UNCHANGED tables
  BY DEF Delegate, Continue
<1> QED
  BY <1>1, <1>3, <1>4, <1>5, <1>6, <1>7, StepWithoutRow

\* What open_for() returns are the rows as the transaction sees them.
LEMMA OpenItemsFacts ==
    ASSUME IInv, NEW p \in Processes, NEW todo \in OpenItems(p)
    PROVE  /\ todo \in Seq(ItemRecord)
           /\ \A i \in ToSet(todo) : /\ i.version = RowSeenBy(p, i.exec).version
                                     /\ i.status = RowSeenBy(p, i.exec).status
<1> DEFINE open == {e \in Executions : RowSeenBy(p, e).status \in OpenStatuses}
           f == [e \in open |-> Item(e, RowSeenBy(p, e))]
           items == {f[e] : e \in open}
<1>1. IsFiniteSet(open)
  BY LedgerAssumption, FS_Union, FS_Subset DEF Executions
<1>2. IsFiniteSet(items)
  <2>1. DOMAIN f = open /\ f = [e \in open |-> f[e]]
    OBVIOUS
  <2> HIDE DEF f, open
  <2> QED
    BY <2>1, <1>1, FiniteImage
<1>3. items = {Item(e, RowSeenBy(p, e)) : e \in open}
  OBVIOUS
<1>4. ASSUME NEW i \in items
      PROVE  /\ i \in ItemRecord
             /\ i.version = RowSeenBy(p, i.exec).version
             /\ i.status = RowSeenBy(p, i.exec).status
  <2>1. PICK e \in open : i = Item(e, RowSeenBy(p, e))
    OBVIOUS
  <2>2. RowSeenBy(p, e) \in CompensationRecord
    <3>1. RowSeenBy(p, e) \in CompensationRecord \cup {NoRow} /\ RowSeenBy(p, e).status # "none"
      BY TickFacts DEF OpenStatuses
    <3> QED
      BY <3>1 DEF NoRow
  <2> QED
    BY <2>1, <2>2 DEF Item, ItemRecord, CompensationRecord
<1>5. PICK n \in Nat : todo \in [1 .. n -> items]
  <2>1. Cardinality(items) \in Nat
    BY <1>2, FS_CardinalityType
  <2>2. todo \in [1 .. Cardinality(items) -> items]
    <3> HIDE DEF items
    <3> QED
      BY <1>3 DEF OpenItems, Ordered
  <2> QED
    BY <2>1, <2>2
<1> HIDE DEF items
<1>6. ToSet(todo) \subseteq items
  BY <1>5 DEF ToSet
<1>7. todo \in Seq(ItemRecord)
  BY <1>4, <1>5, SeqDef
<1> QED
  BY <1>4, <1>6, <1>7

LEMMA GiveVerdictStep ==
    ASSUME IInv, NEW p \in Processes, NEW status \in {"failed", "completed"},
           NEW phase \in {"undoing", "releasing"}, GiveVerdict(p, status, phase)
    PROVE  IInv'
<1>1. PICK todo \in OpenItems(p) :
          tick' = [tick EXCEPT ![p] = [tick[p] EXCEPT
              !.phase = phase, !.status = status, !.todo = todo,
              !.seen = {e \in Executions : RowSeenBy(p, e).status = "pending"}]]
  BY DEF GiveVerdict, Continue
<1> DEFINE seen == {e \in Executions : RowSeenBy(p, e).status = "pending"}
           t == [tick[p] EXCEPT !.phase = phase, !.status = status, !.todo = todo,
                                !.seen = seen]
<1>2. /\ tick[p] \in TickRecord /\ ChildrenOK(tick[p]) /\ tick[p].phase = "driving"
      /\ UNCHANGED tables
  BY TickFacts DEF TickInv, GiveVerdict, CanStep, In
<1>3. /\ todo \in Seq(ItemRecord)
      /\ \A i \in ToSet(todo) : /\ i.version = RowSeenBy(p, i.exec).version
                                /\ i.status = RowSeenBy(p, i.exec).status
  BY OpenItemsFacts
<1>4. t \in TickRecord
  BY <1>2, <1>3 DEF TickRecord, Phases, TerminalStatuses
<1>5. /\ t.row = tick[p].row /\ t.fwd = tick[p].fwd /\ t.todo = todo
      /\ t.phase # "calling" /\ t.job = tick[p].job /\ t.child = tick[p].child
      /\ t.delivers = tick[p].delivers /\ t.expires = tick[p].expires
  BY <1>2 DEF TickRecord
<1>6. ChildrenOK(t)
  BY <1>2, <1>5 DEF ChildrenOK
<1>7. WritesOK(p, t)
  BY <1>2, <1>5, RowsAreKept
<1>8. TodoOK(t)
  <2> SUFFICES ASSUME NEW i \in ToSet(todo)
               PROVE  /\ i.version <= SeenIn(t, i.exec).version
                      /\ i.status = SeenIn(t, i.exec).status
    BY <1>5 DEF TodoOK
  <2>1. i.exec \in Executions
    <3>1. todo # <<>>
      BY DEF ToSet
    <3>2. i \in ItemRecord
      BY <3>1, <1>3, TailFacts
    <3> QED
      BY <3>2 DEF ItemRecord
  <2>2. SeenIn(t, i.exec) = RowSeenBy(p, i.exec) /\ RowSeenBy(p, i.exec).version \in Nat
    BY <2>1, <1>5, TickFacts DEF SeenIn, RowSeenBy
  <2> QED
    BY <2>2, <1>3
<1> QED
  BY <1>1, <1>2, <1>4, <1>5, <1>6, <1>7, <1>8, LocalStep DEF TickInv, CallingOK

-----------------------------------------------------------------------------
(* The steps of a transaction that write a row. *)

\* A step of a transaction that writes one row.
LEMMA StepWithRow ==
    ASSUME IInv, NEW p \in Processes, NEW t \in TickRecord, NEW e \in Executions,
           NEW v \in CompensationRecord,
           t.row = Write(tick[p].row, e, v), DOMAIN tick[p].fwd \subseteq DOMAIN t.fwd,
           RowUnlocked(p, e), v.version > RowSeenBy(p, e).version,
           e \in DOMAIN tick[p].row \/ row[e].status \notin FinalStatuses,
           fwd[e] # "none" \/ e \in DOMAIN t.fwd,
           tick[p].phase = "calling" => e = Head(tick[p].todo).exec,
           v.status = "running" => t.phase = "calling" /\ e = Head(t.todo).exec,
           ToSet(t.todo) \subseteq ToSet(tick[p].todo), CallingOK(t), ChildrenOK(t),
           tick' = [tick EXCEPT ![p] = t], UNCHANGED tables
    PROVE  IInv'
<1>1. WritesOK(p, t) /\ Grows(p, t)
  BY RowIsWritten
<1>2. TodoOK(t)
  BY <1>1, TodoStays
<1> QED
  BY <1>1, <1>2, LocalStep DEF TickInv

\* The execution of a row that is pending was begun.
LEMMA PendingIsBegun ==
    ASSUME IInv, NEW p \in Processes, NEW e \in Executions, RowSeenBy(p, e) # NoRow
    PROVE  fwd[e] # "none" \/ e \in DOMAIN tick[p].fwd
<1>1. CASE e \in DOMAIN tick[p].row
  BY <1>1, TickFacts DEF TickInv, WritesOK
<1>2. CASE e \notin DOMAIN tick[p].row
  BY <1>2 DEF RowSeenBy, IInv, TablesFollow
<1> QED
  BY <1>1, <1>2

\* Moving a row makes it a newer row.
LEMMA MovedFacts ==
    ASSUME NEW r \in CompensationRecord,
           NEW s \in OpenStatuses \cup FinalStatuses \cup {"unresolved"}
    PROVE  /\ Moved(r, s) \in CompensationRecord
           /\ Moved(r, s).status = s /\ Moved(r, s).version = r.version + 1
           /\ r.version \in Nat
<1> DEFINE n == r.version + 1
<1>1. r.version \in Nat /\ n \in Nat
  BY DEF CompensationRecord
<1>2. Moved(r, s) = [r EXCEPT !.status = s, !.version = n]
  BY DEF Moved, CompensationRecord
<1> HIDE DEF n
<1>3. Moved(r, s) \in CompensationRecord
  BY <1>1, <1>2 DEF CompensationRecord
<1>4. Moved(r, s).status = s /\ Moved(r, s).version = n
  BY <1>2 DEF CompensationRecord
<1> QED
  BY <1>1, <1>3, <1>4 DEF n

LEMMA ClaimStep ==
    ASSUME IInv, NEW p \in Processes, Claim(p)
    PROVE  IInv'
<1> DEFINE e == Current(p).exec
           r == RowSeenBy(p, e)
           todo == tick[p].todo
<1>1. /\ tick[p] \in TickRecord /\ ChildrenOK(tick[p]) /\ tick[p].phase = "undoing"
      /\ todo # <<>> /\ RowUnlocked(p, e) /\ UNCHANGED tables
      /\ todo \in Seq(ItemRecord) /\ tick[p].row \in Partial(CompensationRecord)
  BY TickFacts DEF TickInv, Claim, In, TickRecord
<1>2. /\ Head(todo) \in ItemRecord /\ Tail(todo) \in Seq(ItemRecord)
      /\ ToSet(Tail(todo)) \subseteq ToSet(todo)
  BY <1>1, TailFacts
<1>3. e \in Executions
  BY <1>2 DEF Current, ItemRecord
<1>4. CASE Claimable(r)
  <2> DEFINE v == Moved(r, "running")
             w == Write(tick[p].row, e, v)
             t == [tick[p] EXCEPT !.phase = "calling", !.row = w]
  <2>1. r \in CompensationRecord /\ r.status = "pending" /\ r # NoRow
    <3>1. r \in CompensationRecord \cup {NoRow} /\ r.status = "pending"
      BY <1>3, <1>4, TickFacts DEF Claimable
    <3> QED
      BY <3>1 DEF NoRow
  <2>2. v \in CompensationRecord /\ v.status = "running" /\ v.version > r.version
    BY <2>1, MovedFacts DEF OpenStatuses
  <2>3. w \in Partial(CompensationRecord) /\ DOMAIN w = DOMAIN tick[p].row \cup {e}
    BY <1>1, <1>3, <2>2, RowWrite DEF Write
  <2> HIDE DEF w
  <2>4. t \in TickRecord
    BY <1>1, <2>3 DEF TickRecord, Phases, Partial
  <2>5. /\ t.row = w /\ t.fwd = tick[p].fwd /\ t.todo = todo
        /\ t.phase = "calling" /\ t.job = tick[p].job /\ t.child = tick[p].child
        /\ t.delivers = tick[p].delivers /\ t.expires = tick[p].expires
    BY <1>1 DEF TickRecord
  <2>6. ChildrenOK(t) /\ CallingOK(t)
    BY <1>1, <2>3, <2>5 DEF ChildrenOK, CallingOK, Current
  <2>7. e \in DOMAIN tick[p].row \/ row[e].status \notin FinalStatuses
    BY <2>1 DEF RowSeenBy, FinalStatuses
  <2>8. fwd[e] # "none" \/ e \in DOMAIN t.fwd
    BY <1>3, <2>1, <2>5, PendingIsBegun
  <2>9. tick' = [tick EXCEPT ![p] = t]
    BY <1>4 DEF Claim, Continue, w
  <2>10. e = Head(t.todo).exec /\ t.row = Write(tick[p].row, e, v)
    BY <2>5 DEF Current, w
  <2> HIDE DEF t, v, e
  <2> QED
    BY <1>1, <1>3, <2>2, <2>4, <2>5, <2>6, <2>7, <2>8, <2>9, <2>10, StepWithRow
<1>5. CASE ~ Claimable(r)
  <2> DEFINE t == [tick[p] EXCEPT !.todo = Tail(todo)]
  <2>1. t \in TickRecord
    BY <1>1, <1>2 DEF TickRecord
  <2>2. /\ t.row = tick[p].row /\ t.fwd = tick[p].fwd /\ t.todo = Tail(todo)
        /\ t.phase = "undoing" /\ t.job = tick[p].job /\ t.child = tick[p].child
        /\ t.delivers = tick[p].delivers /\ t.expires = tick[p].expires
    BY <1>1 DEF TickRecord
  <2>3. ChildrenOK(t)
    BY <1>1, <2>2 DEF ChildrenOK
  <2>4. tick' = [tick EXCEPT ![p] = t]
    BY <1>5 DEF Claim, Continue
  <2> QED
    BY <1>1, <1>2, <2>1, <2>2, <2>3, <2>4, StepWithoutRow
<1> QED
  BY <1>4, <1>5

LEMMA CallUndoStep ==
    ASSUME IInv, NEW p \in Processes, NEW outcome \in UndoOutcomes, CallUndo(p, outcome)
    PROVE  IInv'
<1> DEFINE e == Current(p).exec
           r == tick[p].row[e]
           todo == tick[p].todo
           v == Settled(r, outcome)
           w == Write(tick[p].row, e, v)
           called == IF outcome \in {"done", "lost"} THEN tick[p].called \cup {e}
                     ELSE tick[p].called
           retried == IF outcome = "retrying"
                      THEN tick[p].queued
                           \cup {[exec |-> e, args |-> r.args, version |-> r.version]}
                      ELSE tick[p].queued
           t == [tick[p] EXCEPT !.phase = "undoing", !.todo = Tail(todo),
                                !.called = called, !.queued = retried, !.row = w]
<1>1. /\ tick[p] \in TickRecord /\ ChildrenOK(tick[p]) /\ tick[p].phase = "calling"
      /\ todo # <<>> /\ e \in DOMAIN tick[p].row /\ UNCHANGED tables
      /\ WritesOK(p, tick[p])
      /\ todo \in Seq(ItemRecord) /\ tick[p].row \in Partial(CompensationRecord)
  BY TickFacts DEF TickInv, CallingOK, CallUndo, In, Current, TickRecord
<1>2. /\ Tail(todo) \in Seq(ItemRecord) /\ ToSet(Tail(todo)) \subseteq ToSet(todo)
      /\ e \in Executions /\ r \in CompensationRecord
  BY <1>1, TailFacts, TickFacts
<1>3. /\ v \in CompensationRecord /\ v.status # "running" /\ v.version > r.version
  <2>1. v = Moved(r, "compensated") \/ v = Moved(r, "unresolved")
    BY DEF Settled
  <2> QED
    BY <2>1, <1>2, MovedFacts DEF FinalStatuses
<1>4. w \in Partial(CompensationRecord) /\ DOMAIN w = DOMAIN tick[p].row \cup {e}
  BY <1>1, <1>2, <1>3, RowWrite DEF Write
<1>5. called \in SUBSET Executions /\ retried \in SUBSET QueuedUndo
  BY <1>1, <1>2 DEF TickRecord, QueuedUndo, CompensationRecord
<1>6. tick' = [tick EXCEPT ![p] = t] /\ RowSeenBy(p, e) = r /\ RowUnlocked(p, e)
  BY <1>1 DEF CallUndo, Continue, RowSeenBy, RowUnlocked, WritesOK
<1> HIDE DEF w, called, retried
<1>7. t \in TickRecord
  BY <1>1, <1>2, <1>4, <1>5 DEF TickRecord, Phases, Partial
<1>8. /\ t.row = w /\ t.fwd = tick[p].fwd /\ t.todo = Tail(todo)
      /\ t.phase = "undoing" /\ t.job = tick[p].job /\ t.child = tick[p].child
      /\ t.delivers = tick[p].delivers /\ t.expires = tick[p].expires
  BY <1>1 DEF TickRecord
<1>9. ChildrenOK(t) /\ CallingOK(t)
  BY <1>1, <1>8 DEF ChildrenOK, CallingOK
<1>10. /\ fwd[e] # "none" \/ e \in DOMAIN t.fwd
       /\ e = Head(todo).exec /\ t.row = Write(tick[p].row, e, v)
  BY <1>1, <1>8 DEF WritesOK, Current, w
<1> HIDE DEF t, v, e
<1> QED
  BY <1>1, <1>2, <1>3, <1>6, <1>7, <1>8, <1>9, <1>10, StepWithRow

LEMMA ReleaseStep ==
    ASSUME IInv, NEW p \in Processes, Release(p)
    PROVE  IInv'
<1> DEFINE i == Current(p)
           e == i.exec
           r == RowSeenBy(p, e)
           todo == tick[p].todo
<1>1. /\ tick[p] \in TickRecord /\ ChildrenOK(tick[p]) /\ tick[p].phase = "releasing"
      /\ todo # <<>> /\ UNCHANGED tables /\ TodoOK(tick[p])
      /\ todo \in Seq(ItemRecord) /\ tick[p].row \in Partial(CompensationRecord)
  BY TickFacts DEF TickInv, Release, In, TickRecord
<1>2. /\ i \in ItemRecord /\ i \in ToSet(todo) /\ Tail(todo) \in Seq(ItemRecord)
      /\ ToSet(Tail(todo)) \subseteq ToSet(todo)
  BY <1>1, TailFacts DEF Current
<1>3. e \in Executions
  BY <1>2 DEF ItemRecord
<1>4. CASE tick' = [tick EXCEPT ![p] = [tick[p] EXCEPT !.todo = Tail(todo)]]
  <2> DEFINE t == [tick[p] EXCEPT !.todo = Tail(todo)]
  <2>1. t \in TickRecord
    BY <1>1, <1>2 DEF TickRecord
  <2>2. /\ t.row = tick[p].row /\ t.fwd = tick[p].fwd /\ t.todo = Tail(todo)
        /\ t.phase = "releasing" /\ t.job = tick[p].job /\ t.child = tick[p].child
        /\ t.delivers = tick[p].delivers /\ t.expires = tick[p].expires
    BY <1>1 DEF TickRecord
  <2>3. ChildrenOK(t)
    BY <1>1, <2>2 DEF ChildrenOK
  <2> QED
    BY <1>1, <1>2, <1>4, <2>1, <2>2, <2>3, StepWithoutRow
<1> DEFINE v == Moved(r, "not_needed")
           w == Write(tick[p].row, e, v)
           t == [tick[p] EXCEPT !.todo = Tail(todo), !.row = w]
<1>5. CASE /\ i.status = "pending" /\ RowUnlocked(p, e) /\ r.version = i.version
           /\ tick' = [tick EXCEPT ![p] = t]
  \* The row has not changed since it was read: it is pending.
  <2>1. r.status = "pending"
    <3>1. SeenIn(tick[p], e) = r
      BY DEF SeenIn, RowSeenBy
    <3> QED
      BY <3>1, <1>1, <1>2, <1>5 DEF TodoOK
  <2>2. r \in CompensationRecord /\ r # NoRow
    <3>1. r \in CompensationRecord \cup {NoRow}
      BY <1>3, TickFacts
    <3> QED
      BY <3>1, <2>1 DEF NoRow
  <2>3. v \in CompensationRecord /\ v.status = "not_needed" /\ v.version > r.version
    BY <2>2, MovedFacts DEF FinalStatuses
  <2>4. w \in Partial(CompensationRecord) /\ DOMAIN w = DOMAIN tick[p].row \cup {e}
    BY <1>1, <1>3, <2>3, RowWrite DEF Write
  <2> HIDE DEF w
  <2>5. t \in TickRecord
    BY <1>1, <1>2, <2>4 DEF TickRecord, Phases, Partial
  <2>6. /\ t.row = w /\ t.fwd = tick[p].fwd /\ t.todo = Tail(todo)
        /\ t.phase = "releasing" /\ t.job = tick[p].job /\ t.child = tick[p].child
        /\ t.delivers = tick[p].delivers /\ t.expires = tick[p].expires
    BY <1>1 DEF TickRecord
  <2>7. ChildrenOK(t) /\ CallingOK(t)
    BY <1>1, <2>6 DEF ChildrenOK, CallingOK
  <2>8. e \in DOMAIN tick[p].row \/ row[e].status \notin FinalStatuses
    BY <2>1 DEF RowSeenBy, FinalStatuses
  <2>9. /\ fwd[e] # "none" \/ e \in DOMAIN t.fwd
        /\ t.row = Write(tick[p].row, e, v)
    BY <1>3, <2>2, <2>6, PendingIsBegun DEF w
  <2>10. RowUnlocked(p, e) /\ v.version > RowSeenBy(p, e).version
         /\ tick' = [tick EXCEPT ![p] = t]
    BY <1>5, <2>3
  <2> HIDE DEF t, v, e
  <2> QED
    BY <1>1, <1>2, <1>3, <2>3, <2>5, <2>6, <2>7, <2>8, <2>9, <2>10, StepWithRow
<1> QED
  BY <1>4, <1>5 DEF Release, Continue

\* What booking an execution may leave of a transaction's rows.
Bookings(p, e) ==
    {tick[p].row, Booked(p, e, "pending", TRUE), Booked(p, e, "unresolved", FALSE)}

LEMMA BookingFacts ==
    ASSUME IInv, NEW p \in Processes, NEW e \in Executions, NEW rows \in Bookings(p, e)
    PROVE  /\ rows \in Partial(CompensationRecord)
           /\ \/ rows = tick[p].row
              \/ /\ e \notin DOMAIN tick[p].row /\ row[e] = NoRow
                 /\ \E v \in CompensationRecord :
                       /\ v.status # "running" /\ v.version = 1
                       /\ rows = Write(tick[p].row, e, v)
<1>1. tick[p].row \in Partial(CompensationRecord)
  BY TickFacts
<1>2. CASE rows = tick[p].row
  BY <1>1, <1>2
<1>3. CASE rows # tick[p].row
  <2>1. PICK status \in {"pending", "unresolved"}, args \in BOOLEAN :
            rows = Booked(p, e, status, args)
    BY <1>3 DEF Bookings
  <2> DEFINE v == Entry(status, args)
  <2>2. RowSeenBy(p, e) = NoRow /\ rows = Write(tick[p].row, e, v)
    BY <1>3, <2>1 DEF Booked
  <2>3. e \notin DOMAIN tick[p].row /\ row[e] = NoRow
    <3>1. NoRow \notin CompensationRecord
      BY DEF NoRow, CompensationRecord, OpenStatuses, FinalStatuses
    <3> QED
      BY <2>2, <3>1, TickFacts DEF RowSeenBy
  <2>4. NextStamp \in Nat
    BY NextStampType DEF IInv
  <2>5. v \in CompensationRecord /\ v.status # "running" /\ v.version = 1
    BY <2>4 DEF Entry, CompensationRecord, OpenStatuses
  <2> HIDE DEF v
  <2> QED
    BY <1>1, <2>2, <2>3, <2>5, RowWrite
<1> QED
  BY <1>2, <1>3

\* A step of a transaction that books an execution.
LEMMA BookingStep ==
    ASSUME IInv, NEW p \in Processes, NEW t \in TickRecord, NEW e \in Executions,
           t.row \in Bookings(p, e), DOMAIN tick[p].fwd \subseteq DOMAIN t.fwd,
           RowUnlocked(p, e), fwd[e] # "none" \/ e \in DOMAIN t.fwd,
           tick[p].phase # "calling", t.phase # "calling",
           t.todo = tick[p].todo, ChildrenOK(t),
           tick' = [tick EXCEPT ![p] = t], UNCHANGED tables
    PROVE  IInv'
<1>1. CASE t.row = tick[p].row
  BY <1>1, StepWithoutRow
<1>2. CASE t.row # tick[p].row
  <2>1. PICK v \in CompensationRecord :
            /\ v.status # "running" /\ v.version = 1
            /\ t.row = Write(tick[p].row, e, v)
            /\ e \notin DOMAIN tick[p].row /\ row[e] = NoRow
    BY <1>2, BookingFacts
  <2>2. /\ v.version > RowSeenBy(p, e).version
        /\ row[e].status \notin FinalStatuses
    BY <2>1 DEF RowSeenBy, NoRow, FinalStatuses
  <2>3. CallingOK(t)
    BY DEF CallingOK
  <2> QED
    BY <2>1, <2>2, <2>3, StepWithRow
<1> QED
  BY <1>1, <1>2

\* What an execution comes to decides how it is booked.
LEMMA OutcomeBookings ==
    ASSUME NEW p \in Processes, NEW e \in Executions, NEW outcome, NEW keys \in BOOLEAN
    PROVE  BookedOutcome(p, e, outcome, keys) \in Bookings(p, e)
BY DEF BookedOutcome, Bookings

\* Closing the gate of an execution marks it as begun.
LEMMA ClosedFacts ==
    ASSUME IInv, NEW p \in Processes, NEW d \in Delegations, NEW status \in TerminalStatuses
    PROVE  /\ d \in Executions
           /\ Closed(p, d, status) \in Partial(WrittenStatuses)
           /\ DOMAIN tick[p].fwd \subseteq DOMAIN Closed(p, d, status)
           /\ fwd[d] # "none" \/ d \in DOMAIN Closed(p, d, status)
<1>1. d \in Executions /\ tick[p].fwd \in Partial(WrittenStatuses)
  BY TickFacts DEF Executions
<1>2. CASE StatusSeenBy(p, d) \in TerminalStatuses
  BY <1>1, <1>2 DEF Closed, StatusSeenBy, TerminalStatuses
<1>3. CASE StatusSeenBy(p, d) \notin TerminalStatuses
  <2>1. Closed(p, d, status) = Write(tick[p].fwd, d, status)
    BY <1>3 DEF Closed
  <2>2. status \in WrittenStatuses
    BY DEF WrittenStatuses, ExecutionStatuses, TerminalStatuses
  <2>3. /\ Write(tick[p].fwd, d, status) \in Partial(WrittenStatuses)
        /\ DOMAIN Write(tick[p].fwd, d, status) = DOMAIN tick[p].fwd \cup {d}
    BY <1>1, <2>2, StatusWrite
  <2> QED
    BY <1>1, <2>1, <2>3
<1> QED
  BY <1>2, <1>3

LEMMA DeliverResultStep ==
    ASSUME IInv, NEW p \in Processes, DeliverResult(p)
    PROVE  IInv'
<1> DEFINE d == tick[p].pending
           completed == child[d].status = "completed"
           status == IF completed THEN "completed" ELSE "failed"
           f == Closed(p, d, status)
           rows == IF completed
                   THEN BookedOutcome(p, d, StatusAfter(p, d, "completed"), child[d].result)
                   ELSE Booked(p, d, "unresolved", FALSE)
           t == [tick[p] EXCEPT !.phase = "unblocked", !.pending = None, !.delivers = {d},
                                !.fwd = f, !.row = rows]
<1>1. /\ tick[p] \in TickRecord /\ ChildrenOK(tick[p]) /\ tick[p].phase = "rebuilt"
      /\ tick[p].job = "wake" /\ d = tick[p].child /\ d # None /\ RowUnlocked(p, d)
      /\ UNCHANGED tables
  BY TickFacts DEF TickInv, DeliverResult, In
<1>2. d \in Delegations /\ Finished(d) /\ child[d].result \in BOOLEAN
  <2>1. d \in Delegations /\ Finished(d)
    BY <1>1 DEF ChildrenOK
  <2> QED
    BY <2>1 DEF IInv, TablesTyped, ChildRecord
<1>3. /\ d \in Executions /\ f \in Partial(WrittenStatuses)
      /\ DOMAIN tick[p].fwd \subseteq DOMAIN f
      /\ fwd[d] # "none" \/ d \in DOMAIN f
  BY <1>2, ClosedFacts DEF TerminalStatuses
<1>4. rows \in Bookings(p, d)
  <2>1. Booked(p, d, "unresolved", FALSE) \in Bookings(p, d)
    BY DEF Bookings
  <2> QED
    BY <2>1, <1>2, <1>3, OutcomeBookings
<1>5. rows \in Partial(CompensationRecord)
  BY <1>3, <1>4, BookingFacts
<1>6. tick' = [tick EXCEPT ![p] = t]
  BY DEF DeliverResult, Continue
<1> HIDE DEF f, rows
<1>7. t \in TickRecord
  BY <1>1, <1>2, <1>3, <1>5 DEF TickRecord, Phases, Partial
<1>8. /\ t.row = rows /\ t.fwd = f /\ t.todo = tick[p].todo
      /\ t.phase = "unblocked" /\ t.job = "wake" /\ t.child = d
      /\ t.delivers = {d} /\ t.expires = tick[p].expires
  BY <1>1 DEF TickRecord
<1>9. ChildrenOK(t)
  BY <1>1, <1>2, <1>8 DEF ChildrenOK
<1> HIDE DEF t, d
<1> QED
  BY <1>1, <1>3, <1>4, <1>6, <1>7, <1>8, <1>9, BookingStep

LEMMA DeclareUnknownStep ==
    ASSUME IInv, NEW p \in Processes, DeclareUnknown(p)
    PROVE  IInv'
<1> DEFINE d == tick[p].pending
           f == Closed(p, d, "failed")
           rows == Booked(p, d, "unresolved", FALSE)
           t == [tick[p] EXCEPT !.phase = "unblocked", !.pending = None, !.expires = {d},
                                !.fwd = f, !.row = rows]
<1>1. /\ tick[p] \in TickRecord /\ ChildrenOK(tick[p]) /\ tick[p].phase = "rebuilt"
      /\ tick[p].job = "expire" /\ d = tick[p].child /\ d # None /\ RowUnlocked(p, d)
      /\ UNCHANGED tables
  BY TickFacts DEF TickInv, DeclareUnknown, In
<1>2. d \in Delegations /\ child[d].status # "none"
  BY <1>1 DEF ChildrenOK
<1>3. /\ d \in Executions /\ f \in Partial(WrittenStatuses)
      /\ DOMAIN tick[p].fwd \subseteq DOMAIN f
      /\ fwd[d] # "none" \/ d \in DOMAIN f
  BY <1>2, ClosedFacts DEF TerminalStatuses
<1>4. rows \in Bookings(p, d)
  BY DEF Bookings
<1>5. rows \in Partial(CompensationRecord)
  BY <1>3, <1>4, BookingFacts
<1>6. tick' = [tick EXCEPT ![p] = t]
  BY DEF DeclareUnknown, Continue
<1> HIDE DEF f, rows
<1>7. t \in TickRecord
  BY <1>1, <1>2, <1>3, <1>5 DEF TickRecord, Phases, Partial
<1>8. /\ t.row = rows /\ t.fwd = f /\ t.todo = tick[p].todo
      /\ t.phase = "unblocked" /\ t.job = "expire" /\ t.child = d
      /\ t.delivers = tick[p].delivers /\ t.expires = {d}
  BY <1>1 DEF TickRecord
<1>9. ChildrenOK(t)
  BY <1>1, <1>2, <1>8 DEF ChildrenOK
<1> HIDE DEF t, d
<1> QED
  BY <1>1, <1>3, <1>4, <1>6, <1>7, <1>8, <1>9, BookingStep

LEMMA CancelRunStep ==
    ASSUME IInv, NEW p \in Processes, CancelRun(p)
    PROVE  IInv'
<1> DEFINE d == tick[p].pending
           stopped == d # None /\ child[d].status = "cancelled"
           f == IF d = None THEN tick[p].fwd ELSE Closed(p, d, "cancelled")
           rows == IF stopped THEN Booked(p, d, "unresolved", FALSE) ELSE tick[p].row
           delivers == IF stopped THEN tick[p].delivers \cup {d} ELSE tick[p].delivers
           t == [tick[p] EXCEPT !.phase = "closing", !.status = "cancelled",
                                !.pending = None, !.fwd = f, !.row = rows,
                                !.delivers = delivers]
<1>1. /\ tick[p] \in TickRecord /\ ChildrenOK(tick[p]) /\ tick[p].phase # "calling"
      /\ d \in Delegations \cup {None}
      /\ d # None => RowUnlocked(p, d)
      /\ tick[p].fwd \in Partial(WrittenStatuses)
      /\ tick[p].row \in Partial(CompensationRecord)
      /\ UNCHANGED tables
  BY TickFacts DEF TickInv, CancelRun, In, TickRecord
<1>2. tick' = [tick EXCEPT ![p] = t]
  <2>1. tick' = [tick EXCEPT ![p] = [tick[p] EXCEPT
            !.phase = "closing", !.status = "cancelled", !.pending = None,
            !.fwd = IF d = None THEN @ ELSE Closed(p, d, "cancelled"),
            !.row = IF stopped THEN Booked(p, d, "unresolved", FALSE) ELSE @,
            !.delivers = IF stopped THEN @ \cup {d} ELSE @]]
    BY DEF CancelRun, Continue
  <2> QED
    BY <2>1, <1>1 DEF TickRecord
<1>3. /\ f \in Partial(WrittenStatuses) /\ DOMAIN tick[p].fwd \subseteq DOMAIN f
      /\ d # None => d \in Executions
      /\ d # None => fwd[d] # "none" \/ d \in DOMAIN f
  BY <1>1, ClosedFacts DEF TerminalStatuses
<1>4. /\ rows \in Partial(CompensationRecord)
      /\ d # None => rows \in Bookings(p, d)
      /\ d = None => rows = tick[p].row
  <2>1. rows \in Bookings(p, d)
    BY DEF Bookings
  <2> QED
    BY <2>1, <1>1, <1>3, BookingFacts
<1>5. delivers \in SUBSET Delegations /\ \A x \in delivers : Finished(x)
  <2>1. tick[p].delivers \in SUBSET Delegations /\ \A x \in tick[p].delivers : Finished(x)
    BY <1>1 DEF ChildrenOK, TickRecord
  <2>2. stopped => d \in Delegations /\ Finished(d)
    BY <1>1 DEF Finished, ChildStatuses
  <2> QED
    BY <2>1, <2>2
<1> HIDE DEF f, rows, delivers
<1>6. t \in TickRecord
  BY <1>1, <1>3, <1>4, <1>5 DEF TickRecord, Phases, Partial, TerminalStatuses
<1>7. /\ t.row = rows /\ t.fwd = f /\ t.todo = tick[p].todo
      /\ t.phase = "closing" /\ t.job = tick[p].job /\ t.child = tick[p].child
      /\ t.delivers = delivers /\ t.expires = tick[p].expires
  BY <1>1 DEF TickRecord
<1>8. ChildrenOK(t)
  BY <1>1, <1>5, <1>7 DEF ChildrenOK
<1> HIDE DEF t, d
<1>9. CASE d = None
  BY <1>1, <1>2, <1>3, <1>4, <1>6, <1>7, <1>8, <1>9, StepWithoutRow
<1>10. CASE d # None
  BY <1>1, <1>2, <1>3, <1>4, <1>6, <1>7, <1>8, <1>10, BookingStep
<1> QED
  BY <1>9, <1>10

LEMMA CallToolStep ==
    ASSUME IInv, NEW p \in Processes, NEW e \in Calls,
           NEW outcome \in {"completed", "failed", "unknown", "retrying"},
           NEW keys \in BOOLEAN, CallTool(p, e, outcome, keys)
    PROVE  IInv'
<1> DEFINE f == Write(tick[p].fwd, e, IF outcome = "unknown" THEN "failed" ELSE outcome)
           rows == BookedOutcome(p, e, outcome, keys)
           t == [tick[p] EXCEPT !.fwd = f, !.row = rows]
<1>1. /\ tick[p] \in TickRecord /\ ChildrenOK(tick[p]) /\ tick[p].phase = "driving"
      /\ tick[p].fwd \in Partial(WrittenStatuses) /\ e \in Executions
      /\ Fresh(e) /\ UNCHANGED tables
  BY TickFacts DEF TickInv, CallTool, CanStep, In, Executions
<1>2. tick' = [tick EXCEPT ![p] = t]
  BY <1>1 DEF CallTool, Continue, TickRecord
<1>3. f \in Partial(WrittenStatuses) /\ DOMAIN f = DOMAIN tick[p].fwd \cup {e}
  <2> DEFINE status == IF outcome = "unknown" THEN "failed" ELSE outcome
  <2>1. status \in WrittenStatuses
    BY DEF WrittenStatuses, ExecutionStatuses, TerminalStatuses
  <2> HIDE DEF status
  <2>2. Write(tick[p].fwd, e, status) \in Partial(WrittenStatuses)
        /\ DOMAIN Write(tick[p].fwd, e, status) = DOMAIN tick[p].fwd \cup {e}
    BY <1>1, <2>1, StatusWrite
  <2> QED
    BY <2>2 DEF status
<1>4. rows \in Bookings(p, e)
  BY <1>1, OutcomeBookings
<1>5. rows \in Partial(CompensationRecord)
  BY <1>1, <1>4, BookingFacts
\* Nobody else has begun this execution, so nobody else can have booked it.
<1>6. RowUnlocked(p, e)
  <2> SUFFICES ASSUME NEW q \in Processes \ {p} PROVE e \notin DOMAIN tick[q].row
    BY DEF RowUnlocked
  <2>1. fwd[e] = "none" /\ e \notin DOMAIN tick[q].fwd
    BY <1>1 DEF Fresh
  <2> QED
    BY <2>1, TickFacts DEF TickInv, WritesOK
<1> HIDE DEF f, rows
<1>7. t \in TickRecord
  BY <1>1, <1>3, <1>5 DEF TickRecord, Partial
<1>8. /\ t.row = rows /\ t.fwd = f /\ t.todo = tick[p].todo
      /\ t.phase = "driving" /\ t.job = tick[p].job /\ t.child = tick[p].child
      /\ t.delivers = tick[p].delivers /\ t.expires = tick[p].expires
  BY <1>1 DEF TickRecord
<1>9. ChildrenOK(t)
  BY <1>1, <1>8 DEF ChildrenOK
<1> HIDE DEF t
<1> QED
  BY <1>1, <1>2, <1>3, <1>4, <1>6, <1>7, <1>8, <1>9, BookingStep

-----------------------------------------------------------------------------
(* Steps that change what is committed. *)

\* What the steps of everybody else may do to the tables a transaction has read:
\* rows are replaced by newer ones, but not those the transaction has written,
\* what has begun has begun, and what has finished stays finished.
Foreign(q) ==
    /\ \A e \in Executions : row'[e] = row[e] \/ row'[e].version > row[e].version
    /\ \A e \in DOMAIN tick[q].row : row'[e] = row[e]
    /\ \A e \in Executions : fwd[e] # "none" => fwd'[e] # "none"
    /\ \A d \in Delegations : Finished(d) => Finished(d)'
    /\ \A d \in Delegations : child[d].status # "none" => child'[d].status # "none"
    /\ \A r \in Processes : tick'[r] = tick[r] \/ tick'[r] = IdleTick

\* They leave a transaction in order.
LEMMA ForeignStep ==
    ASSUME IInv, TablesTyped', NEW q \in Processes, Foreign(q), tick'[q] = tick[q]
    PROVE  TickInv(q, tick[q])'
<1> DEFINE t == tick[q]
<1>1. /\ t \in TickRecord /\ TickInv(q, t)
      /\ DOMAIN t.row \subseteq Executions
      /\ ToSet(t.todo) \subseteq ItemRecord
      /\ \A e \in Executions : RowSeenBy(q, e).version \in Nat
  BY TickFacts
<1>2. DOMAIN IdleTick.row = {}
  BY DEF IdleTick, NoWrites
<1>3. WritesOK(q, t)'
  <2> SUFFICES ASSUME NEW e \in DOMAIN t.row
               PROVE  /\ \A r \in Processes \ {q} : e \notin DOMAIN tick'[r].row
                      /\ fwd'[e] # "none" \/ e \in DOMAIN t.fwd
                      /\ t.row[e].version > row'[e].version
                      /\ row'[e].status \notin FinalStatuses
                      /\ t.row[e].status = "running" =>
                             t.phase = "calling" /\ e = Head(t.todo).exec
    BY DEF WritesOK
  <2>1. e \in Executions /\ row'[e] = row[e]
    BY <1>1 DEF Foreign
  <2>2. /\ \A r \in Processes \ {q} : e \notin DOMAIN tick[r].row
        /\ fwd[e] # "none" \/ e \in DOMAIN t.fwd
        /\ t.row[e].version > row[e].version
        /\ row[e].status \notin FinalStatuses
        /\ t.row[e].status = "running" => t.phase = "calling" /\ e = Head(t.todo).exec
    BY <1>1 DEF TickInv, WritesOK
  <2>3. \A r \in Processes \ {q} : e \notin DOMAIN tick'[r].row
    BY <1>2, <2>2 DEF Foreign
  <2> QED
    BY <2>1, <2>2, <2>3 DEF Foreign
<1>4. CallingOK(t)'
  BY <1>1 DEF TickInv, CallingOK
<1>5. TodoOK(t)'
  <2> SUFFICES ASSUME NEW i \in ToSet(t.todo)
               PROVE  /\ i.version <= SeenIn(t, i.exec)'.version
                      /\ i.version = SeenIn(t, i.exec)'.version
                         => i.status = SeenIn(t, i.exec)'.status
    BY DEF TodoOK
  <2>1. i.exec \in Executions /\ i.version \in Nat
    BY <1>1 DEF ItemRecord
  <2>2. /\ i.version <= SeenIn(t, i.exec).version
        /\ i.version = SeenIn(t, i.exec).version => i.status = SeenIn(t, i.exec).status
        /\ SeenIn(t, i.exec).version \in Nat
    BY <1>1, <2>1 DEF TickInv, TodoOK, SeenIn, RowSeenBy
  <2>3. CASE i.exec \in DOMAIN t.row
    BY <2>2, <2>3 DEF SeenIn
  <2>4. CASE i.exec \notin DOMAIN t.row
    <3>1. SeenIn(t, i.exec) = row[i.exec] /\ SeenIn(t, i.exec)' = row'[i.exec]
      BY <2>4 DEF SeenIn
    <3>2. row'[i.exec].version \in Nat
      BY <2>1 DEF TablesTyped, CompensationRecord, NoRow
    <3> QED
      BY <2>1, <2>2, <3>1, <3>2 DEF Foreign
  <2> QED
    BY <2>3, <2>4
<1>6. ChildrenOK(t)'
  <2>1. t.delivers \subseteq Delegations /\ t.expires \subseteq Delegations
    BY <1>1 DEF TickRecord
  <2> QED
    BY <1>1, <2>1 DEF TickInv, ChildrenOK, Foreign
<1> QED
  BY <1>3, <1>4, <1>5, <1>6 DEF TickInv

\* A step that changes tables and no transaction.
LEMMA TableStep ==
    ASSUME IInv, UNCHANGED tick, TablesTyped', TablesFollow',
           \A q \in Processes : Foreign(q)
    PROVE  IInv'
<1>1. \A q \in Processes : TickInv(q, tick[q])'
  BY ForeignStep
<1> QED
  BY <1>1 DEF IInv

\* A result or a wait is settled in at most one row, the one of its delegation.
AtMostNewer(d, newRow) ==
    \/ newRow = row
    \/ \E r \in CompensationRecord :
          /\ newRow = [row EXCEPT ![d] = r]
          /\ r.version > row[d].version /\ r.status # "running"

\* The step that settles it: nobody holds the row.
LEMMA SettlesStep ==
    ASSUME IInv, NEW p \in Processes, NEW d \in Delegations, Free(p, d),
           NEW newRow, AtMostNewer(d, newRow), NEW c \in ChildRecord,
           Settles(newRow, [child EXCEPT ![d] = c]),
           c.status = child[d].status, c.status # "none",
           c.delivered => Finished(d), c.result => c.status = "completed"
    PROVE  IInv'
<1>1. /\ UNCHANGED <<run, pending, fwd, queued, tick>>
      /\ row' = newRow /\ child' = [child EXCEPT ![d] = c]
      /\ d \in Executions
  BY DEF Settles, Executions
<1>2. /\ \A e \in Executions \ {d} : row'[e] = row[e]
      /\ row'[d] = row[d] \/ row'[d].version > row[d].version
      /\ row'[d].status # "running"
      /\ row' \in [Executions -> CompensationRecord \cup {NoRow}]
  BY <1>1 DEF AtMostNewer, IInv, TablesTyped, TablesFollow
<1>3. TablesTyped'
  BY <1>1, <1>2 DEF IInv, TablesTyped
<1>4. child'[d] = c /\ \A x \in Delegations \ {d} : child'[x] = child[x]
  BY <1>1 DEF IInv, TablesTyped
<1>5. fwd[d] # "none"
  BY DEF IInv, TablesFollow
<1>6. \A x \in Delegations : Finished(x)' <=> Finished(x)
  BY <1>4 DEF Finished
<1>7. TablesFollow'
  BY <1>1, <1>2, <1>4, <1>5, <1>6 DEF IInv, TablesFollow
<1>8. ASSUME NEW q \in Processes PROVE Foreign(q)
  <2>1. d \notin DOMAIN tick[q].row /\ DOMAIN tick[q].row \subseteq Executions
    BY TickFacts DEF Free
  <2> QED
    BY <1>1, <1>2, <1>4, <1>6, <2>1 DEF Foreign
<1> QED
  BY <1>1, <1>3, <1>7, <1>8, TableStep

\* The two ways to change a row outside a transaction's writes.
LEMMA OrphanedFacts ==
    ASSUME IInv, NEW d \in Delegations
    PROVE  AtMostNewer(d, Orphaned(d))
<1> DEFINE r == Entry("unresolved", FALSE)
<1>1. NextStamp \in Nat
  BY NextStampType DEF IInv, Executions
<1>2. r \in CompensationRecord /\ r.version = 1 /\ r.status = "unresolved"
  BY <1>1 DEF Entry, CompensationRecord
<1> HIDE DEF r
<1>3. CASE row[d] = NoRow
  <2>1. Orphaned(d) = [row EXCEPT ![d] = r]
    BY <1>3 DEF Orphaned, r
  <2>2. r.version > row[d].version
    BY <1>2, <1>3 DEF NoRow
  <2> QED
    BY <1>2, <2>1, <2>2 DEF AtMostNewer
<1>4. CASE row[d] # NoRow
  BY <1>4 DEF Orphaned, AtMostNewer
<1> QED
  BY <1>3, <1>4

LEMMA ReconciledFacts ==
    ASSUME IInv, NEW d \in Delegations
    PROVE  AtMostNewer(d, Reconciled(d))
<1>1. CASE row[d].status = "unresolved"
  <2>1. row[d] \in CompensationRecord
    <3>1. row[d] \in CompensationRecord \cup {NoRow}
      BY DEF IInv, TablesTyped, Executions
    <3> QED
      BY <3>1, <1>1 DEF NoRow
  <2>2. row \in [Executions -> CompensationRecord \cup {NoRow}] /\ d \in Executions
    BY DEF IInv, TablesTyped, Executions
  <2> DEFINE m == Moved(row[d], "pending")
             up == [m EXCEPT !.args = TRUE]
             n == row[d].version + 1
             same == [row[d] EXCEPT !.version = n]
  <2>3. /\ m \in CompensationRecord /\ m.version = row[d].version + 1
        /\ m.status = "pending" /\ row[d].version \in Nat /\ n \in Nat /\ n > row[d].version
    BY <2>1, MovedFacts DEF OpenStatuses
  <2> HIDE DEF m, n
  <2>4. /\ up \in CompensationRecord /\ up.version = m.version /\ up.status = "pending"
        /\ same \in CompensationRecord /\ same.version = n /\ same.status = "unresolved"
    BY <1>1, <2>1, <2>3 DEF CompensationRecord
  <2>5. \/ Reconciled(d) = row
        \/ Reconciled(d) = [row EXCEPT ![d] = up]
        \/ Reconciled(d) = [row EXCEPT ![d] = same]
    BY <2>2 DEF Reconciled, m, n
  <2> HIDE DEF up, same
  <2> QED
    BY <2>3, <2>4, <2>5 DEF AtMostNewer
<1>2. CASE row[d].status # "unresolved"
  BY <1>2 DEF Reconciled, Upgradable, AtMostNewer
<1> QED
  BY <1>1, <1>2

LEMMA WakeLateStep ==
    ASSUME IInv, NEW p \in Processes, NEW d \in Delegations, WakeLate(p, d)
    PROVE  IInv'
<1> DEFINE c == [child[d] EXCEPT !.delivered = TRUE]
<1>1. /\ child[d] \in ChildRecord /\ Finished(d) /\ child[d].status # "none"
      /\ child[d].result => child[d].status = "completed"
  BY DEF WakeLate, ToDeliver, Finished, ChildStatuses, IInv, TablesTyped, TablesFollow
<1>2. c \in ChildRecord /\ c.status = child[d].status /\ c.result = child[d].result
  BY <1>1 DEF ChildRecord
<1>3. [child EXCEPT ![d].delivered = TRUE] = [child EXCEPT ![d] = c]
  OBVIOUS
<1>4. Free(p, d) /\ Settles(Reconciled(d), [child EXCEPT ![d] = c])
  BY <1>3 DEF WakeLate
<1> HIDE DEF c
<1> QED
  BY <1>1, <1>2, <1>4, ReconciledFacts, SettlesStep

LEMMA WakeOverStep ==
    ASSUME IInv, NEW p \in Processes, NEW d \in Delegations, WakeOver(p, d)
    PROVE  IInv'
<1> DEFINE c == [child[d] EXCEPT !.delivered = TRUE]
           newRow == IF run = "completed" THEN row ELSE Orphaned(d)
<1>1. /\ child[d] \in ChildRecord /\ Finished(d) /\ child[d].status # "none"
      /\ child[d].result => child[d].status = "completed"
  BY DEF WakeOver, ToDeliver, Finished, ChildStatuses, IInv, TablesTyped, TablesFollow
<1>2. c \in ChildRecord /\ c.status = child[d].status /\ c.result = child[d].result
  BY <1>1 DEF ChildRecord
<1>3. [child EXCEPT ![d].delivered = TRUE] = [child EXCEPT ![d] = c]
  OBVIOUS
<1>4. Free(p, d) /\ Settles(newRow, [child EXCEPT ![d] = c])
  BY <1>3 DEF WakeOver
<1>5. AtMostNewer(d, newRow)
  BY OrphanedFacts DEF AtMostNewer
<1> HIDE DEF c, newRow
<1> QED
  BY <1>1, <1>2, <1>4, <1>5, SettlesStep

LEMMA ExpireOverStep ==
    ASSUME IInv, NEW p \in Processes, NEW d \in Delegations, ExpireOver(p, d)
    PROVE  IInv'
<1> DEFINE c == [child[d] EXCEPT !.expired = TRUE]
<1>1. /\ child[d] \in ChildRecord /\ child[d].status = "running"
      /\ child[d].delivered => Finished(d)
      /\ child[d].result => child[d].status = "completed"
  BY DEF ExpireOver, Overdue, Running, IInv, TablesTyped, TablesFollow
<1>2. /\ c \in ChildRecord /\ c.status = child[d].status /\ c.result = child[d].result
      /\ c.delivered = child[d].delivered
  BY <1>1 DEF ChildRecord
<1>3. [child EXCEPT ![d].expired = TRUE] = [child EXCEPT ![d] = c]
  OBVIOUS
<1>4. Free(p, d) /\ Settles(Orphaned(d), [child EXCEPT ![d] = c])
  BY <1>3 DEF ExpireOver
<1> HIDE DEF c
<1> QED
  BY <1>1, <1>2, <1>4, OrphanedFacts, SettlesStep

LEMMA AbandonChildStep ==
    ASSUME IInv, NEW p \in Processes, NEW d \in Delegations, AbandonChild(p, d)
    PROVE  IInv'
<1> DEFINE c == child[d]
<1>1. /\ c \in ChildRecord /\ c.status = "running"
      /\ c.delivered => Finished(d)
      /\ c.result => c.status = "completed"
  BY DEF AbandonChild, Running, IInv, TablesTyped, TablesFollow
<1>2. child = [child EXCEPT ![d] = c]
  BY DEF IInv, TablesTyped
<1>3. Free(p, d) /\ Settles(Orphaned(d), [child EXCEPT ![d] = c])
  BY <1>2 DEF AbandonChild
<1> QED
  BY <1>1, <1>3, OrphanedFacts, SettlesStep

LEMMA ChildFinishesStep ==
    ASSUME IInv, NEW d \in Delegations, NEW status \in ChildStatuses,
           NEW keys \in BOOLEAN, ChildFinishes(d, status, keys)
    PROVE  IInv'
<1> DEFINE c == [child[d] EXCEPT !.status = status, !.result = keys]
<1>1. /\ child[d] \in ChildRecord /\ child[d].status = "running"
      /\ keys => status = "completed"
      /\ UNCHANGED <<run, pending, fwd, row, queued, tick>>
  BY DEF ChildFinishes, Running, IInv, TablesTyped
<1>2. /\ c \in ChildRecord /\ c.status = status /\ c.result = keys
      /\ c.delivered = child[d].delivered /\ c.expired = child[d].expired
  BY <1>1 DEF ChildRecord
<1>3. child' = [child EXCEPT ![d] = c]
  BY <1>1 DEF ChildFinishes, IInv, TablesTyped
<1> HIDE DEF c
<1>4. child'[d] = c /\ \A x \in Delegations \ {d} : child'[x] = child[x]
  BY <1>3 DEF IInv, TablesTyped
<1>5. TablesTyped'
  BY <1>1, <1>2, <1>3 DEF IInv, TablesTyped
<1>6. status # "none" /\ \A x \in Delegations : Finished(x) => Finished(x)'
  BY <1>2, <1>4 DEF Finished, ChildStatuses
<1>7. TablesFollow'
  BY <1>1, <1>2, <1>4, <1>6 DEF IInv, TablesFollow
<1>8. \A q \in Processes : Foreign(q)
  BY <1>1, <1>2, <1>4, <1>6 DEF Foreign
<1> QED
  BY <1>1, <1>5, <1>7, <1>8, TableStep

LEMMA UndoIsRetriedStep ==
    ASSUME IInv, NEW q \in queued, UndoIsRetried(q)
    PROVE  IInv'
<1>1. /\ UNCHANGED <<run, pending, fwd, row, child, tick>>
      /\ queued' \subseteq queued
  BY DEF UndoIsRetried
<1>2. TablesTyped'
  BY <1>1 DEF IInv, TablesTyped
<1>3. TablesFollow'
  BY <1>1 DEF IInv, TablesFollow, Finished
<1>4. \A p \in Processes : Foreign(p)
  BY <1>1 DEF Foreign, Finished
<1> QED
  BY <1>1, <1>2, <1>3, <1>4, TableStep

LEMMA CallIsRetriedStep ==
    ASSUME IInv, NEW e \in Executions, CallIsRetried(e)
    PROVE  IInv'
<1>1. PICK status \in {"completed", "failed"} : fwd' = [fwd EXCEPT ![e] = status]
  BY DEF CallIsRetried
<1>2. UNCHANGED <<run, pending, row, queued, child, tick>>
  BY DEF CallIsRetried
<1>3. /\ fwd' \in [Executions -> ExecutionStatuses]
      /\ fwd'[e] # "none" /\ \A x \in Executions \ {e} : fwd'[x] = fwd[x]
  BY <1>1 DEF IInv, TablesTyped, ExecutionStatuses, TerminalStatuses
<1>4. TablesTyped'
  BY <1>2, <1>3 DEF IInv, TablesTyped
<1>5. TablesFollow'
  BY <1>2, <1>3 DEF IInv, TablesFollow, Finished, Executions
<1>6. \A p \in Processes : Foreign(p)
  BY <1>2, <1>3 DEF Foreign, Finished
<1> QED
  BY <1>2, <1>4, <1>5, <1>6, TableStep

LEMMA ReopenStep ==
    ASSUME IInv, NEW e \in Executions, Reopen(e)
    PROVE  IInv'
<1> DEFINE r == Moved(row[e], "pending")
<1>1. /\ UNCHANGED <<run, pending, fwd, queued, child, tick>>
      /\ row' = [row EXCEPT ![e] = r]
      /\ row[e].status = "unresolved"
      /\ \A p \in Processes : e \notin DOMAIN tick[p].row
  BY DEF Reopen, Allowed
<1>2. row[e] \in CompensationRecord /\ row[e] # NoRow
  <2>1. row[e] \in CompensationRecord \cup {NoRow}
    BY DEF IInv, TablesTyped
  <2> QED
    BY <2>1, <1>1 DEF NoRow
<1>3. /\ r \in CompensationRecord /\ r.status = "pending" /\ r.version > row[e].version
  BY <1>2, MovedFacts DEF OpenStatuses
<1> HIDE DEF r
<1>4. /\ row' \in [Executions -> CompensationRecord \cup {NoRow}]
      /\ row'[e] = r /\ \A x \in Executions \ {e} : row'[x] = row[x]
  BY <1>1, <1>3 DEF IInv, TablesTyped
<1>5. TablesTyped'
  BY <1>1, <1>4 DEF IInv, TablesTyped
<1>6. TablesFollow'
  BY <1>1, <1>2, <1>3, <1>4 DEF IInv, TablesFollow, Finished
<1>7. ASSUME NEW p \in Processes PROVE Foreign(p)
  <2>1. DOMAIN tick[p].row \subseteq Executions /\ e \notin DOMAIN tick[p].row
    BY <1>1, TickFacts
  <2> QED
    BY <1>1, <1>3, <1>4, <2>1 DEF Foreign, Finished
<1> QED
  BY <1>1, <1>5, <1>6, <1>7, TableStep

\* Commit: what the transaction wrote becomes what is committed.
LEMMA CommitStep ==
    ASSUME IInv, NEW p \in Processes, Commit(p)
    PROVE  IInv'
<1> DEFINE t == tick[p]
<1>1. /\ t \in TickRecord /\ TickInv(p, t)
      /\ t.fwd \in Partial(WrittenStatuses)
      /\ DOMAIN t.row \subseteq Executions
      /\ \A e \in DOMAIN t.row : t.row[e] \in CompensationRecord
      /\ \A e \in DOMAIN t.fwd : t.fwd[e] \in WrittenStatuses
  BY TickFacts
<1>2. /\ fwd' = Over(t.fwd, fwd) /\ row' = Over(t.row, row)
      /\ queued' = queued \cup t.queued
      /\ child' = [d \in Delegations |-> Marked(p, d)]
      /\ tick' = [tick EXCEPT ![p] = IdleTick]
      /\ t.phase # "calling"
  BY DEF Commit, Done, In, Continue
<1>3. /\ row' \in [Executions -> CompensationRecord \cup {NoRow}]
      /\ \A e \in Executions :
            row'[e] = IF e \in DOMAIN t.row THEN t.row[e] ELSE row[e]
  BY <1>1, <1>2 DEF Over, IInv, TablesTyped
<1>4. /\ fwd' \in [Executions -> ExecutionStatuses]
      /\ \A e \in Executions :
            fwd'[e] = IF e \in DOMAIN t.fwd THEN t.fwd[e] ELSE fwd[e]
  BY <1>1, <1>2 DEF Over, IInv, TablesTyped, WrittenStatuses
<1>5. \A e \in Executions : fwd[e] # "none" \/ e \in DOMAIN t.fwd => fwd'[e] # "none"
  BY <1>1, <1>4 DEF WrittenStatuses
<1>6. \A e \in Executions : row'[e] = row[e] \/ row'[e].version > row[e].version
  BY <1>1, <1>3 DEF TickInv, WritesOK
<1>7. \A e \in Executions :
          /\ row'[e].status # "running"
          /\ row'[e] # NoRow => fwd'[e] # "none"
  BY <1>1, <1>2, <1>3, <1>5 DEF TickInv, WritesOK, IInv, TablesFollow
<1>8. ASSUME NEW d \in Delegations
      PROVE  /\ child'[d] \in ChildRecord
             /\ child'[d].status = IF d \in DOMAIN t.fwd /\ fwd[d] = "none"
                                   THEN "running" ELSE child[d].status
             /\ child'[d].delivered = (child[d].delivered \/ d \in t.delivers)
             /\ child'[d].expired = (child[d].expired \/ d \in t.expires)
             /\ child'[d].result = child[d].result
  <2>1. child[d] \in ChildRecord /\ child'[d] = Marked(p, d)
    BY <1>2 DEF IInv, TablesTyped
  <2> QED
    BY <2>1 DEF Marked, ChildRecord
<1>9. ASSUME NEW d \in Delegations
      PROVE  /\ Finished(d) => Finished(d)'
             /\ child[d].status # "none" => child'[d].status # "none"
             /\ child'[d].status # "none" => fwd'[d] # "none"
             /\ child'[d].delivered => Finished(d)'
             /\ child'[d].expired => child'[d].status # "none"
             /\ child'[d].result => child'[d].status = "completed"
  <2>1. d \in Executions
    BY DEF Executions
  <2>2. /\ child[d].status # "none" => fwd[d] # "none"
        /\ child[d].delivered => Finished(d)
        /\ child[d].expired => child[d].status # "none"
        /\ child[d].result => child[d].status = "completed"
    BY DEF IInv, TablesFollow
  <2>3. /\ d \in t.delivers => Finished(d)
        /\ d \in t.expires => child[d].status # "none"
    BY <1>1 DEF TickInv, ChildrenOK
  <2>4. child[d].status # "none" => child'[d].status = child[d].status
    BY <1>8, <2>2
  <2>5. Finished(d) => child[d].status # "none"
    BY DEF Finished, ChildStatuses
  <2>6. Finished(d) => Finished(d)'
    BY <2>4, <2>5 DEF Finished
  <2>7. child'[d].status # "none" => fwd'[d] # "none"
    BY <1>5, <1>8, <2>1, <2>2
  <2>8. child'[d].delivered => Finished(d)'
    BY <1>8, <2>2, <2>3, <2>6
  <2>9. child'[d].expired => child'[d].status # "none"
    BY <1>8, <2>2, <2>3, <2>4
  <2>10. child'[d].result => child'[d].status = "completed"
    BY <1>8, <2>2, <2>4
  <2> QED
    BY <2>4, <2>6, <2>7, <2>8, <2>9, <2>10
<1>10. TablesTyped'
  <2>1. child' \in [Delegations -> ChildRecord]
    BY <1>2, <1>8
  <2>2. queued' \subseteq QueuedUndo
    BY <1>1, <1>2 DEF IInv, TablesTyped, TickRecord
  <2>3. /\ run' \in {"running"} \cup TerminalStatuses
        /\ pending' \in Delegations \cup {None}
    BY <1>1 DEF Commit, IInv, TablesTyped, TickRecord
  <2> QED
    BY <1>3, <1>4, <2>1, <2>2, <2>3 DEF TablesTyped
<1>11. TablesFollow'
  BY <1>7, <1>9 DEF TablesFollow
<1>12. IdleTick \in TickRecord /\ tick' \in [Processes -> TickRecord] /\ tick'[p] = IdleTick
  BY <1>2, IdleFacts DEF IInv
<1>13. TickInv(p, tick[p])'
  BY <1>12 DEF TickInv, WritesOK, CallingOK, TodoOK, ChildrenOK, IdleTick, NoWrites, ToSet
<1>14. ASSUME NEW q \in Processes \ {p} PROVE TickInv(q, tick[q])'
  <2>1. tick'[q] = tick[q] /\ \A r \in Processes : tick'[r] = tick[r] \/ tick'[r] = IdleTick
    BY <1>2 DEF IInv
  <2>2. ASSUME NEW e \in DOMAIN tick[q].row PROVE row'[e] = row[e]
    <3>1. e \in Executions
      BY TickFacts
    <3>2. e \notin DOMAIN t.row
      BY <1>1 DEF TickInv, WritesOK
    <3> QED
      BY <3>1, <3>2, <1>3
  <2>3. Foreign(q)
    BY <1>5, <1>6, <1>9, <2>1, <2>2 DEF Foreign
  <2> QED
    BY <1>10, <2>1, <2>3, ForeignStep
<1> QED
  BY <1>10, <1>11, <1>12, <1>13, <1>14 DEF IInv

-----------------------------------------------------------------------------
(* The invariant. *)

LEMMA InitInv == Init => IInv
<1> SUFFICES ASSUME Init PROVE IInv
  OBVIOUS
<1>1. NoRow.status = "none"
  BY DEF NoRow
<1>2. TablesTyped
  BY DEF Init, TablesTyped, ExecutionStatuses, ChildRecord, NoChild
<1>3. TablesFollow
  BY <1>1 DEF Init, TablesFollow, Finished, NoChild, ChildStatuses, Executions
<1>4. tick \in [Processes -> TickRecord] /\ \A p \in Processes : TickInv(p, tick[p])
  BY IdleFacts DEF Init
<1> QED
  BY <1>2, <1>3, <1>4 DEF IInv

\* Every step of a process keeps it.
LEMMA StepInv ==
    ASSUME IInv, NEW p \in Processes, Step(p)
    PROVE  IInv'
<1>1. ASSUME NEW d \in Delegations,
             \/ WakeLate(p, d) \/ WakeOver(p, d) \/ ExpireOver(p, d) \/ AbandonChild(p, d)
      PROVE  IInv'
  BY <1>1, WakeLateStep, WakeOverStep, ExpireOverStep, AbandonChildStep
<1>2. ASSUME NEW job \in JobsOf[p], NEW d \in Delegations \cup {None}, Rebuild(p, job, d)
      PROVE  IInv'
  BY <1>2, RebuildStep
<1>3. ASSUME DeliverResult(p) \/ DeclareUnknown(p) \/ AlreadyClosed(p) \/ Drive(p) \/ CancelRun(p)
      PROVE  IInv'
  BY <1>3, DeliverResultStep, DeclareUnknownStep, AlreadyClosedStep, DriveStep, CancelRunStep
<1>4. ASSUME NEW e \in Calls, NEW o \in {"completed", "failed", "unknown", "retrying"},
             NEW keys \in BOOLEAN, CallTool(p, e, o, keys)
      PROVE  IInv'
  BY <1>4, CallToolStep
<1>5. ASSUME NEW d \in Delegations, Delegate(p, d) PROVE IInv'
  BY <1>5, DelegateStep
<1>6. ASSUME Pause(p) \/ Fail(p) \/ Complete(p) PROVE IInv'
  BY <1>6, PauseStep, GiveVerdictStep DEF Fail, Complete
<1>7. ASSUME Claim(p) \/ (\E o \in UndoOutcomes : CallUndo(p, o)) \/ Release(p) PROVE IInv'
  BY <1>7, ClaimStep, CallUndoStep, ReleaseStep
<1>8. ASSUME Commit(p) \/ Abort(p) \/ Raise(p) PROVE IInv'
  BY <1>8, CommitStep, RollBackStep DEF Abort, Raise
<1> QED
  BY <1>1, <1>2, <1>3, <1>4, <1>5, <1>6, <1>7, <1>8 DEF Step

LEMMA NextInv == IInv /\ [Next]_vars => IInv'
<1> SUFFICES ASSUME IInv, [Next]_vars PROVE IInv'
  OBVIOUS
<1>1. ASSUME NEW p \in Processes, Step(p) PROVE IInv'
  BY <1>1, StepInv
<1>2. ASSUME Environment PROVE IInv'
  BY <1>2, ChildFinishesStep, UndoIsRetriedStep, CallIsRetriedStep, ReopenStep DEF Environment
<1>3. ASSUME UNCHANGED vars PROVE IInv'
  <2>1. UNCHANGED tick /\ UNCHANGED tables
    BY <1>3 DEF vars
  <2>2. UNCHANGED <<run, pending, fwd, row, queued, child>>
    BY <2>1 DEF tables
  <2>3. TablesTyped' /\ TablesFollow'
    BY <2>2 DEF IInv, TablesTyped, TablesFollow, Finished
  <2>4. \A q \in Processes : Foreign(q)
    BY <2>1, <2>2 DEF Foreign, Finished
  <2> QED
    BY <2>1, <2>3, <2>4, TableStep
<1> QED
  BY <1>1, <1>2, <1>3 DEF Next

\* What is compensated or not needed stays as it is in every step.
LEMMA FinalStays ==
    ASSUME IInv, [Next]_vars, NEW e \in Executions, row[e].status \in FinalStatuses
    PROVE  row'[e] = row[e]
<1>1. row[e].status # "unresolved" /\ row[e] # NoRow
  BY DEF FinalStatuses, NoRow
<1>2. row \in [Executions -> CompensationRecord \cup {NoRow}]
  BY DEF IInv, TablesTyped
<1>3. ASSUME NEW d \in Delegations
      PROVE  Orphaned(d)[e] = row[e] /\ Reconciled(d)[e] = row[e]
  BY <1>1, <1>2 DEF Orphaned, Reconciled, Upgradable
<1>4. ASSUME NEW p \in Processes, NEW d \in Delegations,
             \/ WakeLate(p, d) \/ WakeOver(p, d) \/ ExpireOver(p, d) \/ AbandonChild(p, d)
      PROVE  row'[e] = row[e]
  BY <1>3, <1>4 DEF WakeLate, WakeOver, ExpireOver, AbandonChild, Settles
<1>5. ASSUME NEW p \in Processes, Commit(p)
      PROVE  row'[e] = row[e]
  <2>1. e \notin DOMAIN tick[p].row
    BY TickFacts DEF TickInv, WritesOK
  <2>2. row' = Over(tick[p].row, row)
    BY <1>5 DEF Commit
  <2> QED
    BY <1>2, <2>1, <2>2 DEF Over
<1>6. ASSUME NEW x \in Executions, Reopen(x)
      PROVE  row'[e] = row[e]
  <2>1. row[x].status = "unresolved" /\ row' = [row EXCEPT ![x] = Moved(row[x], "pending")]
    BY <1>6 DEF Reopen, Allowed
  <2> QED
    BY <1>1, <1>2, <2>1
<1>7. ASSUME UNCHANGED tables \/ UNCHANGED row PROVE row'[e] = row[e]
  BY <1>7 DEF tables
<1>8. ASSUME NEW p \in Processes, Step(p) PROVE row'[e] = row[e]
  <2>1. \/ \E d \in Delegations :
              WakeLate(p, d) \/ WakeOver(p, d) \/ ExpireOver(p, d) \/ AbandonChild(p, d)
        \/ Commit(p)
        \/ UNCHANGED tables
    BY <1>8 DEF Step, Rebuild, DeliverResult, DeclareUnknown, AlreadyClosed, Drive, CancelRun,
                CallTool, Delegate, Pause, Fail, Complete, GiveVerdict, Claim, CallUndo,
                Release, Abort, Raise, RollBack
  <2> QED
    BY <2>1, <1>4, <1>5, <1>7
<1>9. ASSUME Environment PROVE row'[e] = row[e]
  <2>1. (\E x \in Executions : Reopen(x)) \/ UNCHANGED row
    BY <1>9 DEF Environment, ChildFinishes, UndoIsRetried, CallIsRetried
  <2> QED
    BY <2>1, <1>6, <1>7
<1> QED
  BY <1>7, <1>8, <1>9 DEF Next, vars

-----------------------------------------------------------------------------
(* What undoing costs, and in which order: a second invariant, next to the   *)
(* first.                                                                     *)

\* The calls of e's undo so far and those that the kernel is going to repeat, and what
\* pays for them: one undo, one more for each time a human reopened the row or a tick
\* that had undone it was rolled back.
Owed(Q, e) == Cardinality({q \in Q : q.exec = e})
Dues(e) == undone[e] + blind[e] + Owed(queued, e)
Credit(e) == 1 + reopened[e] + lost[e]

\* What a row still costs: one undo if it may be claimed or has been, and one if it
\* lacks its arguments, because then only a human lets it be undone.
Cost(r) ==
    (IF r.status \in {"pending", "running", "not_needed"} THEN 1 ELSE 0)
    + (IF r.args THEN 0 ELSE 1)

Called(e) == \E q \in Processes : e \in tick[q].called

\* What may become of a row that has its arguments, but by a human.
Keeps(r, s) == r.args => s = r \/ (s.args /\ s.at = r.at /\ s.status # "pending")

\* A row that lacks its arguments was put back by a human if it may be undone.
Guarded(e, r) == r.status \in OpenStatuses /\ ~ r.args => reopened[e] > 0

\* What the transaction t writes is paid for, and follows what it found.
WrittenPaid(t, e) ==
    /\ Keeps(row[e], t.row[e]) /\ Guarded(e, t.row[e])
    /\ Dues(e) + Owed(t.queued, e) + Cost(t.row[e]) <= Credit(e)

SpendingOK(t) ==
    /\ IsFiniteSet(t.queued)
    /\ \A q \in t.queued : q.exec \in DOMAIN t.row /\ (~ q.args => reopened[q.exec] > 0)
    /\ t.called \subseteq DOMAIN t.row /\ (t.phase = "idle" => t.called = {})
    /\ \A e \in t.called : t.row[e].status \in {"compensated", "unresolved"}
    /\ \A e \in DOMAIN t.row : WrittenPaid(t, e)

\* What was pending at the verdict is still to be dealt with, or is pending no more.
Listed(t, e) ==
    /\ SeenIn(t, e).args
    /\ SeenIn(t, e).status = "pending" =>
           \E i \in ToSet(t.todo) : i.exec = e /\ i.at = SeenIn(t, e).at

YoungestFirst(s) == \A i, j \in 1 .. Len(s) : i < j => Younger(s[i], s[j])

OrderOK(t) ==
    t.phase \in {"undoing", "calling"} =>
        /\ YoungestFirst(t.todo)
        /\ \A e \in t.seen : reopened[e] = 0 => Listed(t, e)
        /\ t.phase = "calling" => t.row[Head(t.todo).exec].status = "running"

RowPaid(e) ==
    /\ Guarded(e, row[e]) /\ (blind[e] > 0 => reopened[e] > 0)
    /\ Dues(e) + Cost(row[e]) <= Credit(e) + (IF Called(e) THEN 1 ELSE 0)

TablesPaid ==
    /\ IsFiniteSet(queued) /\ \A q \in queued : ~ q.args => reopened[q.exec] > 0
    /\ \A e \in Executions : RowPaid(e)

CountsTyped ==
    /\ undone \in [Executions -> Nat] /\ blind \in [Executions -> Nat]
    /\ reopened \in [Executions -> Nat] /\ lost \in [Executions -> Nat]

PInv ==
    /\ CountsTyped /\ TablesPaid
    /\ \A p \in Processes : SpendingOK(tick[p]) /\ OrderOK(tick[p])

-----------------------------------------------------------------------------
(* Counting. *)

LEMMA CostFacts ==
    ASSUME NEW r
    PROVE  Cost(r) \in Nat
BY DEF Cost

LEMMA OwedFacts ==
    ASSUME NEW Q, IsFiniteSet(Q), NEW e
    PROVE  /\ Owed(Q, e) \in Nat
           /\ (\A q \in Q : q.exec # e) => Owed(Q, e) = 0
<1> DEFINE S == {q \in Q : q.exec = e}
<1>1. IsFiniteSet(S)
  BY FS_Subset
<1>2. Cardinality(S) \in Nat
  BY <1>1, FS_CardinalityType
<1>3. (\A q \in Q : q.exec # e) => S = {}
  OBVIOUS
<1> QED
  BY <1>2, <1>3, FS_EmptySet DEF Owed

\* One more undo in the queue, and one less.
LEMMA OwedMore ==
    ASSUME NEW Q, IsFiniteSet(Q), NEW x, NEW e
    PROVE  /\ IsFiniteSet(Q \cup {x})
           /\ Owed(Q \cup {x}, e) <= Owed(Q, e) + 1
           /\ x.exec # e => Owed(Q \cup {x}, e) = Owed(Q, e)
<1> DEFINE S == {q \in Q : q.exec = e}
           T == {q \in Q \cup {x} : q.exec = e}
<1>1. IsFiniteSet(S)
  BY FS_Subset
<1>2. T = IF x.exec = e THEN S \cup {x} ELSE S
  OBVIOUS
<1>3. Cardinality(S \cup {x}) = IF x \in S THEN Cardinality(S) ELSE Cardinality(S) + 1
  BY <1>1, FS_AddElement
<1>4. Cardinality(S) \in Nat
  BY <1>1, FS_CardinalityType
<1>5. Owed(Q, e) = Cardinality(S) /\ Owed(Q \cup {x}, e) = Cardinality(T)
  BY DEF Owed
<1> HIDE DEF S, T
<1> QED
  BY <1>2, <1>3, <1>4, <1>5, FS_AddElement

LEMMA OwedLess ==
    ASSUME NEW Q, IsFiniteSet(Q), NEW x \in Q, NEW e
    PROVE  /\ IsFiniteSet(Q \ {x})
           /\ Owed(Q \ {x}, e) = IF x.exec = e THEN Owed(Q, e) - 1 ELSE Owed(Q, e)
<1> DEFINE S == {q \in Q : q.exec = e}
           T == {q \in Q \ {x} : q.exec = e}
<1>1. IsFiniteSet(S)
  BY FS_Subset
<1>2. T = IF x.exec = e THEN S \ {x} ELSE S
  OBVIOUS
<1>3. x.exec = e => x \in S
  OBVIOUS
<1>4. Cardinality(S \ {x}) = IF x \in S THEN Cardinality(S) - 1 ELSE Cardinality(S)
  BY <1>1, FS_RemoveElement
<1>5. Owed(Q, e) = Cardinality(S) /\ Owed(Q \ {x}, e) = Cardinality(T)
  BY DEF Owed
<1> HIDE DEF S, T
<1> QED
  BY <1>2, <1>3, <1>4, <1>5, FS_RemoveElement

LEMMA OwedTogether ==
    ASSUME NEW Q, IsFiniteSet(Q), NEW R, IsFiniteSet(R), NEW e
    PROVE  /\ IsFiniteSet(Q \cup R)
           /\ Owed(Q \cup R, e) <= Owed(Q, e) + Owed(R, e)
<1> DEFINE S == {q \in Q : q.exec = e}
           T == {q \in R : q.exec = e}
<1>1. IsFiniteSet(S) /\ IsFiniteSet(T)
  BY FS_Subset
<1>2. {q \in Q \cup R : q.exec = e} = S \cup T
  OBVIOUS
<1>3. /\ Cardinality(S \cup T) = Cardinality(S) + Cardinality(T) - Cardinality(S \cap T)
      /\ IsFiniteSet(S \cap T)
  BY <1>1, FS_Union, FS_Subset
<1>4. Cardinality(S) \in Nat /\ Cardinality(T) \in Nat /\ Cardinality(S \cap T) \in Nat
  BY <1>1, <1>3, FS_CardinalityType
<1>5. Owed(Q, e) = Cardinality(S) /\ Owed(R, e) = Cardinality(T) /\ Owed(Q \cup R, e) = Cardinality(S \cup T)
  BY <1>2 DEF Owed
<1>6. IsFiniteSet(Q \cup R)
  BY FS_Union
<1> HIDE DEF S, T
<1> QED
  BY <1>3, <1>4, <1>5, <1>6

\* The counts are numbers.
LEMMA DuesFacts ==
    ASSUME PInv, NEW e \in Executions
    PROVE  Dues(e) \in Nat /\ Credit(e) \in Nat /\ reopened[e] \in Nat
<1>1. undone[e] \in Nat /\ blind[e] \in Nat /\ reopened[e] \in Nat /\ lost[e] \in Nat
  BY DEF PInv, CountsTyped
<1>2. Owed(queued, e) \in Nat
  BY OwedFacts DEF PInv, TablesPaid
<1> QED
  BY <1>1, <1>2 DEF Dues, Credit

\* Rows of p's transaction are in no other one, and nobody else has called their undo.
LEMMA CallsAreExclusive ==
    ASSUME IInv, PInv, NEW p \in Processes, NEW e \in Executions, RowUnlocked(p, e)
    PROVE  Called(e) <=> e \in tick[p].called
BY DEF PInv, SpendingOK, RowUnlocked, Called

-----------------------------------------------------------------------------
(* Steps inside one transaction. *)

LEMMA LocalPaid ==
    ASSUME IInv, PInv, NEW p \in Processes, NEW t,
           SpendingOK(t), OrderOK(t), t.called = tick[p].called,
           tick' = [tick EXCEPT ![p] = t], UNCHANGED <<tables, world, history>>
    PROVE  PInv'
<1>1. /\ row' = row /\ queued' = queued /\ undone' = undone /\ blind' = blind
      /\ reopened' = reopened /\ lost' = lost
  BY DEF tables, world, history
<1>2. tick'[p] = t /\ \A q \in Processes \ {p} : tick'[q] = tick[q]
  BY DEF IInv
<1>3. \A u : SpendingOK(u) => SpendingOK(u)'
  BY <1>1 DEF SpendingOK, WrittenPaid, Guarded, Dues, Credit
<1>4. \A u : OrderOK(u) => OrderOK(u)'
  BY <1>1 DEF OrderOK, Listed, SeenIn
<1>5. \A q \in Processes : SpendingOK(tick[q])' /\ OrderOK(tick[q])'
  <2> SUFFICES ASSUME NEW q \in Processes
               PROVE  SpendingOK(tick[q])' /\ OrderOK(tick[q])'
    OBVIOUS
  <2>1. CASE q = p
    BY <1>2, <1>3, <1>4, <2>1 DEF SpendingOK, WrittenPaid, Guarded, Dues, Credit, OrderOK, Listed, SeenIn
  <2>2. CASE q # p
    <3>1. SpendingOK(tick[q]) /\ OrderOK(tick[q]) /\ tick'[q] = tick[q]
      BY <1>2, <2>2 DEF PInv
    <3> QED
      BY <1>1, <3>1, SMTT(20) DEF SpendingOK, WrittenPaid, Guarded, Dues, Credit, OrderOK, Listed, SeenIn
  <2> QED
    BY <2>1, <2>2
<1>6. \A q \in Processes : tick'[q].called = tick[q].called
  BY <1>2
<1>7. \A e : Called(e)' <=> Called(e)
  BY <1>6 DEF Called
<1>8. \A e \in Executions : RowPaid(e)'
  BY <1>1, <1>7 DEF PInv, TablesPaid, RowPaid, Guarded, Dues, Credit
<1>9. TablesPaid'
  BY <1>1, <1>8 DEF PInv, TablesPaid
<1>10. CountsTyped'
  BY <1>1 DEF PInv, CountsTyped
<1> QED
  BY <1>5, <1>9, <1>10 DEF PInv

\* A step that writes, queues and calls nothing.
LEMMA QuietStep ==
    ASSUME IInv, PInv, NEW p \in Processes, NEW t,
           t.row = tick[p].row, t.queued = tick[p].queued, t.called = tick[p].called,
           t.phase # "idle", OrderOK(t),
           tick' = [tick EXCEPT ![p] = t], UNCHANGED <<tables, world, history>>
    PROVE  PInv'
<1>1. SpendingOK(tick[p])
  BY DEF PInv
<1>2. SpendingOK(t)
  BY <1>1 DEF SpendingOK, WrittenPaid
<1> QED
  BY <1>2, LocalPaid

\* A step that writes one row and neither queues nor calls anything.
LEMMA WritingStep ==
    ASSUME IInv, PInv, NEW p \in Processes, NEW t, NEW e \in Executions, NEW v,
           t.row = Write(tick[p].row, e, v), t.queued = tick[p].queued, t.called = tick[p].called,
           t.phase # "idle", e \notin tick[p].called,
           Keeps(RowSeenBy(p, e), v), Guarded(e, v), Cost(v) <= Cost(RowSeenBy(p, e)),
           RowUnlocked(p, e), OrderOK(t),
           tick' = [tick EXCEPT ![p] = t], UNCHANGED <<tables, world, history>>
    PROVE  PInv'
<1>1. SpendingOK(tick[p]) /\ RowPaid(e)
  BY DEF PInv, TablesPaid
<1>2. /\ DOMAIN t.row = DOMAIN tick[p].row \cup {e} /\ t.row[e] = v
      /\ \A x \in DOMAIN tick[p].row : x # e => t.row[x] = tick[p].row[x]
  BY DEF Write
<1>3. Dues(e) \in Nat /\ Credit(e) \in Nat /\ Cost(v) \in Nat /\ Cost(RowSeenBy(p, e)) \in Nat
      /\ Owed(tick[p].queued, e) \in Nat
  BY <1>1, DuesFacts, CostFacts, OwedFacts DEF SpendingOK
<1>4. WrittenPaid(t, e)
  <2>1. CASE e \in DOMAIN tick[p].row
    <3>1. RowSeenBy(p, e) = tick[p].row[e] /\ WrittenPaid(tick[p], e)
      BY <1>1, <2>1 DEF RowSeenBy, SpendingOK
    <3>2. Keeps(row[e], v)
      BY <3>1 DEF WrittenPaid, Keeps
    <3>3. Dues(e) + Owed(tick[p].queued, e) + Cost(v) <= Credit(e)
      BY <1>3, <3>1 DEF WrittenPaid
    <3> QED
      BY <1>2, <3>2, <3>3 DEF WrittenPaid
  <2>2. CASE e \notin DOMAIN tick[p].row
    <3>1. RowSeenBy(p, e) = row[e] /\ ~ Called(e)
      BY <2>2, CallsAreExclusive DEF RowSeenBy
    <3>2. Owed(tick[p].queued, e) = 0
      BY <1>1, <2>2, OwedFacts DEF SpendingOK
    <3>3. Dues(e) + Cost(row[e]) <= Credit(e)
      BY <1>1, <1>3, <3>1 DEF RowPaid
    <3>4. Dues(e) + Owed(tick[p].queued, e) + Cost(v) <= Credit(e)
      BY <1>3, <3>1, <3>2, <3>3
    <3> QED
      BY <1>2, <3>1, <3>4 DEF WrittenPaid
  <2> QED
    BY <2>1, <2>2
<1>5. SpendingOK(t)
  <2>1. \A x \in DOMAIN t.row : WrittenPaid(t, x)
    BY <1>1, <1>2, <1>4 DEF SpendingOK, WrittenPaid
  <2>2. \A x \in t.called : t.row[x].status \in {"compensated", "unresolved"}
    BY <1>1, <1>2 DEF SpendingOK
  <2> QED
    BY <1>1, <1>2, <2>1, <2>2 DEF SpendingOK
<1> QED
  BY <1>5, LocalPaid

-----------------------------------------------------------------------------
(* The steps of a transaction. *)

LEMMA RebuildPaid ==
    ASSUME IInv, PInv, NEW p \in Processes, NEW job, NEW d, Rebuild(p, job, d)
    PROVE  PInv'
<1> DEFINE t == [IdleTick EXCEPT !.phase = "rebuilt", !.job = job, !.child = d,
                                 !.pending = pending]
<1>1. /\ tick' = [tick EXCEPT ![p] = t] /\ UNCHANGED <<tables, world, history>>
      /\ tick[p].phase = "idle"
  BY DEF Rebuild, Continue, In
<1>2. t.row = NoWrites /\ t.queued = {} /\ t.called = {} /\ t.phase = "rebuilt"
  BY DEF IdleTick
<1>3. DOMAIN NoWrites = {}
  BY DEF NoWrites
<1>4. tick[p].called = {}
  BY <1>1 DEF PInv, SpendingOK
<1>5. SpendingOK(t) /\ OrderOK(t)
  BY <1>2, <1>3, FS_EmptySet DEF SpendingOK, OrderOK
<1> HIDE DEF t
<1> QED
  BY <1>1, <1>2, <1>4, <1>5, LocalPaid

LEMMA AlreadyClosedPaid ==
    ASSUME IInv, PInv, NEW p \in Processes, AlreadyClosed(p)
    PROVE  PInv'
<1> DEFINE t == [tick[p] EXCEPT
           !.phase = IF RunIsOver THEN "closing" ELSE "driving",
           !.status = IF RunIsOver THEN "unsaved" ELSE @,
           !.pending = pending,
           !.delivers = IF tick[p].job = "wake" THEN {tick[p].child} ELSE {},
           !.expires = IF tick[p].job = "expire" THEN {tick[p].child} ELSE {}]
<1>1. tick' = [tick EXCEPT ![p] = t] /\ UNCHANGED <<tables, world, history>>
  BY DEF AlreadyClosed, Continue
<1>2. tick[p] \in TickRecord
  BY TickFacts
<1>3. /\ t.row = tick[p].row /\ t.queued = tick[p].queued /\ t.called = tick[p].called
      /\ t.phase \in {"closing", "driving"}
  BY <1>2 DEF TickRecord
<1>4. OrderOK(t)
  BY <1>3 DEF OrderOK
<1> HIDE DEF t
<1> QED
  BY <1>1, <1>3, <1>4, QuietStep

LEMMA DrivePaid ==
    ASSUME IInv, PInv, NEW p \in Processes, Drive(p)
    PROVE  PInv'
<1>1. PICK t \in {[tick[p] EXCEPT !.phase = "driving"],
                  [tick[p] EXCEPT !.phase = "closing", !.status = "unsaved"]} :
         tick' = [tick EXCEPT ![p] = t] /\ UNCHANGED <<tables, world, history>>
  BY DEF Drive, Continue
<1>2. tick[p] \in TickRecord
  BY TickFacts
<1>3. /\ t.row = tick[p].row /\ t.queued = tick[p].queued /\ t.called = tick[p].called
      /\ t.phase \in {"closing", "driving"}
  BY <1>2 DEF TickRecord
<1>4. OrderOK(t)
  BY <1>3 DEF OrderOK
<1> QED
  BY <1>1, <1>3, <1>4, QuietStep

LEMMA PausePaid ==
    ASSUME IInv, PInv, NEW p \in Processes, Pause(p)
    PROVE  PInv'
<1> DEFINE t == [tick[p] EXCEPT !.phase = "closing"]
<1>1. tick' = [tick EXCEPT ![p] = t] /\ UNCHANGED <<tables, world, history>>
  BY DEF Pause, Continue
<1>2. tick[p] \in TickRecord
  BY TickFacts
<1>3. /\ t.row = tick[p].row /\ t.queued = tick[p].queued /\ t.called = tick[p].called
      /\ t.phase = "closing"
  BY <1>2 DEF TickRecord
<1>4. OrderOK(t)
  BY <1>3 DEF OrderOK
<1> HIDE DEF t
<1> QED
  BY <1>1, <1>3, <1>4, QuietStep

LEMMA DelegatePaid ==
    ASSUME IInv, PInv, NEW p \in Processes, NEW d \in Delegations, Delegate(p, d)
    PROVE  PInv'
<1> DEFINE t == [tick[p] EXCEPT
           !.phase = "closing", !.pending = d, !.fwd = Write(@, d, "suspended")]
<1>1. tick' = [tick EXCEPT ![p] = t] /\ UNCHANGED <<tables, world, history>>
  BY DEF Delegate, Continue
<1>2. tick[p] \in TickRecord
  BY TickFacts
<1>3. /\ t.row = tick[p].row /\ t.queued = tick[p].queued /\ t.called = tick[p].called
      /\ t.phase = "closing"
  BY <1>2 DEF TickRecord
<1>4. OrderOK(t)
  BY <1>3 DEF OrderOK
<1> HIDE DEF t
<1> QED
  BY <1>1, <1>3, <1>4, QuietStep

\* What is booked has its arguments, or nobody undoes it.
LEMMA BookingsPaid ==
    ASSUME IInv, PInv, NEW p \in Processes, NEW t, NEW e \in Executions,
           t.row \in Bookings(p, e), RowUnlocked(p, e),
           t.queued = tick[p].queued, t.called = tick[p].called,
           t.phase \notin {"idle", "undoing", "calling"},
           tick' = [tick EXCEPT ![p] = t], UNCHANGED <<tables, world, history>>
    PROVE  PInv'
<1>1. OrderOK(t)
  BY DEF OrderOK
<1>2. CASE t.row = tick[p].row
  BY <1>1, <1>2, QuietStep
<1>3. CASE t.row # tick[p].row
  <2>1. PICK status \in {"pending", "unresolved"}, args \in BOOLEAN :
            /\ t.row = Booked(p, e, status, args)
            /\ status = "pending" <=> args
    BY <1>3 DEF Bookings
  <2> DEFINE v == Entry(status, args)
  <2>2. RowSeenBy(p, e) = NoRow /\ t.row = Write(tick[p].row, e, v)
    BY <1>3, <2>1 DEF Booked
  <2>3. v.status = status /\ v.args = args
    BY DEF Entry
  <2> HIDE DEF v
  <2>4. NoRow.args = FALSE /\ Cost(NoRow) = 1
    BY DEF NoRow, Cost
  <2>5. Keeps(NoRow, v) /\ Guarded(e, v) /\ Cost(v) <= Cost(NoRow)
    BY <2>1, <2>3, <2>4 DEF Keeps, Guarded, OpenStatuses, Cost
  <2>6. e \notin tick[p].called
    <3>1. e \in tick[p].called => RowSeenBy(p, e).status \in {"compensated", "unresolved"}
      BY DEF PInv, SpendingOK, RowSeenBy
    <3>2. NoRow.status = "none"
      BY DEF NoRow
    <3> QED
      BY <2>2, <3>1, <3>2
  <2> QED
    BY <1>1, <2>2, <2>5, <2>6, WritingStep
<1> QED
  BY <1>2, <1>3

LEMMA DeliverResultPaid ==
    ASSUME IInv, PInv, NEW p \in Processes, DeliverResult(p)
    PROVE  PInv'
<1> DEFINE d == tick[p].pending
           completed == child[d].status = "completed"
           status == IF completed THEN "completed" ELSE "failed"
           f == Closed(p, d, status)
           rows == IF completed
                   THEN BookedOutcome(p, d, StatusAfter(p, d, "completed"), child[d].result)
                   ELSE Booked(p, d, "unresolved", FALSE)
           t == [tick[p] EXCEPT !.phase = "unblocked", !.pending = None, !.delivers = {d},
                                !.fwd = f, !.row = rows]
<1>1. /\ tick' = [tick EXCEPT ![p] = t] /\ UNCHANGED <<tables, world, history>>
      /\ RowUnlocked(p, d) /\ d # None /\ tick[p].job = "wake" /\ d = tick[p].child
  BY DEF DeliverResult, Continue
<1>2. tick[p] \in TickRecord /\ d \in Delegations /\ d \in Executions
  BY <1>1, TickFacts DEF TickRecord, Executions
<1>3. child[d].result \in BOOLEAN
  BY <1>2 DEF IInv, TablesTyped, ChildRecord
<1>4. rows \in Bookings(p, d)
  <2>1. Booked(p, d, "unresolved", FALSE) \in Bookings(p, d)
    BY DEF Bookings
  <2> QED
    BY <2>1, <1>2, <1>3, OutcomeBookings
<1> HIDE DEF f, rows
<1>5. /\ t.row = rows /\ t.queued = tick[p].queued /\ t.called = tick[p].called
      /\ t.phase = "unblocked"
  BY <1>2 DEF TickRecord
<1> HIDE DEF t, d
<1> QED
  BY <1>1, <1>2, <1>4, <1>5, BookingsPaid

LEMMA DeclareUnknownPaid ==
    ASSUME IInv, PInv, NEW p \in Processes, DeclareUnknown(p)
    PROVE  PInv'
<1> DEFINE d == tick[p].pending
           f == Closed(p, d, "failed")
           rows == Booked(p, d, "unresolved", FALSE)
           t == [tick[p] EXCEPT !.phase = "unblocked", !.pending = None, !.expires = {d},
                                !.fwd = f, !.row = rows]
<1>1. /\ tick' = [tick EXCEPT ![p] = t] /\ UNCHANGED <<tables, world, history>>
      /\ RowUnlocked(p, d) /\ d # None
  BY DEF DeclareUnknown, Continue
<1>2. tick[p] \in TickRecord /\ d \in Executions
  BY <1>1, TickFacts DEF TickRecord, Executions
<1>3. rows \in Bookings(p, d)
  BY DEF Bookings
<1> HIDE DEF f, rows
<1>4. /\ t.row = rows /\ t.queued = tick[p].queued /\ t.called = tick[p].called
      /\ t.phase = "unblocked"
  BY <1>2 DEF TickRecord
<1> HIDE DEF t, d
<1> QED
  BY <1>1, <1>2, <1>3, <1>4, BookingsPaid

LEMMA CancelRunPaid ==
    ASSUME IInv, PInv, NEW p \in Processes, CancelRun(p)
    PROVE  PInv'
<1> DEFINE d == tick[p].pending
           stopped == d # None /\ child[d].status = "cancelled"
           f == IF d = None THEN tick[p].fwd ELSE Closed(p, d, "cancelled")
           rows == IF stopped THEN Booked(p, d, "unresolved", FALSE) ELSE tick[p].row
           delivers == IF stopped THEN tick[p].delivers \cup {d} ELSE tick[p].delivers
           t == [tick[p] EXCEPT !.phase = "closing", !.status = "cancelled",
                                !.pending = None, !.fwd = f, !.row = rows,
                                !.delivers = delivers]
<1>1. /\ tick[p] \in TickRecord /\ d \in Delegations \cup {None}
      /\ d # None => RowUnlocked(p, d) /\ d \in Executions
      /\ UNCHANGED <<tables, world, history>>
  BY TickFacts DEF CancelRun, TickRecord, Executions
<1>2. tick' = [tick EXCEPT ![p] = t]
  <2>1. tick' = [tick EXCEPT ![p] = [tick[p] EXCEPT
            !.phase = "closing", !.status = "cancelled", !.pending = None,
            !.fwd = IF d = None THEN @ ELSE Closed(p, d, "cancelled"),
            !.row = IF stopped THEN Booked(p, d, "unresolved", FALSE) ELSE @,
            !.delivers = IF stopped THEN @ \cup {d} ELSE @]]
    BY DEF CancelRun, Continue
  <2> QED
    BY <2>1, <1>1 DEF TickRecord
<1>3. rows \in Bookings(p, d) /\ (d = None => rows = tick[p].row)
  BY DEF Bookings
<1> HIDE DEF f, rows, delivers
<1>4. /\ t.row = rows /\ t.queued = tick[p].queued /\ t.called = tick[p].called
      /\ t.phase = "closing"
  BY <1>1 DEF TickRecord
<1>5. OrderOK(t)
  BY <1>4 DEF OrderOK
<1> HIDE DEF t, d
<1>6. CASE d = None
  BY <1>1, <1>2, <1>3, <1>4, <1>5, <1>6, QuietStep
<1>7. CASE d # None
  BY <1>1, <1>2, <1>3, <1>4, <1>7, BookingsPaid
<1> QED
  BY <1>6, <1>7

LEMMA CallToolPaid ==
    ASSUME IInv, PInv, NEW p \in Processes, NEW e \in Calls, NEW outcome,
           NEW keys \in BOOLEAN, CallTool(p, e, outcome, keys)
    PROVE  PInv'
<1> DEFINE f == Write(tick[p].fwd, e, IF outcome = "unknown" THEN "failed" ELSE outcome)
           rows == BookedOutcome(p, e, outcome, keys)
           t == [tick[p] EXCEPT !.fwd = f, !.row = rows]
<1>1. /\ tick[p] \in TickRecord /\ e \in Executions /\ tick[p].phase = "driving"
      /\ Fresh(e) /\ UNCHANGED <<tables, world, history>>
  BY TickFacts DEF CallTool, CanStep, In, Executions
<1>2. tick' = [tick EXCEPT ![p] = t]
  BY <1>1 DEF CallTool, Continue, TickRecord
<1>3. rows \in Bookings(p, e)
  BY <1>1, OutcomeBookings
<1>4. RowUnlocked(p, e)
  <2> SUFFICES ASSUME NEW q \in Processes \ {p} PROVE e \notin DOMAIN tick[q].row
    BY DEF RowUnlocked
  <2>1. fwd[e] = "none" /\ e \notin DOMAIN tick[q].fwd
    BY <1>1 DEF Fresh
  <2> QED
    BY <2>1, TickFacts DEF TickInv, WritesOK
<1> HIDE DEF f, rows
<1>5. /\ t.row = rows /\ t.queued = tick[p].queued /\ t.called = tick[p].called
      /\ t.phase = "driving"
  BY <1>1 DEF TickRecord
<1> HIDE DEF t
<1> QED
  BY <1>1, <1>2, <1>3, <1>4, <1>5, BookingsPaid

\* The items in order are all the items, the youngest first.
LEMMA OrderedFacts ==
    ASSUME NEW items \in SUBSET ItemRecord, IsFiniteSet(items), NEW s \in Ordered(items)
    PROVE  YoungestFirst(s) /\ ToSet(s) = items
<1> DEFINE n == Cardinality(items)
<1>1. n \in Nat /\ IsFiniteSet(1 .. n) /\ Cardinality(1 .. n) = n
  BY FS_CardinalityType, FS_Interval
<1>2. s \in [1 .. n -> items] /\ \A i, j \in 1 .. n : i < j => Younger(s[i], s[j])
  BY DEF Ordered
<1> HIDE DEF n
<1>3. s \in Seq(ItemRecord)
  BY <1>1, <1>2, SeqDef
<1>4. Len(s) = n /\ DOMAIN s = 1 .. n
  BY <1>1, <1>2, <1>3, LenProperties
<1>5. \A i, j \in 1 .. n : s[i] = s[j] => i = j
  <2> SUFFICES ASSUME NEW i \in 1 .. n, NEW j \in 1 .. n, i # j PROVE s[i] # s[j]
    OBVIOUS
  <2>1. /\ s[i].at \in Nat /\ s[i].exec \in Nat /\ s[j].at \in Nat /\ s[j].exec \in Nat
    <3>1. s[i] \in ItemRecord /\ s[j] \in ItemRecord /\ Executions \subseteq Nat
      BY <1>2, LedgerAssumption DEF Executions
    <3> QED
      BY <3>1 DEF ItemRecord
  <2>2. Younger(s[i], s[j]) \/ Younger(s[j], s[i])
    BY <1>1, <1>2
  <2> QED
    BY <2>1, <2>2 DEF Younger
<1>6. s \in Injection(1 .. n, items)
  BY <1>2, <1>5 DEF Injection, IsInjective
<1>7. s \in Surjection(1 .. n, items)
  BY <1>1, <1>6, FS_Injection DEF n
<1>8. ToSet(s) = items
  BY <1>2, <1>4, <1>7 DEF ToSet, Surjection
<1> QED
  BY <1>2, <1>4, <1>8 DEF YoungestFirst

LEMMA GiveVerdictPaid ==
    ASSUME IInv, PInv, NEW p \in Processes, NEW status,
           NEW phase \in {"undoing", "releasing"}, GiveVerdict(p, status, phase)
    PROVE  PInv'
<1> DEFINE open == {e \in Executions : RowSeenBy(p, e).status \in OpenStatuses}
           f == [e \in open |-> Item(e, RowSeenBy(p, e))]
           items == {f[e] : e \in open}
           seen == {e \in Executions : RowSeenBy(p, e).status = "pending"}
<1>1. PICK todo \in Ordered(items) :
          tick' = [tick EXCEPT ![p] = [tick[p] EXCEPT
              !.phase = phase, !.status = status, !.todo = todo, !.seen = seen]]
  <2>1. items = {Item(e, RowSeenBy(p, e)) : e \in open}
    OBVIOUS
  <2>2. OpenItems(p) = Ordered(items)
    <3> HIDE DEF items
    <3> QED
      BY <2>1 DEF OpenItems
  <2> HIDE DEF items
  <2> QED
    BY <2>2 DEF GiveVerdict, Continue
<1> DEFINE t == [tick[p] EXCEPT !.phase = phase, !.status = status, !.todo = todo,
                                !.seen = seen]
<1>2. /\ tick[p] \in TickRecord /\ UNCHANGED <<tables, world, history>>
  BY TickFacts DEF GiveVerdict
<1>3. /\ t.row = tick[p].row /\ t.queued = tick[p].queued /\ t.called = tick[p].called
      /\ t.phase = phase /\ t.todo = todo /\ t.seen = seen
  BY <1>2 DEF TickRecord
<1>4. IsFiniteSet(items)
  <2>1. IsFiniteSet(open)
    BY LedgerAssumption, FS_Union, FS_Subset DEF Executions
  <2>2. DOMAIN f = open /\ f = [e \in open |-> f[e]]
    OBVIOUS
  <2> HIDE DEF f, open
  <2> QED
    BY <2>1, <2>2, FiniteImage
<1>5. items \subseteq ItemRecord
  <2> SUFFICES ASSUME NEW e \in open PROVE f[e] \in ItemRecord
    OBVIOUS
  <2>1. RowSeenBy(p, e) \in CompensationRecord
    <3>1. RowSeenBy(p, e) \in CompensationRecord \cup {NoRow} /\ RowSeenBy(p, e).status # "none"
      BY TickFacts DEF OpenStatuses
    <3> QED
      BY <3>1 DEF NoRow
  <2> QED
    BY <2>1 DEF Item, ItemRecord, CompensationRecord
<1>6. \A e \in seen : \E i \in items : i.exec = e /\ i.at = RowSeenBy(p, e).at
  <2> SUFFICES ASSUME NEW e \in seen
               PROVE  e \in open /\ f[e].exec = e /\ f[e].at = RowSeenBy(p, e).at
    OBVIOUS
  <2>1. e \in open
    BY DEF OpenStatuses
  <2> QED
    BY <2>1 DEF Item
<1> HIDE DEF items
<1>7. YoungestFirst(todo) /\ ToSet(todo) = items
  BY <1>1, <1>4, <1>5, OrderedFacts
<1>8. ASSUME NEW e \in seen, reopened[e] = 0 PROVE RowSeenBy(p, e).args
  <2>1. e \in Executions /\ RowSeenBy(p, e).status \in OpenStatuses
    BY DEF OpenStatuses
  <2>2. Guarded(e, RowSeenBy(p, e))
    BY <2>1 DEF RowSeenBy, PInv, SpendingOK, WrittenPaid, TablesPaid, RowPaid
  <2> QED
    BY <1>8, <2>1, <2>2, DuesFacts DEF Guarded
<1>9. \A e \in seen : SeenIn(t, e) = RowSeenBy(p, e)
  BY <1>3 DEF SeenIn, RowSeenBy
<1>10. \A e \in t.seen : reopened[e] = 0 => Listed(t, e)
  <2> SUFFICES ASSUME NEW e \in seen, reopened[e] = 0 PROVE Listed(t, e)
    BY <1>3
  <2>1. PICK i \in items : i.exec = e /\ i.at = RowSeenBy(p, e).at
    BY <1>6
  <2>2. i \in ToSet(t.todo) /\ RowSeenBy(p, e).args /\ SeenIn(t, e) = RowSeenBy(p, e)
    BY <1>3, <1>7, <1>8, <1>9
  <2> HIDE DEF t
  <2> QED
    BY <2>1, <2>2 DEF Listed
<1>11. OrderOK(t)
  BY <1>3, <1>7, <1>10 DEF OrderOK
<1>12. t.phase # "idle" /\ tick' = [tick EXCEPT ![p] = t]
  BY <1>1, <1>3
<1> HIDE DEF t, seen
<1> QED
  BY <1>2, <1>3, <1>11, <1>12, QuietStep

\* What moving a row leaves alone.
LEMMA MovedKeeps ==
    ASSUME NEW r \in CompensationRecord, NEW s
    PROVE  Moved(r, s).args = r.args /\ Moved(r, s).at = r.at /\ Moved(r, s).status = s
BY DEF Moved, CompensationRecord

\* The order of the items that are left once the first of them is dealt with.
LEMMA TailOrder ==
    ASSUME NEW s \in Seq(ItemRecord), s # <<>>, YoungestFirst(s)
    PROVE  /\ YoungestFirst(Tail(s))
           /\ \A i \in ToSet(s) : i = Head(s) \/ i \in ToSet(Tail(s))
           /\ \A i \in ToSet(s) : i = Head(s) \/ Younger(Head(s), i)
<1>1. /\ Tail(s) \in Seq(ItemRecord)
      /\ Len(s) >= 1 /\ Len(Tail(s)) = Len(s) - 1
      /\ Head(s) = s[1]
      /\ \A i \in 1 .. Len(Tail(s)) : Tail(s)[i] = s[i + 1]
  BY HeadTailProperties, EmptySeq, LenProperties
<1>2. DOMAIN s = 1 .. Len(s) /\ DOMAIN Tail(s) = 1 .. Len(Tail(s)) /\ Len(s) \in Nat
  BY <1>1, LenProperties
<1>3. YoungestFirst(Tail(s))
  <2> SUFFICES ASSUME NEW i \in 1 .. Len(Tail(s)), NEW j \in 1 .. Len(Tail(s)), i < j
               PROVE  Younger(Tail(s)[i], Tail(s)[j])
    BY DEF YoungestFirst
  <2>1. i + 1 \in 1 .. Len(s) /\ j + 1 \in 1 .. Len(s) /\ i + 1 < j + 1
    BY <1>1, <1>2
  <2> QED
    BY <1>1, <2>1 DEF YoungestFirst
<1>4. ASSUME NEW i \in ToSet(s), i # Head(s)
      PROVE  i \in ToSet(Tail(s)) /\ Younger(Head(s), i)
  <2>1. PICK k \in 1 .. Len(s) : i = s[k]
    BY <1>2 DEF ToSet
  <2>2. k # 1 /\ k - 1 \in 1 .. Len(Tail(s)) /\ 1 \in 1 .. Len(s) /\ 1 < k
    BY <1>1, <1>2, <1>4, <2>1
  <2>3. Tail(s)[k - 1] = i
    <3>1. (k - 1) + 1 = k
      BY <2>1, <1>2
    <3> QED
      BY <1>1, <2>1, <2>2, <3>1
  <2>4. Younger(s[1], s[k])
    BY <2>1, <2>2 DEF YoungestFirst
  <2> QED
    BY <1>1, <1>2, <2>1, <2>2, <2>3, <2>4 DEF ToSet
<1> QED
  BY <1>3, <1>4

\* The first item is dealt with.
LEMMA OrderAfter ==
    ASSUME IInv, PInv, NEW p \in Processes, NEW t, NEW e \in Executions,
           tick[p].phase \in {"undoing", "calling"}, tick[p].todo # <<>>,
           e = Head(tick[p].todo).exec,
           t.phase = "undoing", t.todo = Tail(tick[p].todo), t.seen = tick[p].seen,
           SeenIn(t, e).status # "pending", SeenIn(t, e).args = SeenIn(tick[p], e).args,
           \A x \in Executions : x # e => SeenIn(t, x) = SeenIn(tick[p], x)
    PROVE  OrderOK(t)
<1>1. /\ tick[p] \in TickRecord /\ tick[p].todo \in Seq(ItemRecord) /\ OrderOK(tick[p])
      /\ tick[p].seen \subseteq Executions
  BY TickFacts DEF TickRecord, PInv
<1>2. /\ YoungestFirst(tick[p].todo)
      /\ \A x \in tick[p].seen : reopened[x] = 0 => Listed(tick[p], x)
  BY <1>1 DEF OrderOK
<1>3. /\ YoungestFirst(Tail(tick[p].todo))
      /\ \A i \in ToSet(tick[p].todo) : i = Head(tick[p].todo) \/ i \in ToSet(Tail(tick[p].todo))
  BY <1>1, <1>2, TailOrder
<1>4. ASSUME NEW x \in t.seen, reopened[x] = 0 PROVE Listed(t, x)
  <2>1. Listed(tick[p], x) /\ x \in Executions
    BY <1>1, <1>2, <1>4
  <2>2. CASE x = e
    BY <2>1, <2>2 DEF Listed
  <2>3. CASE x # e
    <3>1. SeenIn(t, x) = SeenIn(tick[p], x)
      BY <2>1, <2>3
    <3>2. ASSUME SeenIn(t, x).status = "pending"
          PROVE  \E i \in ToSet(t.todo) : i.exec = x /\ i.at = SeenIn(t, x).at
      <4>1. PICK i \in ToSet(tick[p].todo) : i.exec = x /\ i.at = SeenIn(t, x).at
        BY <2>1, <3>1, <3>2 DEF Listed
      <4>2. i \in ToSet(t.todo)
        BY <1>3, <2>3, <4>1
      <4> QED
        BY <4>1, <4>2
    <3> QED
      BY <2>1, <3>1, <3>2 DEF Listed
  <2> QED
    BY <2>2, <2>3
<1> QED
  BY <1>3, <1>4 DEF OrderOK

LEMMA ClaimPaid ==
    ASSUME IInv, PInv, NEW p \in Processes, Claim(p)
    PROVE  PInv'
<1> DEFINE e == Current(p).exec
           r == RowSeenBy(p, e)
           todo == tick[p].todo
<1>1. /\ tick[p] \in TickRecord /\ tick[p].phase = "undoing"
      /\ todo # <<>> /\ RowUnlocked(p, e) /\ UNCHANGED <<tables, world, history>>
      /\ todo \in Seq(ItemRecord)
  BY TickFacts DEF Claim, In, TickRecord
<1>2. e = Head(todo).exec /\ e \in Executions
  <2>1. Head(todo) \in ItemRecord
    BY <1>1, TailFacts
  <2> QED
    BY <2>1 DEF Current, ItemRecord
<1>3. SeenIn(tick[p], e) = r
  BY DEF SeenIn, RowSeenBy
<1>4. CASE Claimable(r)
  <2> DEFINE v == Moved(r, "running")
             w == Write(tick[p].row, e, v)
             t == [tick[p] EXCEPT !.phase = "calling", !.row = w]
  <2>1. r \in CompensationRecord /\ r.status = "pending"
    <3>1. r \in CompensationRecord \cup {NoRow} /\ r.status = "pending"
      BY <1>2, <1>4, TickFacts DEF Claimable
    <3> QED
      BY <3>1 DEF NoRow
  <2>2. v.status = "running" /\ v.args = r.args /\ v.at = r.at
    BY <2>1, MovedKeeps
  <2>3. tick' = [tick EXCEPT ![p] = t]
    BY <1>4 DEF Claim, Continue
  <2>4. /\ DOMAIN w = DOMAIN tick[p].row \cup {e} /\ w[e] = v
        /\ \A x \in DOMAIN tick[p].row : x # e => w[x] = tick[p].row[x]
    BY DEF Write
  <2>5. t.row = w /\ w = Write(tick[p].row, e, v)
    BY <1>1 DEF TickRecord
  <2>6. /\ t.queued = tick[p].queued /\ t.called = tick[p].called
        /\ t.phase = "calling" /\ t.todo = todo /\ t.seen = tick[p].seen
    BY <1>1 DEF TickRecord
  <2> HIDE DEF v, w, t
  <2>7. Keeps(r, v) /\ Cost(v) <= Cost(r)
    BY <2>1, <2>2 DEF Keeps, Cost
  <2>8. Guarded(e, v)
    <3>1. Guarded(e, r)
      BY <1>2, <2>1 DEF RowSeenBy, PInv, SpendingOK, WrittenPaid, TablesPaid, RowPaid
    <3> QED
      BY <2>1, <2>2, <3>1 DEF Guarded, OpenStatuses
  <2>9. e \notin tick[p].called
    BY <2>1 DEF RowSeenBy, PInv, SpendingOK
  <2>10. OrderOK(t)
    <3>1. /\ YoungestFirst(todo)
          /\ \A x \in tick[p].seen : reopened[x] = 0 => Listed(tick[p], x)
      BY <1>1 DEF PInv, OrderOK
    <3>2. SeenIn(t, e) = v /\ \A x : x # e => SeenIn(t, x) = SeenIn(tick[p], x)
      BY <2>4, <2>5 DEF SeenIn
    <3>3. ASSUME NEW x \in t.seen, reopened[x] = 0 PROVE Listed(t, x)
      <4>1. Listed(tick[p], x)
        BY <2>6, <3>1, <3>3
      <4>2. CASE x = e
        BY <1>3, <2>2, <3>2, <4>1, <4>2 DEF Listed
      <4>3. CASE x # e
        BY <2>6, <3>2, <4>1, <4>3 DEF Listed
      <4> QED
        BY <4>2, <4>3
    <3>4. t.row[Head(t.todo).exec].status = "running"
      BY <1>2, <2>2, <2>4, <2>5, <2>6
    <3> QED
      BY <2>6, <3>1, <3>3, <3>4 DEF OrderOK
  <2>11. t.phase # "idle"
    BY <2>6
  <2> HIDE DEF e
  <2> QED
    BY <1>1, <1>2, <2>3, <2>5, <2>6, <2>7, <2>8, <2>9, <2>10, <2>11, WritingStep
<1>5. CASE ~ Claimable(r)
  <2> DEFINE t == [tick[p] EXCEPT !.todo = Tail(todo)]
  <2>1. tick' = [tick EXCEPT ![p] = t]
    BY <1>5 DEF Claim, Continue
  <2>2. /\ t.row = tick[p].row /\ t.queued = tick[p].queued /\ t.called = tick[p].called
        /\ t.phase = "undoing" /\ t.todo = Tail(todo) /\ t.seen = tick[p].seen
    BY <1>1 DEF TickRecord
  <2> HIDE DEF t
  <2>3. \A x : SeenIn(t, x) = SeenIn(tick[p], x)
    BY <2>2 DEF SeenIn
  <2>4. SeenIn(t, e).status # "pending"
    BY <1>3, <1>5, <2>3 DEF Claimable
  <2>5. t.phase # "idle" /\ tick[p].phase \in {"undoing", "calling"}
    BY <1>1, <2>2
  <2> HIDE DEF e
  <2>6. OrderOK(t)
    BY <1>1, <1>2, <2>2, <2>3, <2>4, <2>5, OrderAfter
  <2> QED
    BY <1>1, <2>1, <2>2, <2>5, <2>6, QuietStep
<1> QED
  BY <1>4, <1>5

LEMMA ReleasePaid ==
    ASSUME IInv, PInv, NEW p \in Processes, Release(p)
    PROVE  PInv'
<1> DEFINE i == Current(p)
           e == i.exec
           r == RowSeenBy(p, e)
           todo == tick[p].todo
<1>1. /\ tick[p] \in TickRecord /\ TodoOK(tick[p]) /\ tick[p].phase = "releasing"
      /\ todo # <<>> /\ UNCHANGED <<tables, world, history>>
      /\ todo \in Seq(ItemRecord)
  BY TickFacts DEF TickInv, Release, In, TickRecord
<1>2. i \in ToSet(todo) /\ e \in Executions
  <2>1. Head(todo) \in ItemRecord /\ Head(todo) \in ToSet(todo)
    BY <1>1, TailFacts
  <2> QED
    BY <2>1 DEF Current, ItemRecord
<1>3. CASE tick' = [tick EXCEPT ![p] = [tick[p] EXCEPT !.todo = Tail(todo)]]
  <2> DEFINE t == [tick[p] EXCEPT !.todo = Tail(todo)]
  <2>1. /\ t.row = tick[p].row /\ t.queued = tick[p].queued /\ t.called = tick[p].called
        /\ t.phase = "releasing"
    BY <1>1 DEF TickRecord
  <2>2. OrderOK(t)
    BY <2>1 DEF OrderOK
  <2> QED
    BY <1>1, <1>3, <2>1, <2>2, QuietStep
<1> DEFINE v == Moved(r, "not_needed")
           w == Write(tick[p].row, e, v)
           t == [tick[p] EXCEPT !.todo = Tail(todo), !.row = w]
<1>4. CASE /\ i.status = "pending" /\ RowUnlocked(p, e) /\ r.version = i.version
           /\ tick' = [tick EXCEPT ![p] = t]
  <2>1. r.status = "pending"
    <3>1. SeenIn(tick[p], e) = r
      BY DEF SeenIn, RowSeenBy
    <3> QED
      BY <3>1, <1>1, <1>2, <1>4 DEF TodoOK
  <2>2. r \in CompensationRecord
    <3>1. r \in CompensationRecord \cup {NoRow}
      BY <1>2, TickFacts
    <3> QED
      BY <3>1, <2>1 DEF NoRow
  <2>3. v.status = "not_needed" /\ v.args = r.args /\ v.at = r.at
    BY <2>2, MovedKeeps
  <2>4. /\ t.row = Write(tick[p].row, e, v) /\ t.queued = tick[p].queued
        /\ t.called = tick[p].called /\ t.phase = "releasing"
    BY <1>1 DEF TickRecord
  <2>5. RowUnlocked(p, e) /\ tick' = [tick EXCEPT ![p] = t]
    BY <1>4
  <2> HIDE DEF v, w, t
  <2>6. Keeps(r, v) /\ Cost(v) <= Cost(r) /\ Guarded(e, v)
    BY <2>1, <2>2, <2>3 DEF Keeps, Cost, Guarded, OpenStatuses
  <2>7. e \notin tick[p].called
    BY <2>1 DEF RowSeenBy, PInv, SpendingOK
  <2>8. OrderOK(t) /\ t.phase # "idle"
    BY <2>4 DEF OrderOK
  <2> HIDE DEF e
  <2> QED
    BY <1>1, <1>2, <2>4, <2>5, <2>6, <2>7, <2>8, WritingStep
<1> QED
  BY <1>3, <1>4 DEF Release, Continue

\* The undo of e is called, or is left for the kernel to try again: what the row cost
\* is what the call costs.
LEMMA CallUndoPaid ==
    ASSUME IInv, PInv, NEW p \in Processes, NEW outcome \in UndoOutcomes, CallUndo(p, outcome)
    PROVE  PInv'
<1> DEFINE e == Current(p).exec
           r == tick[p].row[e]
           todo == tick[p].todo
           v == Settled(r, outcome)
           w == Write(tick[p].row, e, v)
           again == [exec |-> e, args |-> r.args, version |-> r.version]
           called == IF outcome \in {"done", "lost"} THEN tick[p].called \cup {e}
                     ELSE tick[p].called
           retried == IF outcome = "retrying" THEN tick[p].queued \cup {again}
                      ELSE tick[p].queued
           n == IF outcome \in {"done", "lost"} THEN 1 ELSE 0
           m == IF outcome = "retrying" THEN 1 ELSE 0
<1>1. /\ tick[p] \in TickRecord /\ tick[p].phase = "calling"
      /\ todo # <<>> /\ e \in DOMAIN tick[p].row /\ UNCHANGED <<tables, history>>
      /\ WritesOK(p, tick[p]) /\ todo \in Seq(ItemRecord) /\ e = Head(todo).exec
  BY TickFacts DEF TickInv, CallingOK, CallUndo, In, Current, TickRecord
<1>2. e \in Executions /\ r \in CompensationRecord /\ DOMAIN tick[p].row \subseteq Executions
  BY <1>1, TickFacts
<1>3. r.status = "running"
  BY <1>1 DEF PInv, OrderOK
<1>4. /\ v.args = r.args /\ v.status \in {"compensated", "unresolved"}
      /\ outcome \in {"done", "lost"} => v.status \in {"compensated", "unresolved"}
  <2>1. v = Moved(r, "compensated") \/ v = Moved(r, "unresolved")
    BY DEF Settled
  <2> QED
    BY <1>2, <2>1, MovedKeeps
<1>5. v.at = r.at
  <2>1. v = Moved(r, "compensated") \/ v = Moved(r, "unresolved")
    BY DEF Settled
  <2> QED
    BY <1>2, <2>1, MovedKeeps
<1>6. /\ SpendingOK(tick[p]) /\ WrittenPaid(tick[p], e) /\ e \notin tick[p].called
      /\ RowPaid(e)
  BY <1>1, <1>2, <1>3 DEF PInv, SpendingOK, TablesPaid
<1>7. PICK t :
          /\ t = [tick[p] EXCEPT !.phase = "undoing", !.todo = Tail(todo),
                                 !.called = called, !.queued = retried, !.row = w]
          /\ tick' = [tick EXCEPT ![p] = t]
  BY <1>1 DEF CallUndo, Continue
<1>8. t.row = w
  BY <1>1, <1>7 DEF TickRecord
<1>9. /\ t.queued = retried /\ t.called = called
      /\ t.phase = "undoing" /\ t.todo = Tail(todo) /\ t.seen = tick[p].seen
  BY <1>1, <1>7 DEF TickRecord
<1>10. /\ DOMAIN w = DOMAIN tick[p].row \cup {e} /\ w[e] = v
       /\ \A x \in DOMAIN tick[p].row : x # e => w[x] = tick[p].row[x]
  BY DEF Write
<1>11. /\ IF outcome \in {"done", "lost"} THEN Undo(e, r.args) ELSE UNCHANGED <<undone, blind>>
       /\ row' = row /\ queued' = queued /\ reopened' = reopened /\ lost' = lost
  BY <1>1 DEF CallUndo, tables, history
<1> HIDE DEF w, v
<1>12. /\ undone' \in [Executions -> Nat] /\ blind' \in [Executions -> Nat]
       /\ undone'[e] + blind'[e] = undone[e] + blind[e] + n
       /\ \A x \in Executions : x # e => undone'[x] = undone[x] /\ blind'[x] = blind[x]
       /\ blind'[e] # blind[e] => reopened[e] > 0
  <2>1. undone \in [Executions -> Nat] /\ blind \in [Executions -> Nat]
    BY DEF PInv, CountsTyped
  <2>2. ~ r.args => reopened[e] > 0
    BY <1>3, <1>6 DEF WrittenPaid, Guarded, OpenStatuses
  <2>3. CASE outcome \in {"done", "lost"} /\ r.args
    <3>1. undone' = [undone EXCEPT ![e] = @ + 1] /\ blind' = blind
      BY <1>11, <2>3 DEF Undo
    <3> QED
      BY <1>2, <2>1, <2>3, <3>1
  <2>4. CASE outcome \in {"done", "lost"} /\ ~ r.args
    <3>1. undone' = undone /\ blind' = [blind EXCEPT ![e] = @ + 1]
      BY <1>11, <2>4 DEF Undo
    <3> QED
      BY <1>2, <2>1, <2>2, <2>4, <3>1
  <2>5. CASE outcome \notin {"done", "lost"}
    BY <1>2, <1>11, <2>1, <2>5
  <2> QED
    BY <2>3, <2>4, <2>5
<1>13. CountsTyped'
  BY <1>11, <1>12 DEF PInv, CountsTyped
<1>14. \A x \in Executions : /\ Credit(x)' = Credit(x)
                             /\ Dues(x)' = Dues(x) + (IF x = e THEN n ELSE 0)
  <2> SUFFICES ASSUME NEW x \in Executions
               PROVE  /\ Credit(x)' = Credit(x)
                      /\ Dues(x)' = Dues(x) + (IF x = e THEN n ELSE 0)
    OBVIOUS
  <2>1. Owed(queued, x)' = Owed(queued, x) /\ Owed(queued, x) \in Nat
    BY <1>11, OwedFacts DEF PInv, TablesPaid, Owed
  <2>2. /\ undone[x] \in Nat /\ blind[x] \in Nat /\ undone'[x] \in Nat /\ blind'[x] \in Nat
    BY <1>12 DEF PInv, CountsTyped
  <2>3. Credit(x)' = Credit(x)
    BY <1>11 DEF Credit
  <2>4. Dues(x)' = undone'[x] + blind'[x] + Owed(queued, x)
    BY <2>1 DEF Dues
  <2> QED
    BY <1>12, <2>1, <2>2, <2>3, <2>4 DEF Dues
<1>15. \A x \in Executions : Called(x)' <=> Called(x) \/ (x = e /\ n = 1)
  <2>1. tick'[p].called = called /\ \A q \in Processes \ {p} : tick'[q].called = tick[q].called
    BY <1>7, <1>9 DEF IInv
  <2> QED
    BY <2>1 DEF Called
<1>16. ~ Called(e)
  <2>1. RowUnlocked(p, e)
    BY <1>1 DEF WritesOK, RowUnlocked
  <2> QED
    BY <1>2, <1>6, <2>1, CallsAreExclusive
<1> HIDE DEF e, n
<1>17. ASSUME NEW x \in Executions PROVE RowPaid(x)'
  <2>1. RowPaid(x) /\ Dues(x) \in Nat /\ Credit(x) \in Nat /\ Cost(row[x]) \in Nat
    BY DuesFacts, CostFacts DEF PInv, TablesPaid
  <2>2. n \in {0, 1}
    BY DEF n
  <2>3. Guarded(x, row[x])' /\ (blind'[x] > 0 => reopened'[x] > 0)
    BY <1>11, <1>12, <2>1 DEF RowPaid, Guarded
  <2>4. Dues(x)' + Cost(row[x]) <= Credit(x)' + (IF Called(x)' THEN 1 ELSE 0)
    <3>1. CASE x = e
      BY <1>14, <1>15, <1>16, <2>1, <2>2, <3>1 DEF RowPaid
    <3>2. CASE x # e
      BY <1>14, <1>15, <2>1, <3>2 DEF RowPaid
    <3> QED
      BY <3>1, <3>2
  <2>5. row'[x] = row[x]
    BY <1>11
  <2> QED
    BY <2>3, <2>4, <2>5 DEF RowPaid
<1>18. TablesPaid'
  BY <1>11, <1>17 DEF PInv, TablesPaid
<1>19. m \in {0, 1} /\ n \in {0, 1} /\ n + m <= 1
  BY DEF n
<1>20. /\ IsFiniteSet(retried)
       /\ \A q \in retried : q \in tick[p].queued \/ q = again
       /\ \A x : Owed(retried, x) <= Owed(tick[p].queued, x) + (IF x = e THEN m ELSE 0)
       /\ \A x : Owed(retried, x) \in Nat /\ Owed(tick[p].queued, x) \in Nat
  <2>1. IsFiniteSet(tick[p].queued) /\ again.exec = e
    BY <1>6 DEF SpendingOK
  <2> HIDE DEF again
  <2>2. /\ IsFiniteSet(tick[p].queued \cup {again})
        /\ \A x : /\ Owed(tick[p].queued \cup {again}, x) <= Owed(tick[p].queued, x) + 1
                  /\ x # e => Owed(tick[p].queued \cup {again}, x) = Owed(tick[p].queued, x)
    BY <2>1, OwedMore
  <2>3. \A x : Owed(tick[p].queued, x) \in Nat /\ Owed(tick[p].queued \cup {again}, x) \in Nat
    BY <2>1, <2>2, OwedFacts
  <2>4. CASE outcome = "retrying"
    <3>1. retried = tick[p].queued \cup {again} /\ m = 1
      BY <2>4
    <3> HIDE DEF retried, m
    <3>2. ASSUME NEW x
          PROVE  Owed(retried, x) <= Owed(tick[p].queued, x) + (IF x = e THEN m ELSE 0)
      <4>1. CASE x = e
        BY <2>2, <3>1, <4>1
      <4>2. CASE x # e
        <5>1. Owed(retried, x) = Owed(tick[p].queued, x)
          BY <2>2, <3>1, <4>2
        <5> QED
          BY <2>3, <4>2, <5>1
      <4> QED
        BY <4>1, <4>2
    <3> QED
      BY <2>2, <2>3, <3>1, <3>2
  <2>5. CASE outcome # "retrying"
    <3>1. retried = tick[p].queued
      BY <2>5
    <3> HIDE DEF retried
    <3> QED
      BY <1>19, <2>1, <2>3, <3>1
  <2> QED
    BY <2>4, <2>5
<1>21. ASSUME NEW x \in DOMAIN t.row PROVE WrittenPaid(t, x)'
  <2>1. x \in Executions /\ x \in DOMAIN tick[p].row /\ WrittenPaid(tick[p], x)
    BY <1>1, <1>2, <1>6, <1>8, <1>10 DEF SpendingOK
  <2>2. /\ Dues(x) \in Nat /\ Credit(x) \in Nat /\ Cost(tick[p].row[x]) \in Nat
        /\ Cost(t.row[x]) \in Nat
    BY <2>1, DuesFacts, CostFacts
  <2>3. CASE x = e
    <3>1. t.row[x] = v /\ tick[p].row[x] = r
      BY <1>8, <1>10, <2>3
    <3>2. Cost(v) + 1 = Cost(r)
      BY <1>3, <1>4 DEF Cost
    <3>3. Keeps(row[x], v) /\ Guarded(x, v)
      BY <1>4, <1>5, <2>1, <3>1 DEF WrittenPaid, Keeps, Guarded, OpenStatuses
    <3>4. Dues(x) + Owed(tick[p].queued, x) + Cost(r) <= Credit(x)
      BY <2>1, <3>1 DEF WrittenPaid
    <3>5. Owed(t.queued, x) <= Owed(tick[p].queued, x) + m /\ Dues(x)' = Dues(x) + n
          /\ Credit(x)' = Credit(x)
      BY <1>9, <1>14, <1>20, <2>1, <2>3
    <3>6. Dues(x)' + Owed(t.queued, x) + Cost(v) <= Credit(x)'
      <4> HIDE DEF m, r, v, retried, called
      <4> QED
        BY <1>9, <1>19, <1>20, <2>2, <3>1, <3>2, <3>4, <3>5
    <3> QED
      BY <1>11, <3>1, <3>3, <3>6 DEF WrittenPaid, Guarded
  <2>4. CASE x # e
    <3>1. t.row[x] = tick[p].row[x] /\ Owed(t.queued, x) <= Owed(tick[p].queued, x)
      <4>1. Owed(retried, x) <= Owed(tick[p].queued, x) + 0
        BY <1>20, <2>4
      <4>2. Owed(t.queued, x) = Owed(retried, x) /\ Owed(tick[p].queued, x) \in Nat
        BY <1>9, <1>20
      <4>3. t.row[x] = tick[p].row[x]
        BY <1>8, <1>10, <2>1, <2>4
      <4> HIDE DEF retried, called
      <4> QED
        BY <4>1, <4>2, <4>3
    <3>2. Dues(x)' = Dues(x) /\ Credit(x)' = Credit(x)
      BY <1>14, <2>1, <2>2, <2>4
    <3>3. Dues(x)' + Owed(t.queued, x) + Cost(t.row[x]) <= Credit(x)'
      <4>1. Dues(x) + Owed(tick[p].queued, x) + Cost(tick[p].row[x]) <= Credit(x)
        BY <2>1 DEF WrittenPaid
      <4> HIDE DEF retried, called
      <4> QED
        BY <1>9, <1>20, <2>2, <3>1, <3>2, <4>1
    <3> QED
      BY <1>11, <2>1, <3>1, <3>3 DEF WrittenPaid, Guarded
  <2> QED
    BY <2>3, <2>4
<1>22. SpendingOK(t)'
  <2>1. ASSUME NEW q \in t.queued
        PROVE  q.exec \in DOMAIN t.row /\ (~ q.args => reopened[q.exec] > 0)
    <3>1. CASE q \in tick[p].queued
      BY <1>6, <1>8, <1>10, <3>1 DEF SpendingOK
    <3>2. CASE q = again
      <4>1. Guarded(e, r)
        BY <1>6 DEF WrittenPaid
      <4> QED
        BY <1>3, <1>8, <1>10, <3>2, <4>1 DEF Guarded, OpenStatuses
    <3> QED
      BY <1>9, <1>20, <2>1, <3>1, <3>2
  <2>2. \A x \in t.called : x \in tick[p].called \/ (x = e /\ outcome \in {"done", "lost"})
    BY <1>9
  <2>3. \A x \in t.called : x \in DOMAIN t.row /\ t.row[x].status \in {"compensated", "unresolved"}
    BY <1>4, <1>6, <1>8, <1>10, <2>2 DEF SpendingOK
  <2>4. IsFiniteSet(t.queued)
    BY <1>9, <1>20
  <2> QED
    BY <1>9, <1>11, <1>21, <2>1, <2>3, <2>4 DEF SpendingOK
<1>23. OrderOK(t)'
  <2>1. SeenIn(t, e) = v /\ SeenIn(tick[p], e) = r
    BY <1>1, <1>8, <1>10 DEF SeenIn
  <2>2. \A x \in Executions : x # e => SeenIn(t, x) = SeenIn(tick[p], x)
    BY <1>8, <1>10 DEF SeenIn
  <2>3. OrderOK(t)
    <3>1. SeenIn(t, e).status # "pending" /\ SeenIn(t, e).args = SeenIn(tick[p], e).args
      BY <1>4, <2>1
    <3>2. tick[p].phase \in {"undoing", "calling"}
      BY <1>1
    <3> QED
      BY <1>1, <1>2, <1>9, <2>2, <3>1, <3>2, OrderAfter
  <2> QED
    BY <1>11, <2>3 DEF OrderOK, Listed, SeenIn
<1>24. ASSUME NEW q \in Processes PROVE SpendingOK(tick[q])' /\ OrderOK(tick[q])'
  <2>1. CASE q = p
    <3>1. tick'[q] = t
      BY <1>7, <2>1 DEF IInv
    <3> QED
      BY <3>1, <1>22, <1>23 DEF SpendingOK, OrderOK, WrittenPaid, Guarded, Dues, Credit, Listed, SeenIn
  <2>2. CASE q # p
    <3>1. tick'[q] = tick[q] /\ SpendingOK(tick[q]) /\ OrderOK(tick[q])
      BY <1>7, <2>2 DEF IInv, PInv
    <3>2. ASSUME NEW x \in DOMAIN tick[q].row PROVE WrittenPaid(tick[q], x)'
      <4>1. x \in Executions /\ x # e /\ WrittenPaid(tick[q], x)
        BY <1>1, <2>2, <3>1, TickFacts DEF WritesOK, SpendingOK
      <4>2. Dues(x)' = Dues(x) /\ Credit(x)' = Credit(x)
        BY <1>14, <4>1, DuesFacts
      <4> QED
        BY <1>11, <3>1, <4>1, <4>2 DEF WrittenPaid, Guarded
    <3>3. SpendingOK(tick[q])'
      BY <1>11, <3>1, <3>2 DEF SpendingOK
    <3>4. OrderOK(tick[q])'
      BY <1>11, <3>1 DEF OrderOK, Listed, SeenIn
    <3> QED
      BY <3>3, <3>4
  <2> QED
    BY <2>1, <2>2
<1> QED
  BY <1>13, <1>18, <1>24 DEF PInv

-----------------------------------------------------------------------------
(* What happens outside a transaction. *)

\* What it makes of the rows that q has read leaves q's order alone, and what it spends
\* on the rows that q has written is paid for.
Peaceful(q) ==
    /\ \A e \in Executions : /\ reopened'[e] >= reopened[e]
                             /\ reopened'[e] = 0 => Keeps(row[e], row'[e])
    /\ \A e \in DOMAIN tick[q].row : /\ row'[e] = row[e]
                                     /\ Dues(e)' + Credit(e) <= Dues(e) + Credit(e)'

\* The primed counts are numbers as well.
LEMMA NewDuesFacts ==
    ASSUME CountsTyped', IsFiniteSet(queued'), NEW e \in Executions
    PROVE  Dues(e)' \in Nat /\ Credit(e)' \in Nat /\ reopened'[e] \in Nat
<1>1. undone'[e] \in Nat /\ blind'[e] \in Nat /\ reopened'[e] \in Nat /\ lost'[e] \in Nat
  BY DEF CountsTyped
<1>2. Owed(queued', e) \in Nat
  BY OwedFacts
<1>3. Dues(e)' = undone'[e] + blind'[e] + Owed(queued', e)
  BY DEF Dues, Owed
<1> QED
  BY <1>1, <1>2, <1>3 DEF Credit

LEMMA OthersPaid ==
    ASSUME IInv, PInv, CountsTyped', IsFiniteSet(queued'), NEW q \in Processes,
           tick'[q] = tick[q], Peaceful(q)
    PROVE  SpendingOK(tick[q])' /\ OrderOK(tick[q])'
<1>1. PICK t : t = tick[q]
  OBVIOUS
<1>2. /\ SpendingOK(t) /\ OrderOK(t) /\ DOMAIN t.row \subseteq Executions
      /\ t.seen \subseteq Executions
  BY <1>1, TickFacts DEF PInv, TickRecord
<1>3. \A e \in Executions : reopened[e] \in Nat /\ reopened'[e] \in Nat
                            /\ reopened'[e] >= reopened[e]
  BY DuesFacts, NewDuesFacts DEF Peaceful
<1>4. ASSUME NEW e \in DOMAIN t.row PROVE WrittenPaid(t, e)'
  <2>1. /\ WrittenPaid(t, e) /\ e \in Executions /\ row'[e] = row[e]
        /\ Dues(e)' + Credit(e) <= Dues(e) + Credit(e)'
    BY <1>1, <1>2 DEF SpendingOK, Peaceful
  <2>2. /\ Dues(e) \in Nat /\ Credit(e) \in Nat /\ Dues(e)' \in Nat /\ Credit(e)' \in Nat
        /\ Owed(t.queued, e) \in Nat /\ Cost(t.row[e]) \in Nat
    BY <1>2, <2>1, DuesFacts, NewDuesFacts, CostFacts, OwedFacts DEF SpendingOK
  <2>3. Dues(e)' + Owed(t.queued, e) + Cost(t.row[e]) <= Credit(e)'
    BY <2>1, <2>2 DEF WrittenPaid
  <2>4. Guarded(e, t.row[e])'
    BY <1>3, <2>1 DEF WrittenPaid, Guarded
  <2> QED
    BY <2>1, <2>3, <2>4 DEF WrittenPaid
<1>5. SpendingOK(t)'
  <2>1. \A x \in t.queued : x.exec \in DOMAIN t.row /\ (~ x.args => reopened'[x.exec] > 0)
    BY <1>2, <1>3 DEF SpendingOK
  <2> QED
    BY <1>2, <1>4, <2>1 DEF SpendingOK
<1>6. ASSUME NEW e \in t.seen, reopened'[e] = 0, Listed(t, e) PROVE Listed(t, e)'
  <2>1. e \in Executions /\ Keeps(row[e], row'[e])
    BY <1>2, <1>6 DEF Peaceful
  <2>2. CASE e \in DOMAIN t.row
    BY <1>6, <2>2 DEF Listed, SeenIn
  <2>3. CASE e \notin DOMAIN t.row
    BY <1>6, <2>1, <2>3 DEF Listed, SeenIn, Keeps
  <2> QED
    BY <2>2, <2>3
<1>7. OrderOK(t)'
  <2>1. \A e \in t.seen : reopened'[e] = 0 => reopened[e] = 0
    BY <1>2, <1>3
  <2> QED
    BY <1>2, <1>6, <2>1 DEF OrderOK
<1> QED
  BY <1>1, <1>5, <1>7 DEF SpendingOK, OrderOK, WrittenPaid, Guarded, Dues, Credit, Listed, SeenIn

\* A step that changes tables and no transaction.
LEMMA TablePaid ==
    ASSUME IInv, PInv, UNCHANGED tick, CountsTyped', TablesPaid',
           \A q \in Processes : Peaceful(q)
    PROVE  PInv'
<1>1. IsFiniteSet(queued')
  BY DEF TablesPaid
<1>2. \A q \in Processes : SpendingOK(tick[q])' /\ OrderOK(tick[q])'
  BY <1>1, OthersPaid
<1> QED
  BY <1>2 DEF PInv

\* A step that changes nothing of all this.
LEMMA StillPaid ==
    ASSUME IInv, PInv, UNCHANGED <<row, queued, tick, world, history>>
    PROVE  PInv'
<1>1. UNCHANGED <<row, queued, tick, undone, blind, reopened, lost>>
  BY DEF world, history
<1> QED
  BY <1>1, SMTT(20) DEF PInv, CountsTyped, TablesPaid, RowPaid, Called, SpendingOK, OrderOK,
              WrittenPaid, Guarded, Dues, Credit, Listed, SeenIn

\* A late result, or a wait that is over, changes at most the row of its delegation, and
\* what is undone then costs no more than before.
Harmless(d, newRow) ==
    \/ newRow = row
    \/ \E r : /\ newRow = [row EXCEPT ![d] = r]
              /\ Keeps(row[d], r) /\ Guarded(d, r) /\ Cost(r) <= Cost(row[d])

LEMMA SettlesPaid ==
    ASSUME IInv, PInv, NEW p \in Processes, NEW d \in Delegations, Free(p, d),
           NEW newRow, Harmless(d, newRow), NEW newChild, Settles(newRow, newChild)
    PROVE  PInv'
<1>1. /\ row' = newRow /\ UNCHANGED <<queued, tick, undone, blind, reopened, lost>>
      /\ d \in Executions
  BY DEF Settles, world, history, Executions
<1>2. \A x \in Executions :
          /\ Keeps(row[x], row'[x]) /\ Cost(row'[x]) <= Cost(row[x])
          /\ Guarded(x, row[x]) => Guarded(x, row'[x])
          /\ x # d => row'[x] = row[x]
  <2>1. row \in [Executions -> CompensationRecord \cup {NoRow}]
    BY DEF IInv, TablesTyped
  <2>2. \A x : Keeps(row[x], row[x]) /\ Cost(row[x]) \in Nat
    BY CostFacts DEF Keeps
  <2>3. CASE newRow = row
    BY <1>1, <2>2, <2>3
  <2>4. CASE \E r : /\ newRow = [row EXCEPT ![d] = r]
                    /\ Keeps(row[d], r) /\ Guarded(d, r) /\ Cost(r) <= Cost(row[d])
    <3>1. PICK r : /\ newRow = [row EXCEPT ![d] = r]
                   /\ Keeps(row[d], r) /\ Guarded(d, r) /\ Cost(r) <= Cost(row[d])
      BY <2>4
    <3>2. row'[d] = r /\ \A x \in Executions : x # d => row'[x] = row[x]
      BY <1>1, <2>1, <3>1
    <3> QED
      BY <2>2, <3>1, <3>2
  <2> QED
    BY <2>3, <2>4 DEF Harmless
<1>3. CountsTyped'
  BY <1>1 DEF PInv, CountsTyped
<1>4. \A x : Dues(x)' = Dues(x) /\ Credit(x)' = Credit(x) /\ (Called(x)' <=> Called(x))
  BY <1>1 DEF Dues, Credit, Called
<1>5. ASSUME NEW x \in Executions PROVE RowPaid(x)'
  <2>1. /\ RowPaid(x) /\ Dues(x) \in Nat /\ Credit(x) \in Nat
        /\ Cost(row[x]) \in Nat /\ Cost(row'[x]) \in Nat
    BY DuesFacts, CostFacts DEF PInv, TablesPaid
  <2>2. Dues(x)' + Cost(row'[x]) <= Credit(x)' + (IF Called(x)' THEN 1 ELSE 0)
    BY <1>2, <1>4, <2>1 DEF RowPaid
  <2>3. Guarded(x, row[x])' /\ (blind'[x] > 0 => reopened'[x] > 0)
    BY <1>1, <1>2, <2>1 DEF RowPaid, Guarded
  <2> QED
    BY <2>2, <2>3 DEF RowPaid
<1>6. TablesPaid'
  BY <1>1, <1>5 DEF PInv, TablesPaid
<1>7. ASSUME NEW q \in Processes PROVE Peaceful(q)
  <2>1. d \notin DOMAIN tick[q].row /\ DOMAIN tick[q].row \subseteq Executions
    BY TickFacts DEF Free
  <2>2. \A x \in Executions : Dues(x) \in Nat /\ Credit(x) \in Nat /\ reopened[x] \in Nat
    BY DuesFacts
  <2> QED
    BY <1>1, <1>2, <1>4, <2>1, <2>2 DEF Peaceful
<1> QED
  BY <1>1, <1>3, <1>6, <1>7, TablePaid

LEMMA OrphanedHarmless ==
    ASSUME NEW d \in Delegations
    PROVE  Harmless(d, Orphaned(d))
<1> DEFINE r == Entry("unresolved", FALSE)
<1>1. r.status = "unresolved" /\ r.args = FALSE
  BY DEF Entry
<1> HIDE DEF r
<1>2. NoRow.args = FALSE /\ Cost(NoRow) = 1 /\ Cost(r) = 1
  BY <1>1 DEF NoRow, Cost
<1>3. Keeps(NoRow, r) /\ Guarded(d, r) /\ Cost(r) <= Cost(NoRow)
  BY <1>1, <1>2 DEF Keeps, Guarded, OpenStatuses
<1>4. Orphaned(d) = row \/ (row[d] = NoRow /\ Orphaned(d) = [row EXCEPT ![d] = r])
  BY DEF Orphaned, r
<1> QED
  BY <1>3, <1>4 DEF Harmless

LEMMA ReconciledHarmless ==
    ASSUME IInv, NEW d \in Delegations
    PROVE  Harmless(d, Reconciled(d))
<1>1. CASE row[d].status = "unresolved"
  <2>1. row[d] \in CompensationRecord
    <3>1. row[d] \in CompensationRecord \cup {NoRow}
      BY DEF IInv, TablesTyped, Executions
    <3> QED
      BY <3>1, <1>1 DEF NoRow
  <2>2. row \in [Executions -> CompensationRecord \cup {NoRow}] /\ d \in Executions
    BY DEF IInv, TablesTyped, Executions
  <2> DEFINE m == Moved(row[d], "pending")
             up == [m EXCEPT !.args = TRUE]
             n == row[d].version + 1
             same == [row[d] EXCEPT !.version = n]
  <2>3. m \in CompensationRecord /\ m.status = "pending"
    BY <2>1, MovedFacts DEF OpenStatuses
  <2> HIDE DEF m, n
  <2>4. /\ up.args = TRUE /\ up.status = "pending"
        /\ same.args = row[d].args /\ same.at = row[d].at /\ same.status = "unresolved"
    BY <1>1, <2>1, <2>3 DEF CompensationRecord
  <2>5. \/ Reconciled(d) = row
        \/ ~ row[d].args /\ Reconciled(d) = [row EXCEPT ![d] = up]
        \/ Reconciled(d) = [row EXCEPT ![d] = same]
    BY <2>2 DEF Reconciled, Upgradable, m, n
  <2> HIDE DEF up, same
  <2>6. Keeps(row[d], same) /\ Guarded(d, same) /\ Cost(same) <= Cost(row[d])
    BY <1>1, <2>4 DEF Keeps, Guarded, Cost, OpenStatuses
  <2>7. ~ row[d].args => Keeps(row[d], up) /\ Guarded(d, up) /\ Cost(up) <= Cost(row[d])
    BY <1>1, <2>4 DEF Keeps, Guarded, Cost, OpenStatuses
  <2> QED
    BY <2>5, <2>6, <2>7 DEF Harmless
<1>2. CASE row[d].status # "unresolved"
  BY <1>2 DEF Reconciled, Upgradable, Harmless
<1> QED
  BY <1>1, <1>2

\* The ticks that do not bring the run back to life.
LEMMA SettlementsPaid ==
    ASSUME IInv, PInv, NEW p \in Processes, NEW d \in Delegations,
           \/ WakeLate(p, d) \/ WakeOver(p, d) \/ ExpireOver(p, d) \/ AbandonChild(p, d)
    PROVE  PInv'
<1>1. CASE WakeLate(p, d)
  BY <1>1, ReconciledHarmless, SettlesPaid DEF WakeLate
<1>2. CASE WakeOver(p, d)
  <2> DEFINE newRow == IF run = "completed" THEN row ELSE Orphaned(d)
  <2>1. Harmless(d, newRow)
    BY OrphanedHarmless DEF Harmless
  <2>2. Free(p, d) /\ Settles(newRow, [child EXCEPT ![d].delivered = TRUE])
    BY <1>2 DEF WakeOver
  <2> HIDE DEF newRow
  <2> QED
    BY <2>1, <2>2, SettlesPaid
<1>3. CASE ExpireOver(p, d)
  BY <1>3, OrphanedHarmless, SettlesPaid DEF ExpireOver
<1>4. CASE AbandonChild(p, d)
  BY <1>4, OrphanedHarmless, SettlesPaid DEF AbandonChild
<1> QED
  BY <1>1, <1>2, <1>3, <1>4

\* An undo that was left in the queue is called: it was owed, and now it is done.
LEMMA UndoIsRetriedPaid ==
    ASSUME IInv, PInv, NEW q \in queued, UndoIsRetried(q)
    PROVE  PInv'
<1> DEFINE e == q.exec
<1>1. /\ queued' = queued \ {q} /\ Undo(e, q.args)
      /\ UNCHANGED <<row, tick, reopened, lost>> /\ IsFiniteSet(queued)
      /\ ~ q.args => reopened[e] > 0
  BY DEF UndoIsRetried, history, PInv, TablesPaid
<1>2. e \in Executions
  BY DEF IInv, TablesTyped, QueuedUndo
<1> HIDE DEF e
<1>3. /\ undone' \in [Executions -> Nat] /\ blind' \in [Executions -> Nat]
      /\ undone'[e] + blind'[e] = undone[e] + blind[e] + 1
      /\ \A x \in Executions : x # e => undone'[x] = undone[x] /\ blind'[x] = blind[x]
      /\ blind'[e] # blind[e] => reopened[e] > 0
  <2>1. undone \in [Executions -> Nat] /\ blind \in [Executions -> Nat]
    BY DEF PInv, CountsTyped
  <2>2. CASE q.args
    <3>1. undone' = [undone EXCEPT ![e] = @ + 1] /\ blind' = blind
      BY <1>1, <2>2 DEF Undo
    <3> QED
      BY <1>2, <2>1, <3>1
  <2>3. CASE ~ q.args
    <3>1. undone' = undone /\ blind' = [blind EXCEPT ![e] = @ + 1]
      BY <1>1, <2>3 DEF Undo
    <3> QED
      BY <1>1, <1>2, <2>1, <2>3, <3>1
  <2> QED
    BY <2>2, <2>3
<1>4. CountsTyped'
  BY <1>1, <1>3 DEF PInv, CountsTyped
<1>5. /\ IsFiniteSet(queued')
      /\ \A x : Owed(queued', x) = IF q.exec = x THEN Owed(queued, x) - 1 ELSE Owed(queued, x)
  BY <1>1, OwedLess
<1>6. ASSUME NEW x \in Executions PROVE Dues(x)' = Dues(x) /\ Credit(x)' = Credit(x)
  <2>1. /\ undone[x] \in Nat /\ blind[x] \in Nat /\ undone'[x] \in Nat /\ blind'[x] \in Nat
        /\ Owed(queued, x) \in Nat
    BY <1>1, <1>3, OwedFacts DEF PInv, CountsTyped
  <2>2. Dues(x)' = undone'[x] + blind'[x] + Owed(queued', x)
    BY DEF Dues, Owed
  <2>3. Credit(x)' = Credit(x)
    BY <1>1 DEF Credit
  <2>4. CASE x = e
    <3>1. Owed(queued', x) = Owed(queued, x) - 1
      BY <1>5, <2>4 DEF e
    <3>2. undone'[x] + blind'[x] = undone[x] + blind[x] + 1
      BY <1>3, <2>4
    <3> QED
      BY <2>1, <2>2, <2>3, <3>1, <3>2 DEF Dues
  <2>5. CASE x # e
    <3>1. Owed(queued', x) = Owed(queued, x)
      BY <1>5, <2>5 DEF e
    <3> QED
      BY <1>3, <2>2, <2>3, <2>5, <3>1 DEF Dues
  <2> QED
    BY <2>4, <2>5
<1>7. ASSUME NEW x \in Executions PROVE RowPaid(x)'
  <2>1. RowPaid(x)
    BY DEF PInv, TablesPaid
  <2>2. row'[x] = row[x] /\ reopened'[x] = reopened[x] /\ (Called(x)' <=> Called(x))
    BY <1>1 DEF Called
  <2>3. blind'[x] > 0 => reopened'[x] > 0
    BY <1>3, <2>1, <2>2 DEF RowPaid
  <2> QED
    BY <1>6, <2>1, <2>2, <2>3 DEF RowPaid, Guarded
<1>8. TablesPaid'
  BY <1>1, <1>5, <1>7 DEF PInv, TablesPaid
<1>9. ASSUME NEW p \in Processes PROVE Peaceful(p)
  <2>1. DOMAIN tick[p].row \subseteq Executions
    BY TickFacts
  <2>2. \A x \in Executions : Dues(x) \in Nat /\ Credit(x) \in Nat /\ reopened[x] \in Nat
    BY DuesFacts
  <2> QED
    BY <1>1, <1>6, <2>1, <2>2 DEF Peaceful, Keeps
<1> QED
  BY <1>1, <1>4, <1>8, <1>9, TablePaid

\* A human puts a row back: one more undo is paid for.
LEMMA ReopenPaid ==
    ASSUME IInv, PInv, NEW e \in Executions, Reopen(e)
    PROVE  PInv'
<1> DEFINE r == Moved(row[e], "pending")
<1>1. /\ UNCHANGED <<queued, tick, undone, blind, lost>>
      /\ row' = [row EXCEPT ![e] = r] /\ reopened' = [reopened EXCEPT ![e] = @ + 1]
      /\ row[e].status = "unresolved"
      /\ \A p \in Processes : e \notin DOMAIN tick[p].row
  BY DEF Reopen, Allowed, world
<1>2. row[e] \in CompensationRecord
  <2>1. row[e] \in CompensationRecord \cup {NoRow}
    BY DEF IInv, TablesTyped
  <2> QED
    BY <2>1, <1>1 DEF NoRow
<1>3. r.status = "pending" /\ r.args = row[e].args
  BY <1>2, MovedKeeps
<1> HIDE DEF r
<1>4. row'[e] = r /\ \A x \in Executions : x # e => row'[x] = row[x]
  BY <1>1 DEF IInv, TablesTyped
<1>5. /\ reopened' \in [Executions -> Nat] /\ reopened'[e] = reopened[e] + 1
      /\ \A x \in Executions : x # e => reopened'[x] = reopened[x]
  BY <1>1 DEF PInv, CountsTyped
<1>6. CountsTyped'
  BY <1>1, <1>5 DEF PInv, CountsTyped
<1>7. \A x \in Executions : Dues(x) \in Nat /\ Credit(x) \in Nat /\ reopened[x] \in Nat
  BY DuesFacts
<1>8. \A x \in Executions : /\ Dues(x)' = Dues(x)
                            /\ Credit(x)' = Credit(x) + (IF x = e THEN 1 ELSE 0)
                            /\ Called(x)' <=> Called(x)
  <2> SUFFICES ASSUME NEW x \in Executions
               PROVE  /\ Dues(x)' = Dues(x)
                      /\ Credit(x)' = Credit(x) + (IF x = e THEN 1 ELSE 0)
                      /\ Called(x)' <=> Called(x)
    OBVIOUS
  <2>1. Dues(x)' = Dues(x) /\ (Called(x)' <=> Called(x))
    BY <1>1 DEF Dues, Called
  <2>2. lost[x] \in Nat /\ reopened[x] \in Nat
    BY DEF PInv, CountsTyped
  <2> QED
    BY <1>1, <1>5, <2>1, <2>2 DEF Credit
<1>9. ASSUME NEW x \in Executions PROVE RowPaid(x)'
  <2>1. RowPaid(x) /\ Cost(row[x]) \in Nat /\ Cost(row'[x]) \in Nat
    BY CostFacts DEF PInv, TablesPaid
  <2>2. CASE x = e
    <3>1. Cost(r) <= Cost(row[e]) + 1
      BY <1>1, <1>3 DEF Cost
    <3>2. Dues(x)' + Cost(row'[x]) <= Credit(x)' + (IF Called(x)' THEN 1 ELSE 0)
      BY <1>4, <1>7, <1>8, <2>1, <2>2, <3>1 DEF RowPaid
    <3>3. reopened'[x] > 0
      BY <1>5, <1>7, <2>2
    <3> QED
      BY <3>2, <3>3 DEF RowPaid, Guarded
  <2>3. CASE x # e
    <3>1. row'[x] = row[x] /\ blind'[x] = blind[x] /\ reopened'[x] = reopened[x]
          /\ Dues(x)' = Dues(x) /\ Credit(x)' = Credit(x) /\ (Called(x)' <=> Called(x))
      BY <1>1, <1>4, <1>5, <1>7, <1>8, <2>3
    <3> QED
      BY <2>1, <3>1 DEF RowPaid, Guarded
  <2> QED
    BY <2>2, <2>3
<1>10. TablesPaid'
  <2>1. ASSUME NEW q \in queued, ~ q.args PROVE reopened'[q.exec] > 0
    <3>1. q.exec \in Executions /\ reopened[q.exec] > 0
      BY <2>1 DEF IInv, TablesTyped, QueuedUndo, PInv, TablesPaid
    <3> QED
      BY <1>5, <1>7, <3>1
  <2> QED
    BY <1>1, <1>9, <2>1 DEF PInv, TablesPaid
<1>11. ASSUME NEW p \in Processes PROVE Peaceful(p)
  <2>1. DOMAIN tick[p].row \subseteq Executions /\ e \notin DOMAIN tick[p].row
    BY <1>1, TickFacts
  <2>2. \A x \in Executions : reopened'[x] >= reopened[x] /\ (reopened'[x] = 0 => x # e)
    BY <1>5, <1>7
  <2>3. \A x \in Executions : reopened'[x] = 0 => Keeps(row[x], row'[x])
    BY <1>4, <2>2 DEF Keeps
  <2>4. \A x \in DOMAIN tick[p].row : /\ row'[x] = row[x]
                                      /\ Dues(x)' + Credit(x) <= Dues(x) + Credit(x)'
    BY <1>4, <1>7, <1>8, <2>1
  <2> QED
    BY <2>2, <2>3, <2>4 DEF Peaceful
<1> QED
  BY <1>1, <1>6, <1>10, <1>11, TablePaid

\* A transaction that has written nothing has nothing to pay for.
LEMMA IdlePaid ==
    ASSUME NEW p \in Processes, tick'[p] = IdleTick
    PROVE  SpendingOK(tick[p])' /\ OrderOK(tick[p])'
<1>1. /\ tick'[p].row = NoWrites /\ tick'[p].queued = {} /\ tick'[p].called = {}
      /\ tick'[p].phase = "idle" /\ DOMAIN NoWrites = {}
  BY DEF IdleTick, NoWrites
<1> QED
  BY <1>1, FS_EmptySet DEF SpendingOK, OrderOK

\* A tick is rolled back: what it undid was undone for nothing.
LEMMA RollBackPaid ==
    ASSUME IInv, PInv, NEW p \in Processes, RollBack(p)
    PROVE  PInv'
<1>1. /\ UNCHANGED <<row, queued, undone, blind, reopened>>
      /\ lost' = [e \in Executions |-> lost[e] + IF e \in tick[p].called THEN 1 ELSE 0]
      /\ tick' = [tick EXCEPT ![p] = IdleTick]
  BY DEF RollBack, Continue, tables, world
<1>2. tick'[p] = IdleTick /\ \A q \in Processes \ {p} : tick'[q] = tick[q]
  BY <1>1 DEF IInv
<1>3. lost' \in [Executions -> Nat] /\ CountsTyped'
  BY <1>1 DEF PInv, CountsTyped
<1>4. \A x \in Executions : Dues(x) \in Nat /\ Credit(x) \in Nat /\ reopened[x] \in Nat
  BY DuesFacts
<1>5. ASSUME NEW x \in Executions
      PROVE  /\ Dues(x)' = Dues(x)
             /\ Credit(x)' = Credit(x) + (IF x \in tick[p].called THEN 1 ELSE 0)
  <2>1. lost[x] \in Nat /\ reopened[x] \in Nat
    BY DEF PInv, CountsTyped
  <2>2. lost'[x] = lost[x] + IF x \in tick[p].called THEN 1 ELSE 0
    BY <1>1
  <2>3. Dues(x)' = Dues(x)
    BY <1>1 DEF Dues
  <2> QED
    BY <1>1, <2>1, <2>2, <2>3 DEF Credit
<1>6. ASSUME NEW x \in Executions
      PROVE  Called(x)' <=> Called(x) /\ x \notin tick[p].called
  <2>1. IdleTick.called = {}
    BY DEF IdleTick
  <2>2. ASSUME x \in tick[p].called, NEW q \in Processes \ {p}
        PROVE  x \notin tick[q].called
    BY <2>2, TickFacts DEF PInv, SpendingOK, TickInv, WritesOK
  <2>3. Called(x)' <=> \E q \in Processes \ {p} : x \in tick[q].called
    BY <1>2, <2>1 DEF Called
  <2> QED
    BY <2>2, <2>3 DEF Called
<1>7. ASSUME NEW x \in Executions PROVE RowPaid(x)'
  <2>1. RowPaid(x) /\ Cost(row[x]) \in Nat
    BY CostFacts DEF PInv, TablesPaid
  <2>2. x \in tick[p].called => Called(x)
    BY DEF Called
  <2>3. Dues(x)' + Cost(row[x]) <= Credit(x)' + (IF Called(x)' THEN 1 ELSE 0)
    BY <1>4, <1>5, <1>6, <2>1, <2>2 DEF RowPaid
  <2> QED
    BY <1>1, <2>1, <2>3 DEF RowPaid, Guarded
<1>8. TablesPaid'
  BY <1>1, <1>7 DEF PInv, TablesPaid
<1>9. ASSUME NEW q \in Processes \ {p} PROVE Peaceful(q)
  <2>1. DOMAIN tick[q].row \subseteq Executions
    BY TickFacts
  <2> QED
    BY <1>1, <1>4, <1>5, <2>1 DEF Peaceful, Keeps
<1>10. IsFiniteSet(queued')
  BY <1>1 DEF PInv, TablesPaid
<1>11. ASSUME NEW q \in Processes PROVE SpendingOK(tick[q])' /\ OrderOK(tick[q])'
  BY <1>2, <1>3, <1>9, <1>10, IdlePaid, OthersPaid
<1> QED
  BY <1>3, <1>8, <1>11 DEF PInv

\* What a transaction has written was paid for when it was written.
LEMMA CommitPaid ==
    ASSUME IInv, PInv, NEW p \in Processes, Commit(p)
    PROVE  PInv'
<1> DEFINE t == tick[p]
<1>1. /\ row' = Over(t.row, row) /\ queued' = queued \cup t.queued
      /\ tick' = [tick EXCEPT ![p] = IdleTick]
      /\ UNCHANGED <<undone, blind, reopened, lost>>
  BY DEF Commit, Continue, world, history
<1>2. tick'[p] = IdleTick /\ \A q \in Processes \ {p} : tick'[q] = tick[q]
  BY <1>1 DEF IInv
<1>3. CountsTyped'
  BY <1>1 DEF PInv, CountsTyped
<1>4. SpendingOK(t) /\ IsFiniteSet(queued) /\ DOMAIN t.row \subseteq Executions
  BY TickFacts DEF PInv, TablesPaid
<1>5. /\ IsFiniteSet(queued')
      /\ \A x : Owed(queued', x) <= Owed(queued, x) + Owed(t.queued, x)
      /\ \A x : Owed(queued', x) \in Nat /\ Owed(queued, x) \in Nat /\ Owed(t.queued, x) \in Nat
  <2>1. IsFiniteSet(t.queued)
    BY <1>4 DEF SpendingOK
  <2>2. /\ IsFiniteSet(queued')
        /\ \A x : Owed(queued', x) <= Owed(queued, x) + Owed(t.queued, x)
    BY <1>1, <1>4, <2>1, OwedTogether
  <2> QED
    BY <1>4, <2>1, <2>2, OwedFacts
<1>6. \A x \in Executions : row'[x] = IF x \in DOMAIN t.row THEN t.row[x] ELSE row[x]
  <2>1. DOMAIN row = Executions
    BY DEF IInv, TablesTyped
  <2> QED
    BY <1>1, <2>1 DEF Over
<1>7. \A x \in Executions : Dues(x) \in Nat /\ Credit(x) \in Nat /\ reopened[x] \in Nat
  BY DuesFacts
<1>8. ASSUME NEW x \in Executions
      PROVE  /\ Dues(x)' \in Nat /\ Dues(x)' <= Dues(x) + Owed(t.queued, x)
             /\ Credit(x)' = Credit(x)
             /\ x \notin DOMAIN t.row => Dues(x)' <= Dues(x)
  <2>1. undone[x] \in Nat /\ blind[x] \in Nat
    BY DEF PInv, CountsTyped
  <2>2. Dues(x)' = undone[x] + blind[x] + Owed(queued', x)
    BY <1>1 DEF Dues, Owed
  <2>3. Credit(x)' = Credit(x)
    BY <1>1 DEF Credit
  <2>4. Dues(x) = undone[x] + blind[x] + Owed(queued, x)
    BY DEF Dues
  <2>5. Owed(queued', x) <= Owed(queued, x) + Owed(t.queued, x)
        /\ Owed(queued', x) \in Nat /\ Owed(queued, x) \in Nat /\ Owed(t.queued, x) \in Nat
    BY <1>5
  <2>6. x \notin DOMAIN t.row => Owed(t.queued, x) = 0
    BY <1>4, OwedFacts DEF SpendingOK
  <2> QED
    BY <2>1, <2>2, <2>3, <2>4, <2>5, <2>6
<1>9. ASSUME NEW x \in Executions PROVE RowPaid(x)'
  <2>1. RowPaid(x) /\ Cost(row[x]) \in Nat /\ Owed(t.queued, x) \in Nat
    BY <1>5, CostFacts DEF PInv, TablesPaid
  <2>2. blind'[x] > 0 => reopened'[x] > 0
    BY <1>1, <2>1 DEF RowPaid
  <2>3. CASE x \in DOMAIN t.row
    <3>1. WrittenPaid(t, x) /\ row'[x] = t.row[x] /\ Cost(t.row[x]) \in Nat
      BY <1>4, <1>6, <2>3, CostFacts DEF SpendingOK
    <3>2. Dues(x) + Owed(t.queued, x) + Cost(t.row[x]) <= Credit(x)
      BY <3>1 DEF WrittenPaid
    <3>3. Dues(x)' + Cost(row'[x]) <= Credit(x)' + (IF Called(x)' THEN 1 ELSE 0)
      BY <1>7, <1>8, <2>1, <3>1, <3>2
    <3>4. Guarded(x, row[x])'
      BY <1>1, <3>1 DEF WrittenPaid, Guarded
    <3> QED
      BY <2>2, <3>3, <3>4 DEF RowPaid
  <2>4. CASE x \notin DOMAIN t.row
    <3>1. row'[x] = row[x]
      BY <1>6, <2>4
    <3>2. Called(x) => Called(x)'
      BY <1>2, <1>4, <2>4 DEF Called, SpendingOK
    <3>3. Dues(x)' + Cost(row'[x]) <= Credit(x)' + (IF Called(x)' THEN 1 ELSE 0)
      BY <1>7, <1>8, <2>1, <2>4, <3>1, <3>2 DEF RowPaid
    <3>4. Guarded(x, row[x])'
      BY <1>1, <2>1, <3>1 DEF RowPaid, Guarded
    <3> QED
      BY <2>2, <3>3, <3>4 DEF RowPaid
  <2> QED
    BY <2>3, <2>4
<1>10. TablesPaid'
  <2>1. \A q \in queued' : ~ q.args => reopened'[q.exec] > 0
    BY <1>1, <1>4 DEF PInv, TablesPaid, SpendingOK
  <2> QED
    BY <1>5, <1>9, <2>1 DEF TablesPaid
<1>11. ASSUME NEW q \in Processes \ {p} PROVE Peaceful(q)
  <2>1. DOMAIN tick[q].row \subseteq Executions /\ \A x \in DOMAIN tick[q].row : x \notin DOMAIN t.row
    BY TickFacts DEF TickInv, WritesOK
  <2>2. ASSUME NEW x \in Executions PROVE Keeps(row[x], row'[x])
    <3>1. CASE x \in DOMAIN t.row
      BY <1>4, <1>6, <3>1 DEF SpendingOK, WrittenPaid
    <3>2. CASE x \notin DOMAIN t.row
      BY <1>6, <3>2 DEF Keeps
    <3> QED
      BY <3>1, <3>2
  <2>3. ASSUME NEW x \in DOMAIN tick[q].row
        PROVE  row'[x] = row[x] /\ Dues(x)' + Credit(x) <= Dues(x) + Credit(x)'
    <3>1. x \in Executions /\ x \notin DOMAIN t.row
      BY <2>1
    <3> QED
      BY <1>6, <1>7, <1>8, <3>1
  <2> QED
    BY <1>1, <1>7, <2>2, <2>3 DEF Peaceful
<1>12. ASSUME NEW q \in Processes PROVE SpendingOK(tick[q])' /\ OrderOK(tick[q])'
  BY <1>2, <1>3, <1>5, <1>11, IdlePaid, OthersPaid
<1> QED
  BY <1>3, <1>10, <1>12 DEF PInv

-----------------------------------------------------------------------------
(* The second invariant. *)

LEMMA InitPaid == Init => PInv
<1> SUFFICES ASSUME Init PROVE PInv
  OBVIOUS
<1>1. /\ queued = {} /\ IsFiniteSet(queued) /\ \A e : Owed(queued, e) = 0
      /\ \A p \in Processes : tick[p] = IdleTick
      /\ \A e \in Executions : /\ undone[e] = 0 /\ blind[e] = 0 /\ reopened[e] = 0
                               /\ lost[e] = 0 /\ row[e] = NoRow
  BY FS_EmptySet, OwedFacts DEF Init
<1>2. CountsTyped
  BY DEF Init, CountsTyped
<1>3. NoRow.status = "none" /\ NoRow.args = FALSE /\ Cost(NoRow) = 1
  BY DEF NoRow, Cost
<1>4. \A e \in Executions : RowPaid(e)
  BY <1>1, <1>3 DEF RowPaid, Guarded, Dues, Credit, OpenStatuses
<1>5. /\ IdleTick.row = NoWrites /\ IdleTick.queued = {} /\ IdleTick.called = {}
      /\ IdleTick.phase = "idle" /\ DOMAIN NoWrites = {}
  BY DEF IdleTick, NoWrites
<1>6. SpendingOK(IdleTick) /\ OrderOK(IdleTick)
  BY <1>5, FS_EmptySet DEF SpendingOK, OrderOK
<1> QED
  BY <1>1, <1>2, <1>4, <1>6 DEF PInv, TablesPaid

LEMMA StepPaid ==
    ASSUME IInv, PInv, NEW p \in Processes, Step(p)
    PROVE  PInv'
<1>1. ASSUME NEW d \in Delegations,
             \/ WakeLate(p, d) \/ WakeOver(p, d) \/ ExpireOver(p, d) \/ AbandonChild(p, d)
      PROVE  PInv'
  BY <1>1, SettlementsPaid
<1>2. ASSUME NEW job \in JobsOf[p], NEW d \in Delegations \cup {None}, Rebuild(p, job, d)
      PROVE  PInv'
  BY <1>2, RebuildPaid
<1>3. ASSUME DeliverResult(p) \/ DeclareUnknown(p) \/ AlreadyClosed(p) \/ Drive(p) \/ CancelRun(p)
      PROVE  PInv'
  BY <1>3, DeliverResultPaid, DeclareUnknownPaid, AlreadyClosedPaid, DrivePaid, CancelRunPaid
<1>4. ASSUME NEW e \in Calls, NEW o \in {"completed", "failed", "unknown", "retrying"},
             NEW keys \in BOOLEAN, CallTool(p, e, o, keys)
      PROVE  PInv'
  BY <1>4, CallToolPaid
<1>5. ASSUME NEW d \in Delegations, Delegate(p, d) PROVE PInv'
  BY <1>5, DelegatePaid
<1>6. ASSUME Pause(p) \/ Fail(p) \/ Complete(p) PROVE PInv'
  BY <1>6, PausePaid, GiveVerdictPaid DEF Fail, Complete
<1>7. ASSUME Claim(p) \/ (\E o \in UndoOutcomes : CallUndo(p, o)) \/ Release(p) PROVE PInv'
  BY <1>7, ClaimPaid, CallUndoPaid, ReleasePaid
<1>8. ASSUME Commit(p) \/ Abort(p) \/ Raise(p) PROVE PInv'
  BY <1>8, CommitPaid, RollBackPaid DEF Abort, Raise
<1> QED
  BY <1>1, <1>2, <1>3, <1>4, <1>5, <1>6, <1>7, <1>8 DEF Step

LEMMA NextPaid == IInv /\ PInv /\ [Next]_vars => PInv'
<1> SUFFICES ASSUME IInv, PInv, [Next]_vars PROVE PInv'
  OBVIOUS
<1>1. ASSUME NEW p \in Processes, Step(p) PROVE PInv'
  BY <1>1, StepPaid
<1>2. ASSUME NEW d \in Delegations, NEW s \in ChildStatuses, NEW keys \in BOOLEAN,
             ChildFinishes(d, s, keys)
      PROVE  PInv'
  BY <1>2, StillPaid DEF ChildFinishes
<1>3. ASSUME NEW e \in Executions, CallIsRetried(e) PROVE PInv'
  BY <1>3, StillPaid DEF CallIsRetried
<1>4. ASSUME Environment PROVE PInv'
  BY <1>2, <1>3, <1>4, UndoIsRetriedPaid, ReopenPaid DEF Environment
<1>5. ASSUME UNCHANGED vars PROVE PInv'
  <2>1. UNCHANGED <<row, queued, tick, world, history>>
    BY <1>5 DEF vars, tables
  <2> QED
    BY <2>1, StillPaid
<1> QED
  BY <1>1, <1>4, <1>5 DEF Next

\* Both invariants hold in every reachable state.
LEMMA BothInvariants == Spec => [](IInv /\ PInv)
<1>1. IInv /\ PInv /\ [Next]_vars => (IInv /\ PInv)'
  BY NextInv, NextPaid
<1>2. Init => IInv /\ PInv
  BY InitInv, InitPaid
<1> QED
  BY <1>1, <1>2, PTL DEF Spec

-----------------------------------------------------------------------------
(* Theorems. *)

\* The tables and the transactions have the shape the schema and the code give
\* them; no result is delivered before it is there, and no wait ends that never
\* began.
THEOREM TypeCorrect == Spec => []TypeOK
<1>1. IInv => TypeOK
  <2> SUFFICES ASSUME IInv PROVE TypeOK
    OBVIOUS
  <2>1. ASSUME NEW p \in Processes PROVE TickOK(tick[p])
    <3>1. /\ tick[p] \in TickRecord /\ CallingOK(tick[p])
          /\ tick[p].fwd \in Partial(WrittenStatuses)
          /\ DOMAIN tick[p].row \subseteq Executions
          /\ \A e \in DOMAIN tick[p].row : tick[p].row[e] \in CompensationRecord
      BY TickFacts DEF TickInv
    <3>2. DOMAIN tick[p].fwd \subseteq Executions
      BY <3>1, PartialFacts
    <3> QED
      BY <3>1, <3>2 DEF TickOK, TickRecord, CallingOK
  <2> QED
    BY <2>1 DEF TypeOK, IInv, TablesTyped, TablesFollow
<1> QED
  BY InitInv, NextInv, <1>1, PTL DEF Spec

\* S-4, PostgresCompensationStore.claim() and SagaCoordinator.compensate(): no
\* transaction, whether it commits or rolls back, leaves a row `running`.
THEOREM ClaimsAreSettled == Spec => []NoClaimIsLeft
<1>1. IInv => NoClaimIsLeft
  BY DEF IInv, TablesFollow, NoClaimIsLeft
<1> QED
  BY InitInv, NextInv, <1>1, PTL DEF Spec

\* S-14, _ALLOWED_TRANSITIONS: a row that is compensated or not needed never
\* changes again, whichever processes, late results and humans act on the run.
THEOREM FinalRowsStay == Spec => LedgerNeverFlowsBack
<1>1. IInv /\ [Next]_vars
      => [\A e \in Executions : row[e].status \in FinalStatuses => row'[e] = row[e]]_vars
  BY FinalStays
<1> QED
  BY InitInv, NextInv, <1>1, PTL DEF Spec, LedgerNeverFlowsBack

\* S-2 and S-4, record() and claim(): however many processes end the run, however late
\* results come in and however often ticks fail, a side effect is undone once, and once
\* more for each decision of a human and each tick that undid it and was rolled back.
THEOREM UndoneOnce == Spec => []UndoneOncePerDecision
<1>1. IInv /\ PInv => UndoneOncePerDecision
  <2> SUFFICES ASSUME IInv, PInv, NEW e \in Executions
               PROVE  undone[e] + blind[e] <= 1 + reopened[e] + lost[e]
    BY DEF UndoneOncePerDecision
  <2>1. /\ undone[e] \in Nat /\ blind[e] \in Nat /\ Owed(queued, e) \in Nat
        /\ Dues(e) \in Nat /\ Credit(e) \in Nat
    BY OwedFacts, DuesFacts DEF PInv, CountsTyped, TablesPaid
  <2>2. Dues(e) <= Credit(e)
    <3>1. CASE Called(e)
      <4>1. PICK p \in Processes : e \in tick[p].called
        BY <3>1 DEF Called
      <4>2. /\ WrittenPaid(tick[p], e)
            /\ Owed(tick[p].queued, e) \in Nat /\ Cost(tick[p].row[e]) \in Nat
        BY <4>1, OwedFacts, CostFacts DEF PInv, SpendingOK
      <4> QED
        BY <2>1, <4>2 DEF WrittenPaid
    <3>2. CASE ~ Called(e)
      <4>1. RowPaid(e) /\ Cost(row[e]) \in Nat
        BY CostFacts DEF PInv, TablesPaid
      <4> QED
        BY <2>1, <3>2, <4>1 DEF RowPaid
    <3> QED
      BY <3>1, <3>2
  <2> QED
    BY <2>1, <2>2 DEF Dues, Credit
<1> QED
  BY BothInvariants, <1>1, PTL

\* S-8, reopen(): an undo is called without its arguments only once a human has put the
\* row back; no automatic path, late results and repeated calls included, does it.
THEOREM BlindUndoIsADecision == Spec => []BlindOnlyByHand
<1>1. IInv /\ PInv => BlindOnlyByHand
  BY DEF PInv, TablesPaid, RowPaid, BlindOnlyByHand
<1> QED
  BY BothInvariants, <1>1, PTL

\* S-3, open_for() and compensate(): when an undo is called, whatever was booked after it
\* and pending at the verdict has been dealt with.
THEOREM YoungestIsUndoneFirst == Spec => []UndoneInReverse
<1>1. IInv /\ PInv => UndoneInReverse
  <2> SUFFICES ASSUME IInv, PInv, NEW p \in Processes, tick[p].phase = "calling",
                      NEW e \in tick[p].seen, RowSeenBy(p, e).status = "pending",
                      RowSeenBy(p, e).at > Current(p).at
               PROVE  reopened[e] > 0
    BY DEF UndoneInReverse, In
  <2> SUFFICES ASSUME ~ (reopened[e] > 0) PROVE FALSE
    OBVIOUS
  <2>1. /\ OrderOK(tick[p]) /\ CallingOK(tick[p]) /\ tick[p].todo \in Seq(ItemRecord)
        /\ e \in Executions
    BY TickFacts DEF PInv, TickInv, TickRecord
  <2>2. reopened[e] = 0
    BY <2>1, DuesFacts
  <2>3. /\ YoungestFirst(tick[p].todo) /\ Listed(tick[p], e)
        /\ tick[p].row[Head(tick[p].todo).exec].status = "running"
        /\ tick[p].todo # <<>> /\ Head(tick[p].todo).exec \in DOMAIN tick[p].row
    BY <2>1, <2>2 DEF OrderOK, CallingOK
  <2>4. SeenIn(tick[p], e) = RowSeenBy(p, e)
    BY DEF SeenIn, RowSeenBy
  <2>5. PICK i \in ToSet(tick[p].todo) : i.exec = e /\ i.at = RowSeenBy(p, e).at
    BY <2>3, <2>4 DEF Listed
  <2>6. i # Head(tick[p].todo)
    BY <2>3, <2>5 DEF RowSeenBy
  <2>7. Younger(Head(tick[p].todo), i)
    BY <2>1, <2>3, <2>6, TailOrder
  <2>8. Head(tick[p].todo).at \in Nat /\ i.at \in Nat
    <3>1. Head(tick[p].todo) \in ItemRecord /\ i \in ItemRecord
      BY <2>1, <2>3, TailFacts
    <3> QED
      BY <3>1 DEF ItemRecord
  <2> QED
    BY <2>5, <2>7, <2>8 DEF Younger, Current
<1> QED
  BY BothInvariants, <1>1, PTL

\* S-6 and S-7, compensate(): a run that fails leaves nothing undone that was pending at
\* its verdict, whatever fails on the way and whatever others claim meanwhile.
THEOREM EverythingIsTried == Spec => []NothingIsSkipped
<1>1. IInv /\ PInv => NothingIsSkipped
  <2> SUFFICES ASSUME IInv, PInv, NEW p \in Processes, tick[p].phase = "undoing",
                      tick[p].todo = <<>>, NEW e \in tick[p].seen,
                      RowSeenBy(p, e).status = "pending", ~ (reopened[e] > 0)
               PROVE  FALSE
    BY DEF NothingIsSkipped, In
  <2>1. OrderOK(tick[p]) /\ e \in Executions
    BY TickFacts DEF PInv, TickRecord
  <2>2. reopened[e] = 0
    BY <2>1, DuesFacts
  <2>3. Listed(tick[p], e) /\ SeenIn(tick[p], e) = RowSeenBy(p, e)
    BY <2>1, <2>2 DEF OrderOK, SeenIn, RowSeenBy
  <2>4. ToSet(tick[p].todo) = {}
    BY DEF ToSet
  <2> QED
    BY <2>3, <2>4 DEF Listed
<1> QED
  BY BothInvariants, <1>1, PTL

-----------------------------------------------------------------------------
(* Results that come late: a third invariant.  It needs to know which ticks   *)
(* leave the run running, and that no two of them cross when one delegates.   *)

\* The tick t brings the run on, and will leave it running.
Resumes(t) == t.phase # "idle" /\ t.job # "cancel" /\ t.status = "running"

\* The commit of t will register the child run of d.
Registers(t, d) == d \in DOMAIN t.fwd /\ fwd[d] = "none"

\* While a tick has delegated and is not committed, no other tick brings the run
\* on: the gate the one opens is in the snapshot the other starts from.
DelegatesAlone ==
    \A p, q \in Processes : p # q =>
        \A d \in Delegations : Registers(tick[p], d) => ~ Resumes(tick[q])

\* A tick does one of its process's jobs; it has no verdict before it is driven and
\* ends no wait before it has looked for the gate, a cancelling one is brief, and
\* what it delegates is what it waits for.
JobOK(p, t) ==
    /\ t.phase # "idle" => t.job \in JobsOf[p]
    /\ t.phase \in {"rebuilt", "unblocked", "driving"} => t.status = "running"
    /\ t.phase = "rebuilt" => t.expires = {}
    /\ t.job = "cancel" => t.phase = "rebuilt" \/ (t.phase = "closing" /\ t.status = "cancelled")
    /\ t.pending # None => fwd[t.pending] # "none" \/ t.pending \in DOMAIN t.fwd
    /\ \A d \in Delegations :
           Registers(t, d) => Resumes(t) /\ t.phase = "closing" /\ t.pending = d

JInv ==
    /\ pending # None => fwd[pending] # "none"
    /\ \A p \in Processes : JobOK(p, tick[p])

\* A row that lacks its arguments is final only when a human had put it back.
FinalByHand(e, r) == r.status \in FinalStatuses /\ ~ r.args => reopened[e] > 0

\* A tick that leaves the run running waits for each child run that is awaited, or
\* ends the wait.
Tracks(t) ==
    Resumes(t) => \A d \in Delegations : Overdue(d) => t.pending = d \/ d \in t.expires

\* It ends no wait without a row, unless the result has come and it cannot commit.
EndsBooked(t) == \A d \in t.expires : Finished(d) \/ SeenIn(t, d) # NoRow

\* What it delivers was awaited when it came, or brings nothing.
Brings(t) ==
    /\ t.job = "wake" => ~ child[t.child].expired
    /\ \A d \in t.delivers :
           (t.job = "wake" /\ d = t.child) \/ child[d].status = "cancelled"

TickTrue(t) ==
    /\ Tracks(t) /\ EndsBooked(t) /\ Brings(t)
    /\ \A e \in DOMAIN t.row : FinalByHand(e, t.row[e])

TablesTrue ==
    /\ run = "running" => \A d \in Delegations : Overdue(d) => pending = d
    /\ \A d \in Delegations : child[d].expired => row[d] # NoRow
    /\ \A e \in Executions : FinalByHand(e, row[e])
    /\ TruthReachesTheLedger

TInv == TablesTrue /\ \A p \in Processes : TickTrue(tick[p])

-----------------------------------------------------------------------------
(* Steps inside one transaction. *)

\* A transaction that has not begun satisfies everything that is asked of one.
LEMMA IdleIsTrue == TickTrue(IdleTick) /\ \A p \in Processes : JobOK(p, IdleTick)
<1>1. /\ IdleTick.phase = "idle" /\ IdleTick.job = "none" /\ IdleTick.pending = None
      /\ IdleTick.delivers = {} /\ IdleTick.expires = {}
      /\ DOMAIN IdleTick.row = {} /\ DOMAIN IdleTick.fwd = {}
  BY DEF IdleTick, NoWrites
<1> QED
  BY <1>1 DEF TickTrue, Tracks, EndsBooked, Brings, JobOK, Resumes, Registers

\* What a transaction writes are rows.
LEMMA RowsAreRows ==
    ASSUME NEW t \in TickRecord
    PROVE  /\ DOMAIN t.row \subseteq Executions
           /\ \A e \in DOMAIN t.row : t.row[e] \in CompensationRecord /\ t.row[e] # NoRow
<1>1. t.row \in Partial(CompensationRecord)
  BY DEF TickRecord, Partial
<1>2. NoRow \notin CompensationRecord
  BY DEF NoRow, CompensationRecord, OpenStatuses, FinalStatuses
<1> QED
  BY <1>1, <1>2, PartialFacts

\* The shape of what a transaction is after a step.
LEMMA NewTick ==
    ASSUME IInv, IInv', NEW p \in Processes, NEW t, tick' = [tick EXCEPT ![p] = t]
    PROVE  /\ tick'[p] = t /\ \A q \in Processes \ {p} : tick'[q] = tick[q]
           /\ t \in TickRecord
<1>1. tick'[p] = t /\ \A q \in Processes \ {p} : tick'[q] = tick[q]
  BY DEF IInv
<1> QED
  BY <1>1 DEF IInv

\* A step that changes one transaction keeps both invariants when the transaction
\* is still in order.
LEMMA InTick ==
    ASSUME IInv, IInv', JInv, NEW p \in Processes, NEW t,
           tick' = [tick EXCEPT ![p] = t], UNCHANGED <<tables, reopened>>,
           JobOK(p, t), TInv => TickTrue(t)
    PROVE  JInv' /\ (TInv => TInv')
<1>1. /\ UNCHANGED <<run, pending, fwd, row, queued, child, reopened>>
      /\ tick'[p] = t /\ \A q \in Processes \ {p} : tick'[q] = tick[q]
  BY NewTick DEF tables
<1>2. ASSUME NEW q \in Processes, NEW u, JobOK(q, u), tick'[q] = u PROVE JobOK(q, tick[q])'
  BY <1>1, <1>2 DEF JobOK, Resumes, Registers
<1>3. ASSUME NEW q \in Processes, NEW u, TickTrue(u), tick'[q] = u PROVE TickTrue(tick[q])'
  BY <1>1, <1>3 DEF TickTrue, Tracks, EndsBooked, Brings, FinalByHand, Resumes, Overdue,
                    Running, Finished, SeenIn
<1>4. JInv'
  <2>1. ASSUME NEW q \in Processes PROVE JobOK(q, tick[q])'
    BY <1>1, <1>2 DEF JInv
  <2> QED
    BY <1>1, <2>1 DEF JInv
<1>5. ASSUME TInv PROVE TInv'
  <2>1. ASSUME NEW q \in Processes PROVE TickTrue(tick[q])'
    BY <1>1, <1>3, <1>5 DEF TInv
  <2>2. TablesTrue'
    BY <1>1, <1>5 DEF TInv, TablesTrue, TruthReachesTheLedger, FinalByHand, Overdue, Running
  <2> QED
    BY <2>1, <2>2 DEF TInv
<1> QED
  BY <1>4, <1>5

\* A step that neither delivers nor ends a wait, and leaves alone what the run
\* waits for.
LEMMA SameAims ==
    ASSUME IInv, TInv, NEW p \in Processes, NEW t \in TickRecord, tick[p].phase # "idle",
           t.job = tick[p].job, t.child = tick[p].child, t.pending = tick[p].pending,
           t.delivers = tick[p].delivers, t.expires = tick[p].expires,
           t.status = "running" => tick[p].status = "running",
           DOMAIN tick[p].row \subseteq DOMAIN t.row,
           \A e \in DOMAIN t.row : \/ e \in DOMAIN tick[p].row /\ t.row[e] = tick[p].row[e]
                                   \/ FinalByHand(e, t.row[e])
    PROVE  TickTrue(t)
<1>1. TickTrue(tick[p])
  BY DEF TInv
<1>2. Tracks(t) /\ Brings(t)
  BY <1>1 DEF TickTrue, Tracks, Brings, Resumes
<1>3. \A e \in DOMAIN t.row : t.row[e] # NoRow
  BY RowsAreRows
<1>4. EndsBooked(t)
  <2> SUFFICES ASSUME NEW d \in t.expires, ~ Finished(d) PROVE SeenIn(t, d) # NoRow
    BY DEF EndsBooked
  <2>1. SeenIn(tick[p], d) # NoRow
    BY <1>1 DEF TickTrue, EndsBooked
  <2> QED
    BY <1>3, <2>1 DEF SeenIn
<1> QED
  BY <1>1, <1>2, <1>4 DEF TickTrue

\* What is booked is not final, and every other row stays.
LEMMA BookedIsOpen ==
    ASSUME IInv, NEW p \in Processes, NEW e \in Executions, NEW rows \in Bookings(p, e)
    PROVE  /\ DOMAIN tick[p].row \subseteq DOMAIN rows
           /\ \A x \in DOMAIN rows :
                  \/ x \in DOMAIN tick[p].row /\ rows[x] = tick[p].row[x]
                  \/ FinalByHand(x, rows[x])
<1>1. CASE rows = tick[p].row
  BY <1>1
<1>2. CASE rows # tick[p].row
  <2>1. PICK status \in {"pending", "unresolved"}, args \in BOOLEAN :
            rows = Booked(p, e, status, args)
    BY <1>2 DEF Bookings
  <2>2. rows = Write(tick[p].row, e, Entry(status, args))
    BY <1>2, <2>1 DEF Booked
  <2>3. Entry(status, args).status = status
    BY DEF Entry
  <2>4. /\ DOMAIN rows = DOMAIN tick[p].row \cup {e} /\ rows[e].status = status
        /\ \A x \in DOMAIN tick[p].row : x # e => rows[x] = tick[p].row[x]
    BY <2>2, <2>3 DEF Write
  <2> QED
    BY <2>4 DEF FinalByHand, FinalStatuses
<1> QED
  BY <1>1, <1>2

\* A gate that is closed adds at most its own execution to what is written.
LEMMA ClosedDomain ==
    ASSUME NEW p, NEW d, NEW status
    PROVE  /\ DOMAIN Closed(p, d, status) \subseteq DOMAIN tick[p].fwd \cup {d}
           /\ DOMAIN tick[p].fwd \subseteq DOMAIN Closed(p, d, status)
BY DEF Closed, Write

LEMMA RebuildTrue ==
    ASSUME IInv, IInv', JInv, NEW p \in Processes, NEW job \in JobsOf[p],
           NEW d \in Delegations \cup {None}, Rebuild(p, job, d)
    PROVE  JInv' /\ (TInv => TInv')
<1> DEFINE t == [IdleTick EXCEPT !.phase = "rebuilt", !.job = job, !.child = d,
                                 !.pending = pending]
<1>1. /\ tick' = [tick EXCEPT ![p] = t] /\ UNCHANGED <<tables, reopened>>
      /\ run = "running"
      /\ job = "wake" => d \in Delegations /\ ~ child[d].expired
  BY DEF Rebuild, Continue, history
<1>2. /\ t.phase = "rebuilt" /\ t.job = job /\ t.child = d /\ t.pending = pending
      /\ t.status = "running" /\ t.delivers = {} /\ t.expires = {}
      /\ DOMAIN t.row = {} /\ DOMAIN t.fwd = {}
  BY DEF IdleTick, NoWrites
<1> HIDE DEF t
<1>3. JobOK(p, t)
  BY <1>2 DEF JobOK, Registers, JInv
<1>4. ASSUME TInv PROVE TickTrue(t)
  BY <1>1, <1>2, <1>4 DEF TickTrue, Tracks, EndsBooked, Brings, TInv, TablesTrue
<1> QED
  BY <1>1, <1>3, <1>4, InTick

LEMMA RollBackTrue ==
    ASSUME IInv, IInv', JInv, NEW p \in Processes, RollBack(p)
    PROVE  JInv' /\ (TInv => TInv')
<1>1. tick' = [tick EXCEPT ![p] = IdleTick] /\ UNCHANGED <<tables, reopened>>
  BY DEF RollBack, Continue
<1> QED
  BY <1>1, IdleIsTrue, InTick

\* The gate that is not the one waited for has a row already.
LEMMA AlreadyClosedTrue ==
    ASSUME IInv, IInv', JInv, NEW p \in Processes, AlreadyClosed(p)
    PROVE  JInv' /\ (TInv => TInv')
<1> DEFINE phase == IF RunIsOver THEN "closing" ELSE "driving"
           status == IF RunIsOver THEN "unsaved" ELSE tick[p].status
           delivers == IF tick[p].job = "wake" THEN {tick[p].child} ELSE {}
           expires == IF tick[p].job = "expire" THEN {tick[p].child} ELSE {}
           t == [tick[p] EXCEPT !.phase = phase, !.status = status, !.pending = pending,
                                !.delivers = delivers, !.expires = expires]
<1>1. /\ tick[p] \in TickRecord /\ ChildrenOK(tick[p]) /\ tick[p].phase = "rebuilt"
      /\ UNCHANGED <<tables, reopened>> /\ JobOK(p, tick[p])
      /\ tick[p].job = "expire" => tick[p].pending # tick[p].child
      /\ tick[p].job # "cancel"
  BY TickFacts DEF TickInv, AlreadyClosed, In, history, JInv
<1>2. tick' = [tick EXCEPT ![p] = t]
  <2>1. tick' = [tick EXCEPT ![p] = [tick[p] EXCEPT
            !.phase = phase, !.status = IF RunIsOver THEN "unsaved" ELSE @,
            !.pending = pending, !.delivers = delivers, !.expires = expires]]
    BY DEF AlreadyClosed, Continue
  <2> QED
    BY <2>1, <1>1 DEF TickRecord
<1>3. /\ t.row = tick[p].row /\ t.fwd = tick[p].fwd /\ t.pending = pending
      /\ t.phase = phase /\ t.status = status
      /\ t.job = tick[p].job /\ t.child = tick[p].child
      /\ t.delivers = delivers /\ t.expires = expires
  BY <1>1 DEF TickRecord
<1> HIDE DEF t
<1>4. /\ phase \in {"closing", "driving"} /\ (phase = "driving" => status = "running")
      /\ status = "running" => run = "running"
      /\ \A d \in Delegations : ~ Registers(tick[p], d)
      /\ tick[p].status = "running" /\ tick[p].expires = {}
  BY <1>1 DEF JobOK, IInv, TablesTyped, RunIsOver
<1>5. JobOK(p, t)
  BY <1>1, <1>3, <1>4 DEF JobOK, Registers, JInv
<1>6. ASSUME TInv PROVE TickTrue(t)
  <2>1. TickTrue(tick[p]) /\ TablesTrue
    BY <1>6 DEF TInv
  <2>2. Tracks(t)
    BY <1>3, <1>4, <2>1 DEF Tracks, Resumes, TablesTrue
  <2>3. Brings(t)
    BY <1>3, <2>1 DEF Brings, TickTrue
  <2>4. EndsBooked(t)
    <3> SUFFICES ASSUME tick[p].job = "expire", ~ Finished(tick[p].child)
                 PROVE  SeenIn(t, tick[p].child) # NoRow
      BY <1>3 DEF EndsBooked
    <3> DEFINE d == tick[p].child
    <3>1. d \in Delegations /\ child[d].status # "none"
      BY <1>1 DEF ChildrenOK
    <3>2. child[d].status = "running"
      <4>1. child[d].status \in ChildStatuses \cup {"none", "running"}
        BY <3>1 DEF IInv, TablesTyped, ChildRecord
      <4> QED
        BY <3>1, <4>1 DEF Finished
    <3>3. child[d].expired
      BY <1>1, <1>4, <2>1, <3>1, <3>2 DEF TickTrue, Tracks, Resumes, Overdue, Running
    <3>4. row[d] # NoRow
      BY <2>1, <3>1, <3>3 DEF TablesTrue
    <3>5. \A e \in DOMAIN tick[p].row : tick[p].row[e] # NoRow
      BY <1>1, RowsAreRows
    <3> QED
      BY <1>3, <3>4, <3>5 DEF SeenIn
  <2> QED
    BY <1>3, <2>1, <2>2, <2>3, <2>4 DEF TickTrue
<1> HIDE DEF phase, status, delivers, expires
<1> QED
  BY <1>1, <1>2, <1>5, <1>6, InTick

LEMMA DriveTrue ==
    ASSUME IInv, IInv', JInv, NEW p \in Processes, Drive(p)
    PROVE  JInv' /\ (TInv => TInv')
<1>1. /\ tick[p] \in TickRecord /\ tick[p].phase = "unblocked" /\ JobOK(p, tick[p])
      /\ UNCHANGED <<tables, reopened>>
  BY TickFacts DEF Drive, In, history, JInv
<1>2. ASSUME NEW phase \in {"driving", "closing"},
             NEW status \in {"unsaved", tick[p].status},
             phase = "driving" => status = tick[p].status,
             tick' = [tick EXCEPT ![p] = [tick[p] EXCEPT !.phase = phase, !.status = status]]
      PROVE  JInv' /\ (TInv => TInv')
  <2> DEFINE t == [tick[p] EXCEPT !.phase = phase, !.status = status]
  <2>1. /\ t.row = tick[p].row /\ t.fwd = tick[p].fwd /\ t.pending = tick[p].pending
        /\ t.phase = phase /\ t.status = status
        /\ t.job = tick[p].job /\ t.child = tick[p].child
        /\ t.delivers = tick[p].delivers /\ t.expires = tick[p].expires
    BY <1>1 DEF TickRecord
  <2>2. tick' = [tick EXCEPT ![p] = t]
    BY <1>2
  <2> HIDE DEF t
  <2>3. t \in TickRecord
    BY <2>2, NewTick
  <2>4. JobOK(p, t)
    BY <1>1, <1>2, <2>1 DEF JobOK, Registers
  <2>5. ASSUME TInv PROVE TickTrue(t)
    BY <1>1, <1>2, <2>1, <2>3, <2>5, SameAims
  <2> QED
    BY <1>1, <2>2, <2>4, <2>5, InTick
<1>3. [tick[p] EXCEPT !.phase = "driving"]
      = [tick[p] EXCEPT !.phase = "driving", !.status = tick[p].status]
  BY <1>1 DEF TickRecord
<1> QED
  BY <1>2, <1>3 DEF Drive, Continue

LEMMA PauseTrue ==
    ASSUME IInv, IInv', JInv, NEW p \in Processes, Pause(p)
    PROVE  JInv' /\ (TInv => TInv')
<1> DEFINE t == [tick[p] EXCEPT !.phase = "closing"]
<1>1. /\ tick[p] \in TickRecord /\ tick[p].phase = "driving" /\ JobOK(p, tick[p])
      /\ tick' = [tick EXCEPT ![p] = t] /\ UNCHANGED <<tables, reopened>>
  BY TickFacts DEF Pause, Continue, In, history, JInv
<1>2. /\ t.row = tick[p].row /\ t.fwd = tick[p].fwd /\ t.pending = tick[p].pending
      /\ t.phase = "closing" /\ t.status = tick[p].status
      /\ t.job = tick[p].job /\ t.child = tick[p].child
      /\ t.delivers = tick[p].delivers /\ t.expires = tick[p].expires
  BY <1>1 DEF TickRecord
<1> HIDE DEF t
<1>3. t \in TickRecord
  BY <1>1, NewTick
<1>4. JobOK(p, t)
  BY <1>1, <1>2 DEF JobOK, Registers
<1>5. ASSUME TInv PROVE TickTrue(t)
  BY <1>1, <1>2, <1>3, <1>5, SameAims
<1> QED
  BY <1>1, <1>4, <1>5, InTick

LEMMA DelegateTrue ==
    ASSUME IInv, IInv', JInv, NEW p \in Processes, NEW d \in Delegations, Delegate(p, d)
    PROVE  JInv' /\ (TInv => TInv')
<1> DEFINE f == Write(tick[p].fwd, d, "suspended")
           t == [tick[p] EXCEPT !.phase = "closing", !.pending = d, !.fwd = f]
<1>1. /\ tick[p] \in TickRecord /\ tick[p].phase = "driving" /\ tick[p].pending = None
      /\ JobOK(p, tick[p]) /\ fwd[d] = "none"
      /\ tick' = [tick EXCEPT ![p] = t] /\ UNCHANGED <<tables, reopened>>
  BY TickFacts DEF Delegate, CanStep, Fresh, Continue, In, history, JInv
<1>2. DOMAIN f = DOMAIN tick[p].fwd \cup {d}
  BY DEF Write
<1> HIDE DEF f
<1>3. /\ t.row = tick[p].row /\ t.fwd = f /\ t.pending = d
      /\ t.phase = "closing" /\ t.status = tick[p].status
      /\ t.job = tick[p].job /\ t.child = tick[p].child
      /\ t.delivers = tick[p].delivers /\ t.expires = tick[p].expires
  BY <1>1 DEF TickRecord
<1> HIDE DEF t
<1>4. tick[p].status = "running" /\ tick[p].job # "cancel"
  BY <1>1 DEF JobOK
<1>5. JobOK(p, t)
  BY <1>1, <1>2, <1>3, <1>4 DEF JobOK, Registers, Resumes
<1>6. ASSUME TInv PROVE TickTrue(t)
  <2>1. TickTrue(tick[p])
    BY <1>6 DEF TInv
  <2>2. Tracks(t)
    BY <1>1, <1>3, <1>4, <2>1, LedgerAssumption DEF TickTrue, Tracks, Resumes
  <2> QED
    BY <1>3, <2>1, <2>2 DEF TickTrue, EndsBooked, SeenIn, Brings
<1> QED
  BY <1>1, <1>5, <1>6, InTick

LEMMA GiveVerdictTrue ==
    ASSUME IInv, IInv', JInv, NEW p \in Processes, NEW status \in {"failed", "completed"},
           NEW phase \in {"undoing", "releasing"}, GiveVerdict(p, status, phase)
    PROVE  JInv' /\ (TInv => TInv')
<1>1. PICK todo \in OpenItems(p) :
          tick' = [tick EXCEPT ![p] = [tick[p] EXCEPT
              !.phase = phase, !.status = status, !.todo = todo,
              !.seen = {e \in Executions : RowSeenBy(p, e).status = "pending"}]]
  BY DEF GiveVerdict, Continue
<1> DEFINE seen == {e \in Executions : RowSeenBy(p, e).status = "pending"}
           t == [tick[p] EXCEPT !.phase = phase, !.status = status, !.todo = todo,
                                !.seen = seen]
<1>2. /\ tick[p] \in TickRecord /\ tick[p].phase = "driving" /\ JobOK(p, tick[p])
      /\ UNCHANGED <<tables, reopened>>
  BY TickFacts DEF GiveVerdict, CanStep, In, history, JInv
<1>3. /\ t.row = tick[p].row /\ t.fwd = tick[p].fwd /\ t.pending = tick[p].pending
      /\ t.phase = phase /\ t.status = status
      /\ t.job = tick[p].job /\ t.child = tick[p].child
      /\ t.delivers = tick[p].delivers /\ t.expires = tick[p].expires
  BY <1>2 DEF TickRecord
<1>4. tick' = [tick EXCEPT ![p] = t]
  BY <1>1
<1> HIDE DEF t
<1>5. t \in TickRecord
  BY <1>4, NewTick
<1>6. JobOK(p, t)
  BY <1>2, <1>3 DEF JobOK, Registers
<1>7. ASSUME TInv PROVE TickTrue(t)
  BY <1>2, <1>3, <1>5, <1>7, SameAims
<1> QED
  BY <1>2, <1>4, <1>6, <1>7, InTick

\* A result that is delivered to the run that waits for it.
LEMMA DeliverResultTrue ==
    ASSUME IInv, IInv', JInv, NEW p \in Processes, DeliverResult(p)
    PROVE  JInv' /\ (TInv => TInv')
<1> DEFINE d == tick[p].pending
           completed == child[d].status = "completed"
           status == IF completed THEN "completed" ELSE "failed"
           f == Closed(p, d, status)
           rows == IF completed
                   THEN BookedOutcome(p, d, StatusAfter(p, d, "completed"), child[d].result)
                   ELSE Booked(p, d, "unresolved", FALSE)
           t == [tick[p] EXCEPT !.phase = "unblocked", !.pending = None, !.delivers = {d},
                                !.fwd = f, !.row = rows]
<1>1. /\ tick[p] \in TickRecord /\ ChildrenOK(tick[p]) /\ tick[p].phase = "rebuilt"
      /\ tick[p].job = "wake" /\ d = tick[p].child /\ JobOK(p, tick[p])
      /\ UNCHANGED <<tables, reopened>>
  BY TickFacts DEF TickInv, DeliverResult, In, history, JInv
<1>2. /\ d \in Delegations /\ Finished(d) /\ child[d].result \in BOOLEAN
      /\ d \in Executions /\ fwd[d] # "none"
  <2>1. d \in Delegations /\ Finished(d) /\ d \in Executions
    BY <1>1 DEF ChildrenOK, Executions
  <2>2. child[d].status # "none" /\ child[d] \in ChildRecord
    BY <2>1 DEF Finished, ChildStatuses, IInv, TablesTyped
  <2> QED
    BY <2>1, <2>2 DEF IInv, TablesFollow, ChildRecord
<1>3. DOMAIN f \subseteq DOMAIN tick[p].fwd \cup {d}
  BY ClosedDomain
<1>4. rows \in Bookings(p, d)
  <2>1. Booked(p, d, "unresolved", FALSE) \in Bookings(p, d)
    BY DEF Bookings
  <2> QED
    BY <2>1, <1>2, OutcomeBookings
<1>5. tick' = [tick EXCEPT ![p] = t]
  BY DEF DeliverResult, Continue
<1> HIDE DEF f, rows
<1>6. /\ t.row = rows /\ t.fwd = f /\ t.pending = None
      /\ t.phase = "unblocked" /\ t.status = tick[p].status
      /\ t.job = "wake" /\ t.child = d
      /\ t.delivers = {d} /\ t.expires = tick[p].expires
  BY <1>1 DEF TickRecord
<1> HIDE DEF t
<1>7. t \in TickRecord
  BY <1>5, NewTick
<1>8. JobOK(p, t)
  BY <1>1, <1>2, <1>3, <1>6 DEF JobOK, Registers
<1>9. ASSUME TInv PROVE TickTrue(t)
  <2>1. TickTrue(tick[p])
    BY <1>9 DEF TInv
  \* The run waited for this result, and it is there.
  <2>2. Tracks(t)
    BY <1>1, <1>2, <1>6, <2>1 DEF TickTrue, Tracks, Resumes, Overdue, Running, Finished,
                                  ChildStatuses
  <2>3. Brings(t)
    BY <1>1, <1>6, <2>1 DEF TickTrue, Brings
  <2>4. EndsBooked(t)
    BY <1>1, <1>6 DEF EndsBooked, JobOK
  <2>5. \A e \in DOMAIN t.row : FinalByHand(e, t.row[e])
    BY <1>2, <1>4, <1>6, <2>1, BookedIsOpen DEF TickTrue
  <2> QED
    BY <2>2, <2>3, <2>4, <2>5 DEF TickTrue
<1> QED
  BY <1>1, <1>5, <1>8, <1>9, InTick

\* A wait that is ended is booked.
LEMMA DeclareUnknownTrue ==
    ASSUME IInv, IInv', JInv, NEW p \in Processes, DeclareUnknown(p)
    PROVE  JInv' /\ (TInv => TInv')
<1> DEFINE d == tick[p].pending
           f == Closed(p, d, "failed")
           rows == Booked(p, d, "unresolved", FALSE)
           t == [tick[p] EXCEPT !.phase = "unblocked", !.pending = None, !.expires = {d},
                                !.fwd = f, !.row = rows]
<1>1. /\ tick[p] \in TickRecord /\ ChildrenOK(tick[p]) /\ tick[p].phase = "rebuilt"
      /\ tick[p].job = "expire" /\ d = tick[p].child /\ JobOK(p, tick[p])
      /\ UNCHANGED <<tables, reopened>>
  BY TickFacts DEF TickInv, DeclareUnknown, In, history, JInv
<1>2. /\ d \in Delegations /\ d \in Executions /\ fwd[d] # "none"
  BY <1>1 DEF ChildrenOK, Executions, IInv, TablesFollow
<1>3. DOMAIN f \subseteq DOMAIN tick[p].fwd \cup {d}
  BY ClosedDomain
<1>4. rows \in Bookings(p, d)
  BY DEF Bookings
<1>5. tick' = [tick EXCEPT ![p] = t]
  BY DEF DeclareUnknown, Continue
<1> HIDE DEF f
<1>6. /\ t.row = rows /\ t.fwd = f /\ t.pending = None
      /\ t.phase = "unblocked" /\ t.status = tick[p].status
      /\ t.job = "expire" /\ t.child = d
      /\ t.delivers = tick[p].delivers /\ t.expires = {d}
  <2> HIDE DEF rows
  <2> QED
    BY <1>1 DEF TickRecord
<1> HIDE DEF t
<1>7. t \in TickRecord
  BY <1>5, NewTick
<1>8. JobOK(p, t)
  BY <1>1, <1>2, <1>3, <1>6 DEF JobOK, Registers
<1>9. ASSUME TInv PROVE TickTrue(t)
  <2>1. TickTrue(tick[p])
    BY <1>9 DEF TInv
  <2>2. Tracks(t)
    BY <1>1, <1>6, <2>1 DEF TickTrue, Tracks, Resumes, JobOK
  <2>3. Brings(t)
    BY <1>1, <1>6, <2>1 DEF TickTrue, Brings
  <2>4. EndsBooked(t)
    <3>1. \A e \in DOMAIN t.row : t.row[e] # NoRow
      BY <1>7, RowsAreRows
    <3>2. SeenIn(t, d) # NoRow
      <4>1. CASE RowSeenBy(p, d) # NoRow
        BY <1>6, <4>1 DEF Booked, SeenIn, RowSeenBy
      <4>2. CASE RowSeenBy(p, d) = NoRow
        <5>1. d \in DOMAIN t.row
          BY <1>6, <4>2 DEF Booked, Write
        <5> QED
          BY <3>1, <5>1 DEF SeenIn
      <4> QED
        BY <4>1, <4>2
    <3> QED
      BY <1>6, <3>2 DEF EndsBooked
  <2>5. \A e \in DOMAIN t.row : FinalByHand(e, t.row[e])
    <3> HIDE DEF rows
    <3> QED
      BY <1>2, <1>4, <1>6, <2>1, BookedIsOpen DEF TickTrue
  <2> QED
    BY <2>2, <2>3, <2>4, <2>5 DEF TickTrue
<1> QED
  BY <1>1, <1>5, <1>8, <1>9, InTick

\* A run that is cancelled delivers at most the child that was cancelled with it.
LEMMA CancelRunTrue ==
    ASSUME IInv, IInv', JInv, NEW p \in Processes, CancelRun(p)
    PROVE  JInv' /\ (TInv => TInv')
<1> DEFINE d == tick[p].pending
           stopped == d # None /\ child[d].status = "cancelled"
           f == IF d = None THEN tick[p].fwd ELSE Closed(p, d, "cancelled")
           rows == IF stopped THEN Booked(p, d, "unresolved", FALSE) ELSE tick[p].row
           delivers == IF stopped THEN tick[p].delivers \cup {d} ELSE tick[p].delivers
           t == [tick[p] EXCEPT !.phase = "closing", !.status = "cancelled",
                                !.pending = None, !.fwd = f, !.row = rows,
                                !.delivers = delivers]
<1>1. /\ tick[p] \in TickRecord /\ JobOK(p, tick[p])
      /\ tick[p].phase \in {"rebuilt", "driving"}
      /\ d \in Delegations \cup {None}
      /\ UNCHANGED <<tables, reopened>>
  BY TickFacts DEF CancelRun, In, TickRecord, history, JInv
<1>2. tick' = [tick EXCEPT ![p] = t]
  <2>1. tick' = [tick EXCEPT ![p] = [tick[p] EXCEPT
            !.phase = "closing", !.status = "cancelled", !.pending = None,
            !.fwd = IF d = None THEN @ ELSE Closed(p, d, "cancelled"),
            !.row = IF stopped THEN Booked(p, d, "unresolved", FALSE) ELSE @,
            !.delivers = IF stopped THEN @ \cup {d} ELSE @]]
    BY DEF CancelRun, Continue
  <2> QED
    BY <2>1, <1>1 DEF TickRecord
\* What the run waits for is registered: a tick that has delegated is not driven on.
<1>3. /\ \A x \in Delegations : ~ Registers(tick[p], x)
      /\ d # None => fwd[d] # "none"
  BY <1>1 DEF JobOK, Registers
<1>4. DOMAIN f \subseteq DOMAIN tick[p].fwd \cup {d} /\ (d = None => f = tick[p].fwd)
  BY ClosedDomain
<1>5. /\ DOMAIN tick[p].row \subseteq DOMAIN rows
      /\ \A x \in DOMAIN rows : \/ x \in DOMAIN tick[p].row /\ rows[x] = tick[p].row[x]
                                \/ FinalByHand(x, rows[x])
  <2>1. CASE d = None
    BY <2>1
  <2>2. CASE d # None
    <3>1. d \in Executions /\ rows \in Bookings(p, d)
      BY <1>1, <2>2 DEF Bookings, Executions
    <3> QED
      BY <3>1, BookedIsOpen
  <2> QED
    BY <2>1, <2>2
<1>6. \A x \in delivers : x \in tick[p].delivers \/ child[x].status = "cancelled"
  OBVIOUS
<1> HIDE DEF f, rows, delivers
<1>7. /\ t.row = rows /\ t.fwd = f /\ t.pending = None
      /\ t.phase = "closing" /\ t.status = "cancelled"
      /\ t.job = tick[p].job /\ t.child = tick[p].child
      /\ t.delivers = delivers /\ t.expires = tick[p].expires
  BY <1>1 DEF TickRecord
<1> HIDE DEF t
<1>8. t \in TickRecord
  BY <1>2, NewTick
<1>9. JobOK(p, t)
  BY <1>1, <1>3, <1>4, <1>7, LedgerAssumption DEF JobOK, Registers
<1>10. ASSUME TInv PROVE TickTrue(t)
  <2>1. TickTrue(tick[p])
    BY <1>10 DEF TInv
  <2>2. Tracks(t)
    BY <1>7 DEF Tracks, Resumes
  <2>3. Brings(t)
    BY <1>6, <1>7, <2>1 DEF TickTrue, Brings
  <2>4. EndsBooked(t)
    <3>1. \A e \in DOMAIN t.row : t.row[e] # NoRow
      BY <1>8, RowsAreRows
    <3> QED
      BY <1>5, <1>7, <2>1, <3>1 DEF TickTrue, EndsBooked, SeenIn
  <2>5. \A e \in DOMAIN t.row : FinalByHand(e, t.row[e])
    BY <1>5, <1>7, <2>1 DEF TickTrue
  <2> QED
    BY <2>2, <2>3, <2>4, <2>5 DEF TickTrue
<1> QED
  BY <1>1, <1>2, <1>9, <1>10, InTick

LEMMA CallToolTrue ==
    ASSUME IInv, IInv', JInv, NEW p \in Processes, NEW e \in Calls,
           NEW outcome \in {"completed", "failed", "unknown", "retrying"},
           NEW keys \in BOOLEAN, CallTool(p, e, outcome, keys)
    PROVE  JInv' /\ (TInv => TInv')
<1> DEFINE f == Write(tick[p].fwd, e, IF outcome = "unknown" THEN "failed" ELSE outcome)
           rows == BookedOutcome(p, e, outcome, keys)
           t == [tick[p] EXCEPT !.fwd = f, !.row = rows]
<1>1. /\ tick[p] \in TickRecord /\ tick[p].phase = "driving" /\ JobOK(p, tick[p])
      /\ tick[p].pending = None /\ e \in Executions /\ UNCHANGED <<tables, reopened>>
  BY TickFacts DEF CallTool, CanStep, In, Executions, history, JInv
<1>2. tick' = [tick EXCEPT ![p] = t]
  BY <1>1 DEF CallTool, Continue, TickRecord
<1>3. DOMAIN f = DOMAIN tick[p].fwd \cup {e}
  BY DEF Write
<1>4. /\ DOMAIN tick[p].row \subseteq DOMAIN rows
      /\ \A x \in DOMAIN rows : \/ x \in DOMAIN tick[p].row /\ rows[x] = tick[p].row[x]
                                \/ FinalByHand(x, rows[x])
  <2> HIDE DEF rows
  <2>1. rows \in Bookings(p, e)
    BY <1>1, OutcomeBookings DEF rows
  <2> QED
    BY <1>1, <2>1, BookedIsOpen
<1> HIDE DEF f, rows
<1>5. /\ t.row = rows /\ t.fwd = f /\ t.pending = tick[p].pending
      /\ t.phase = "driving" /\ t.status = tick[p].status
      /\ t.job = tick[p].job /\ t.child = tick[p].child
      /\ t.delivers = tick[p].delivers /\ t.expires = tick[p].expires
  BY <1>1 DEF TickRecord
<1> HIDE DEF t
<1>6. t \in TickRecord
  BY <1>2, NewTick
<1>7. JobOK(p, t)
  BY <1>1, <1>3, <1>5, LedgerAssumption DEF JobOK, Registers
<1>8. ASSUME TInv PROVE TickTrue(t)
  BY <1>1, <1>4, <1>5, <1>6, <1>8, SameAims
<1> QED
  BY <1>1, <1>2, <1>7, <1>8, InTick

\* A step of compensate() or release(): it moves at most one row.
LEMMA WorkTrue ==
    ASSUME IInv, IInv', JInv, NEW p \in Processes, NEW t, NEW e \in Executions, NEW v,
           tick' = [tick EXCEPT ![p] = t], UNCHANGED <<tables, reopened>>,
           tick[p].phase \in {"undoing", "calling", "releasing"},
           t.phase \in {"undoing", "calling", "releasing"},
           t.fwd = tick[p].fwd, t.pending = tick[p].pending, t.status = tick[p].status,
           t.job = tick[p].job, t.child = tick[p].child,
           t.delivers = tick[p].delivers, t.expires = tick[p].expires,
           t.row = tick[p].row \/ (t.row = Write(tick[p].row, e, v) /\ FinalByHand(e, v))
    PROVE  JInv' /\ (TInv => TInv')
<1>1. t \in TickRecord
  BY NewTick
<1>2. JobOK(p, tick[p])
  BY DEF JInv
<1>3. JobOK(p, t)
  BY <1>2 DEF JobOK, Registers
<1>4. /\ DOMAIN tick[p].row \subseteq DOMAIN t.row
      /\ \A x \in DOMAIN t.row : \/ x \in DOMAIN tick[p].row /\ t.row[x] = tick[p].row[x]
                                 \/ FinalByHand(x, t.row[x])
  <2>1. CASE t.row = tick[p].row
    BY <2>1
  <2>2. CASE t.row = Write(tick[p].row, e, v) /\ FinalByHand(e, v)
    BY <2>2 DEF Write
  <2> QED
    BY <2>1, <2>2
<1>5. ASSUME TInv PROVE TickTrue(t)
  BY <1>1, <1>4, <1>5, SameAims
<1> QED
  BY <1>3, <1>5, InTick

LEMMA ClaimTrue ==
    ASSUME IInv, IInv', JInv, NEW p \in Processes, Claim(p)
    PROVE  JInv' /\ (TInv => TInv')
<1> DEFINE e == Current(p).exec
           v == Moved(RowSeenBy(p, e), "running")
           w == Write(tick[p].row, e, v)
           t == [tick[p] EXCEPT !.phase = "calling", !.row = w]
           u == [tick[p] EXCEPT !.todo = Tail(tick[p].todo)]
<1>1. /\ tick[p] \in TickRecord /\ tick[p].phase = "undoing" /\ tick[p].todo # <<>>
      /\ tick[p].todo \in Seq(ItemRecord) /\ UNCHANGED <<tables, reopened>>
      /\ IF Claimable(RowSeenBy(p, e)) THEN tick' = [tick EXCEPT ![p] = t]
                                       ELSE tick' = [tick EXCEPT ![p] = u]
  BY TickFacts DEF Claim, Continue, In, history, TickRecord
<1>2. e \in Executions
  <2>1. Head(tick[p].todo) \in ItemRecord
    BY <1>1, TailFacts
  <2> QED
    BY <2>1 DEF Current, ItemRecord
<1>3. CASE Claimable(RowSeenBy(p, e))
  <2>1. FinalByHand(e, v)
    <3>1. RowSeenBy(p, e) \in CompensationRecord
      <4>1. /\ RowSeenBy(p, e) \in CompensationRecord \cup {NoRow}
            /\ RowSeenBy(p, e).status = "pending"
        BY <1>2, <1>3, TickFacts DEF Claimable
      <4> QED
        BY <4>1 DEF NoRow
    <3>2. v.status = "running"
      BY <3>1, MovedKeeps
    <3> QED
      BY <3>2 DEF FinalByHand, FinalStatuses
  <2> HIDE DEF w
  <2>2. /\ t.row = w /\ t.fwd = tick[p].fwd /\ t.pending = tick[p].pending
        /\ t.phase = "calling" /\ t.status = tick[p].status
        /\ t.job = tick[p].job /\ t.child = tick[p].child
        /\ t.delivers = tick[p].delivers /\ t.expires = tick[p].expires
    BY <1>1 DEF TickRecord
  <2>3. t.row = Write(tick[p].row, e, v) /\ tick' = [tick EXCEPT ![p] = t]
    BY <1>1, <1>3, <2>2 DEF w
  <2> HIDE DEF t, v, e
  <2> QED
    BY <1>1, <1>2, <2>1, <2>2, <2>3, WorkTrue
<1>4. CASE ~ Claimable(RowSeenBy(p, e))
  <2>1. /\ u.row = tick[p].row /\ u.fwd = tick[p].fwd /\ u.pending = tick[p].pending
        /\ u.phase = "undoing" /\ u.status = tick[p].status
        /\ u.job = tick[p].job /\ u.child = tick[p].child
        /\ u.delivers = tick[p].delivers /\ u.expires = tick[p].expires
    BY <1>1 DEF TickRecord
  <2>2. tick' = [tick EXCEPT ![p] = u]
    BY <1>1, <1>4
  <2> HIDE DEF u, e
  <2> QED
    BY <1>1, <1>2, <2>1, <2>2, WorkTrue
<1> QED
  BY <1>3, <1>4

\* What is compensated without its arguments was claimed without them.
LEMMA CallUndoTrue ==
    ASSUME IInv, IInv', PInv, JInv, NEW p \in Processes, NEW outcome \in UndoOutcomes,
           CallUndo(p, outcome)
    PROVE  JInv' /\ (TInv => TInv')
<1> DEFINE e == Current(p).exec
           r == tick[p].row[e]
           v == Settled(r, outcome)
           w == Write(tick[p].row, e, v)
           called == IF outcome \in {"done", "lost"} THEN tick[p].called \cup {e}
                     ELSE tick[p].called
           retried == IF outcome = "retrying"
                      THEN tick[p].queued
                           \cup {[exec |-> e, args |-> r.args, version |-> r.version]}
                      ELSE tick[p].queued
           t == [tick[p] EXCEPT !.phase = "undoing", !.todo = Tail(tick[p].todo),
                                !.called = called, !.queued = retried, !.row = w]
<1>1. /\ tick[p] \in TickRecord /\ tick[p].phase = "calling" /\ tick[p].todo # <<>>
      /\ e \in DOMAIN tick[p].row /\ e \in Executions /\ r \in CompensationRecord
      /\ r.status = "running" /\ Guarded(e, r) /\ UNCHANGED <<tables, reopened>>
  BY TickFacts DEF TickInv, CallingOK, CallUndo, In, Current, history, PInv, SpendingOK,
                   OrderOK, WrittenPaid
<1>2. tick' = [tick EXCEPT ![p] = t]
  BY <1>1 DEF CallUndo, Continue
<1>3. FinalByHand(e, v)
  <2>1. v.args = r.args
    BY <1>1, MovedKeeps DEF Settled
  <2> QED
    BY <1>1, <2>1 DEF Guarded, OpenStatuses, FinalByHand
<1> HIDE DEF w, called, retried
<1>4. /\ t.row = w /\ t.fwd = tick[p].fwd /\ t.pending = tick[p].pending
      /\ t.phase = "undoing" /\ t.status = tick[p].status
      /\ t.job = tick[p].job /\ t.child = tick[p].child
      /\ t.delivers = tick[p].delivers /\ t.expires = tick[p].expires
  BY <1>1 DEF TickRecord
<1>5. t.row = Write(tick[p].row, e, v)
  BY <1>4 DEF w
<1> HIDE DEF t, v, e
<1> QED
  BY <1>1, <1>2, <1>3, <1>4, <1>5, WorkTrue

LEMMA ReleaseTrue ==
    ASSUME IInv, IInv', PInv, JInv, NEW p \in Processes, Release(p)
    PROVE  JInv' /\ (TInv => TInv')
<1> DEFINE i == Current(p)
           e == i.exec
           r == RowSeenBy(p, e)
           v == Moved(r, "not_needed")
           w == Write(tick[p].row, e, v)
           t == [tick[p] EXCEPT !.todo = Tail(tick[p].todo), !.row = w]
           u == [tick[p] EXCEPT !.todo = Tail(tick[p].todo)]
<1>1. /\ tick[p] \in TickRecord /\ tick[p].phase = "releasing" /\ tick[p].todo # <<>>
      /\ tick[p].todo \in Seq(ItemRecord) /\ TodoOK(tick[p]) /\ SpendingOK(tick[p])
      /\ UNCHANGED <<tables, reopened>>
  BY TickFacts DEF TickInv, Release, In, history, TickRecord, PInv
<1>2. i \in ToSet(tick[p].todo) /\ e \in Executions
  <2>1. Head(tick[p].todo) \in ItemRecord /\ Head(tick[p].todo) \in ToSet(tick[p].todo)
    BY <1>1, TailFacts
  <2> QED
    BY <2>1 DEF Current, ItemRecord
<1>3. CASE tick' = [tick EXCEPT ![p] = u]
  <2>1. /\ u.row = tick[p].row /\ u.fwd = tick[p].fwd /\ u.pending = tick[p].pending
        /\ u.phase = "releasing" /\ u.status = tick[p].status
        /\ u.job = tick[p].job /\ u.child = tick[p].child
        /\ u.delivers = tick[p].delivers /\ u.expires = tick[p].expires
    BY <1>1 DEF TickRecord
  <2> HIDE DEF u, e, i
  <2> QED
    BY <1>1, <1>2, <1>3, <2>1, WorkTrue
<1>4. CASE i.status = "pending" /\ r.version = i.version /\ tick' = [tick EXCEPT ![p] = t]
  \* The row has not changed since it was read: it is pending.
  <2>1. r.status = "pending"
    <3>1. SeenIn(tick[p], e) = r
      BY DEF SeenIn, RowSeenBy
    <3> QED
      BY <3>1, <1>1, <1>2, <1>4 DEF TodoOK
  <2>2. r \in CompensationRecord
    <3>1. r \in CompensationRecord \cup {NoRow}
      BY <1>2, TickFacts
    <3> QED
      BY <3>1, <2>1 DEF NoRow
  <2>3. Guarded(e, r)
    BY <1>1, <1>2 DEF RowSeenBy, SpendingOK, WrittenPaid, PInv, TablesPaid, RowPaid
  <2>4. FinalByHand(e, v)
    <3>1. v.args = r.args
      BY <2>2, MovedKeeps
    <3> QED
      BY <2>1, <2>3, <3>1 DEF Guarded, OpenStatuses, FinalByHand
  <2> HIDE DEF w
  <2>5. /\ t.row = w /\ t.fwd = tick[p].fwd /\ t.pending = tick[p].pending
        /\ t.phase = "releasing" /\ t.status = tick[p].status
        /\ t.job = tick[p].job /\ t.child = tick[p].child
        /\ t.delivers = tick[p].delivers /\ t.expires = tick[p].expires
    BY <1>1 DEF TickRecord
  <2>6. t.row = Write(tick[p].row, e, v)
    BY <2>5 DEF w
  <2>7. tick' = [tick EXCEPT ![p] = t]
    BY <1>4
  <2> HIDE DEF t, v, e
  <2> QED
    BY <1>1, <1>2, <2>4, <2>5, <2>6, <2>7, WorkTrue
<1> QED
  BY <1>3, <1>4 DEF Release, Continue

-----------------------------------------------------------------------------
(* Steps that change what is committed. *)

\* What they may do to the tables: what has finished stays as it is, what is booked
\* stays booked, what has begun has begun.
Onward ==
    /\ \A d \in Delegations : Finished(d) =>
           Finished(d)' /\ child'[d].expired = child[d].expired
    /\ \A d \in Delegations : child[d].status = "cancelled" => child'[d].status = "cancelled"
    /\ \A d \in Delegations : row[d] # NoRow => row'[d] # NoRow
    /\ \A e \in Executions : reopened[e] > 0 => reopened'[e] > 0
    /\ \A e \in Executions : fwd[e] # "none" => fwd'[e] # "none"

\* They leave a transaction in order, unless it is to bring the run on and a child
\* run is registered meanwhile.
LEMMA OthersTrue ==
    ASSUME IInv, Onward, NEW q \in Processes, tick'[q] = tick[q], JobOK(q, tick[q])
    PROVE  /\ JobOK(q, tick[q])'
           /\ /\ TickTrue(tick[q])
              /\ Resumes(tick[q]) => \A d \in Delegations : Overdue(d)' => Overdue(d)
              => TickTrue(tick[q])'
<1> DEFINE t == tick[q]
<1>1. /\ t \in TickRecord /\ ChildrenOK(t) /\ t.pending \in Delegations \cup {None}
      /\ t.delivers \subseteq Delegations /\ t.expires \subseteq Delegations
      /\ DOMAIN t.row \subseteq Executions
      /\ Delegations \subseteq Executions
  BY TickFacts DEF TickInv, TickRecord, Executions
<1>2. ASSUME NEW u, u = t, JobOK(q, u) PROVE JobOK(q, u)'
  BY <1>1, <1>2 DEF JobOK, Registers, Resumes, Onward
<1>3. ASSUME TickTrue(t),
             Resumes(t) => \A d \in Delegations : Overdue(d)' => Overdue(d)
      PROVE  TickTrue(tick[q])'
  <2>1. Tracks(tick[q])'
    BY <1>3 DEF TickTrue, Tracks, Resumes
  <2>2. EndsBooked(tick[q])'
    BY <1>1, <1>3 DEF TickTrue, EndsBooked, SeenIn, Onward
  <2>3. Brings(tick[q])'
    BY <1>1, <1>3 DEF TickTrue, Brings, ChildrenOK, Onward
  <2>4. \A e \in DOMAIN t.row : FinalByHand(e, t.row[e])'
    BY <1>1, <1>3 DEF TickTrue, FinalByHand, Onward
  <2> QED
    BY <2>1, <2>2, <2>3, <2>4 DEF TickTrue
<1> QED
  BY <1>2, <1>3

\* A step that changes tables and no transaction, and registers no child run.
LEMMA OutsideTick ==
    ASSUME IInv, JInv, Onward, UNCHANGED <<tick, pending>>,
           \A d \in Delegations : Overdue(d)' => Overdue(d), TInv => TablesTrue'
    PROVE  JInv' /\ (TInv => TInv')
<1>1. \A q \in Processes : JobOK(q, tick[q])'
  BY OthersTrue DEF JInv
<1>2. JInv'
  <2>1. pending \in Delegations \cup {None} /\ Delegations \subseteq Executions
    BY DEF IInv, TablesTyped, Executions
  <2> QED
    BY <1>1, <2>1 DEF JInv, Onward
<1>3. ASSUME TInv PROVE TInv'
  <2>1. \A q \in Processes : TickTrue(tick[q])'
    BY <1>3, OthersTrue DEF JInv, TInv
  <2> QED
    BY <1>3, <2>1 DEF TInv
<1> QED
  BY <1>2, <1>3

\* A result or a wait is settled for a run that is over or waits no more.
LEMMA SettlesTrue ==
    ASSUME IInv, JInv, NEW d \in Delegations, NEW newRow, NEW c \in ChildRecord,
           Settles(newRow, [child EXCEPT ![d] = c]),
           c.status = child[d].status, c.result = child[d].result,
           child[d].expired => c.expired, Finished(d) => c.expired = child[d].expired,
           \A e \in Executions \ {d} : newRow[e] = row[e],
           row[d] # NoRow => newRow[d] # NoRow,
           newRow[d] = row[d] \/ newRow[d].status \notin FinalStatuses,
           TInv => /\ c.expired => newRow[d] # NoRow
                   /\ c.delivered /\ c.expired /\ c.result /\ reopened[d] = 0 => newRow[d].args
    PROVE  JInv' /\ (TInv => TInv')
<1>1. /\ UNCHANGED <<run, pending, fwd, tick, reopened>> /\ row' = newRow
      /\ child' = [child EXCEPT ![d] = c] /\ Delegations \subseteq Executions
  BY DEF Settles, history, Executions
<1>2. child'[d] = c /\ \A x \in Delegations \ {d} : child'[x] = child[x]
  BY <1>1 DEF IInv, TablesTyped
<1>3. Onward
  BY <1>1, <1>2 DEF Onward, Finished
<1>4. \A x \in Delegations : Overdue(x)' => Overdue(x)
  BY <1>2 DEF Overdue, Running
<1>5. ASSUME TInv PROVE TablesTrue'
  <2>1. TablesTrue
    BY <1>5 DEF TInv
  <2>2. \A x \in Delegations : child'[x].expired => row'[x] # NoRow
    BY <1>1, <1>2, <1>5, <2>1 DEF TablesTrue
  <2>3. \A e \in Executions : FinalByHand(e, row[e])'
    BY <1>1, <2>1 DEF TablesTrue, FinalByHand
  <2>4. TruthReachesTheLedger'
    BY <1>1, <1>2, <1>5, <2>1 DEF TablesTrue, TruthReachesTheLedger
  <2> QED
    BY <1>1, <1>4, <2>1, <2>2, <2>3, <2>4 DEF TablesTrue
<1> QED
  BY <1>1, <1>3, <1>4, <1>5, OutsideTick

\* What reconciling leaves of a row: a result brings the arguments to a row that
\* lacks them, and no row becomes final.
LEMMA ReconciledTells ==
    ASSUME IInv, NEW d \in Delegations
    PROVE  /\ \A e \in Executions \ {d} : Reconciled(d)[e] = row[e]
           /\ row[d] # NoRow => Reconciled(d)[d] # NoRow
           /\ Reconciled(d)[d] = row[d] \/ Reconciled(d)[d].status \notin FinalStatuses
           /\ child[d].result /\ Upgradable(row[d]) => Reconciled(d)[d].args
           /\ child[d].result /\ row[d].args => Reconciled(d)[d].args
<1>1. row \in [Executions -> CompensationRecord \cup {NoRow}] /\ d \in Executions
  BY DEF IInv, TablesTyped, Executions
<1>2. CASE row[d].status = "unresolved"
  <2>1. row[d] \in CompensationRecord
    BY <1>1, <1>2 DEF NoRow
  <2> DEFINE m == Moved(row[d], "pending")
             up == [m EXCEPT !.args = TRUE]
             n == row[d].version + 1
             same == [row[d] EXCEPT !.version = n]
  <2>2. m \in CompensationRecord /\ m.status = "pending"
    BY <2>1, MovedFacts DEF OpenStatuses
  <2> HIDE DEF m, n
  <2>3. /\ up.status = "pending" /\ up.args = TRUE
        /\ same.status = "unresolved" /\ same.args = row[d].args
    BY <1>2, <2>1, <2>2 DEF CompensationRecord
  <2>4. Reconciled(d) = IF child[d].result
                        THEN IF Upgradable(row[d]) THEN [row EXCEPT ![d] = up] ELSE row
                        ELSE [row EXCEPT ![d] = same]
    BY <1>1, <1>2 DEF Reconciled, m, n
  <2> HIDE DEF up, same
  <2> QED
    BY <1>1, <1>2, <2>3, <2>4 DEF FinalStatuses, NoRow, Upgradable
<1>3. CASE row[d].status # "unresolved"
  BY <1>3 DEF Reconciled, Upgradable
<1> QED
  BY <1>2, <1>3

LEMMA WakeLateTrue ==
    ASSUME IInv, PInv, JInv, NEW p \in Processes, NEW d \in Delegations, WakeLate(p, d)
    PROVE  JInv' /\ (TInv => TInv')
<1> DEFINE c == [child[d] EXCEPT !.delivered = TRUE]
<1>1. child[d] \in ChildRecord /\ child[d].expired /\ d \in Executions
  BY DEF WakeLate, IInv, TablesTyped, Executions
<1>2. /\ c \in ChildRecord /\ c.status = child[d].status /\ c.result = child[d].result
      /\ c.expired = child[d].expired /\ c.delivered = TRUE
  BY <1>1 DEF ChildRecord
<1>3. [child EXCEPT ![d].delivered = TRUE] = [child EXCEPT ![d] = c]
  OBVIOUS
<1>4. Settles(Reconciled(d), [child EXCEPT ![d] = c])
  BY <1>3 DEF WakeLate
<1> HIDE DEF c
\* A row that no human put back and that lacks its arguments is unresolved.
<1>5. ASSUME TInv
      PROVE  /\ row[d] # NoRow
             /\ child[d].result /\ reopened[d] = 0 => Upgradable(row[d]) \/ row[d].args
  <2>1. row[d] # NoRow /\ FinalByHand(d, row[d]) /\ Guarded(d, row[d])
    BY <1>1, <1>5 DEF TInv, TablesTrue, PInv, TablesPaid, RowPaid
  <2>2. row[d] \in CompensationRecord
    BY <1>1, <2>1 DEF IInv, TablesTyped
  <2>3. row[d].status \in OpenStatuses \cup FinalStatuses \cup {"unresolved"}
    BY <2>2 DEF CompensationRecord
  <2> QED
    BY <2>1, <2>3 DEF FinalByHand, Guarded, Upgradable
<1> QED
  BY <1>2, <1>4, <1>5, ReconciledTells, SettlesTrue

\* What an orphan leaves of a row: the one that is there, or a new one.
LEMMA OrphanedTells ==
    ASSUME IInv, NEW d \in Delegations
    PROVE  /\ \A e \in Executions \ {d} : Orphaned(d)[e] = row[e]
           /\ Orphaned(d)[d] # NoRow
           /\ Orphaned(d)[d] = row[d] \/ Orphaned(d)[d].status \notin FinalStatuses
<1>1. row \in [Executions -> CompensationRecord \cup {NoRow}] /\ d \in Executions
  BY DEF IInv, TablesTyped, Executions
<1>2. Entry("unresolved", FALSE).status = "unresolved"
  BY DEF Entry
<1>3. "unresolved" # NoRow.status /\ "unresolved" \notin FinalStatuses
  BY DEF NoRow, FinalStatuses
<1> QED
  BY <1>1, <1>2, <1>3 DEF Orphaned

LEMMA WakeOverTrue ==
    ASSUME IInv, JInv, NEW p \in Processes, NEW d \in Delegations, WakeOver(p, d)
    PROVE  JInv' /\ (TInv => TInv')
<1> DEFINE c == [child[d] EXCEPT !.delivered = TRUE]
           newRow == IF run = "completed" THEN row ELSE Orphaned(d)
<1>1. child[d] \in ChildRecord /\ ~ child[d].expired
  BY DEF WakeOver, IInv, TablesTyped
<1>2. /\ c \in ChildRecord /\ c.status = child[d].status /\ c.result = child[d].result
      /\ c.expired = child[d].expired
  BY <1>1 DEF ChildRecord
<1>3. [child EXCEPT ![d].delivered = TRUE] = [child EXCEPT ![d] = c]
  OBVIOUS
<1>4. Settles(newRow, [child EXCEPT ![d] = c])
  BY <1>3 DEF WakeOver
<1>5. /\ \A e \in Executions \ {d} : newRow[e] = row[e]
      /\ row[d] # NoRow => newRow[d] # NoRow
      /\ newRow[d] = row[d] \/ newRow[d].status \notin FinalStatuses
  BY OrphanedTells
<1> HIDE DEF c, newRow
<1> QED
  BY <1>1, <1>2, <1>4, <1>5, SettlesTrue

\* A wait that a run leaves behind is booked.
LEMMA ExpireOverTrue ==
    ASSUME IInv, JInv, NEW p \in Processes, NEW d \in Delegations, ExpireOver(p, d)
    PROVE  JInv' /\ (TInv => TInv')
<1> DEFINE c == [child[d] EXCEPT !.expired = TRUE]
<1>1. /\ child[d] \in ChildRecord /\ ~ Finished(d) /\ ~ child[d].delivered
  BY DEF ExpireOver, Overdue, Running, Finished, ChildStatuses, IInv, TablesTyped, TablesFollow
<1>2. /\ c \in ChildRecord /\ c.status = child[d].status /\ c.result = child[d].result
      /\ c.expired = TRUE /\ c.delivered = child[d].delivered
  BY <1>1 DEF ChildRecord
<1>3. [child EXCEPT ![d].expired = TRUE] = [child EXCEPT ![d] = c]
  OBVIOUS
<1>4. Settles(Orphaned(d), [child EXCEPT ![d] = c])
  BY <1>3 DEF ExpireOver
<1> HIDE DEF c
<1> QED
  BY <1>1, <1>2, <1>4, OrphanedTells, SettlesTrue

LEMMA AbandonChildTrue ==
    ASSUME IInv, JInv, NEW p \in Processes, NEW d \in Delegations, AbandonChild(p, d)
    PROVE  JInv' /\ (TInv => TInv')
<1> DEFINE c == child[d]
<1>1. c \in ChildRecord /\ ~ Finished(d) /\ ~ c.delivered
  BY DEF AbandonChild, Running, Finished, ChildStatuses, IInv, TablesTyped, TablesFollow
<1>2. child = [child EXCEPT ![d] = c]
  BY DEF IInv, TablesTyped
<1>3. Settles(Orphaned(d), [child EXCEPT ![d] = c])
  BY <1>2 DEF AbandonChild
<1>4. c.status = child[d].status /\ c.result = child[d].result /\ c.expired = child[d].expired
  OBVIOUS
<1> HIDE DEF c
<1> QED
  BY <1>1, <1>3, <1>4, OrphanedTells, SettlesTrue

LEMMA ChildFinishesTrue ==
    ASSUME IInv, JInv, NEW d \in Delegations, NEW status \in ChildStatuses,
           NEW keys \in BOOLEAN, ChildFinishes(d, status, keys)
    PROVE  JInv' /\ (TInv => TInv')
<1> DEFINE c == [child[d] EXCEPT !.status = status, !.result = keys]
<1>1. /\ child[d] \in ChildRecord /\ child[d].status = "running"
      /\ ~ Finished(d) /\ ~ child[d].delivered
      /\ UNCHANGED <<run, pending, fwd, row, tick, reopened>>
  BY DEF ChildFinishes, Running, Finished, ChildStatuses, IInv, TablesTyped, TablesFollow, history
<1>2. /\ c.status = status /\ c.delivered = child[d].delivered /\ c.expired = child[d].expired
  BY <1>1 DEF ChildRecord
<1>3. child' = [child EXCEPT ![d] = c]
  BY <1>1 DEF ChildFinishes, IInv, TablesTyped
<1> HIDE DEF c
<1>4. child'[d] = c /\ \A x \in Delegations \ {d} : child'[x] = child[x]
  BY <1>3 DEF IInv, TablesTyped
<1>5. Onward
  BY <1>1, <1>4 DEF Onward, Finished
<1>6. \A x \in Delegations : Overdue(x)' => Overdue(x)
  BY <1>1, <1>2, <1>4 DEF Overdue, Running
<1>7. ASSUME TInv PROVE TablesTrue'
  <2>1. \A x \in Delegations : child'[x].expired => child[x].expired
    BY <1>2, <1>4
  <2>2. TruthReachesTheLedger'
    BY <1>1, <1>2, <1>4, <1>7 DEF TInv, TablesTrue, TruthReachesTheLedger
  <2> QED
    BY <1>1, <1>6, <1>7, <2>1, <2>2 DEF TInv, TablesTrue, FinalByHand
<1> QED
  BY <1>1, <1>5, <1>6, <1>7, OutsideTick

\* The kernel repeats an undo or a call.
LEMMA RetriesTrue ==
    ASSUME IInv, JInv,
           (\E q \in queued : UndoIsRetried(q)) \/ (\E e \in Executions : CallIsRetried(e))
    PROVE  JInv' /\ (TInv => TInv')
<1>1. UNCHANGED <<run, pending, row, child, tick, reopened>>
  BY DEF UndoIsRetried, CallIsRetried, history
<1>2. \A e \in Executions : fwd[e] # "none" => fwd'[e] # "none"
  BY DEF UndoIsRetried, CallIsRetried, IInv, TablesTyped
<1>3. Onward
  BY <1>1, <1>2 DEF Onward, Finished
<1>4. \A x \in Delegations : Overdue(x)' => Overdue(x)
  BY <1>1 DEF Overdue, Running
<1>5. TInv => TablesTrue'
  BY <1>1 DEF TInv, TablesTrue, TruthReachesTheLedger, FinalByHand, Overdue, Running
<1> QED
  BY <1>1, <1>3, <1>4, <1>5, OutsideTick

LEMMA ReopenTrue ==
    ASSUME IInv, PInv, JInv, NEW e \in Executions, Reopen(e)
    PROVE  JInv' /\ (TInv => TInv')
<1> DEFINE r == Moved(row[e], "pending")
<1>1. /\ UNCHANGED <<run, pending, fwd, child, tick>>
      /\ row' = [row EXCEPT ![e] = r]
      /\ reopened' = [reopened EXCEPT ![e] = @ + 1]
      /\ row[e].status = "unresolved"
  BY DEF Reopen, Allowed
<1>2. row \in [Executions -> CompensationRecord \cup {NoRow}] /\ row[e] \in CompensationRecord
  <2>1. row \in [Executions -> CompensationRecord \cup {NoRow}]
    BY DEF IInv, TablesTyped
  <2> QED
    BY <1>1, <2>1 DEF NoRow
<1>3. r.status = "pending"
  BY <1>2, MovedKeeps
<1> HIDE DEF r
<1>4. row'[e] = r /\ \A x \in Executions \ {e} : row'[x] = row[x]
  BY <1>1, <1>2
<1>5. reopened'[e] > 0 /\ \A x \in Executions \ {e} : reopened'[x] = reopened[x]
  BY <1>1 DEF PInv, CountsTyped
<1>6. Onward
  BY <1>1, <1>3, <1>4, <1>5 DEF Onward, Finished, NoRow, Executions
<1>7. \A x \in Delegations : Overdue(x)' => Overdue(x)
  BY <1>1 DEF Overdue, Running
<1>8. ASSUME TInv PROVE TablesTrue'
  <2>1. TablesTrue
    BY <1>8 DEF TInv
  <2>2. \A x \in Executions : FinalByHand(x, row[x])'
    BY <1>3, <1>4, <1>5, <2>1 DEF TablesTrue, FinalByHand, FinalStatuses
  <2>3. \A x \in Delegations : child'[x].expired => row'[x] # NoRow
    BY <1>1, <1>6, <2>1 DEF TablesTrue, Onward
  <2>4. TruthReachesTheLedger'
    BY <1>1, <1>4, <1>5, <2>1 DEF TablesTrue, TruthReachesTheLedger, Executions
  <2> QED
    BY <1>1, <1>7, <2>1, <2>2, <2>3, <2>4 DEF TablesTrue
<1> QED
  BY <1>1, <1>6, <1>7, <1>8, OutsideTick

\* Commit: what the transaction waits for is what the run waits for from now on.
LEMMA CommitTrue ==
    ASSUME IInv, PInv, JInv, NEW p \in Processes, Commit(p)
    PROVE  JInv' /\ (TInv /\ DelegatesAlone => TInv')
<1> DEFINE t == tick[p]
<1>1. /\ t \in TickRecord /\ TickInv(p, t) /\ JobOK(p, t)
      /\ DOMAIN t.row \subseteq Executions
      /\ \A e \in DOMAIN t.row : t.row[e] \in CompensationRecord /\ t.row[e] # NoRow
      /\ \A e \in DOMAIN t.fwd : t.fwd[e] # "none"
      /\ Delegations \subseteq Executions
  BY TickFacts, RowsAreRows DEF JInv, WrittenStatuses, Executions
<1>2. /\ fwd' = Over(t.fwd, fwd) /\ row' = Over(t.row, row)
      /\ child' = [d \in Delegations |-> Marked(p, d)]
      /\ tick' = [tick EXCEPT ![p] = IdleTick] /\ reopened' = reopened
      /\ t.phase \in {"closing", "undoing", "releasing"}
      /\ \A d \in t.expires : ~ Finished(d)
  BY DEF Commit, Done, In, Continue, history
<1>3. /\ tick'[p] = IdleTick /\ \A q \in Processes \ {p} : tick'[q] = tick[q]
      /\ \A e \in Executions : row'[e] = IF e \in DOMAIN t.row THEN t.row[e] ELSE row[e]
      /\ \A e \in Executions : fwd'[e] = IF e \in DOMAIN t.fwd THEN t.fwd[e] ELSE fwd[e]
  BY <1>2 DEF Over, IInv, TablesTyped
<1>4. ASSUME NEW d \in Delegations
      PROVE  /\ child'[d].status = IF Registers(t, d) THEN "running" ELSE child[d].status
             /\ child'[d].delivered = (child[d].delivered \/ d \in t.delivers)
             /\ child'[d].expired = (child[d].expired \/ d \in t.expires)
             /\ child'[d].result = child[d].result
             /\ Registers(t, d) => child[d].status = "none"
  <2>1. child[d] \in ChildRecord /\ child'[d] = Marked(p, d)
    BY <1>2 DEF IInv, TablesTyped
  <2> QED
    BY <2>1 DEF Marked, ChildRecord, Registers, IInv, TablesFollow
<1>5. Onward
  <2>1. ASSUME NEW d \in Delegations, Finished(d)
        PROVE  Finished(d)' /\ child'[d].expired = child[d].expired
    <3>1. child[d].status # "none" /\ d \notin t.expires
      BY <1>2, <2>1 DEF Finished, ChildStatuses
    <3> QED
      BY <1>4, <2>1, <3>1 DEF Finished, IInv, TablesTyped, ChildRecord
  <2>2. \A d \in Delegations : child[d].status = "cancelled" => child'[d].status = "cancelled"
    BY <1>4
  <2>3. \A d \in Delegations : row[d] # NoRow => row'[d] # NoRow
    BY <1>1, <1>3
  <2>4. \A e \in Executions : fwd[e] # "none" => fwd'[e] # "none"
    BY <1>1, <1>3
  <2> QED
    BY <1>2, <2>1, <2>2, <2>3, <2>4 DEF Onward
<1>6. JobOK(p, tick[p])' /\ TickTrue(tick[p])'
  <2>1. /\ IdleTick.phase = "idle" /\ IdleTick.job = "none" /\ IdleTick.pending = None
        /\ IdleTick.delivers = {} /\ IdleTick.expires = {}
        /\ DOMAIN IdleTick.row = {} /\ DOMAIN IdleTick.fwd = {}
    BY DEF IdleTick, NoWrites
  <2> QED
    BY <1>3, <2>1 DEF TickTrue, Tracks, EndsBooked, Brings, JobOK, Resumes, Registers
<1>7. JInv'
  <2>1. \A q \in Processes : JobOK(q, tick[q])'
    BY <1>3, <1>5, <1>6, OthersTrue DEF JInv
  <2>2. pending' # None => fwd'[pending'] # "none"
    <3>1. /\ pending' = pending \/ pending' = t.pending
          /\ pending \in Delegations \cup {None} /\ t.pending \in Delegations \cup {None}
      BY <1>1 DEF Commit, IInv, TablesTyped, TickRecord
    <3> QED
      BY <1>1, <1>3, <3>1 DEF JInv, JobOK
  <2> QED
    BY <2>1, <2>2 DEF JInv
<1>8. ASSUME TInv, DelegatesAlone PROVE TInv'
  <2>1. TickTrue(t) /\ TablesTrue
    BY <1>8 DEF TInv
  \* Nobody else brings the run on while this transaction registers a child run.
  <2>2. ASSUME NEW q \in Processes \ {p}, Resumes(tick[q]), NEW d \in Delegations, Overdue(d)'
        PROVE  Overdue(d)
    <3>1. ~ Registers(t, d)
      BY <1>8, <2>2 DEF DelegatesAlone
    <3> QED
      BY <1>4, <2>2, <3>1 DEF Overdue, Running
  <2>3. ASSUME NEW q \in Processes PROVE TickTrue(tick[q])'
    <3>1. CASE q = p
      BY <1>6, <3>1
    <3>2. CASE q # p
      <4>1. tick'[q] = tick[q] /\ JobOK(q, tick[q]) /\ TickTrue(tick[q])
        BY <1>3, <1>8, <3>2 DEF JInv, TInv
      <4> QED
        BY <1>5, <2>2, <3>2, <4>1, OthersTrue
    <3> QED
      BY <3>1, <3>2
  <2>4. ASSUME run' = "running", NEW d \in Delegations, Overdue(d)' PROVE pending' = d
    <3>1. CASE Registers(t, d)
      <4>1. t.pending = d /\ t.status = "running"
        BY <1>1, <3>1 DEF JobOK, Resumes
      <4> QED
        BY <4>1 DEF Commit
    <3>2. CASE ~ Registers(t, d)
      <4>1. Overdue(d) /\ d \notin t.expires
        BY <1>4, <2>4, <3>2 DEF Overdue, Running
      <4>2. CASE t.status = "unsaved"
        BY <2>1, <2>4, <4>1, <4>2 DEF Commit, TablesTrue
      <4>3. CASE t.status # "unsaved"
        <5>1. t.status = "running" /\ pending' = t.pending
          BY <2>4, <4>3 DEF Commit
        <5>2. Resumes(t)
          BY <1>1, <1>2, <5>1 DEF Resumes, JobOK
        <5> QED
          BY <2>1, <4>1, <5>1, <5>2 DEF TickTrue, Tracks
      <4> QED
        BY <4>2, <4>3
    <3> QED
      BY <3>1, <3>2
  <2>5. ASSUME NEW d \in Delegations, child'[d].expired PROVE row'[d] # NoRow
    <3>1. CASE child[d].expired
      BY <1>5, <2>1, <3>1 DEF TablesTrue, Onward
    <3>2. CASE d \in t.expires
      <4>1. SeenIn(t, d) # NoRow
        BY <1>2, <2>1, <3>2 DEF TickTrue, EndsBooked
      <4> QED
        BY <1>1, <1>3, <4>1 DEF SeenIn
    <3> QED
      BY <1>4, <2>5, <3>1, <3>2
  <2>6. \A e \in Executions : FinalByHand(e, row[e])'
    BY <1>2, <1>3, <2>1 DEF TickTrue, TablesTrue, FinalByHand
  <2>7. TruthReachesTheLedger'
    <3> SUFFICES ASSUME NEW d \in Delegations, child'[d].delivered, child'[d].expired,
                        child'[d].result, reopened'[d] = 0
                 PROVE  row'[d].args
      BY DEF TruthReachesTheLedger
    \* The result is there: this transaction cannot have ended the wait for it.
    <3>1. child[d].result /\ child[d].status = "completed" /\ child[d].expired
      <4>1. child[d].result /\ child[d].status = "completed"
        BY <1>4 DEF IInv, TablesFollow
      <4>2. Finished(d)
        BY <4>1 DEF Finished, ChildStatuses
      <4> QED
        BY <1>2, <1>4, <4>1, <4>2
    <3>2. child[d].delivered
      BY <1>4, <2>1, <3>1 DEF TickTrue, Brings
    <3>3. row[d].args
      BY <1>2, <2>1, <3>1, <3>2 DEF TablesTrue, TruthReachesTheLedger
    <3>4. d \in DOMAIN t.row => Keeps(row[d], t.row[d])
      BY DEF PInv, SpendingOK, WrittenPaid
    <3> QED
      BY <1>1, <1>3, <3>3, <3>4 DEF Keeps
  <2>8. TablesTrue'
    BY <2>4, <2>5, <2>6, <2>7 DEF TablesTrue
  <2> QED
    BY <2>3, <2>8 DEF TInv
<1> QED
  BY <1>7, <1>8

-----------------------------------------------------------------------------
(* The third invariant. *)

LEMMA InitTrue == Init => JInv /\ TInv
<1> SUFFICES ASSUME Init PROVE JInv /\ TInv
  OBVIOUS
<1>1. \A p \in Processes : JobOK(p, tick[p]) /\ TickTrue(tick[p])
  BY IdleIsTrue DEF Init
<1>2. /\ \A d \in Delegations : /\ ~ child[d].expired /\ ~ child[d].delivered
                                /\ child[d].status = "none"
      /\ \A e \in Executions : row[e].status = "none"
      /\ pending = None
  BY DEF Init, NoChild, NoRow
<1> QED
  BY <1>1, <1>2 DEF JInv, TInv, TablesTrue, TruthReachesTheLedger, FinalByHand, FinalStatuses,
                    Overdue, Running

LEMMA StepTrue ==
    ASSUME IInv, IInv', PInv, JInv, NEW p \in Processes, Step(p)
    PROVE  JInv' /\ (TInv /\ DelegatesAlone => TInv')
<1>1. ASSUME NEW d \in Delegations,
             \/ WakeLate(p, d) \/ WakeOver(p, d) \/ ExpireOver(p, d) \/ AbandonChild(p, d)
      PROVE  JInv' /\ (TInv => TInv')
  BY <1>1, WakeLateTrue, WakeOverTrue, ExpireOverTrue, AbandonChildTrue
<1>2. ASSUME NEW job \in JobsOf[p], NEW d \in Delegations \cup {None}, Rebuild(p, job, d)
      PROVE  JInv' /\ (TInv => TInv')
  BY <1>2, RebuildTrue
<1>3. ASSUME DeliverResult(p) \/ DeclareUnknown(p) \/ AlreadyClosed(p) \/ Drive(p) \/ CancelRun(p)
      PROVE  JInv' /\ (TInv => TInv')
  BY <1>3, DeliverResultTrue, DeclareUnknownTrue, AlreadyClosedTrue, DriveTrue, CancelRunTrue
<1>4. ASSUME NEW e \in Calls, NEW o \in {"completed", "failed", "unknown", "retrying"},
             NEW keys \in BOOLEAN, CallTool(p, e, o, keys)
      PROVE  JInv' /\ (TInv => TInv')
  BY <1>4, CallToolTrue
<1>5. ASSUME NEW d \in Delegations, Delegate(p, d) PROVE JInv' /\ (TInv => TInv')
  BY <1>5, DelegateTrue
<1>6. ASSUME Pause(p) \/ Fail(p) \/ Complete(p) PROVE JInv' /\ (TInv => TInv')
  BY <1>6, PauseTrue, GiveVerdictTrue DEF Fail, Complete
<1>7. ASSUME Claim(p) \/ (\E o \in UndoOutcomes : CallUndo(p, o)) \/ Release(p)
      PROVE  JInv' /\ (TInv => TInv')
  BY <1>7, ClaimTrue, CallUndoTrue, ReleaseTrue
<1>8. ASSUME Abort(p) \/ Raise(p) PROVE JInv' /\ (TInv => TInv')
  BY <1>8, RollBackTrue DEF Abort, Raise
<1>9. ASSUME Commit(p) PROVE JInv' /\ (TInv /\ DelegatesAlone => TInv')
  BY <1>9, CommitTrue
<1> QED
  BY <1>1, <1>2, <1>3, <1>4, <1>5, <1>6, <1>7, <1>8, <1>9 DEF Step

LEMMA NextTrue ==
    ASSUME IInv, IInv', PInv, JInv, [Next]_vars
    PROVE  JInv' /\ (TInv /\ DelegatesAlone => TInv')
<1>1. ASSUME NEW p \in Processes, Step(p) PROVE JInv' /\ (TInv /\ DelegatesAlone => TInv')
  BY <1>1, StepTrue
<1>2. ASSUME Environment PROVE JInv' /\ (TInv => TInv')
  <2>1. ASSUME NEW d \in Delegations, NEW s \in ChildStatuses, NEW keys \in BOOLEAN,
               ChildFinishes(d, s, keys)
        PROVE  JInv' /\ (TInv => TInv')
    BY <2>1, ChildFinishesTrue
  <2>2. ASSUME NEW e \in Executions, Reopen(e) PROVE JInv' /\ (TInv => TInv')
    BY <2>2, ReopenTrue
  <2> QED
    BY <1>2, <2>1, <2>2, RetriesTrue DEF Environment
<1>3. ASSUME UNCHANGED vars PROVE JInv' /\ (TInv => TInv')
  <2>1. UNCHANGED <<run, pending, fwd, row, queued, child, tick, reopened>>
    BY <1>3 DEF vars, tables, history
  <2>2. Onward /\ \A x \in Delegations : Overdue(x)' => Overdue(x)
    BY <2>1 DEF Onward, Finished, Overdue, Running
  <2>3. TInv => TablesTrue'
    BY <2>1 DEF TInv, TablesTrue, TruthReachesTheLedger, FinalByHand, Overdue, Running
  <2> QED
    BY <2>1, <2>2, <2>3, OutsideTick
<1> QED
  BY <1>1, <1>2, <1>3 DEF Next

\* What holds of the jobs of the ticks holds whatever else happens.
LEMMA JobsAreDone == Spec => [](IInv /\ PInv /\ JInv)
<1>1. IInv /\ PInv /\ JInv /\ [Next]_vars => (IInv /\ PInv /\ JInv)'
  BY NextInv, NextPaid, NextTrue
<1>2. Init => IInv /\ PInv /\ JInv
  BY InitInv, InitPaid, InitTrue
<1> QED
  BY <1>1, <1>2, PTL DEF Spec

-----------------------------------------------------------------------------

\* D-25, reconcile_late_result(): as long as a tick that delegates is committed before
\* another one brings the run on, whatever processes there are and whatever fails, the
\* ledger has the arguments of every late result that is settled.
THEOREM LateResultsArrive == Spec /\ []DelegatesAlone => []TruthReachesTheLedger
<1>1. IInv /\ PInv /\ JInv /\ TInv /\ DelegatesAlone /\ [Next]_vars
      => (IInv /\ PInv /\ JInv /\ TInv)'
  BY NextInv, NextPaid, NextTrue
<1>2. Init => IInv /\ PInv /\ JInv /\ TInv
  BY InitInv, InitPaid, InitTrue
<1>3. TInv => TruthReachesTheLedger
  BY DEF TInv, TablesTrue
<1> QED
  BY <1>1, <1>2, <1>3, PTL DEF Spec

\* Without any assumption on the order of steps: one process brings the run on, for any
\* number of delegations, and any other only cancels it.
THEOREM OneResumerIsTrue ==
    ASSUME NEW s \in Processes, \A q \in Processes \ {s} : JobsOf[q] \subseteq {"cancel"}
    PROVE  Spec => []TruthReachesTheLedger
<1>1. IInv /\ PInv /\ JInv => DelegatesAlone
  <2> SUFFICES ASSUME JInv, NEW p \in Processes, NEW q \in Processes, p # q,
                      NEW d \in Delegations, Registers(tick[p], d), Resumes(tick[q])
               PROVE  FALSE
    BY DEF DelegatesAlone
  <2>1. Resumes(tick[p]) /\ JobOK(p, tick[p]) /\ JobOK(q, tick[q])
    BY DEF JInv, JobOK
  <2> QED
    BY <2>1 DEF Resumes, JobOK
<1> QED
  BY <1>1, JobsAreDone, LateResultsArrive, PTL

\* The same for one delegation: one process starts the run, and any number of them bring
\* its result or end the wait for it.
THEOREM OneDelegationIsTrue ==
    ASSUME NEW s \in Processes, \A q \in Processes \ {s} : "drive" \notin JobsOf[q],
           \A d, x \in Delegations : d = x
    PROVE  Spec => []TruthReachesTheLedger
<1>1. IInv /\ PInv /\ JInv => DelegatesAlone
  <2> SUFFICES ASSUME IInv, JInv, NEW p \in Processes, NEW q \in Processes, p # q,
                      NEW d \in Delegations, Registers(tick[p], d), Resumes(tick[q])
               PROVE  FALSE
    BY DEF DelegatesAlone
  \* The child run is not registered yet: no result or wait brings the run on.
  <2>1. child[d].status = "none"
    BY DEF Registers, IInv, TablesFollow
  <2>2. ASSUME NEW r \in Processes, Resumes(tick[r]) PROVE tick[r].job = "drive"
    <3>1. ChildrenOK(tick[r]) /\ JobOK(r, tick[r]) /\ tick[r] \in TickRecord
      BY TickFacts DEF TickInv, JInv
    <3>2. tick[r].job \in Jobs
      BY <2>2, <3>1, LedgerAssumption DEF Resumes, JobOK, Jobs
    <3>3. tick[r].job \notin {"wake", "expire"}
      BY <2>1, <3>1 DEF ChildrenOK, Finished, ChildStatuses
    <3> QED
      BY <2>2, <3>2, <3>3 DEF Jobs, Resumes
  <2>3. Resumes(tick[p]) /\ JobOK(p, tick[p]) /\ JobOK(q, tick[q])
    BY DEF JInv, JobOK
  <2>4. tick[p].job = "drive" /\ tick[q].job = "drive"
    BY <2>2, <2>3
  <2> QED
    BY <2>3, <2>4 DEF Resumes, JobOK
<1> QED
  BY <1>1, JobsAreDone, LateResultsArrive, PTL
=============================================================================
