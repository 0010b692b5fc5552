------------------------- MODULE RunFamiliesProofs -------------------------
(***************************************************************************)
(* Proofs about RunFamilies for any number of runs, any depth of delegation, *)
(* any limit of the sweeps and any number of requests and faults.            *)
(***************************************************************************)
EXTENDS RunFamiliesProperties, SequenceTheorems, WellFoundedInduction, TLAPS

-----------------------------------------------------------------------------
(* Counting, and functions that are defined by it. *)

\* What holds at 0 and is handed on from each number to the next holds up to N.
LEMMA Counting ==
    ASSUME NEW N \in Nat, NEW P, 0 \in P, \A n \in 1 .. N : n - 1 \in P => n \in P
    PROVE  \A n \in 0 .. N : n \in P
<1> DEFINE S == {n \in 0 .. N : n \notin P}
           R == {s \in Nat \X Nat : s[1] < s[2]}
<1> SUFFICES ASSUME S # {} PROVE FALSE
  OBVIOUS
<1>1. IsWellFoundedOn(R, Nat)
  BY NatLessThanWellFounded, Zenon DEF OpToRel
<1>2. S \in SUBSET Nat
  OBVIOUS
<1> HIDE DEF R, S
<1>3. PICK i \in S : \A j \in S : ~ (<<j, i>> \in R)
  BY <1>1, <1>2, WFMin, Zenon
<1>4. i \in 0 .. N /\ i \notin P /\ i # 0
  BY <1>3 DEF S
<1>5. i \in 1 .. N /\ i - 1 \in 0 .. N /\ i - 1 < i /\ <<i - 1, i>> \in Nat \X Nat
  BY <1>4
<1>6. i - 1 \notin P
  BY <1>4, <1>5
<1>7. i - 1 \in S /\ <<i - 1, i>> \in R
  BY <1>5, <1>6 DEF S, R
<1> QED
  BY <1>3, <1>7

Iterates(f, N, X, x, G) ==
    /\ f \in [0 .. N -> X] /\ f[0] = x
    /\ \A n \in 1 .. N : f[n] = G[n][f[n - 1]]

\* A function may be defined on 0 .. N by what it is at 0 and a step.
LEMMA Iteration ==
    ASSUME NEW N \in Nat, NEW X, NEW x \in X, NEW G \in [1 .. N -> [X -> X]]
    PROVE  \E f : Iterates(f, N, X, x, G)
<1> DEFINE Solves(f, k) ==
             f \in [0 .. k -> X] /\ f[0] = x /\ \A n \in 1 .. k : f[n] = G[n][f[n - 1]]
           P == {k \in 0 .. N : \E f : Solves(f, k)}
<1>1. 0 \in P
  <2>1. Solves([n \in 0 .. 0 |-> x], 0)
    OBVIOUS
  <2>2. 0 \in 0 .. N
    OBVIOUS
  <2> HIDE DEF Solves
  <2> QED
    BY <2>1, <2>2, Zenon
<1>2. ASSUME NEW n \in 1 .. N, n - 1 \in P PROVE n \in P
  <2>1. PICK f : Solves(f, n - 1)
    BY <1>2
  <2>2. n \in Nat /\ n - 1 \in 0 .. n - 1
    OBVIOUS
  <2>3. f[n - 1] \in X /\ G[n][f[n - 1]] \in X
    BY <2>1, <2>2
  <2> DEFINE g == [i \in 0 .. n |-> IF i = n THEN G[n][f[n - 1]] ELSE f[i]]
  <2>4. /\ g \in [0 .. n -> X] /\ g[n] = G[n][f[n - 1]]
        /\ \A i \in 0 .. n - 1 : g[i] = f[i]
    BY <2>1, <2>2, <2>3
  <2> HIDE DEF g
  <2>5. g[0] = x
    BY <2>1, <2>2, <2>4
  <2>6. ASSUME NEW i \in 1 .. n PROVE g[i] = G[i][g[i - 1]]
    <3>1. CASE i = n
      BY <2>2, <2>4, <3>1
    <3>2. CASE i # n
      <4>1. i \in 1 .. n - 1 /\ i \in 0 .. n - 1 /\ i - 1 \in 0 .. n - 1
        BY <3>2
      <4>2. f[i] = G[i][f[i - 1]]
        BY <2>1, <4>1
      <4> QED
        BY <2>4, <4>1, <4>2
    <3> QED
      BY <3>1, <3>2
  <2>7. Solves(g, n)
    BY <2>4, <2>5, <2>6
  <2> QED
    BY <2>7
<1> HIDE DEF P
<1>3. \A k \in 0 .. N : k \in P
  BY <1>1, <1>2, Counting
<1>4. PICK f : Solves(f, N)
  BY <1>3 DEF P
<1> QED
  BY <1>4 DEF Iterates

\* The rows of s in S.
LEMMA SelectedIs ==
    ASSUME NEW D, NEW s \in Seq(D), NEW S
    PROVE  Selected(s, S) \in Seq(D) /\ ToSet(Selected(s, S)) = ToSet(s) \cap S
<1> DEFINE N == Len(s)
           one(n, o) == IF s[n] \in S THEN Append(o, s[n]) ELSE o
           G == [n \in 1 .. N |-> [o \in Seq(D) |-> one(n, o)]]
           F == CHOOSE of : of = [n \in 0 .. N |-> IF n = 0 THEN <<>>
                                    ELSE IF s[n] \in S THEN Append(of[n - 1], s[n]) ELSE of[n - 1]]
<1>1. Selected(s, S) = F[N]
  BY DEF Selected
<1>2. N \in Nat /\ <<>> \in Seq(D) /\ DOMAIN s = 1 .. N /\ \A n \in 1 .. N : s[n] \in D
  BY LenProperties, EmptySeq, ElementOfSeq
<1> HIDE DEF N
<1>3. ASSUME NEW n \in 1 .. N, NEW o \in Seq(D) PROVE one(n, o) \in Seq(D)
  BY <1>2, AppendProperties
<1>4. G \in [1 .. N -> [Seq(D) -> Seq(D)]]
  BY <1>3
<1>5. \A n \in 1 .. N : \A o \in Seq(D) : G[n][o] = one(n, o)
  OBVIOUS
<1> HIDE DEF G
<1>6. PICK f \in [0 .. N -> Seq(D)] :
        f[0] = <<>> /\ \A n \in 1 .. N : f[n] = G[n][f[n - 1]]
  <2>1. \E f : Iterates(f, N, Seq(D), <<>>, G)
    BY <1>2, <1>4, Iteration, Zenon
  <2> QED
    BY <2>1, Zenon DEF Iterates
<1>7. ASSUME NEW n \in 1 .. N PROVE f[n] = one(n, f[n - 1])
  <2>1. n - 1 \in 0 .. N
    BY <1>2
  <2> QED
    BY <1>5, <1>6, <2>1
<1>8. f = [n \in 0 .. N |-> IF n = 0 THEN <<>>
             ELSE IF s[n] \in S THEN Append(f[n - 1], s[n]) ELSE f[n - 1]]
  <2>1. f = [n \in 0 .. N |-> f[n]]
    BY <1>6
  <2>2. ASSUME NEW n \in 0 .. N
        PROVE  f[n] = IF n = 0 THEN <<>>
                      ELSE IF s[n] \in S THEN Append(f[n - 1], s[n]) ELSE f[n - 1]
    <3>1. CASE n = 0
      BY <1>6, <3>1
    <3>2. CASE n # 0
      <4>1. n \in 1 .. N
        BY <1>2, <3>2
      <4> QED
        BY <1>7, <3>2, <4>1
    <3> QED
      BY <3>1, <3>2
  <2> QED
    BY <2>1, <2>2
<1>9. F = [n \in 0 .. N |-> IF n = 0 THEN <<>>
             ELSE IF s[n] \in S THEN Append(F[n - 1], s[n]) ELSE F[n - 1]]
  BY <1>8
<1> HIDE DEF F
<1> DEFINE P == {n \in 0 .. N : F[n] \in Seq(D) /\ ToSet(F[n]) = {s[i] : i \in 1 .. n} \cap S}
<1>10. 0 \in P
  <2>1. F[0] = <<>> /\ 0 \in 0 .. N
    BY <1>2, <1>9
  <2>2. ToSet(<<>>) = {} /\ {s[i] : i \in 1 .. 0} = {}
    BY DEF ToSet
  <2> QED
    BY <1>2, <2>1, <2>2
<1>11. ASSUME NEW n \in 1 .. N, n - 1 \in P PROVE n \in P
  <2>0. n \in 0 .. N /\ n # 0
    BY <1>2
  <2>1. /\ F[n - 1] \in Seq(D) /\ ToSet(F[n - 1]) = {s[i] : i \in 1 .. n - 1} \cap S
        /\ n \in 0 .. N /\ n # 0
    BY <2>0, <1>11, Zenon
  <2>2. F[n] = one(n, F[n - 1])
    BY <1>9, <2>1
  <2>3. {s[i] : i \in 1 .. n} = {s[i] : i \in 1 .. n - 1} \cup {s[n]}
    <3>1. 1 .. n = (1 .. n - 1) \cup {n}
      OBVIOUS
    <3> QED
      BY <3>1
  <2>4. CASE s[n] \in S
    <3>1. F[n] = Append(F[n - 1], s[n]) /\ s[n] \in D
      BY <1>2, <2>2, <2>4
    <3>2. F[n] \in Seq(D) /\ ToSet(F[n]) = ToSet(F[n - 1]) \cup {s[n]}
      <4> DEFINE o == F[n - 1]
      <4>1. o \in Seq(D) /\ F[n] = Append(o, s[n])
        BY <2>1, <3>1
      <4> HIDE DEF o
      <4>2. /\ Append(o, s[n]) \in Seq(D) /\ Len(Append(o, s[n])) = Len(o) + 1
            /\ \A i \in 1 .. Len(o) : Append(o, s[n])[i] = o[i]
            /\ Append(o, s[n])[Len(o) + 1] = s[n]
        BY <3>1, <4>1, AppendProperties
      <4>3. /\ DOMAIN o = 1 .. Len(o) /\ Len(o) \in Nat
            /\ DOMAIN Append(o, s[n]) = 1 .. Len(o) + 1
        BY <4>1, <4>2, LenProperties
      <4>4. ToSet(Append(o, s[n])) = ToSet(o) \cup {s[n]}
        BY <4>2, <4>3 DEF ToSet
      <4> QED
        BY <4>1, <4>2, <4>4 DEF o
    <3> QED
      BY <2>1, <2>3, <2>4, <3>2
  <2>5. CASE s[n] \notin S
    BY <2>1, <2>2, <2>3, <2>5
  <2> QED
    BY <2>4, <2>5
<1> HIDE DEF P
<1>12. \A n \in 0 .. N : n \in P
  BY <1>2, <1>10, <1>11, Counting
<1>13. F[N] \in Seq(D) /\ ToSet(F[N]) = {s[i] : i \in 1 .. N} \cap S
  <2>1. N \in 0 .. N
    BY <1>2
  <2> QED
    BY <2>1, <1>12, Zenon DEF P
<1>14. ToSet(s) = {s[i] : i \in 1 .. N}
  BY <1>2 DEF ToSet
<1> QED
  BY <1>1, <1>13, <1>14

\* One more row at the end.
LEMMA AppendIs ==
    ASSUME NEW D, NEW s \in Seq(D), NEW e \in D
    PROVE  Append(s, e) \in Seq(D) /\ ToSet(Append(s, e)) = ToSet(s) \cup {e}
<1>1. /\ Append(s, e) \in Seq(D) /\ Len(Append(s, e)) = Len(s) + 1
      /\ \A i \in 1 .. Len(s) : Append(s, e)[i] = s[i]
      /\ Append(s, e)[Len(s) + 1] = e
  BY AppendProperties
<1>2. DOMAIN s = 1 .. Len(s) /\ Len(s) \in Nat /\ DOMAIN Append(s, e) = 1 .. Len(s) + 1
  BY <1>1, LenProperties
<1> QED
  BY <1>1, <1>2 DEF ToSet

\* LIMIT n.
LEMMA FirstIs ==
    ASSUME NEW D, NEW s \in Seq(D), NEW n \in Nat
    PROVE  First(n, s) \in Seq(D) /\ ToSet(First(n, s)) \subseteq ToSet(s)
<1> DEFINE k == IF Len(s) < n THEN Len(s) ELSE n
<1>1. k \in 0 .. Len(s) /\ Len(s) \in Nat /\ DOMAIN s = 1 .. Len(s)
  BY LenProperties
<1> HIDE DEF k
<1>2. ASSUME NEW i \in 1 .. k PROVE s[i] \in D /\ i \in 1 .. Len(s)
  BY <1>1, ElementOfSeq
<1>3. First(n, s) = [i \in 1 .. k |-> s[i]]
  <2>1. SubSeq(s, 1, k) = [i \in 1 .. k |-> s[i]]
    BY <1>1, <1>2, SubSeqProperties
  <2> QED
    BY <2>1 DEF First, k
<1>4. [i \in 1 .. k |-> s[i]] \in Seq(D)
  BY <1>1, <1>2
<1>5. ToSet([i \in 1 .. k |-> s[i]]) \subseteq ToSet(s)
  BY <1>1, <1>2 DEF ToSet
<1> QED
  BY <1>3, <1>4, <1>5

-----------------------------------------------------------------------------
(* The tables, and what fits in them.  X are the runs that a handler is in   *)
(* the middle of.                                                            *)

RowRecord ==
    [parent : Runs \cup {None}, status : TerminalRuns \cup {"none", "created"},
     delivered : BOOLEAN, expired : BOOLEAN, asked : BOOLEAN]

Intents == {i \in SUBSET {"asked", "settled", "abandoned"} : i # {} => "asked" \in i}

Statuses == TerminalRuns \cup {"none", "gated", "waiting", "running"}

Tables ==
    [snap : [Runs -> Statuses], waits : [Runs -> Children \cup {None}],
     row : [Children -> RowRecord], ended : Seq(Children),
     intent : [Runs -> Intents], queue : Seq(Runs),
     overdue : Seq(Children), lapsed : SUBSET Runs, stale : SUBSET Runs,
     book : SUBSET Children, seen : SUBSET Children, driven : SUBSET Children]

Born(t, c) == t.row[c] # NoRow
Known(t, r) == r \in Roots \/ Born(t, r)

\* A run waits for a child that it has started itself.
WaitsFit(t) ==
    \A r \in Runs :
        /\ t.waits[r] # None <=> t.snap[r] = "waiting"
        /\ t.waits[r] # None => Born(t, t.waits[r]) /\ t.row[t.waits[r]].parent = r

BirthsFit(t) ==
    \A c \in Children :
        Born(t, c) => t.row[c].parent \in Runs /\ Known(t, t.row[c].parent)

SnapsFit(t) == \A r \in Runs : t.snap[r] # "none" => Known(t, r)

\* A child in the hands of its spawner has neither stopped nor delegated.
DrivenFit(t) ==
    \A c \in t.driven : Born(t, c) /\ ~IsTerminal(t, c) /\ t.waits[c] = None

\* What no row of the ledger stands for yet is still waited for, unless the parent
\* was cancelled: then it is left to the outcome of the child.
DebtsFit(t) ==
    \A c \in Children :
        Born(t, c) /\ c \notin t.book =>
            t.waits[t.row[c].parent] = c \/ t.snap[t.row[c].parent] = "cancelled"

IsClosed(t, c) == t.row[c].delivered \/ t.row[c].expired

ClosedFit(t, X) ==
    \A c \in Children : IsClosed(t, c) => c \in t.book /\ \A r \in Runs \ X : t.waits[r] # c

SettledFit(t) ==
    \A r \in Runs : IsSettled(t, r) => IsTerminal(t, r) \/ (r \in Children /\ IsFinished(t, r))

ListsFit(t) == \A c \in ToSet(t.ended) \cup ToSet(t.overdue) : Born(t, c)

QueueFit(t) == ToSet(t.queue) = {r \in Runs : IsPending(t, r)}

ParkedFit(t, X) == \A r \in Runs \ X : t.snap[r] # "running"

Fit(t, X) ==
    /\ t \in Tables
    /\ WaitsFit(t) /\ BirthsFit(t) /\ SnapsFit(t) /\ DrivenFit(t)
    /\ DebtsFit(t) /\ ClosedFit(t, X) /\ SettledFit(t)
    /\ ListsFit(t) /\ QueueFit(t) /\ ParkedFit(t, X)

\* From t to u: no row, no intent and no debt that was paid is lost, and nobody starts
\* to wait for a child that was there before.
Advances(t, u) ==
    /\ \A c \in Children :
          Born(t, c) =>
              /\ Born(u, c) /\ u.row[c].parent = t.row[c].parent
              /\ c \in t.book => c \in u.book
              /\ \A r \in Runs : u.waits[r] = c => t.waits[r] = c
    /\ \A r \in Runs : t.intent[r] # {} => u.intent[r] # {}

LEMMA NothingAdvances == ASSUME NEW t PROVE Advances(t, t)
  BY DEF Advances

LEMMA AdvancesOn ==
    ASSUME NEW t, NEW u, NEW v, Advances(t, u), Advances(u, v) PROVE Advances(t, v)
  BY DEF Advances

\* Runs and children are told apart from None.
LEMMA NoneIsNobody ==
    /\ None \notin Runs /\ None \notin Children /\ None \notin Roots
    /\ Roots \cap Children = {}
    /\ Roots \subseteq Runs /\ Children \subseteq Runs
    /\ \A r \in Runs : r \in Roots \/ r \in Children
  BY FamilyAssumption DEF FamilyAssumption, Runs

SameRuns(t, u) == u.snap = t.snap /\ u.waits = t.waits /\ u.driven = t.driven
SameRows(t, u) ==
    u.row = t.row /\ u.book = t.book /\ u.ended = t.ended /\ u.overdue = t.overdue
SameIntents(t, u) == u.intent = t.intent /\ u.queue = t.queue

\* Steps of run_cancellations alone.
LEMMA IntentsMoved ==
    ASSUME NEW X, NEW t, Fit(t, X), NEW u \in Tables, SameRuns(t, u), SameRows(t, u),
           SettledFit(u), QueueFit(u),
           \A r \in Runs : t.intent[r] # {} => u.intent[r] # {}
    PROVE  Fit(u, X) /\ Advances(t, u)
<1> USE DEF SameRuns, SameRows, Born, Known
<1>1. WaitsFit(u) /\ BirthsFit(u) /\ SnapsFit(u)
  BY DEF Fit, WaitsFit, BirthsFit, SnapsFit
<1>2. DrivenFit(u) /\ DebtsFit(u)
  BY DEF Fit, DrivenFit, DebtsFit, IsTerminal
<1>3. ClosedFit(u, X) /\ ListsFit(u) /\ ParkedFit(u, X)
  BY DEF Fit, ClosedFit, ListsFit, ParkedFit, IsClosed
<1>4. Advances(t, u)
  BY DEF Advances
<1> QED
  BY <1>1, <1>2, <1>3, <1>4 DEF Fit

\* Steps that only mark rows of child_runs, and book.
LEMMA RowsMarked ==
    ASSUME NEW X, NEW t, Fit(t, X), NEW u \in Tables, SameRuns(t, u), SameIntents(t, u),
           \A d \in Children :
               /\ Born(t, d) <=> Born(u, d)
               /\ u.row[d].parent = t.row[d].parent /\ u.row[d].status = t.row[d].status,
           t.book \subseteq u.book,
           ToSet(u.ended) \subseteq ToSet(t.ended),
           ToSet(u.overdue) \subseteq ToSet(t.overdue),
           ClosedFit(u, X)
    PROVE  Fit(u, X) /\ Advances(t, u)
<1> USE DEF SameRuns, SameIntents
<1>1. t \in Tables
  BY DEF Fit
<1>2. ToSet(t.ended) \subseteq Children /\ ToSet(t.overdue) \subseteq Children
  BY <1>1 DEF Tables, ToSet
<1>3. \A r \in Runs : t.waits[r] # None => t.waits[r] \in Children
  BY <1>1 DEF Tables
<1>4. \A r \in Runs : Known(t, r) => Known(u, r)
  BY NoneIsNobody DEF Known
<1>5. WaitsFit(u)
  BY <1>3 DEF Fit, WaitsFit
<1>6. BirthsFit(u) /\ SnapsFit(u)
  BY <1>4 DEF Fit, BirthsFit, SnapsFit
<1>7. DrivenFit(u) /\ DebtsFit(u)
  <2>1. t.driven \subseteq Children
    BY <1>1 DEF Tables
  <2> QED
    BY <2>1 DEF Fit, DrivenFit, DebtsFit, IsTerminal
<1>8. SettledFit(u)
  BY DEF Fit, SettledFit, IsSettled, IsTerminal, IsFinished
<1>9. ListsFit(u) /\ ParkedFit(u, X) /\ QueueFit(u)
  BY <1>2 DEF Fit, ListsFit, ParkedFit, QueueFit, IsPending
<1>10. Advances(t, u)
  BY DEF Advances
<1> QED
  BY <1>5, <1>6, <1>7, <1>8, <1>9, <1>10 DEF Fit

-----------------------------------------------------------------------------
(* The operations on the tables. *)

\* Asking a run to stop.
LEMMA RequestedFits ==
    ASSUME NEW X, NEW t, Fit(t, X), NEW r \in Runs
    PROVE  /\ Fit(Requested(t, r), X) /\ Advances(t, Requested(t, r))
           /\ SameRuns(t, Requested(t, r)) /\ SameRows(t, Requested(t, r))
<1> DEFINE u == Requested(t, r)
<1>1. CASE t.intent[r] \notin {{}, {"asked"}}
  BY <1>1, NothingAdvances DEF Requested, SameRuns, SameRows
<1>2. CASE t.intent[r] \in {{}, {"asked"}}
  <2> DEFINE q == Append(Without(t.queue, r), r)
  <2>1. t \in Tables /\ t.queue \in Seq(Runs) /\ t.intent \in [Runs -> Intents]
    BY DEF Fit, Tables
  <2>2. q \in Seq(Runs) /\ ToSet(q) = (ToSet(t.queue) \cap (Runs \ {r})) \cup {r}
    <3>1. Without(t.queue, r) \in Seq(Runs) /\ ToSet(Without(t.queue, r)) = ToSet(t.queue) \cap (Runs \ {r})
      BY <2>1, SelectedIs DEF Without
    <3> QED
      BY <3>1, AppendIs
  <2> HIDE DEF q
  <2>3. u = [t EXCEPT !.intent[r] = {"asked"}, !.queue = q, !.lapsed = @ \ {r}]
    BY <1>2 DEF Requested, q
  <2>4. /\ u \in Tables /\ SameRuns(t, u) /\ SameRows(t, u)
        /\ u.intent = [t.intent EXCEPT ![r] = {"asked"}] /\ u.queue = q
    <3>1. {"asked"} \in Intents
      BY DEF Intents
    <3> HIDE DEF u
    <3>2. [t.intent EXCEPT ![r] = {"asked"}] \in [Runs -> Intents]
      BY <2>1, <3>1
    <3>3. u \in Tables
      BY <2>1, <2>2, <2>3, <3>2 DEF Tables
    <3> QED
      BY <2>1, <2>3, <3>3 DEF Tables, SameRuns, SameRows
  <2> HIDE DEF u
  <2>5. SettledFit(u)
    BY <2>1, <2>4 DEF Fit, SettledFit, IsSettled, IsTerminal, IsFinished, SameRuns, SameRows
  <2>6. QueueFit(u)
    BY <2>1, <2>2, <2>4 DEF Fit, QueueFit, IsPending
  <2>7. \A x \in Runs : t.intent[x] # {} => u.intent[x] # {}
    BY <2>1, <2>4
  <2> QED
    BY <2>4, <2>5, <2>6, <2>7, IntentsMoved DEF u
<1> QED
  BY <1>1, <1>2

\* Settling the intent of a run that has stopped.
LEMMA SettledFits ==
    ASSUME NEW X, NEW t, Fit(t, X), NEW r \in Runs,
           IsTerminal(t, r) \/ (r \in Children /\ IsFinished(t, r))
    PROVE  /\ Fit(Settled(t, r), X) /\ Advances(t, Settled(t, r))
           /\ SameRuns(t, Settled(t, r)) /\ SameRows(t, Settled(t, r))
<1> DEFINE u == Settled(t, r)
<1>1. CASE t.intent[r] = {}
  BY <1>1, NothingAdvances DEF Settled, SameRuns, SameRows
<1>2. CASE t.intent[r] # {}
  <2> DEFINE q == Without(t.queue, r)
             i == t.intent[r] \cup {"settled"}
  <2>1. t \in Tables /\ t.queue \in Seq(Runs) /\ t.intent \in [Runs -> Intents]
    BY DEF Fit, Tables
  <2>2. q \in Seq(Runs) /\ ToSet(q) = ToSet(t.queue) \cap (Runs \ {r})
    BY <2>1, SelectedIs DEF Without
  <2>3. i \in Intents /\ i # {"asked"}
    BY <1>2, <2>1 DEF Intents
  <2> HIDE DEF q, i
  <2>4. u = [t EXCEPT !.intent[r] = i, !.queue = q, !.lapsed = @ \ {r}]
    BY <1>2 DEF Settled, q, i
  <2>5. /\ u \in Tables /\ SameRuns(t, u) /\ SameRows(t, u)
        /\ u.intent = [t.intent EXCEPT ![r] = i] /\ u.queue = q
    <3> HIDE DEF u
    <3>1. [t.intent EXCEPT ![r] = i] \in [Runs -> Intents]
      BY <2>1, <2>3
    <3>2. u \in Tables
      BY <2>1, <2>2, <2>4, <3>1 DEF Tables
    <3> QED
      BY <2>1, <2>4, <3>2 DEF Tables, SameRuns, SameRows
  <2> HIDE DEF u
  <2>6. SettledFit(u)
    BY <2>1, <2>5 DEF Fit, SettledFit, IsSettled, IsTerminal, IsFinished, SameRuns, SameRows
  <2>7. QueueFit(u)
    BY <2>1, <2>2, <2>3, <2>5 DEF Fit, QueueFit, IsPending
  <2>8. \A x \in Runs : t.intent[x] # {} => u.intent[x] # {}
    BY <1>2, <2>1, <2>3, <2>5 DEF i
  <2> QED
    BY <2>5, <2>6, <2>7, <2>8, IntentsMoved DEF u
<1> QED
  BY <1>1, <1>2

\* Giving up an intent.
LEMMA AbandonedFits ==
    ASSUME NEW X, NEW t, Fit(t, X), NEW r \in Runs, t.intent[r] # {}
    PROVE  Fit(Abandoned(t, r), X) /\ Advances(t, Abandoned(t, r))
<1> DEFINE u == Abandoned(t, r)
           q == Without(t.queue, r)
           i == t.intent[r] \cup {"abandoned"}
<1>1. t \in Tables /\ t.queue \in Seq(Runs) /\ t.intent \in [Runs -> Intents]
  BY DEF Fit, Tables
<1>2. q \in Seq(Runs) /\ ToSet(q) = ToSet(t.queue) \cap (Runs \ {r})
  BY <1>1, SelectedIs DEF Without
<1>3. i \in Intents /\ i # {"asked"} /\ ("settled" \in i => "settled" \in t.intent[r])
  <2>1. t.intent[r] \in Intents
    BY <1>1
  <2>2. "asked" \in t.intent[r]
    BY <2>1 DEF Intents
  <2>3. i \in Intents
    BY <2>1, <2>2 DEF Intents
  <2>4. "abandoned" \in i /\ "abandoned" \notin {"asked"}
    OBVIOUS
  <2> QED
    BY <2>3, <2>4
<1> HIDE DEF q, i
<1>4. u = [t EXCEPT !.intent[r] = i, !.queue = q, !.lapsed = @ \ {r}]
  BY DEF Abandoned, q, i
<1>5. /\ u \in Tables /\ SameRuns(t, u) /\ SameRows(t, u)
      /\ u.intent = [t.intent EXCEPT ![r] = i] /\ u.queue = q
  <2> HIDE DEF u
  <2>1. [t.intent EXCEPT ![r] = i] \in [Runs -> Intents]
    BY <1>1, <1>3
  <2>2. u \in Tables
    BY <1>1, <1>2, <1>4, <2>1 DEF Tables
  <2> QED
    BY <1>1, <1>4, <2>2 DEF Tables, SameRuns, SameRows
<1> HIDE DEF u
<1>6. SettledFit(u)
  BY <1>1, <1>3, <1>5 DEF Fit, SettledFit, IsSettled, IsTerminal, IsFinished, SameRuns, SameRows
<1>7. QueueFit(u)
  BY <1>1, <1>2, <1>3, <1>5 DEF Fit, QueueFit, IsPending
<1>8. \A x \in Runs : t.intent[x] # {} => u.intent[x] # {}
  BY <1>1, <1>5 DEF i
<1> QED
  BY <1>5, <1>6, <1>7, <1>8, IntentsMoved DEF u

\* A row in the ledger.
LEMMA BookedFits ==
    ASSUME NEW X, NEW t, Fit(t, X), NEW c \in Children
    PROVE  /\ Fit(Booked(t, c), X) /\ Advances(t, Booked(t, c)) /\ c \in Booked(t, c).book
           /\ SameRuns(t, Booked(t, c)) /\ Booked(t, c).row = t.row
<1> DEFINE u == Booked(t, c)
<1>1. t \in Tables /\ t.book \subseteq Children
  BY DEF Fit, Tables
<1>2. /\ u \in Tables /\ SameRuns(t, u) /\ SameIntents(t, u) /\ u.row = t.row
      /\ u.book = t.book \cup {c} /\ u.ended = t.ended /\ u.overdue = t.overdue
  BY <1>1 DEF Booked, Tables, SameRuns, SameIntents
<1> HIDE DEF u
<1>3. ClosedFit(u, X)
  BY <1>2 DEF Fit, ClosedFit, IsClosed, SameRuns
<1>4. \A d \in Children : Born(t, d) <=> Born(u, d)
  BY <1>2 DEF Born
<1>5. Fit(u, X) /\ Advances(t, u)
  BY <1>2, <1>3, <1>4, RowsMarked
<1> QED
  BY <1>2, <1>5 DEF u

\* An outcome that is delivered: it is booked, and nobody waits for it.
LEMMA DeliveredFits ==
    ASSUME NEW X, NEW t, Fit(t, X), NEW c \in Children, Born(t, c), c \in t.book,
           \A r \in Runs \ X : t.waits[r] # c
    PROVE  /\ Fit(Delivered(t, c), X) /\ Advances(t, Delivered(t, c))
           /\ SameRuns(t, Delivered(t, c))
<1> DEFINE u == Delivered(t, c)
<1>1. t \in Tables /\ t.row \in [Children -> RowRecord]
  BY DEF Fit, Tables
<1>2. [t.row[c] EXCEPT !.delivered = TRUE] \in RowRecord
  BY <1>1 DEF RowRecord
<1>3. /\ u \in Tables /\ SameRuns(t, u) /\ SameIntents(t, u)
      /\ u.row = [t.row EXCEPT ![c] = [t.row[c] EXCEPT !.delivered = TRUE]]
      /\ u.book = t.book /\ u.ended = t.ended /\ u.overdue = t.overdue
  BY <1>1, <1>2 DEF Delivered, Tables, SameRuns, SameIntents
<1> HIDE DEF u
<1>4. /\ u.row[c].parent = t.row[c].parent /\ u.row[c].status = t.row[c].status
      /\ u.row[c].delivered /\ \A d \in Children \ {c} : u.row[d] = t.row[d]
  BY <1>1, <1>3 DEF RowRecord
<1>5. \A d \in Children : Born(t, d) <=> Born(u, d)
  BY <1>4 DEF Born, NoRow
<1>6. ClosedFit(u, X)
  BY <1>3, <1>4 DEF Fit, ClosedFit, IsClosed, SameRuns
<1>7. Fit(u, X) /\ Advances(t, u)
  BY <1>3, <1>4, <1>5, <1>6, RowsMarked
<1> QED
  BY <1>3, <1>7 DEF u

\* A wait that is given up: what the child may have done is booked.
LEMMA WaitExpiredFits ==
    ASSUME NEW X, NEW t, Fit(t, X), NEW c \in Children, Born(t, c), c \in t.book,
           \A r \in Runs \ X : t.waits[r] # c
    PROVE  Fit(WaitExpired(t, c), X) /\ Advances(t, WaitExpired(t, c))
<1> DEFINE u == WaitExpired(t, c)
           o == Without(t.overdue, c)
<1>1. t \in Tables /\ t.row \in [Children -> RowRecord] /\ t.overdue \in Seq(Children)
  BY DEF Fit, Tables
<1>2. [t.row[c] EXCEPT !.expired = TRUE] \in RowRecord
  BY <1>1 DEF RowRecord
<1>3. o \in Seq(Children) /\ ToSet(o) \subseteq ToSet(t.overdue)
  BY <1>1, SelectedIs DEF Without
<1> HIDE DEF o
<1>4. u = [t EXCEPT !.row[c].expired = TRUE, !.overdue = o]
  BY DEF WaitExpired, o
<1>5. /\ u \in Tables /\ SameRuns(t, u) /\ SameIntents(t, u)
      /\ u.row = [t.row EXCEPT ![c] = [t.row[c] EXCEPT !.expired = TRUE]]
      /\ u.book = t.book /\ u.ended = t.ended /\ u.overdue = o
  <2> HIDE DEF u
  <2>1. [t.row EXCEPT ![c] = [t.row[c] EXCEPT !.expired = TRUE]] \in [Children -> RowRecord]
    BY <1>1, <1>2
  <2>2. u = [t EXCEPT !.row = [t.row EXCEPT ![c] = [t.row[c] EXCEPT !.expired = TRUE]],
                      !.overdue = o]
    BY <1>4
  <2>3. u \in Tables
    BY <1>1, <1>3, <2>1, <2>2 DEF Tables
  <2> QED
    BY <1>1, <2>2, <2>3 DEF Tables, SameRuns, SameIntents
<1> HIDE DEF u
<1>6. /\ u.row[c].parent = t.row[c].parent /\ u.row[c].status = t.row[c].status
      /\ u.row[c].expired /\ \A d \in Children \ {c} : u.row[d] = t.row[d]
  BY <1>1, <1>5 DEF RowRecord
<1>7. \A d \in Children : Born(t, d) <=> Born(u, d)
  BY <1>6 DEF Born, NoRow
<1>8. ClosedFit(u, X)
  BY <1>5, <1>6 DEF Fit, ClosedFit, IsClosed, SameRuns
<1>9. Fit(u, X) /\ Advances(t, u)
  BY <1>3, <1>5, <1>6, <1>7, <1>8, RowsMarked
<1> QED
  BY <1>9 DEF u

\* Asking a child that is elsewhere to stop.
LEMMA AskedFits ==
    ASSUME NEW X, NEW t, Fit(t, X), NEW c \in Children, Born(t, c)
    PROVE  LET u == [t EXCEPT !.row[c].asked = TRUE] IN Fit(u, X) /\ Advances(t, u)
<1> DEFINE u == [t EXCEPT !.row[c].asked = TRUE]
<1>1. t \in Tables /\ t.row \in [Children -> RowRecord]
  BY DEF Fit, Tables
<1>2. [t.row[c] EXCEPT !.asked = TRUE] \in RowRecord
  BY <1>1 DEF RowRecord
<1>3. /\ u \in Tables /\ SameRuns(t, u) /\ SameIntents(t, u)
      /\ u.row = [t.row EXCEPT ![c] = [t.row[c] EXCEPT !.asked = TRUE]]
      /\ u.book = t.book /\ u.ended = t.ended /\ u.overdue = t.overdue
  BY <1>1, <1>2 DEF Tables, SameRuns, SameIntents
<1> HIDE DEF u
<1>4. /\ u.row[c].parent = t.row[c].parent /\ u.row[c].status = t.row[c].status
      /\ u.row[c].delivered = t.row[c].delivered /\ u.row[c].expired = t.row[c].expired
      /\ u.row[c].asked /\ \A d \in Children \ {c} : u.row[d] = t.row[d]
  BY <1>1, <1>3 DEF RowRecord
<1>5. \A d \in Children : Born(t, d) <=> Born(u, d)
  BY <1>4 DEF Born, NoRow
<1>6. ClosedFit(u, X)
  BY <1>3, <1>4 DEF Fit, ClosedFit, IsClosed, SameRuns
<1>7. Fit(u, X) /\ Advances(t, u)
  BY <1>3, <1>4, <1>5, <1>6, RowsMarked
<1> QED
  BY <1>7 DEF u

\* A run owes nothing: the ledger has a row for every child it has started.
IsFree(t, r) == \A c \in Children : Born(t, c) /\ t.row[c].parent = r => c \in t.book

LEMMA FreeUnlessWaiting ==
    ASSUME NEW X, NEW t, Fit(t, X), NEW r \in Runs,
           t.waits[r] = None, t.snap[r] # "cancelled"
    PROVE  IsFree(t, r)
  BY NoneIsNobody DEF Fit, DebtsFit, IsFree

\* A run stops, or goes on, with a new snapshot.
LEMMA StoppedFits ==
    ASSUME NEW X, NEW Y, NEW t, Fit(t, X), NEW r \in Runs, X \subseteq Y \cup {r}, Known(t, r),
           NEW status \in Statuses \ {"none", "waiting"}, status = "running" => r \in Y,
           status = "cancelled" \/ (~IsTerminal(t, r) /\ IsFree(t, r))
    PROVE  LET u == Stopped(t, r, status)
           IN  /\ Fit(u, Y) /\ Advances(t, u)
               /\ u.snap[r] = status /\ u.waits[r] = None /\ u.intent = t.intent
<1> DEFINE u == Stopped(t, r, status)
<1>1. t \in Tables /\ t.snap \in [Runs -> Statuses] /\ t.waits \in [Runs -> Children \cup {None}]
  BY DEF Fit, Tables
<1>2. u \in Tables
  BY <1>1 DEF Tables, Stopped
<1>3. /\ u.snap = [t.snap EXCEPT ![r] = status] /\ u.waits = [t.waits EXCEPT ![r] = None]
      /\ u.driven = t.driven \ {r} /\ SameRows(t, u) /\ SameIntents(t, u)
  BY <1>1 DEF Tables, Stopped, SameRows, SameIntents
<1> HIDE DEF u
<1>4. /\ u.snap[r] = status /\ u.waits[r] = None
      /\ \A q \in Runs \ {r} : u.snap[q] = t.snap[q] /\ u.waits[q] = t.waits[q]
  BY <1>1, <1>3
<1>5. u.row = t.row /\ u.book = t.book
  BY <1>3 DEF SameRows
<1>6. (\A c : Born(u, c) <=> Born(t, c)) /\ (\A q : Known(u, q) <=> Known(t, q))
  BY <1>5 DEF Born, Known
<1>7. WaitsFit(u)
  BY <1>4, <1>5, <1>6 DEF Fit, WaitsFit
<1>8. BirthsFit(u) /\ SnapsFit(u)
  BY <1>4, <1>5, <1>6 DEF Fit, BirthsFit, SnapsFit
<1>9. DrivenFit(u)
  <2>1. t.driven \subseteq Runs
    BY <1>1, NoneIsNobody DEF Tables
  <2> QED
    BY <2>1, <1>3, <1>4, <1>6 DEF Fit, DrivenFit, IsTerminal
<1>10. DebtsFit(u)
  <2> SUFFICES ASSUME NEW c \in Children, Born(u, c), c \notin u.book
               PROVE  u.waits[u.row[c].parent] = c \/ u.snap[u.row[c].parent] = "cancelled"
    BY DEF DebtsFit
  <2>1. Born(t, c) /\ c \notin t.book
    BY <1>5, <1>6
  <2>2. t.row[c].parent \in Runs
    BY <2>1 DEF Fit, BirthsFit
  <2>3. t.waits[t.row[c].parent] = c \/ t.snap[t.row[c].parent] = "cancelled"
    BY <2>1 DEF Fit, DebtsFit
  <2> QED
    BY <1>4, <1>5, <2>1, <2>2, <2>3 DEF IsFree
<1>11. ClosedFit(u, Y)
  BY <1>4, <1>5, NoneIsNobody DEF Fit, ClosedFit, IsClosed
<1>12. SettledFit(u)
  BY <1>3, <1>4, <1>5 DEF Fit, SettledFit, IsSettled, IsTerminal, IsFinished, SameIntents,
     TerminalRuns
<1>13. ListsFit(u)
  BY <1>3, <1>6 DEF Fit, ListsFit, SameRows
<1>14. QueueFit(u)
  BY <1>3 DEF Fit, QueueFit, IsPending, SameIntents
<1>15. ParkedFit(u, Y)
  BY <1>4 DEF Fit, ParkedFit
<1>16. Advances(t, u)
  BY <1>3, <1>4, <1>5, <1>6, NoneIsNobody DEF Advances, SameIntents
<1>17. Fit(u, Y)
  BY <1>2, <1>7, <1>8, <1>9, <1>10, <1>11, <1>12, <1>13, <1>14, <1>15 DEF Fit
<1> QED
  BY <1>3, <1>4, <1>16, <1>17 DEF u, SameIntents

\* A run that owes nothing starts a child and waits for it.
LEMMA DelegatedFits ==
    ASSUME NEW X, NEW t, Fit(t, X), NEW r \in Runs, X \subseteq {r}, Known(t, r),
           ~IsTerminal(t, r), IsFree(t, r), Unborn(t) # {}
    PROVE  Fit(Delegated(t, r), {}) /\ Advances(t, Delegated(t, r))
<1> DEFINE u == Delegated(t, r)
           c == CHOOSE x \in Unborn(t) : TRUE
           new == [NoRow EXCEPT !.parent = r, !.status = "created"]
<1>1. c \in Children /\ ~Born(t, c) /\ t.row[c] = NoRow
  <2>1. c \in Unborn(t)
    BY Zenon
  <2> QED
    BY <2>1 DEF Unborn, Born
<1>2. u = [t EXCEPT !.row[c] = new, !.driven = (@ \ {r}) \cup {c},
                    !.snap[r] = "waiting", !.waits[r] = c]
  BY DEF Delegated
<1> HIDE DEF c
<1>3. c # r /\ c # None /\ c \in Runs
  BY <1>1, NoneIsNobody DEF Known
<1>4. new \in RowRecord /\ new # NoRow /\ new.parent = r /\ ~new.delivered /\ ~new.expired
  BY DEF NoRow, RowRecord, TerminalRuns
<1> HIDE DEF new, u
<1>5. /\ t \in Tables /\ t.snap \in [Runs -> Statuses] /\ t.row \in [Children -> RowRecord]
      /\ t.waits \in [Runs -> Children \cup {None}] /\ t.driven \subseteq Children
      /\ ToSet(t.ended) \subseteq Children /\ ToSet(t.overdue) \subseteq Children
  BY DEF Fit, Tables, ToSet
<1>6. u \in Tables
  BY <1>1, <1>2, <1>4, <1>5 DEF Tables, Statuses
<1>7. /\ u.snap = [t.snap EXCEPT ![r] = "waiting"] /\ u.waits = [t.waits EXCEPT ![r] = c]
      /\ u.driven = (t.driven \ {r}) \cup {c} /\ u.row = [t.row EXCEPT ![c] = new]
      /\ u.book = t.book /\ u.ended = t.ended /\ u.overdue = t.overdue /\ SameIntents(t, u)
  BY <1>2, <1>5 DEF Tables, SameIntents
<1>8. /\ u.snap[r] = "waiting" /\ u.waits[r] = c /\ u.row[c] = new
      /\ \A q \in Runs \ {r} : u.snap[q] = t.snap[q] /\ u.waits[q] = t.waits[q]
      /\ \A d \in Children \ {c} : u.row[d] = t.row[d]
  BY <1>1, <1>5, <1>7
<1>9. /\ Born(u, c)
      /\ \A d \in Children : Born(t, d) => d # c /\ Born(u, d) /\ u.row[d] = t.row[d]
      /\ \A d \in Children \ {c} : Born(u, d) => Born(t, d)
      /\ \A q \in Runs : Known(t, q) => Known(u, q)
  BY <1>1, <1>4, <1>8, NoneIsNobody DEF Born, Known
<1>10. t.snap[c] = "none" /\ t.waits[c] = None
  BY <1>1, <1>3, NoneIsNobody DEF Fit, SnapsFit, WaitsFit, Known
<1>11. WaitsFit(u)
  <2>1. ASSUME NEW q \in Runs \ {r}, t.waits[q] # None
        PROVE  /\ t.waits[q] \in Children /\ Born(t, t.waits[q])
               /\ t.row[t.waits[q]].parent = q
    BY <1>5, <2>1 DEF Fit, WaitsFit
  <2>2. \A q \in Runs \ {r} : t.waits[q] # None <=> t.snap[q] = "waiting"
    BY DEF Fit, WaitsFit
  <2> QED
    BY <1>3, <1>4, <1>8, <1>9, <2>1, <2>2 DEF WaitsFit
<1>12. BirthsFit(u)
  BY <1>4, <1>8, <1>9 DEF Fit, BirthsFit
<1>13. SnapsFit(u)
  BY <1>8, <1>9 DEF Fit, SnapsFit
<1>14. DrivenFit(u)
  <2>1. \A d \in t.driven : d \in Children /\ Born(t, d) /\ ~IsTerminal(t, d) /\ t.waits[d] = None
    BY <1>5 DEF Fit, DrivenFit
  <2>2. ~IsTerminal(u, c) /\ u.waits[c] = None
    BY <1>3, <1>8, <1>10 DEF IsTerminal, TerminalRuns
  <2> QED
    BY <1>7, <1>8, <1>9, <2>1, <2>2, NoneIsNobody DEF DrivenFit, IsTerminal
<1>15. DebtsFit(u)
  <2> SUFFICES ASSUME NEW d \in Children, Born(u, d), d \notin u.book, d # c
               PROVE  u.waits[u.row[d].parent] = d \/ u.snap[u.row[d].parent] = "cancelled"
    BY <1>4, <1>8 DEF DebtsFit
  <2>1. Born(t, d) /\ d \notin t.book /\ u.row[d] = t.row[d]
    BY <1>7, <1>9
  <2>2. t.row[d].parent \in Runs \ {r}
    BY <2>1 DEF Fit, BirthsFit, IsFree
  <2>3. t.waits[t.row[d].parent] = d \/ t.snap[t.row[d].parent] = "cancelled"
    BY <2>1 DEF Fit, DebtsFit
  <2> QED
    BY <1>8, <2>1, <2>2, <2>3
<1>16. ClosedFit(u, {})
  <2> SUFFICES ASSUME NEW d \in Children, IsClosed(u, d)
               PROVE  d \in u.book /\ \A q \in Runs : u.waits[q] # d
    BY DEF ClosedFit
  <2>1. d # c /\ IsClosed(t, d)
    BY <1>4, <1>8 DEF IsClosed
  <2>2. d \in t.book /\ \A q \in Runs \ {r} : t.waits[q] # d
    BY <2>1 DEF Fit, ClosedFit
  <2> QED
    BY <1>7, <1>8, <2>1, <2>2
<1>17. SettledFit(u)
  <2> SUFFICES ASSUME NEW q \in Runs, IsSettled(u, q)
               PROVE  IsTerminal(u, q) \/ (q \in Children /\ IsFinished(u, q))
    BY DEF SettledFit
  <2>1. IsTerminal(t, q) \/ (q \in Children /\ IsFinished(t, q))
    BY <1>7 DEF Fit, SettledFit, IsSettled, SameIntents
  <2>2. q # c
    BY <1>1, <1>10, <2>1 DEF IsTerminal, IsFinished, NoRow, TerminalRuns
  <2> QED
    BY <1>8, <2>1, <2>2 DEF IsTerminal, IsFinished
<1>18. ListsFit(u)
  BY <1>5, <1>7, <1>9 DEF Fit, ListsFit
<1>19. QueueFit(u)
  BY <1>7 DEF Fit, QueueFit, IsPending, SameIntents
<1>20. ParkedFit(u, {})
  BY <1>8 DEF Fit, ParkedFit
<1>21. Advances(t, u)
  BY <1>7, <1>8, <1>9 DEF Advances, SameIntents
<1>22. Fit(u, {})
  BY <1>6, <1>11, <1>12, <1>13, <1>14, <1>15, <1>16, <1>17, <1>18, <1>19, <1>20 DEF Fit
<1> QED
  BY <1>21, <1>22 DEF u

\* A child in the hands of its spawner ends, with or without a snapshot that says so.
LEMMA ReportedFits ==
    ASSUME NEW X, NEW t, Fit(t, X), NEW c \in t.driven, NEW status \in TerminalRuns,
           NEW s, s = t \/ s = [t EXCEPT !.snap[c] = "cancelled"]
    PROVE  LET u == Reported(s, c, status)
           IN  /\ Fit(u, X) /\ Advances(t, u) /\ u.waits = t.waits /\ u.intent = t.intent
               /\ u.row[c].status = status
<1> DEFINE u == Reported(s, c, status)
           e == Append(t.ended, c)
           o == Without(t.overdue, c)
<1>1. /\ t \in Tables /\ t.snap \in [Runs -> Statuses] /\ t.row \in [Children -> RowRecord]
      /\ t.driven \subseteq Children /\ t.ended \in Seq(Children) /\ t.overdue \in Seq(Children)
  BY DEF Fit, Tables
<1>2. /\ c \in Children /\ c \in Runs /\ Born(t, c) /\ ~IsTerminal(t, c) /\ t.waits[c] = None
  BY <1>1, NoneIsNobody DEF Fit, DrivenFit
<1>3. e \in Seq(Children) /\ ToSet(e) = ToSet(t.ended) \cup {c}
  BY <1>1, <1>2, AppendIs
<1>4. o \in Seq(Children) /\ ToSet(o) \subseteq ToSet(t.overdue)
  BY <1>1, SelectedIs DEF Without
<1> HIDE DEF e, o
<1> DEFINE n == IF s = t THEN t.snap ELSE [t.snap EXCEPT ![c] = "cancelled"]
           w == [t.row EXCEPT ![c] = [t.row[c] EXCEPT !.status = status]]
<1>5. n \in [Runs -> Statuses] /\ s = [t EXCEPT !.snap = n]
  <2>1. CASE s = t
    BY <1>1, <2>1 DEF Tables
  <2>2. CASE s # t
    <3>1. s = [t EXCEPT !.snap = [t.snap EXCEPT ![c] = "cancelled"]]
      BY <2>2
    <3>2. n = [t.snap EXCEPT ![c] = "cancelled"]
      BY <2>2
    <3> QED
      BY <1>1, <1>2, <3>1, <3>2 DEF Statuses, TerminalRuns
  <2> QED
    BY <2>1, <2>2
<1>6. w \in [Children -> RowRecord]
  <2>1. [t.row[c] EXCEPT !.status = status] \in RowRecord
    BY <1>1, <1>2, ZenonT(30) DEF RowRecord
  <2> QED
    BY <1>1, <2>1
<1>7. u = [t EXCEPT !.snap = n, !.row = w, !.ended = e, !.overdue = o, !.driven = @ \ {c}]
  <2>1. s.row = t.row /\ s.ended = t.ended /\ s.overdue = t.overdue /\ s.driven = t.driven
    BY <1>1, <1>5 DEF Tables
  <2>2. u = [s EXCEPT !.row = w, !.ended = e, !.overdue = o, !.driven = @ \ {c}]
    BY <2>1 DEF Reported, e, o
  <2> HIDE DEF n, w, u
  <2> QED
    BY <1>1, <1>5, <2>2 DEF Tables
<1>8. /\ n[c] = t.snap[c] \/ n[c] = "cancelled"
      /\ \A q \in Runs \ {c} : n[q] = t.snap[q]
  BY <1>1, <1>2
<1>9. /\ w[c].parent = t.row[c].parent /\ w[c].status = status
      /\ w[c].delivered = t.row[c].delivered /\ w[c].expired = t.row[c].expired
      /\ \A d \in Children \ {c} : w[d] = t.row[d]
  BY <1>1, <1>2 DEF RowRecord
<1> HIDE DEF n, w, u
<1>10. u \in Tables
  BY <1>1, <1>3, <1>4, <1>5, <1>6, <1>7 DEF Tables
<1>11. /\ u.snap = n /\ u.waits = t.waits /\ u.driven = t.driven \ {c} /\ u.row = w
       /\ u.book = t.book /\ u.ended = e /\ u.overdue = o /\ SameIntents(t, u)
  BY <1>1, <1>7 DEF Tables, SameIntents
<1>12. /\ \A d \in Children : Born(u, d) <=> Born(t, d)
       /\ \A d \in Children : u.row[d].parent = t.row[d].parent
       /\ \A q \in Runs : Known(u, q) <=> Known(t, q)
  <2>1. w[c] # NoRow
    BY <1>9 DEF NoRow, TerminalRuns
  <2>2. \A d \in Children : Born(u, d) <=> Born(t, d)
    BY <1>2, <1>9, <1>11, <2>1 DEF Born
  <2> QED
    BY <1>9, <1>11, <2>2, NoneIsNobody DEF Known
<1>13. \A q \in Runs : t.waits[q] # None => t.waits[q] \in Children
  BY <1>1 DEF Tables
<1>14. WaitsFit(u)
  <2>1. t.snap[c] # "waiting"
    BY <1>2 DEF Fit, WaitsFit
  <2>2. n[c] # "waiting"
    BY <1>8, <2>1
  <2> QED
    BY <1>2, <1>8, <1>11, <1>12, <1>13, <2>1, <2>2 DEF Fit, WaitsFit
<1>15. BirthsFit(u)
  BY <1>12 DEF Fit, BirthsFit
<1>16. SnapsFit(u)
  BY <1>2, <1>8, <1>11, <1>12 DEF Fit, SnapsFit, Known
<1>17. DrivenFit(u)
  BY <1>1, <1>8, <1>11, <1>12, NoneIsNobody DEF Fit, DrivenFit, IsTerminal
<1>18. DebtsFit(u)
  <2> SUFFICES ASSUME NEW d \in Children, Born(u, d), d \notin u.book
               PROVE  u.waits[u.row[d].parent] = d \/ u.snap[u.row[d].parent] = "cancelled"
    BY DEF DebtsFit
  <2>1. Born(t, d) /\ d \notin t.book /\ u.row[d].parent = t.row[d].parent
    BY <1>11, <1>12
  <2>2. t.row[d].parent \in Runs
    BY <2>1 DEF Fit, BirthsFit
  <2>3. t.waits[t.row[d].parent] = d \/ t.snap[t.row[d].parent] = "cancelled"
    BY <2>1 DEF Fit, DebtsFit
  <2> QED
    BY <1>8, <1>11, <2>1, <2>2, <2>3
<1>19. ClosedFit(u, X)
  BY <1>9, <1>11 DEF Fit, ClosedFit, IsClosed
<1>20. SettledFit(u)
  <2> SUFFICES ASSUME NEW q \in Runs, IsSettled(u, q), q # c
               PROVE  IsTerminal(u, q) \/ (q \in Children /\ IsFinished(u, q))
    BY <1>2, <1>9, <1>11 DEF SettledFit, IsFinished
  <2>1. IsTerminal(t, q) \/ (q \in Children /\ IsFinished(t, q))
    BY <1>11 DEF Fit, SettledFit, IsSettled, SameIntents
  <2> QED
    BY <1>8, <1>9, <1>11, <2>1 DEF IsTerminal, IsFinished
<1>21. ListsFit(u)
  <2>1. ToSet(t.ended) \subseteq Children /\ ToSet(t.overdue) \subseteq Children
    BY <1>1 DEF ToSet
  <2> QED
    BY <1>2, <1>3, <1>4, <1>11, <1>12, <2>1 DEF Fit, ListsFit
<1>22. QueueFit(u)
  BY <1>11 DEF Fit, QueueFit, IsPending, SameIntents
<1>23. ParkedFit(u, X)
  BY <1>8, <1>11 DEF Fit, ParkedFit
<1>24. Advances(t, u)
  BY <1>11, <1>12 DEF Advances, SameIntents
<1>25. Fit(u, X)
  BY <1>10, <1>14, <1>15, <1>16, <1>17, <1>18, <1>19, <1>20, <1>21, <1>22, <1>23 DEF Fit
<1> QED
  BY <1>9, <1>11, <1>24, <1>25 DEF u, SameIntents

\* What fits while a handler is at work fits afterwards, when its runs have come to rest.
LEMMA FitsAtRest ==
    ASSUME NEW t, NEW r \in Runs, Fit(t, {r}), t.waits[r] = None, t.snap[r] # "running"
    PROVE  Fit(t, {})
<1>1. ClosedFit(t, {})
  BY NoneIsNobody DEF Fit, ClosedFit
<1>2. ParkedFit(t, {})
  BY DEF Fit, ParkedFit
<1> QED
  BY <1>1, <1>2 DEF Fit

LEMMA FitsMeanwhile ==
    ASSUME NEW t, NEW X, NEW Y, Fit(t, X), X \subseteq Y PROVE Fit(t, Y)
<1>1. ClosedFit(t, Y) /\ ParkedFit(t, Y)
  BY DEF Fit, ClosedFit, ParkedFit
<1> QED
  BY <1>1 DEF Fit

\* Nobody but its parent waits for a child.
LEMMA OnlyParentWaits ==
    ASSUME NEW X, NEW t, Fit(t, X), NEW c \in Children
    PROVE  \A r \in Runs : t.waits[r] = c => t.row[c].parent = r /\ Born(t, c)
  BY NoneIsNobody DEF Fit, WaitsFit

-----------------------------------------------------------------------------
(* cancel(). *)

\* The outcome of a child that was cancelled is closed out with its parent.
LEMMA ClosedOutFits ==
    ASSUME NEW X, NEW t, Fit(t, X), NEW c \in Children, Born(t, c),
           \A r \in Runs \ X : t.waits[r] # c
    PROVE  Fit(ClosedOut(t, c), X) /\ Advances(t, ClosedOut(t, c))
<1>1. CASE t.row[c].status # "cancelled"
  BY <1>1, NothingAdvances DEF ClosedOut
<1>2. CASE t.row[c].status = "cancelled"
  <2> DEFINE b == Booked(t, c)
  <2>1. /\ Fit(b, X) /\ Advances(t, b) /\ c \in b.book /\ SameRuns(t, b) /\ b.row = t.row
    BY BookedFits
  <2>2. Born(b, c) /\ \A r \in Runs \ X : b.waits[r] # c
    BY <2>1 DEF Born, SameRuns
  <2>3. Fit(Delivered(b, c), X) /\ Advances(b, Delivered(b, c))
    <3> HIDE DEF b
    <3> QED
      BY <2>1, <2>2, DeliveredFits
  <2>4. Delivered(b, c) = Booked(Delivered(t, c), c)
    <3>1. t \in Tables
      BY DEF Fit
    <3> QED
      BY <3>1 DEF Tables, Booked, Delivered
  <2>5. ClosedOut(t, c) = Delivered(b, c)
    BY <1>2, <2>4 DEF ClosedOut
  <2>6. Advances(t, Delivered(b, c))
    <3> HIDE DEF b
    <3> QED
      BY <2>1, <2>3, AdvancesOn
  <2> HIDE DEF b
  <2> QED
    BY <2>3, <2>5, <2>6
<1> QED
  BY <1>1, <1>2

\* A child is stopped where it is.
LEMMA ChildStoppedFits ==
    ASSUME NEW X, NEW t, Fit(t, X), NEW c \in t.driven
    PROVE  /\ Fit(ChildStopped(t, c), X) /\ Advances(t, ChildStopped(t, c))
           /\ ChildStopped(t, c).waits = t.waits
<1>1. c \in Children /\ c \in Runs
  BY NoneIsNobody DEF Fit, Tables
<1> DEFINE v == Requested(t, c)
           s == [v EXCEPT !.snap[c] = "cancelled"]
           w == Reported(s, c, "cancelled")
<1>2. Fit(v, X) /\ Advances(t, v) /\ v.driven = t.driven /\ v.waits = t.waits
  BY <1>1, RequestedFits DEF SameRuns
<1>3. ChildStopped(t, c) = Settled(w, c)
  BY DEF ChildStopped
<1> HIDE DEF v
<1>4. "cancelled" \in TerminalRuns /\ c \in v.driven
  BY <1>2 DEF TerminalRuns
<1>5. /\ Fit(w, X) /\ Advances(v, w) /\ w.waits = v.waits
      /\ w.row[c].status = "cancelled"
  BY <1>2, <1>4, ReportedFits
<1> HIDE DEF w
<1>6. IsFinished(w, c)
  BY <1>4, <1>5 DEF IsFinished
<1>7. Fit(Settled(w, c), X) /\ Advances(w, Settled(w, c)) /\ Settled(w, c).waits = w.waits
  BY <1>1, <1>5, <1>6, SettledFits DEF SameRuns
<1>8. Advances(t, w)
  BY <1>2, <1>5, AdvancesOn
<1>9. Advances(t, Settled(w, c))
  BY <1>7, <1>8, AdvancesOn
<1> QED
  BY <1>2, <1>3, <1>5, <1>7, <1>9

\* The child that a run waits for is closed out, stopped, or asked to stop.
LEMMA PendingChildFits ==
    ASSUME NEW X, NEW t, Fit(t, X), NEW r \in Runs, NEW local
    PROVE  LET u == PendingChildCancelled(t, r, local)
           IN  Fit(u, X \cup {r}) /\ Advances(t, u)
<1> DEFINE c == t.waits[r]
           v == Requested(t, c)
           u == PendingChildCancelled(t, r, local)
           Y == X \cup {r}
<1>1. Fit(t, Y)
  BY FitsMeanwhile
<1>2. CASE c = None
  BY <1>1, <1>2, NothingAdvances DEF PendingChildCancelled
<1>3. CASE c # None
  <2>1. c \in Children /\ c \in Runs /\ Born(t, c)
    BY <1>3, NoneIsNobody DEF Fit, Tables, WaitsFit
  <2>2. \A q \in Runs : t.waits[q] = c => q = r
    BY <2>1, OnlyParentWaits
  <2>3. /\ u = IF IsFinished(t, c) THEN ClosedOut(v, c)
               ELSE IF local /\ c \in t.driven THEN ClosedOut(ChildStopped(v, c), c)
               ELSE [v EXCEPT !.row[c].asked = TRUE]
    BY <1>3 DEF PendingChildCancelled
  <2> HIDE DEF c, u
  <2>4. /\ Fit(v, Y) /\ Advances(t, v) /\ v.driven = t.driven
        /\ v.waits = t.waits /\ v.row = t.row
    BY <1>1, <2>1, RequestedFits DEF SameRuns, SameRows
  <2> HIDE DEF v, Y
  <2>5. Born(v, c)
    BY <2>1, <2>4 DEF Born
  <2>6. \A q \in Runs \ Y : v.waits[q] # c
    BY <2>2, <2>4 DEF Y
  <2>7. Fit(ClosedOut(v, c), Y) /\ Advances(v, ClosedOut(v, c))
    BY <2>1, <2>4, <2>5, <2>6, ClosedOutFits
  <2>8. /\ Fit([v EXCEPT !.row[c].asked = TRUE], Y)
        /\ Advances(v, [v EXCEPT !.row[c].asked = TRUE])
    BY <2>1, <2>4, <2>5, AskedFits
  <2>9. ASSUME c \in t.driven
        PROVE  /\ Fit(ClosedOut(ChildStopped(v, c), c), Y)
               /\ Advances(v, ClosedOut(ChildStopped(v, c), c))
    <3> DEFINE w == ChildStopped(v, c)
    <3>1. Fit(w, Y) /\ Advances(v, w) /\ w.waits = v.waits
      BY <2>4, <2>9, ChildStoppedFits
    <3> HIDE DEF w
    <3>2. Born(w, c)
      BY <2>1, <2>5, <3>1 DEF Advances
    <3>3. \A q \in Runs \ Y : w.waits[q] # c
      BY <2>6, <3>1
    <3>4. Fit(ClosedOut(w, c), Y) /\ Advances(w, ClosedOut(w, c))
      BY <2>1, <3>1, <3>2, <3>3, ClosedOutFits
    <3>5. Advances(v, ClosedOut(w, c))
      BY <3>1, <3>4, AdvancesOn
    <3> QED
      BY <3>4, <3>5 DEF w
  <2>10. Fit(u, Y) /\ Advances(v, u)
    BY <2>3, <2>7, <2>8, <2>9
  <2>11. Advances(t, u)
    BY <2>4, <2>10, AdvancesOn
  <2> QED
    BY <2>10, <2>11 DEF u, Y
<1> QED
  BY <1>2, <1>3

\* A run that is cancelled.
LEMMA CancelledFits ==
    ASSUME NEW X, NEW t, Fit(t, X), NEW r \in Runs, X \subseteq {r}, Known(t, r), NEW local
    PROVE  Fit(Cancelled(t, r, local), {}) /\ Advances(t, Cancelled(t, r, local))
<1> DEFINE v == Requested(t, r)
           w == PendingChildCancelled(v, r, local)
           x == Stopped(w, r, "cancelled")
           u == Settled(x, r)
<1>1. Cancelled(t, r, local) = u
  BY DEF Cancelled
<1>2. Fit(v, X) /\ Advances(t, v) /\ v.row = t.row
  BY RequestedFits DEF SameRows
<1> HIDE DEF v
<1>3. Fit(w, X \cup {r}) /\ Advances(v, w)
  BY <1>2, PendingChildFits
<1> HIDE DEF w
<1>4. Known(w, r)
  <2>1. CASE r \in Roots
    BY <2>1 DEF Known
  <2>2. CASE r \in Children
    BY <1>2, <1>3, <2>2, NoneIsNobody DEF Known, Born, Advances
  <2> QED
    BY <2>1, <2>2, NoneIsNobody
<1>5. "cancelled" \in Statuses \ {"none", "waiting"} /\ "cancelled" # "running"
  BY DEF Statuses, TerminalRuns
<1>6. X \cup {r} \subseteq {} \cup {r}
  OBVIOUS
<1>7. Fit(x, {}) /\ Advances(w, x) /\ x.snap[r] = "cancelled"
  BY <1>3, <1>4, <1>5, <1>6, StoppedFits
<1> HIDE DEF x
<1>8. IsTerminal(x, r)
  BY <1>7 DEF IsTerminal, TerminalRuns
<1>9. Fit(u, {}) /\ Advances(x, u)
  BY <1>7, <1>8, SettledFits
<1> HIDE DEF u
<1>10. Advances(t, w)
  BY <1>2, <1>3, AdvancesOn
<1>11. Advances(t, x)
  BY <1>7, <1>10, AdvancesOn
<1>12. Advances(t, u)
  BY <1>9, <1>11, AdvancesOn
<1> QED
  BY <1>1, <1>9, <1>12

-----------------------------------------------------------------------------
(* Driving a run, and the handlers of the sweeps. *)

\* Where a run that owes nothing may stop.
LEMMA StopsFit ==
    ASSUME NEW X, NEW t, Fit(t, X), NEW r \in Runs, X \subseteq {r}, Known(t, r),
           ~IsTerminal(t, r), IsFree(t, r), NEW u \in Stops(t, r)
    PROVE  Fit(u, {}) /\ Advances(t, u)
<1>1. CASE u \in {Stopped(t, r, status) : status \in Endings \cup {"gated"}}
  <2>1. PICK status \in Endings \cup {"gated"} : u = Stopped(t, r, status)
    BY <1>1
  <2>2. status \in Statuses \ {"none", "waiting"} /\ status # "running"
    BY FamilyAssumption DEF Statuses, TerminalRuns
  <2>3. X \subseteq {} \cup {r}
    OBVIOUS
  <2> QED
    BY <2>1, <2>2, <2>3, StoppedFits
<1>2. CASE u = Delegated(t, r) /\ Unborn(t) # {}
  BY <1>2, DelegatedFits
<1> QED
  BY <1>1, <1>2 DEF Stops

\* Driving a run that is known, in the middle of a handler only one that goes on.
LEMMA DrivenFits ==
    ASSUME NEW X, NEW t, Fit(t, X), NEW r \in Runs, X \subseteq {r}, Known(t, r),
           X = {} \/ t.snap[r] = "running", NEW u \in Driven(t, r)
    PROVE  Fit(u, {}) /\ Advances(t, u)
<1>1. CASE u = t /\ (IsTerminal(t, r) \/ t.snap[r] \in {"gated", "waiting"})
  <2>1. X = {}
    BY <1>1 DEF IsTerminal, TerminalRuns
  <2> QED
    BY <1>1, <2>1, NothingAdvances
<1>2. CASE \E local \in BOOLEAN : u = Cancelled(t, r, local)
  BY <1>2, CancelledFits
<1>3. CASE ~IsTerminal(t, r) /\ t.snap[r] \notin {"gated", "waiting"} /\ u \in Stops(t, r)
  <2>1. t.waits[r] = None /\ t.snap[r] # "cancelled"
    BY <1>3 DEF Fit, WaitsFit, IsTerminal, TerminalRuns
  <2>2. IsFree(t, r)
    BY <2>1, FreeUnlessWaiting
  <2> QED
    BY <1>3, <2>2, StopsFit
<1> QED
  BY <1>1, <1>2, <1>3 DEF Driven

\* Who waits for a child goes on: the outcome is booked and the wait is over.
LEMMA ResumedFits ==
    ASSUME NEW t, Fit(t, {}), NEW c \in Children, Born(t, c),
           ~IsTerminal(t, t.row[c].parent), t.waits[t.row[c].parent] = c
    PROVE  LET p == t.row[c].parent
               u == Resumed(t, c)
           IN  /\ p \in Runs /\ Fit(u, {p}) /\ Advances(t, u) /\ u.snap[p] = "running"
               /\ Known(u, p) /\ Born(u, c) /\ c \in u.book /\ \A r \in Runs : u.waits[r] # c
<1> DEFINE p == t.row[c].parent
           b == Booked(t, c)
           u == Stopped(b, p, "running")
<1>1. p \in Runs /\ Known(t, p)
  BY DEF Fit, BirthsFit
<1>2. /\ Fit(b, {}) /\ Advances(t, b) /\ c \in b.book /\ SameRuns(t, b) /\ b.row = t.row
  BY BookedFits
<1>3. Resumed(t, c) = u
  <2>1. t \in Tables
    BY DEF Fit
  <2> QED
    BY <2>1 DEF Tables, Resumed, Booked, Stopped
<1>4. b.row[c].parent = p /\ Born(b, c)
  BY <1>2 DEF Born
<1> HIDE DEF p, b
<1>5. ~IsTerminal(b, p) /\ Known(b, p) /\ b.waits[p] = c
  BY <1>1, <1>2 DEF p, SameRuns, IsTerminal, Known, Born
<1>6. IsFree(b, p)
  <2> SUFFICES ASSUME NEW d \in Children, Born(b, d), b.row[d].parent = p PROVE d \in b.book
    BY DEF IsFree
  <2>1. b.waits[p] = d \/ b.snap[p] = "cancelled" \/ d \in b.book
    BY <1>2 DEF Fit, DebtsFit
  <2> QED
    BY <1>2, <1>5, <2>1 DEF IsTerminal, TerminalRuns
<1>7. /\ "running" \in Statuses \ {"none", "waiting"} /\ {} \subseteq {p} \cup {p}
      /\ "running" = "running" => p \in {p}
      /\ "running" = "cancelled" \/ (~IsTerminal(b, p) /\ IsFree(b, p))
  BY <1>5, <1>6 DEF Statuses, TerminalRuns
<1>8. /\ Fit(u, {p}) /\ Advances(b, u) /\ u.snap[p] = "running" /\ u.waits[p] = None
  <2>1. Fit(b, {}) /\ p \in Runs /\ Known(b, p)
    BY <1>1, <1>2, <1>5
  <2>2. LET v == Stopped(b, p, "running")
        IN  /\ Fit(v, {p}) /\ Advances(b, v)
            /\ v.snap[p] = "running" /\ v.waits[p] = None /\ v.intent = b.intent
    <3> DEFINE status == "running"
    <3>1. /\ status \in Statuses \ {"none", "waiting"} /\ {} \subseteq {p} \cup {p}
          /\ status = "running" => p \in {p}
          /\ status = "cancelled" \/ (~IsTerminal(b, p) /\ IsFree(b, p))
      BY <1>7
    <3> HIDE DEF status
    <3>2. LET v == Stopped(b, p, status)
          IN  /\ Fit(v, {p}) /\ Advances(b, v)
              /\ v.snap[p] = status /\ v.waits[p] = None /\ v.intent = b.intent
      BY <2>1, <3>1, StoppedFits
    <3> QED
      BY <3>2 DEF status
  <2> QED
    BY <2>2
<1> HIDE DEF u
<1>9. Advances(t, u)
  BY <1>2, <1>8, AdvancesOn
<1>10. Born(u, c) /\ c \in u.book /\ u.row[c].parent = p
  BY <1>2, <1>4, <1>8 DEF Advances
<1>11. \A r \in Runs : u.waits[r] # c
  BY <1>8, <1>10, OnlyParentWaits, NoneIsNobody
<1>12. Known(u, p)
  BY <1>1, <1>8, <1>10 DEF Fit, BirthsFit
<1> QED
  BY <1>1, <1>3, <1>8, <1>9, <1>10, <1>11, <1>12 DEF p

\* A debt is paid unless the parent still waits for the child or was cancelled.
LEMMA PaidUnlessWaiting ==
    ASSUME NEW t, Fit(t, {}), NEW c \in Children, Born(t, c),
           t.waits[t.row[c].parent] # c, t.snap[t.row[c].parent] # "cancelled"
    PROVE  c \in t.book /\ \A r \in Runs : t.waits[r] # c
<1>1. c \in t.book
  BY DEF Fit, DebtsFit
<1>2. \A r \in Runs : t.waits[r] # c
  BY OnlyParentWaits
<1> QED
  BY <1>1, <1>2

\* After a step nobody waits for a child for which nobody waited.
LEMMA StillPaid ==
    ASSUME NEW t, NEW u, Advances(t, u), NEW c \in Children, Born(t, c), c \in t.book,
           \A r \in Runs : t.waits[r] # c
    PROVE  Born(u, c) /\ c \in u.book /\ \A r \in Runs : u.waits[r] # c
  BY DEF Advances

\* The outcome of a child reaches its parent.
LEMMA WokenFits ==
    ASSUME NEW t, Fit(t, {}), NEW c \in Children, Born(t, c), NEW u \in Woken(t, c)
    PROVE  Fit(u, {}) /\ Advances(t, u)
<1> DEFINE p == t.row[c].parent
<1>1. p \in Runs /\ Known(t, p)
  BY DEF Fit, BirthsFit
<1>2. ASSUME NEW v, Fit(v, {}), Advances(t, v), Born(v, c), c \in v.book,
             \A r \in Runs : v.waits[r] # c, u = Delivered(v, c)
      PROVE  Fit(u, {}) /\ Advances(t, u)
  <2>1. Fit(Delivered(v, c), {}) /\ Advances(v, Delivered(v, c))
    BY <1>2, DeliveredFits
  <2> QED
    BY <1>2, <2>1, AdvancesOn
<1>3. CASE u = t
  BY <1>3, NothingAdvances
<1>4. CASE t.row[c].expired /\ u = Delivered(t, c)
  <2>1. c \in t.book /\ \A r \in Runs : t.waits[r] # c
    BY <1>4 DEF Fit, ClosedFit, IsClosed
  <2> QED
    BY <1>2, <1>4, <2>1, NothingAdvances
<1>5. CASE IsTerminal(t, p) /\ u = Delivered(OrphanBooked(t, c), c)
  <2>1. t.waits[p] # c
    BY <1>1, <1>5, NoneIsNobody DEF Fit, WaitsFit, IsTerminal, TerminalRuns
  <2>2. \A r \in Runs : t.waits[r] # c
    BY <2>1, OnlyParentWaits
  <2>3. CASE t.snap[p] = "completed"
    <3>1. c \in t.book
      BY <2>1, <2>3, PaidUnlessWaiting
    <3>2. u = Delivered(t, c)
      BY <1>5, <2>3 DEF OrphanBooked
    <3> QED
      BY <1>2, <2>2, <3>1, <3>2, NothingAdvances
  <2>4. CASE t.snap[p] # "completed"
    <3> DEFINE b == Booked(t, c)
    <3>1. /\ Fit(b, {}) /\ Advances(t, b) /\ c \in b.book /\ SameRuns(t, b) /\ b.row = t.row
      BY BookedFits
    <3>2. u = Delivered(b, c)
      BY <1>5, <2>4 DEF OrphanBooked
    <3> HIDE DEF b
    <3>3. Born(b, c) /\ \A r \in Runs : b.waits[r] # c
      BY <2>2, <3>1 DEF Born, SameRuns
    <3> QED
      BY <1>2, <3>1, <3>2, <3>3
  <2> QED
    BY <2>3, <2>4
<1>6. ASSUME ~IsTerminal(t, p), t.waits[p] = None, NEW v \in Driven(t, p), u = Delivered(v, c)
      PROVE  Fit(u, {}) /\ Advances(t, u)
  <2>1. t.waits[p] # c /\ t.snap[p] # "cancelled"
    BY <1>6, NoneIsNobody DEF IsTerminal, TerminalRuns
  <2>2. c \in t.book /\ \A r \in Runs : t.waits[r] # c
    BY <2>1, PaidUnlessWaiting
  <2>3. Fit(v, {}) /\ Advances(t, v)
    BY <1>1, <1>6, DrivenFits
  <2>4. Born(v, c) /\ c \in v.book /\ \A r \in Runs : v.waits[r] # c
    BY <2>2, <2>3, StillPaid
  <2> QED
    BY <1>2, <1>6, <2>3, <2>4
<1>7. ASSUME ~IsTerminal(t, p), t.waits[p] = c, NEW v \in Driven(Resumed(t, c), p),
             u = Delivered(v, c)
      PROVE  Fit(u, {}) /\ Advances(t, u)
  <2> DEFINE w == Resumed(t, c)
  <2>1. /\ Fit(w, {p}) /\ Advances(t, w) /\ w.snap[p] = "running"
        /\ Known(w, p) /\ Born(w, c) /\ c \in w.book /\ \A r \in Runs : w.waits[r] # c
    BY <1>7, ResumedFits
  <2> HIDE DEF w, p
  <2>2. Fit(v, {}) /\ Advances(w, v)
    BY <1>1, <1>7, <2>1, DrivenFits DEF w
  <2>3. Born(v, c) /\ c \in v.book /\ \A r \in Runs : v.waits[r] # c
    BY <2>1, <2>2, StillPaid
  <2>4. Advances(t, v)
    BY <2>1, <2>2, AdvancesOn
  <2> QED
    BY <1>2, <1>7, <2>2, <2>3, <2>4
<1> QED
  BY <1>3, <1>4, <1>5, <1>6, <1>7 DEF Woken

\* A wait for a child is out of time.
LEMMA ExpiredFits ==
    ASSUME NEW t, Fit(t, {}), NEW c \in Children, Born(t, c), NEW u \in Expired(t, c)
    PROVE  Fit(u, {}) /\ Advances(t, u)
<1> DEFINE p == t.row[c].parent
<1>1. p \in Runs /\ Known(t, p)
  BY DEF Fit, BirthsFit
<1>2. ASSUME NEW v, Fit(v, {}), Advances(t, v), Born(v, c), c \in v.book,
             \A r \in Runs : v.waits[r] # c, u = WaitExpired(v, c)
      PROVE  Fit(u, {}) /\ Advances(t, u)
  <2>1. Fit(WaitExpired(v, c), {}) /\ Advances(v, WaitExpired(v, c))
    BY <1>2, WaitExpiredFits
  <2> QED
    BY <1>2, <2>1, AdvancesOn
<1>3. CASE u = t
  BY <1>3, NothingAdvances
<1>4. CASE IsTerminal(t, p) /\ u = WaitExpired(Booked(t, c), c)
  <2> DEFINE b == Booked(t, c)
  <2>1. /\ Fit(b, {}) /\ Advances(t, b) /\ c \in b.book /\ SameRuns(t, b) /\ b.row = t.row
    BY BookedFits
  <2>2. t.waits[p] # c
    BY <1>1, <1>4, NoneIsNobody DEF Fit, WaitsFit, IsTerminal, TerminalRuns
  <2>3. \A r \in Runs : t.waits[r] # c
    BY <2>2, OnlyParentWaits
  <2> HIDE DEF b
  <2>4. Born(b, c) /\ \A r \in Runs : b.waits[r] # c
    BY <2>1, <2>3 DEF Born, SameRuns
  <2> QED
    BY <1>2, <1>4, <2>1, <2>4 DEF b
<1>5. ASSUME ~IsTerminal(t, p), t.waits[p] # c, NEW v \in Driven(t, p), u = WaitExpired(v, c)
      PROVE  Fit(u, {}) /\ Advances(t, u)
  <2>1. t.snap[p] # "cancelled"
    BY <1>5 DEF IsTerminal, TerminalRuns
  <2>2. c \in t.book /\ \A r \in Runs : t.waits[r] # c
    BY <1>5, <2>1, PaidUnlessWaiting
  <2>3. Fit(v, {}) /\ Advances(t, v)
    BY <1>1, <1>5, DrivenFits
  <2>4. Born(v, c) /\ c \in v.book /\ \A r \in Runs : v.waits[r] # c
    BY <2>2, <2>3, StillPaid
  <2> QED
    BY <1>2, <1>5, <2>3, <2>4
<1>6. ASSUME ~IsTerminal(t, p), t.waits[p] = c, NEW v \in Driven(Resumed(t, c), p),
             u = WaitExpired(v, c)
      PROVE  Fit(u, {}) /\ Advances(t, u)
  <2> DEFINE w == Resumed(t, c)
  <2>1. /\ Fit(w, {p}) /\ Advances(t, w) /\ w.snap[p] = "running"
        /\ Known(w, p) /\ Born(w, c) /\ c \in w.book /\ \A r \in Runs : w.waits[r] # c
    BY <1>6, ResumedFits
  <2> HIDE DEF w, p
  <2>2. Fit(v, {}) /\ Advances(w, v)
    BY <1>1, <1>6, <2>1, DrivenFits DEF w
  <2>3. Born(v, c) /\ c \in v.book /\ \A r \in Runs : v.waits[r] # c
    BY <2>1, <2>2, StillPaid
  <2>4. Advances(t, v)
    BY <2>1, <2>2, AdvancesOn
  <2> QED
    BY <1>2, <1>6, <2>2, <2>3, <2>4
<1> QED
  BY <1>3, <1>4, <1>5, <1>6 DEF Expired

\* An event is consumed once.
LEMMA ConsumedFits ==
    ASSUME NEW t, Fit(t, {}), NEW c \in Children, Born(t, c), NEW u \in Consumed(t, c)
    PROVE  Fit(u, {}) /\ Advances(t, u)
<1>1. CASE u = t
  BY <1>1, NothingAdvances
<1>2. ASSUME NEW v \in Woken(t, c), u = [v EXCEPT !.seen = @ \cup {c}]
      PROVE  Fit(u, {}) /\ Advances(t, u)
  <2>1. Fit(v, {}) /\ Advances(t, v)
    BY WokenFits
  <2>2. v \in Tables
    BY <2>1 DEF Fit
  <2>3. u \in Tables /\ SameRuns(v, u) /\ SameRows(v, u) /\ SameIntents(v, u)
    BY <1>2, <2>2 DEF Tables, SameRuns, SameRows, SameIntents
  <2>4. SettledFit(u) /\ QueueFit(u)
    BY <2>1, <2>3 DEF Fit, SettledFit, QueueFit, IsSettled, IsPending, IsTerminal, IsFinished,
       SameRuns, SameRows, SameIntents
  <2>5. \A r \in Runs : v.intent[r] # {} => u.intent[r] # {}
    BY <2>3 DEF SameIntents
  <2>6. Fit(u, {}) /\ Advances(v, u)
    BY <2>1, <2>3, <2>4, <2>5, IntentsMoved
  <2> QED
    BY <2>1, <2>6, AdvancesOn
<1> QED
  BY <1>1, <1>2 DEF Consumed

\* An intent is given up, and what an orphan may have done is booked.
LEMMA AbandonedIntentFits ==
    ASSUME NEW t, Fit(t, {}), NEW r \in Runs, t.intent[r] # {},
           NEW u \in AbandonedIntent(t, r)
    PROVE  Fit(u, {}) /\ Advances(t, u)
<1>1. CASE u = Abandoned(t, r)
  BY <1>1, AbandonedFits
<1>2. CASE r \in Children /\ u = Abandoned(Booked(t, r), r)
  <2> DEFINE b == Booked(t, r)
  <2>1. Fit(b, {}) /\ Advances(t, b)
    BY <1>2, BookedFits
  <2> HIDE DEF b
  <2>2. b.intent[r] # {}
    BY <2>1 DEF Advances
  <2>3. Fit(Abandoned(b, r), {}) /\ Advances(b, Abandoned(b, r))
    BY <2>1, <2>2, AbandonedFits
  <2>4. u = Abandoned(b, r)
    BY <1>2 DEF b
  <2> QED
    BY <2>1, <2>3, <2>4, AdvancesOn
<1> QED
  BY <1>1, <1>2 DEF AbandonedIntent

\* An intent is adopted.
LEMMA AdoptedFits ==
    ASSUME NEW t, Fit(t, {}), NEW r \in Runs, NEW u \in Adopted(t, r)
    PROVE  Fit(u, {}) /\ Advances(t, u)
<1>1. CASE u = t
  BY <1>1, NothingAdvances
<1>2. CASE IsTerminal(t, r) /\ u = Settled(t, r)
  BY <1>2, SettledFits
<1>3. CASE t.snap[r] # "none" /\ \E local \in BOOLEAN : u = Cancelled(t, r, local)
  <2>1. Known(t, r)
    BY <1>3 DEF Fit, SnapsFit
  <2> QED
    BY <1>3, <2>1, CancelledFits
<1> QED
  BY <1>1, <1>2, <1>3 DEF Adopted

-----------------------------------------------------------------------------
(* A sweep hands its rows to a handler, one after the other. *)

Unfolds(f, N, Y, T, H) ==
    /\ f \in [0 .. N -> SUBSET Y] /\ f[0] = T
    /\ \A n \in 1 .. N : f[n] = UNION {H[n][u] : u \in f[n - 1]}

\* The sets that a handler may leave, row after row.
LEMMA Unfolding ==
    ASSUME NEW N \in Nat, NEW Y, NEW T \in SUBSET Y, NEW H \in [1 .. N -> [Y -> SUBSET Y]]
    PROVE  \E f : Unfolds(f, N, Y, T, H)
<1> DEFINE G == [n \in 1 .. N |-> [S \in SUBSET Y |-> UNION {H[n][u] : u \in S}]]
<1>1. ASSUME NEW n \in 1 .. N, NEW S \in SUBSET Y
      PROVE  UNION {H[n][u] : u \in S} \in SUBSET Y
  <2>1. \A u \in S : H[n][u] \subseteq Y
    OBVIOUS
  <2> QED
    BY <2>1
<1>2. G \in [1 .. N -> [SUBSET Y -> SUBSET Y]]
  BY <1>1
<1>3. \A n \in 1 .. N : \A S \in SUBSET Y : G[n][S] = UNION {H[n][u] : u \in S}
  OBVIOUS
<1> HIDE DEF G
<1>4. PICK f : Iterates(f, N, SUBSET Y, T, G)
  BY <1>2, Iteration, Zenon
<1>5. f \in [0 .. N -> SUBSET Y] /\ f[0] = T
  BY <1>4 DEF Iterates
<1>6. ASSUME NEW n \in 1 .. N PROVE f[n] = UNION {H[n][u] : u \in f[n - 1]}
  <2>1. n - 1 \in 0 .. N
    OBVIOUS
  <2>2. f[n - 1] \in SUBSET Y
    BY <1>5, <2>1
  <2>3. f[n] = G[n][f[n - 1]]
    BY <1>4 DEF Iterates
  <2> QED
    BY <1>3, <2>2, <2>3
<1> QED
  BY <1>5, <1>6 DEF Unfolds

\* What fits, with everything that was there in t.
Follow(t) == {u \in Tables : Fit(u, {}) /\ Advances(t, u)}

\* The events of a batch.
LEMMA ConsumedThrough ==
    ASSUME NEW t, Fit(t, {}), NEW rows \in Seq(Children), \A r \in ToSet(rows) : Born(t, r)
    PROVE  Through(Consumed, {t}, rows) \subseteq Follow(t)
<1> DEFINE N == Len(rows)
           Y == Follow(t)
           H == [n \in 1 .. N |-> [u \in Y |-> Consumed(u, rows[n])]]
           F == CHOOSE after : after = [n \in 0 .. N |-> IF n = 0 THEN {t}
                                    ELSE UNION {Consumed(u, rows[n]) : u \in after[n - 1]}]
<1>1. Through(Consumed, {t}, rows) = F[N]
  BY DEF Through
<1>2. N \in Nat /\ \A n \in 1 .. N : rows[n] \in Children /\ rows[n] \in ToSet(rows)
  BY LenProperties, ElementOfSeq DEF ToSet
<1>3. {t} \in SUBSET Y
  BY NothingAdvances DEF Fit, Follow
<1> HIDE DEF N
<1>4. ASSUME NEW n \in 1 .. N, NEW u \in Y PROVE Consumed(u, rows[n]) \subseteq Y
  <2>1. Born(t, rows[n]) /\ Fit(u, {}) /\ Advances(t, u) /\ rows[n] \in Children
    BY <1>2 DEF Follow
  <2>2. Born(u, rows[n])
    BY <2>1 DEF Advances
  <2>3. ASSUME NEW v \in Consumed(u, rows[n]) PROVE v \in Y
    <3>1. Fit(v, {}) /\ Advances(u, v)
      BY <2>1, <2>2, ConsumedFits
    <3>2. Advances(t, v)
      BY <2>1, <3>1, AdvancesOn
    <3> QED
      BY <3>1, <3>2 DEF Fit, Follow
  <2> QED
    BY <2>3
<1> HIDE DEF Y
<1>5. H \in [1 .. N -> [Y -> SUBSET Y]]
  BY <1>4
<1>6. \A n \in 1 .. N : \A u \in Y : H[n][u] = Consumed(u, rows[n])
  OBVIOUS
<1> HIDE DEF H
<1>7. PICK f : Unfolds(f, N, Y, {t}, H)
  BY <1>2, <1>3, <1>5, Unfolding, Zenon
<1>8. f = [n \in 0 .. N |-> IF n = 0 THEN {t}
                            ELSE UNION {Consumed(u, rows[n]) : u \in f[n - 1]}]
  <2>1. f = [n \in 0 .. N |-> f[n]] /\ f[0] = {t}
    BY <1>7 DEF Unfolds
  <2>2. ASSUME NEW n \in 1 .. N PROVE f[n] = UNION {Consumed(u, rows[n]) : u \in f[n - 1]}
    <3>1. n - 1 \in 0 .. N
      BY <1>2
    <3>2. f[n - 1] \subseteq Y /\ f[n] = UNION {H[n][u] : u \in f[n - 1]}
      BY <1>7, <3>1 DEF Unfolds
    <3> QED
      BY <1>6, <3>2
  <2>3. \A n \in 0 .. N : n # 0 => n \in 1 .. N
    BY <1>2
  <2> QED
    BY <2>1, <2>2, <2>3
<1>9. F = [n \in 0 .. N |-> IF n = 0 THEN {t}
                            ELSE UNION {Consumed(u, rows[n]) : u \in F[n - 1]}]
  BY <1>8
<1> HIDE DEF F
<1> DEFINE P == {n \in 0 .. N : F[n] \subseteq Y}
<1>10. 0 \in P
  BY <1>2, <1>3, <1>9
<1>11. ASSUME NEW n \in 1 .. N, n - 1 \in P PROVE n \in P
  <2>1. n \in 0 .. N /\ n # 0 /\ F[n - 1] \subseteq Y
    BY <1>2, <1>11
  <2>2. F[n] = UNION {Consumed(u, rows[n]) : u \in F[n - 1]}
    BY <1>9, <2>1
  <2> QED
    BY <1>4, <2>1, <2>2
<1> HIDE DEF P
<1>12. N \in P
  <2>1. \A n \in 0 .. N : n \in P
    BY <1>2, <1>10, <1>11, Counting
  <2>2. N \in 0 .. N
    BY <1>2
  <2> QED
    BY <2>1, <2>2
<1> QED
  BY <1>1, <1>12 DEF P, Y

\* Outcomes whose events are lost.
LEMMA WokenThrough ==
    ASSUME NEW t, Fit(t, {}), NEW rows \in Seq(Children), \A r \in ToSet(rows) : Born(t, r)
    PROVE  Through(Woken, {t}, rows) \subseteq Follow(t)
<1> DEFINE N == Len(rows)
           Y == Follow(t)
           H == [n \in 1 .. N |-> [u \in Y |-> Woken(u, rows[n])]]
           F == CHOOSE after : after = [n \in 0 .. N |-> IF n = 0 THEN {t}
                                    ELSE UNION {Woken(u, rows[n]) : u \in after[n - 1]}]
<1>1. Through(Woken, {t}, rows) = F[N]
  BY DEF Through
<1>2. N \in Nat /\ \A n \in 1 .. N : rows[n] \in Children /\ rows[n] \in ToSet(rows)
  BY LenProperties, ElementOfSeq DEF ToSet
<1>3. {t} \in SUBSET Y
  BY NothingAdvances DEF Fit, Follow
<1> HIDE DEF N
<1>4. ASSUME NEW n \in 1 .. N, NEW u \in Y PROVE Woken(u, rows[n]) \subseteq Y
  <2>1. Born(t, rows[n]) /\ Fit(u, {}) /\ Advances(t, u) /\ rows[n] \in Children
    BY <1>2 DEF Follow
  <2>2. Born(u, rows[n])
    BY <2>1 DEF Advances
  <2>3. ASSUME NEW v \in Woken(u, rows[n]) PROVE v \in Y
    <3>1. Fit(v, {}) /\ Advances(u, v)
      BY <2>1, <2>2, WokenFits
    <3>2. Advances(t, v)
      BY <2>1, <3>1, AdvancesOn
    <3> QED
      BY <3>1, <3>2 DEF Fit, Follow
  <2> QED
    BY <2>3
<1> HIDE DEF Y
<1>5. H \in [1 .. N -> [Y -> SUBSET Y]]
  BY <1>4
<1>6. \A n \in 1 .. N : \A u \in Y : H[n][u] = Woken(u, rows[n])
  OBVIOUS
<1> HIDE DEF H
<1>7. PICK f : Unfolds(f, N, Y, {t}, H)
  BY <1>2, <1>3, <1>5, Unfolding, Zenon
<1>8. f = [n \in 0 .. N |-> IF n = 0 THEN {t}
                            ELSE UNION {Woken(u, rows[n]) : u \in f[n - 1]}]
  <2>1. f = [n \in 0 .. N |-> f[n]] /\ f[0] = {t}
    BY <1>7 DEF Unfolds
  <2>2. ASSUME NEW n \in 1 .. N PROVE f[n] = UNION {Woken(u, rows[n]) : u \in f[n - 1]}
    <3>1. n - 1 \in 0 .. N
      BY <1>2
    <3>2. f[n - 1] \subseteq Y /\ f[n] = UNION {H[n][u] : u \in f[n - 1]}
      BY <1>7, <3>1 DEF Unfolds
    <3> QED
      BY <1>6, <3>2
  <2>3. \A n \in 0 .. N : n # 0 => n \in 1 .. N
    BY <1>2
  <2> QED
    BY <2>1, <2>2, <2>3
<1>9. F = [n \in 0 .. N |-> IF n = 0 THEN {t}
                            ELSE UNION {Woken(u, rows[n]) : u \in F[n - 1]}]
  BY <1>8
<1> HIDE DEF F
<1> DEFINE P == {n \in 0 .. N : F[n] \subseteq Y}
<1>10. 0 \in P
  BY <1>2, <1>3, <1>9
<1>11. ASSUME NEW n \in 1 .. N, n - 1 \in P PROVE n \in P
  <2>1. n \in 0 .. N /\ n # 0 /\ F[n - 1] \subseteq Y
    BY <1>2, <1>11
  <2>2. F[n] = UNION {Woken(u, rows[n]) : u \in F[n - 1]}
    BY <1>9, <2>1
  <2> QED
    BY <1>4, <2>1, <2>2
<1> HIDE DEF P
<1>12. N \in P
  <2>1. \A n \in 0 .. N : n \in P
    BY <1>2, <1>10, <1>11, Counting
  <2>2. N \in 0 .. N
    BY <1>2
  <2> QED
    BY <2>1, <2>2
<1> QED
  BY <1>1, <1>12 DEF P, Y

\* Waits that are out of time.
LEMMA ExpiredThrough ==
    ASSUME NEW t, Fit(t, {}), NEW rows \in Seq(Children), \A r \in ToSet(rows) : Born(t, r)
    PROVE  Through(Expired, {t}, rows) \subseteq Follow(t)
<1> DEFINE N == Len(rows)
           Y == Follow(t)
           H == [n \in 1 .. N |-> [u \in Y |-> Expired(u, rows[n])]]
           F == CHOOSE after : after = [n \in 0 .. N |-> IF n = 0 THEN {t}
                                    ELSE UNION {Expired(u, rows[n]) : u \in after[n - 1]}]
<1>1. Through(Expired, {t}, rows) = F[N]
  BY DEF Through
<1>2. N \in Nat /\ \A n \in 1 .. N : rows[n] \in Children /\ rows[n] \in ToSet(rows)
  BY LenProperties, ElementOfSeq DEF ToSet
<1>3. {t} \in SUBSET Y
  BY NothingAdvances DEF Fit, Follow
<1> HIDE DEF N
<1>4. ASSUME NEW n \in 1 .. N, NEW u \in Y PROVE Expired(u, rows[n]) \subseteq Y
  <2>1. Born(t, rows[n]) /\ Fit(u, {}) /\ Advances(t, u) /\ rows[n] \in Children
    BY <1>2 DEF Follow
  <2>2. Born(u, rows[n])
    BY <2>1 DEF Advances
  <2>3. ASSUME NEW v \in Expired(u, rows[n]) PROVE v \in Y
    <3>1. Fit(v, {}) /\ Advances(u, v)
      BY <2>1, <2>2, ExpiredFits
    <3>2. Advances(t, v)
      BY <2>1, <3>1, AdvancesOn
    <3> QED
      BY <3>1, <3>2 DEF Fit, Follow
  <2> QED
    BY <2>3
<1> HIDE DEF Y
<1>5. H \in [1 .. N -> [Y -> SUBSET Y]]
  BY <1>4
<1>6. \A n \in 1 .. N : \A u \in Y : H[n][u] = Expired(u, rows[n])
  OBVIOUS
<1> HIDE DEF H
<1>7. PICK f : Unfolds(f, N, Y, {t}, H)
  BY <1>2, <1>3, <1>5, Unfolding, Zenon
<1>8. f = [n \in 0 .. N |-> IF n = 0 THEN {t}
                            ELSE UNION {Expired(u, rows[n]) : u \in f[n - 1]}]
  <2>1. f = [n \in 0 .. N |-> f[n]] /\ f[0] = {t}
    BY <1>7 DEF Unfolds
  <2>2. ASSUME NEW n \in 1 .. N PROVE f[n] = UNION {Expired(u, rows[n]) : u \in f[n - 1]}
    <3>1. n - 1 \in 0 .. N
      BY <1>2
    <3>2. f[n - 1] \subseteq Y /\ f[n] = UNION {H[n][u] : u \in f[n - 1]}
      BY <1>7, <3>1 DEF Unfolds
    <3> QED
      BY <1>6, <3>2
  <2>3. \A n \in 0 .. N : n # 0 => n \in 1 .. N
    BY <1>2
  <2> QED
    BY <2>1, <2>2, <2>3
<1>9. F = [n \in 0 .. N |-> IF n = 0 THEN {t}
                            ELSE UNION {Expired(u, rows[n]) : u \in F[n - 1]}]
  BY <1>8
<1> HIDE DEF F
<1> DEFINE P == {n \in 0 .. N : F[n] \subseteq Y}
<1>10. 0 \in P
  BY <1>2, <1>3, <1>9
<1>11. ASSUME NEW n \in 1 .. N, n - 1 \in P PROVE n \in P
  <2>1. n \in 0 .. N /\ n # 0 /\ F[n - 1] \subseteq Y
    BY <1>2, <1>11
  <2>2. F[n] = UNION {Expired(u, rows[n]) : u \in F[n - 1]}
    BY <1>9, <2>1
  <2> QED
    BY <1>4, <2>1, <2>2
<1> HIDE DEF P
<1>12. N \in P
  <2>1. \A n \in 0 .. N : n \in P
    BY <1>2, <1>10, <1>11, Counting
  <2>2. N \in 0 .. N
    BY <1>2
  <2> QED
    BY <2>1, <2>2
<1> QED
  BY <1>1, <1>12 DEF P, Y

\* Intents past their grace.
LEMMA AbandonedIntentThrough ==
    ASSUME NEW t, Fit(t, {}), NEW rows \in Seq(Runs), \A r \in ToSet(rows) : t.intent[r] # {}
    PROVE  Through(AbandonedIntent, {t}, rows) \subseteq Follow(t)
<1> DEFINE N == Len(rows)
           Y == Follow(t)
           H == [n \in 1 .. N |-> [u \in Y |-> AbandonedIntent(u, rows[n])]]
           F == CHOOSE after : after = [n \in 0 .. N |-> IF n = 0 THEN {t}
                                    ELSE UNION {AbandonedIntent(u, rows[n]) : u \in after[n - 1]}]
<1>1. Through(AbandonedIntent, {t}, rows) = F[N]
  BY DEF Through
<1>2. N \in Nat /\ \A n \in 1 .. N : rows[n] \in Runs /\ rows[n] \in ToSet(rows)
  BY LenProperties, ElementOfSeq DEF ToSet
<1>3. {t} \in SUBSET Y
  BY NothingAdvances DEF Fit, Follow
<1> HIDE DEF N
<1>4. ASSUME NEW n \in 1 .. N, NEW u \in Y PROVE AbandonedIntent(u, rows[n]) \subseteq Y
  <2>1. t.intent[rows[n]] # {} /\ Fit(u, {}) /\ Advances(t, u) /\ rows[n] \in Runs
    BY <1>2 DEF Follow
  <2>2. u.intent[rows[n]] # {}
    BY <2>1 DEF Advances
  <2>3. ASSUME NEW v \in AbandonedIntent(u, rows[n]) PROVE v \in Y
    <3>1. Fit(v, {}) /\ Advances(u, v)
      BY <2>1, <2>2, AbandonedIntentFits
    <3>2. Advances(t, v)
      BY <2>1, <3>1, AdvancesOn
    <3> QED
      BY <3>1, <3>2 DEF Fit, Follow
  <2> QED
    BY <2>3
<1> HIDE DEF Y
<1>5. H \in [1 .. N -> [Y -> SUBSET Y]]
  BY <1>4
<1>6. \A n \in 1 .. N : \A u \in Y : H[n][u] = AbandonedIntent(u, rows[n])
  OBVIOUS
<1> HIDE DEF H
<1>7. PICK f : Unfolds(f, N, Y, {t}, H)
  BY <1>2, <1>3, <1>5, Unfolding, Zenon
<1>8. f = [n \in 0 .. N |-> IF n = 0 THEN {t}
                            ELSE UNION {AbandonedIntent(u, rows[n]) : u \in f[n - 1]}]
  <2>1. f = [n \in 0 .. N |-> f[n]] /\ f[0] = {t}
    BY <1>7 DEF Unfolds
  <2>2. ASSUME NEW n \in 1 .. N PROVE f[n] = UNION {AbandonedIntent(u, rows[n]) : u \in f[n - 1]}
    <3>1. n - 1 \in 0 .. N
      BY <1>2
    <3>2. f[n - 1] \subseteq Y /\ f[n] = UNION {H[n][u] : u \in f[n - 1]}
      BY <1>7, <3>1 DEF Unfolds
    <3> QED
      BY <1>6, <3>2
  <2>3. \A n \in 0 .. N : n # 0 => n \in 1 .. N
    BY <1>2
  <2> QED
    BY <2>1, <2>2, <2>3
<1>9. F = [n \in 0 .. N |-> IF n = 0 THEN {t}
                            ELSE UNION {AbandonedIntent(u, rows[n]) : u \in F[n - 1]}]
  BY <1>8
<1> HIDE DEF F
<1> DEFINE P == {n \in 0 .. N : F[n] \subseteq Y}
<1>10. 0 \in P
  BY <1>2, <1>3, <1>9
<1>11. ASSUME NEW n \in 1 .. N, n - 1 \in P PROVE n \in P
  <2>1. n \in 0 .. N /\ n # 0 /\ F[n - 1] \subseteq Y
    BY <1>2, <1>11
  <2>2. F[n] = UNION {AbandonedIntent(u, rows[n]) : u \in F[n - 1]}
    BY <1>9, <2>1
  <2> QED
    BY <1>4, <2>1, <2>2
<1> HIDE DEF P
<1>12. N \in P
  <2>1. \A n \in 0 .. N : n \in P
    BY <1>2, <1>10, <1>11, Counting
  <2>2. N \in 0 .. N
    BY <1>2
  <2> QED
    BY <2>1, <2>2
<1> QED
  BY <1>1, <1>12 DEF P, Y

\* Intents that are adopted.
LEMMA AdoptedThrough ==
    ASSUME NEW t, Fit(t, {}), NEW rows \in Seq(Runs)
    PROVE  Through(Adopted, {t}, rows) \subseteq Follow(t)
<1> DEFINE N == Len(rows)
           Y == Follow(t)
           H == [n \in 1 .. N |-> [u \in Y |-> Adopted(u, rows[n])]]
           F == CHOOSE after : after = [n \in 0 .. N |-> IF n = 0 THEN {t}
                                    ELSE UNION {Adopted(u, rows[n]) : u \in after[n - 1]}]
<1>1. Through(Adopted, {t}, rows) = F[N]
  BY DEF Through
<1>2. N \in Nat /\ \A n \in 1 .. N : rows[n] \in Runs /\ rows[n] \in ToSet(rows)
  BY LenProperties, ElementOfSeq DEF ToSet
<1>3. {t} \in SUBSET Y
  BY NothingAdvances DEF Fit, Follow
<1> HIDE DEF N
<1>4. ASSUME NEW n \in 1 .. N, NEW u \in Y PROVE Adopted(u, rows[n]) \subseteq Y
  <2>1. Fit(u, {}) /\ Advances(t, u) /\ rows[n] \in Runs
    BY <1>2 DEF Follow
  <2>3. ASSUME NEW v \in Adopted(u, rows[n]) PROVE v \in Y
    <3>1. Fit(v, {}) /\ Advances(u, v)
      BY <2>1, AdoptedFits
    <3>2. Advances(t, v)
      BY <2>1, <3>1, AdvancesOn
    <3> QED
      BY <3>1, <3>2 DEF Fit, Follow
  <2> QED
    BY <2>3
<1> HIDE DEF Y
<1>5. H \in [1 .. N -> [Y -> SUBSET Y]]
  BY <1>4
<1>6. \A n \in 1 .. N : \A u \in Y : H[n][u] = Adopted(u, rows[n])
  OBVIOUS
<1> HIDE DEF H
<1>7. PICK f : Unfolds(f, N, Y, {t}, H)
  BY <1>2, <1>3, <1>5, Unfolding, Zenon
<1>8. f = [n \in 0 .. N |-> IF n = 0 THEN {t}
                            ELSE UNION {Adopted(u, rows[n]) : u \in f[n - 1]}]
  <2>1. f = [n \in 0 .. N |-> f[n]] /\ f[0] = {t}
    BY <1>7 DEF Unfolds
  <2>2. ASSUME NEW n \in 1 .. N PROVE f[n] = UNION {Adopted(u, rows[n]) : u \in f[n - 1]}
    <3>1. n - 1 \in 0 .. N
      BY <1>2
    <3>2. f[n - 1] \subseteq Y /\ f[n] = UNION {H[n][u] : u \in f[n - 1]}
      BY <1>7, <3>1 DEF Unfolds
    <3> QED
      BY <1>6, <3>2
  <2>3. \A n \in 0 .. N : n # 0 => n \in 1 .. N
    BY <1>2
  <2> QED
    BY <2>1, <2>2, <2>3
<1>9. F = [n \in 0 .. N |-> IF n = 0 THEN {t}
                            ELSE UNION {Adopted(u, rows[n]) : u \in F[n - 1]}]
  BY <1>8
<1> HIDE DEF F
<1> DEFINE P == {n \in 0 .. N : F[n] \subseteq Y}
<1>10. 0 \in P
  BY <1>2, <1>3, <1>9
<1>11. ASSUME NEW n \in 1 .. N, n - 1 \in P PROVE n \in P
  <2>1. n \in 0 .. N /\ n # 0 /\ F[n - 1] \subseteq Y
    BY <1>2, <1>11
  <2>2. F[n] = UNION {Adopted(u, rows[n]) : u \in F[n - 1]}
    BY <1>9, <2>1
  <2> QED
    BY <1>4, <2>1, <2>2
<1> HIDE DEF P
<1>12. N \in P
  <2>1. \A n \in 0 .. N : n \in P
    BY <1>2, <1>10, <1>11, Counting
  <2>2. N \in 0 .. N
    BY <1>2
  <2> QED
    BY <2>1, <2>2
<1> QED
  BY <1>1, <1>12 DEF P, Y

\* The rows that the sweeps select: children that were started, runs that were asked to stop.
LEMMA QueriesFit ==
    ASSUME NEW t, Fit(t, {})
    PROVE  /\ Undelivered(t) \in Seq(Children) /\ OverdueRows(t) \in Seq(Children)
           /\ \A c \in ToSet(Undelivered(t)) \cup ToSet(OverdueRows(t)) : Born(t, c)
           /\ ExpiringIntents(t) \in Seq(Runs) /\ PendingIntents(t) \in Seq(Runs)
           /\ \A r \in ToSet(ExpiringIntents(t)) : t.intent[r] # {}
<1>1. /\ t.ended \in Seq(Children) /\ t.overdue \in Seq(Children) /\ t.queue \in Seq(Runs)
      /\ Limit \in Nat
  BY FamilyAssumption DEF Fit, Tables, FamilyAssumption
<1>2. Undelivered(t) \in Seq(Children) /\ ToSet(Undelivered(t)) \subseteq ToSet(t.ended)
  <2> DEFINE s == Selected(t.ended, {c \in Children : ~t.row[c].delivered})
  <2>1. s \in Seq(Children) /\ ToSet(s) \subseteq ToSet(t.ended)
    BY <1>1, SelectedIs
  <2>2. Undelivered(t) = First(Limit, s)
    BY DEF Undelivered
  <2> HIDE DEF s
  <2>3. First(Limit, s) \in Seq(Children) /\ ToSet(First(Limit, s)) \subseteq ToSet(s)
    BY <1>1, <2>1, FirstIs
  <2> QED
    BY <2>1, <2>2, <2>3
<1>3. OverdueRows(t) \in Seq(Children) /\ ToSet(OverdueRows(t)) \subseteq ToSet(t.overdue)
  BY <1>1, FirstIs DEF OverdueRows
<1>4. ExpiringIntents(t) \in Seq(Runs) /\ ToSet(ExpiringIntents(t)) \subseteq ToSet(t.queue)
  <2> DEFINE s == Selected(t.queue, t.lapsed)
  <2>1. s \in Seq(Runs) /\ ToSet(s) \subseteq ToSet(t.queue)
    BY <1>1, SelectedIs
  <2>2. ExpiringIntents(t) = First(Limit, s)
    BY DEF ExpiringIntents
  <2> HIDE DEF s
  <2>3. First(Limit, s) \in Seq(Runs) /\ ToSet(First(Limit, s)) \subseteq ToSet(s)
    BY <1>1, <2>1, FirstIs
  <2> QED
    BY <2>1, <2>2, <2>3
<1>5. PendingIntents(t) \in Seq(Runs)
  BY <1>1, FirstIs DEF PendingIntents
<1>6. \A c \in ToSet(t.ended) \cup ToSet(t.overdue) : Born(t, c)
  BY DEF Fit, ListsFit
<1>7. \A r \in ToSet(t.queue) : t.intent[r] # {}
  BY DEF Fit, QueueFit, IsPending
<1> QED
  BY <1>2, <1>3, <1>4, <1>5, <1>6, <1>7

LEMMA FollowOn ==
    ASSUME NEW t, NEW u \in Follow(t) PROVE Follow(u) \subseteq Follow(t)
<1> SUFFICES ASSUME NEW v \in Follow(u) PROVE v \in Follow(t)
  OBVIOUS
<1>1. Advances(t, u) /\ Advances(u, v) /\ v \in Tables /\ Fit(v, {})
  BY DEF Follow
<1>2. Advances(t, v)
  BY <1>1, AdvancesOn
<1> QED
  BY <1>1, <1>2 DEF Follow

\* One tick of the consumer over a batch of events of children that were started.
LEMMA ConsumerTickFits ==
    ASSUME Fit(db, {}), NEW batch \in Seq(Children), \A c \in ToSet(batch) : Born(db, c),
           NEW sweeping
    PROVE  ConsumerTick(batch, sweeping) \subseteq Follow(db)
<1> DEFINE T == Through(Consumed, {db}, batch)
           D == DeliveriesSwept(T)
<1>1. T \subseteq Follow(db)
  BY ConsumedThrough
<1>2. ConsumerTick(batch, sweeping) = IF sweeping THEN WaitsSwept(D) ELSE T
  BY DEF ConsumerTick
<1> HIDE DEF T
<1>3. ASSUME NEW t \in Follow(db) PROVE Through(Woken, {t}, Undelivered(t)) \subseteq Follow(db)
  <2>1. Fit(t, {})
    BY DEF Follow
  <2>2. Through(Woken, {t}, Undelivered(t)) \subseteq Follow(t)
    BY <2>1, QueriesFit, WokenThrough
  <2> QED
    BY <2>2, FollowOn
<1>4. D \subseteq Follow(db)
  BY <1>1, <1>3 DEF DeliveriesSwept
<1> HIDE DEF D
<1>5. ASSUME NEW t \in Follow(db) PROVE Through(Expired, {t}, OverdueRows(t)) \subseteq Follow(db)
  <2>1. Fit(t, {})
    BY DEF Follow
  <2>2. Through(Expired, {t}, OverdueRows(t)) \subseteq Follow(t)
    BY <2>1, QueriesFit, ExpiredThrough
  <2> QED
    BY <2>2, FollowOn
<1>6. WaitsSwept(D) \subseteq Follow(db)
  BY <1>4, <1>5 DEF WaitsSwept
<1> QED
  BY <1>1, <1>2, <1>6

\* One tick of the cancellation sweeper.
LEMMA SweepTickFits ==
    ASSUME Fit(db, {}) PROVE SweepTick \subseteq Follow(db)
<1>1. Through(AbandonedIntent, {db}, ExpiringIntents(db)) \subseteq Follow(db)
  BY QueriesFit, AbandonedIntentThrough
<1>2. ASSUME NEW t \in Follow(db) PROVE Through(Adopted, {t}, PendingIntents(t)) \subseteq Follow(db)
  <2>1. Fit(t, {})
    BY DEF Follow
  <2>2. Through(Adopted, {t}, PendingIntents(t)) \subseteq Follow(t)
    BY <2>1, QueriesFit, AdoptedThrough
  <2> QED
    BY <2>2, FollowOn
<1> QED
  BY <1>1, <1>2 DEF SweepTick

\* Marks that no property is about.
LEMMA MarksFit ==
    ASSUME NEW X, NEW t, Fit(t, X), NEW u \in Tables, SameRuns(t, u), SameRows(t, u),
           SameIntents(t, u)
    PROVE  Fit(u, X) /\ Advances(t, u)
<1>1. SettledFit(u) /\ QueueFit(u)
  BY DEF Fit, SettledFit, QueueFit, IsSettled, IsPending, IsTerminal, IsFinished,
     SameRuns, SameRows, SameIntents
<1>2. \A r \in Runs : t.intent[r] # {} => u.intent[r] # {}
  BY DEF SameIntents
<1> QED
  BY <1>1, <1>2, IntentsMoved

\* The process that has a child in its hands dies.
LEMMA DriverLostFits ==
    ASSUME NEW t, Fit(t, {}), NEW c
    PROVE  LET u == [t EXCEPT !.driven = @ \ {c}] IN u \in Follow(t)
<1> DEFINE u == [t EXCEPT !.driven = @ \ {c}]
<1>1. t \in Tables
  BY DEF Fit
<1>2. /\ u \in Tables /\ u.driven \subseteq t.driven /\ u.snap = t.snap /\ u.waits = t.waits
      /\ SameRows(t, u) /\ SameIntents(t, u)
  BY <1>1 DEF Tables, SameRows, SameIntents
<1> HIDE DEF u
<1> USE DEF SameRows, SameIntents, Born, Known, IsTerminal
<1>3. WaitsFit(u) /\ BirthsFit(u) /\ SnapsFit(u)
  BY <1>2 DEF Fit, WaitsFit, BirthsFit, SnapsFit
<1>4. DrivenFit(u) /\ DebtsFit(u)
  BY <1>2 DEF Fit, DrivenFit, DebtsFit
<1>5. ClosedFit(u, {}) /\ ListsFit(u) /\ ParkedFit(u, {})
  BY <1>2 DEF Fit, ClosedFit, ListsFit, ParkedFit, IsClosed
<1>6. SettledFit(u) /\ QueueFit(u)
  BY <1>2 DEF Fit, SettledFit, QueueFit, IsSettled, IsPending, IsFinished
<1>7. Advances(t, u)
  BY <1>2 DEF Advances
<1>8. u \in Follow(t)
  BY <1>2, <1>3, <1>4, <1>5, <1>6, <1>7 DEF Fit, Follow
<1> QED
  BY <1>8 DEF u

\* A wait for a child that was started is out of time.
LEMMA OverdueFits ==
    ASSUME NEW t, Fit(t, {}), NEW c \in Children, Born(t, c)
    PROVE  LET u == [t EXCEPT !.overdue = Append(@, c)] IN u \in Follow(t)
<1> DEFINE o == Append(t.overdue, c)
           u == [t EXCEPT !.overdue = o]
<1>1. t \in Tables /\ t.overdue \in Seq(Children)
  BY DEF Fit, Tables
<1>2. o \in Seq(Children) /\ ToSet(o) = ToSet(t.overdue) \cup {c}
  BY <1>1, AppendIs
<1> HIDE DEF o
<1>3. /\ u \in Tables /\ SameRuns(t, u) /\ SameIntents(t, u) /\ u.row = t.row
      /\ u.book = t.book /\ u.ended = t.ended /\ u.overdue = o
  BY <1>1, <1>2 DEF Tables, SameRuns, SameIntents
<1>4. u = [t EXCEPT !.overdue = Append(@, c)]
  BY <1>1 DEF Tables, o
<1> HIDE DEF u
<1> USE DEF SameRuns, SameIntents, Born, Known, IsTerminal
<1>5. WaitsFit(u) /\ BirthsFit(u) /\ SnapsFit(u)
  BY <1>3 DEF Fit, WaitsFit, BirthsFit, SnapsFit
<1>6. DrivenFit(u) /\ DebtsFit(u)
  BY <1>3 DEF Fit, DrivenFit, DebtsFit
<1>7. ClosedFit(u, {}) /\ ParkedFit(u, {})
  BY <1>3 DEF Fit, ClosedFit, ParkedFit, IsClosed
<1>8. ListsFit(u)
  BY <1>2, <1>3 DEF Fit, ListsFit
<1>9. SettledFit(u) /\ QueueFit(u)
  BY <1>3 DEF Fit, SettledFit, QueueFit, IsSettled, IsPending, IsFinished
<1>10. Advances(t, u)
  BY <1>3 DEF Advances
<1> QED
  BY <1>3, <1>4, <1>5, <1>6, <1>7, <1>8, <1>9, <1>10 DEF Fit, Follow

-----------------------------------------------------------------------------
(* The system. *)

LogFits(t, l) == l \in Seq(Children) /\ \A c \in ToSet(l) : Born(t, c)

OffsetsFit ==
    position \in Nat /\ committed \in Nat /\ committed <= position /\ position <= Len(log)

Inv == Fit(db, {}) /\ LogFits(db, log) /\ OffsetsFit

\* The log is still of children that were started.
LEMMA LogFitsOn ==
    ASSUME NEW t, NEW l, LogFits(t, l), NEW u \in Follow(t) PROVE LogFits(u, l)
<1>1. ToSet(l) \subseteq Children
  BY DEF LogFits, ToSet
<1> QED
  BY <1>1 DEF LogFits, Follow, Advances

LEMMA InitFits == Init => Inv
<1> SUFFICES ASSUME Init PROVE Inv
  OBVIOUS
<1>1. db = NoTables /\ log = <<>> /\ position = 0 /\ committed = 0
  BY DEF Init
<1>2. <<>> \in Seq(Children) /\ <<>> \in Seq(Runs) /\ ToSet(<<>>) = {} /\ Len(<<>>) = 0
  BY DEF ToSet
<1>3. NoRow \in RowRecord /\ {} \in Intents /\ "none" \in Statuses
  BY DEF NoRow, RowRecord, Intents, Statuses
<1>4. NoTables \in Tables
  BY <1>2, <1>3 DEF NoTables, Tables
<1>5. /\ \A r \in Runs : /\ NoTables.snap[r] = "none" /\ NoTables.waits[r] = None
                         /\ NoTables.intent[r] = {}
      /\ \A c \in Children : NoTables.row[c] = NoRow
      /\ NoTables.ended = <<>> /\ NoTables.overdue = <<>> /\ NoTables.queue = <<>>
      /\ NoTables.driven = {}
  BY DEF NoTables
<1> DEFINE t == NoTables
<1>6. WaitsFit(t) /\ BirthsFit(t) /\ SnapsFit(t) /\ DrivenFit(t) /\ DebtsFit(t)
  BY <1>5 DEF WaitsFit, BirthsFit, SnapsFit, DrivenFit, DebtsFit, Born
<1>7. ClosedFit(t, {}) /\ ParkedFit(t, {})
  BY <1>5 DEF ClosedFit, ParkedFit, IsClosed, NoRow
<1>8. SettledFit(t) /\ ListsFit(t)
  BY <1>2, <1>5 DEF SettledFit, ListsFit, IsSettled
<1>9. QueueFit(t)
  BY <1>2, <1>5 DEF QueueFit, IsPending
<1>10. Fit(t, {})
  BY <1>4, <1>6, <1>7, <1>8, <1>9 DEF Fit
<1> QED
  BY <1>1, <1>2, <1>10 DEF Inv, LogFits, OffsetsFit

\* A step of the tables that leaves log and offsets alone.
LEMMA TablesMoved ==
    ASSUME Inv, db' \in Follow(db), UNCHANGED <<log, position, committed>> PROVE Inv'
<1>1. LogFits(db', log)
  BY LogFitsOn DEF Inv
<1>2. Fit(db', {})
  BY DEF Follow
<1> QED
  BY <1>1, <1>2 DEF Inv, OffsetsFit

LEMMA PolledFits ==
    ASSUME Inv
    PROVE  /\ Polled \in Seq(Children) /\ \A c \in ToSet(Polled) : Born(db, c)
           /\ Len(Polled) \in Nat /\ position + Len(Polled) <= Len(log)
<1> DEFINE s == SubSeq(log, position + 1, Len(log))
           k == IF Len(s) < Batch THEN Len(s) ELSE Batch
<1>1. /\ log \in Seq(Children) /\ Len(log) \in Nat /\ DOMAIN log = 1 .. Len(log)
      /\ position \in Nat /\ position <= Len(log) /\ Batch \in Nat
  BY LenProperties, FamilyAssumption DEF Inv, LogFits, OffsetsFit, FamilyAssumption
<1>2. \A i \in position + 1 .. Len(log) : i \in 1 .. Len(log) /\ log[i] \in Children
  BY <1>1, ElementOfSeq
<1>3. /\ s \in Seq(Children) /\ Len(s) = Len(log) - position
      /\ \A i \in 1 .. Len(log) - position : s[i] = log[position + i]
  BY <1>1, <1>2
<1>4. ToSet(s) \subseteq ToSet(log)
  <2> DEFINE n == Len(log) - position
  <2>1. DOMAIN s = 1 .. n /\ \A i \in 1 .. n : s[i] = log[position + i]
    BY <1>3, LenProperties
  <2>2. \A i \in 1 .. n : position + i \in DOMAIN log
    BY <1>1
  <2> HIDE DEF n, s
  <2> QED
    BY <2>1, <2>2 DEF ToSet
<1>5. Polled = First(Batch, s)
  BY DEF Polled
<1>6. Polled = SubSeq(s, 1, k)
  BY <1>5 DEF First
<1> HIDE DEF s
<1>7. Polled \in Seq(Children) /\ ToSet(Polled) \subseteq ToSet(s)
  BY <1>1, <1>3, <1>5, FirstIs
<1>8. k \in Nat /\ k <= Len(s) /\ Len(s) \in Nat
  BY <1>1, <1>3
<1> HIDE DEF k
<1>9. Len(Polled) = k
  BY <1>3, <1>6, <1>8, SubSeqProperties
<1> QED
  BY <1>1, <1>3, <1>4, <1>7, <1>8, <1>9 DEF Inv, LogFits

LEMMA ConsumeFits == ASSUME Inv, NEW sweeping, Consume(sweeping) PROVE Inv'
<1> DEFINE T == ConsumerTick(Polled, sweeping)
<1>1. /\ Polled \in Seq(Children) /\ \A c \in ToSet(Polled) : Born(db, c)
      /\ Len(Polled) \in Nat /\ position + Len(Polled) <= Len(log)
  BY PolledFits
<1>2. Fit(db, {})
  BY DEF Inv
<1>3. T \subseteq Follow(db)
  BY <1>1, <1>2, ConsumerTickFits
<1>4. db \in Follow(db)
  BY <1>2, NothingAdvances DEF Follow, Fit
<1>5. /\ position' = position + Len(Polled) /\ log' = log
      /\ (db' \in T /\ committed' = position') \/ (db' \in T \cup {db} /\ committed' = committed)
  BY DEF Consume
<1> HIDE DEF T
<1>6. db' \in Follow(db)
  BY <1>3, <1>4, <1>5
<1>7. LogFits(db', log) /\ Fit(db', {})
  BY <1>6, LogFitsOn DEF Inv, Follow
<1>8. OffsetsFit'
  BY <1>1, <1>5 DEF Inv, OffsetsFit
<1> QED
  BY <1>5, <1>7, <1>8 DEF Inv

LEMMA SweepFits == ASSUME Inv, Sweep PROVE Inv'
<1>1. SweepTick \subseteq Follow(db) /\ db \in Follow(db)
  BY SweepTickFits, NothingAdvances DEF Inv, Follow, Fit
<1>2. db' \in Follow(db)
  BY <1>1 DEF Sweep
<1> QED
  BY <1>2, TablesMoved DEF Sweep, Others

LEMMA PublishFits == ASSUME Inv, Publish PROVE Inv'
<1> DEFINE c == db.ended[Len(log) + 1]
<1>1. db.ended \in Seq(Children) /\ log \in Seq(Children) /\ Len(log) \in Nat
  BY DEF Inv, Fit, Tables, LogFits
<1>2. DOMAIN db.ended = 1 .. Len(db.ended) /\ Len(db.ended) \in Nat
  BY <1>1, LenProperties
<1>3. c \in ToSet(db.ended) /\ c \in Children
  <2>1. Len(log) + 1 \in 1 .. Len(db.ended)
    BY <1>1, <1>2 DEF Publish
  <2> QED
    BY <1>1, <1>2, <2>1, ElementOfSeq DEF ToSet
<1>4. Born(db, c)
  BY <1>3 DEF Inv, Fit, ListsFit
<1>5. log' = Append(log, c) /\ db' = db /\ position' = position /\ committed' = committed
  BY DEF Publish
<1> HIDE DEF c
<1>6. Append(log, c) \in Seq(Children) /\ ToSet(Append(log, c)) = ToSet(log) \cup {c}
  BY <1>1, <1>3, AppendIs
<1>7. Len(Append(log, c)) = Len(log) + 1
  BY <1>1, <1>3
<1>8. LogFits(db, Append(log, c))
  BY <1>4, <1>6 DEF Inv, LogFits
<1>9. OffsetsFit'
  BY <1>1, <1>5, <1>7 DEF Inv, OffsetsFit
<1> QED
  BY <1>5, <1>8, <1>9 DEF Inv

LEMMA RestartConsumerFits == ASSUME Inv, RestartConsumer PROVE Inv'
<1>1. log \in Seq(Children) /\ Len(log) \in Nat
  BY DEF Inv, LogFits
<1> QED
  BY <1>1 DEF Inv, OffsetsFit, LogFits, RestartConsumer

\* Whatever drives a run that is known leaves tables that fit.
LEMMA StepToFits ==
    ASSUME Inv, NEW T, T \subseteq Follow(db), StepTo(T) PROVE Inv'
<1>1. db' \in T /\ UNCHANGED <<log, position, committed>>
  BY DEF StepTo, Table, Others
<1>2. db' \in Follow(db)
  BY <1>1
<1> QED
  BY <1>1, <1>2, TablesMoved

LEMMA StartRootFits == ASSUME Inv, NEW r \in Roots, StartRoot(r) PROVE Inv'
<1>1. r \in Runs /\ Known(db, r) /\ Fit(db, {})
  BY NoneIsNobody DEF Known, Inv
<1>2. ASSUME NEW u \in Driven(db, r) PROVE u \in Follow(db)
  <2>1. Fit(u, {}) /\ Advances(db, u)
    BY <1>1, DrivenFits
  <2> QED
    BY <2>1 DEF Follow, Fit
<1> QED
  BY <1>2, StepToFits DEF StartRoot

LEMMA DecideAndDriveFits == ASSUME Inv, NEW r \in Runs, DecideAndDrive(r) PROVE Inv'
<1> DEFINE v == Stopped(db, r, "running")
           status == "running"
<1>1. Fit(db, {}) /\ db.snap[r] = "gated"
  BY DEF Inv, DecideAndDrive
<1>2. Known(db, r) /\ ~IsTerminal(db, r) /\ db.waits[r] = None
  BY <1>1 DEF Fit, SnapsFit, WaitsFit, IsTerminal, TerminalRuns
<1>3. IsFree(db, r)
  BY <1>1, <1>2, FreeUnlessWaiting
<1>4. /\ status \in Statuses \ {"none", "waiting"} /\ {} \subseteq {r} \cup {r}
      /\ status = "running" => r \in {r}
  BY DEF Statuses, TerminalRuns
<1>5. v = Stopped(db, r, status)
  OBVIOUS
<1> HIDE DEF v
<1>6. Fit(v, {r}) /\ Advances(db, v) /\ v.snap[r] = "running"
  <2> HIDE DEF status
  <2>1. Fit(v, {r}) /\ Advances(db, v) /\ v.snap[r] = status
    BY <1>1, <1>2, <1>3, <1>4, <1>5, StoppedFits
  <2> QED
    BY <2>1 DEF status
<1>7. Known(v, r)
  BY <1>6 DEF Fit, SnapsFit
<1>8. ASSUME NEW u \in Driven(v, r) PROVE u \in Follow(db)
  <2>1. Fit(u, {}) /\ Advances(v, u)
    BY <1>6, <1>7, DrivenFits
  <2>2. Advances(db, u)
    BY <1>6, <2>1, AdvancesOn
  <2> QED
    BY <2>1, <2>2 DEF Follow, Fit
<1>9. StepTo(Driven(v, r))
  BY DEF DecideAndDrive, v
<1> QED
  BY <1>8, <1>9, StepToFits

LEMMA DriveChildFits == ASSUME Inv, NEW c \in Children, DriveChild(c) PROVE Inv'
<1> DEFINE T == IF MustStop(db, c) THEN {ChildStopped(db, c)}
                ELSE {Reported(db, c, status) : status \in Endings}
                     \cup {t \in Stops(db, c) : ~IsTerminal(t, c)}
<1>1. Fit(db, {}) /\ c \in db.driven /\ c \in Runs
  BY NoneIsNobody DEF Inv, DriveChild
<1>2. Born(db, c) /\ ~IsTerminal(db, c) /\ db.waits[c] = None /\ Known(db, c)
  BY <1>1 DEF Fit, DrivenFit, Known
<1>3. IsFree(db, c)
  BY <1>1, <1>2, FreeUnlessWaiting DEF IsTerminal, TerminalRuns
<1>4. ChildStopped(db, c) \in Follow(db)
  BY <1>1, ChildStoppedFits DEF Follow, Fit
<1>5. ASSUME NEW status \in Endings PROVE Reported(db, c, status) \in Follow(db)
  <2>1. status \in TerminalRuns
    BY FamilyAssumption DEF TerminalRuns
  <2>2. Fit(Reported(db, c, status), {}) /\ Advances(db, Reported(db, c, status))
    BY <1>1, <2>1, ReportedFits
  <2> QED
    BY <2>2 DEF Follow, Fit
<1>6. ASSUME NEW u \in Stops(db, c) PROVE u \in Follow(db)
  <2>1. Fit(u, {}) /\ Advances(db, u)
    BY <1>1, <1>2, <1>3, StopsFit
  <2> QED
    BY <2>1 DEF Follow, Fit
<1>7. T \subseteq Follow(db)
  BY <1>4, <1>5, <1>6
<1>8. StepTo(T)
  BY DEF DriveChild
<1> HIDE DEF T
<1> QED
  BY <1>7, <1>8, StepToFits

LEMMA CancelRunFits == ASSUME Inv, NEW r \in Runs, CancelRun(r) PROVE Inv'
<1>1. Fit(db, {})
  BY DEF Inv
<1>2. Requested(db, r) \in Follow(db)
  BY <1>1, RequestedFits DEF Follow, Fit
<1>3. ASSUME db.snap[r] # "none", NEW local PROVE Cancelled(db, r, local) \in Follow(db)
  <2>1. Known(db, r) /\ {} \subseteq {r}
    BY <1>1, <1>3 DEF Fit, SnapsFit
  <2>2. Fit(Cancelled(db, r, local), {}) /\ Advances(db, Cancelled(db, r, local))
    BY <1>1, <2>1, CancelledFits
  <2> QED
    BY <2>2 DEF Follow, Fit
<1>4. /\ UNCHANGED <<log, position, committed>>
      /\ \/ db' = Requested(db, r)
         \/ db.snap[r] # "none" /\ \E local \in BOOLEAN : db' = Cancelled(db, r, local)
  BY DEF CancelRun, Table, Others
<1>5. db' \in Follow(db)
  BY <1>2, <1>3, <1>4
<1> QED
  BY <1>4, <1>5, TablesMoved

LEMMA DriverDiesFits == ASSUME Inv, NEW c \in Children, DriverDies(c) PROVE Inv'
<1>1. db' \in Follow(db)
  BY DriverLostFits DEF Inv, DriverDies, Table
<1> QED
  BY <1>1, TablesMoved DEF DriverDies, Table, Others

LEMMA WaitPassesFits == ASSUME Inv, NEW c \in Children, WaitPasses(c) PROVE Inv'
<1>1. Born(db, c) /\ Fit(db, {})
  BY DEF Inv, WaitPasses, IsOpen, Born, NoRow
<1>2. [db EXCEPT !.overdue = Append(@, c)] \in Follow(db)
  BY <1>1, OverdueFits
<1>3. {[db EXCEPT !.overdue = Append(@, c)]} \subseteq Follow(db)
  BY <1>2
<1> QED
  BY <1>3, StepToFits DEF WaitPasses

LEMMA GatePassesFits == ASSUME Inv, NEW r \in Runs, GatePasses(r) PROVE Inv'
<1> DEFINE u == [db EXCEPT !.stale = @ \cup {r}]
<1>1. Fit(db, {}) /\ db \in Tables
  BY DEF Inv, Fit
<1>2. u \in Tables /\ SameRuns(db, u) /\ SameRows(db, u) /\ SameIntents(db, u)
  BY <1>1 DEF Tables, SameRuns, SameRows, SameIntents
<1>3. StepTo({u})
  BY DEF GatePasses
<1> HIDE DEF u
<1>4. {u} \subseteq Follow(db)
  BY <1>1, <1>2, MarksFit DEF Follow
<1> QED
  BY <1>3, <1>4, StepToFits

LEMMA IntentLapsesFits == ASSUME Inv, IntentLapses PROVE Inv'
<1> DEFINE fresh == {i \in DOMAIN db.queue : db.queue[i] \notin db.lapsed}
           i == CHOOSE k \in fresh : \A j \in fresh : k <= j
           u == [db EXCEPT !.lapsed = @ \cup {db.queue[i]}]
           R == {s \in Nat \X Nat : s[1] < s[2]}
<1>1. Fit(db, {}) /\ db \in Tables /\ db.queue \in Seq(Runs)
  BY DEF Inv, Fit, Tables
<1>2. fresh # {} /\ StepTo({u})
  BY DEF IntentLapses
<1>3. fresh \in SUBSET Nat /\ \A j \in fresh : db.queue[j] \in Runs
  BY <1>1, LenProperties, ElementOfSeq
<1>4. IsWellFoundedOn(R, Nat)
  BY NatLessThanWellFounded, Zenon DEF OpToRel
<1> HIDE DEF fresh
<1>5. \E k \in fresh : \A j \in fresh : k <= j
  <2> HIDE DEF R
  <2>1. PICK k \in fresh : \A j \in fresh : ~ (<<j, k>> \in R)
    BY <1>2, <1>3, <1>4, WFMin, Zenon
  <2>2. ASSUME NEW j \in fresh PROVE k <= j
    <3>1. j \in Nat /\ k \in Nat /\ <<j, k>> \in Nat \X Nat /\ ~ (<<j, k>> \in R)
      BY <1>3, <2>1
    <3>2. ~ (j < k)
      BY <3>1 DEF R
    <3> QED
      BY <3>1, <3>2
  <2> QED
    BY <2>2
<1>6. i \in fresh
  BY <1>5
<1> HIDE DEF i
<1>7. db.queue[i] \in Runs
  BY <1>3, <1>6
<1>8. u \in Tables /\ SameRuns(db, u) /\ SameRows(db, u) /\ SameIntents(db, u)
  BY <1>1, <1>7 DEF Tables, SameRuns, SameRows, SameIntents
<1> HIDE DEF u
<1>9. {u} \subseteq Follow(db)
  BY <1>1, <1>8, MarksFit DEF Follow
<1> QED
  BY <1>2, <1>9, StepToFits

LEMMA StepFits == Inv /\ [Next]_vars => Inv'
<1> SUFFICES ASSUME Inv, [Next]_vars PROVE Inv'
  OBVIOUS
<1>1. CASE UNCHANGED vars
  BY <1>1 DEF vars, Inv, LogFits, OffsetsFit
<1>2. CASE \E sweeping \in BOOLEAN : Consume(sweeping)
  BY <1>2, ConsumeFits
<1>3. CASE Sweep \/ Publish \/ RestartConsumer \/ IntentLapses
  BY <1>3, SweepFits, PublishFits, RestartConsumerFits, IntentLapsesFits
<1>4. CASE \E r \in Roots : StartRoot(r)
  BY <1>4, StartRootFits
<1>5. CASE \E r \in Runs : DecideAndDrive(r) \/ CancelRun(r) \/ GatePasses(r)
  BY <1>5, DecideAndDriveFits, CancelRunFits, GatePassesFits
<1>6. CASE \E c \in Children : DriveChild(c) \/ DriverDies(c) \/ WaitPasses(c)
  BY <1>6, DriveChildFits, DriverDiesFits, WaitPassesFits
<1>7. Next =>
        \/ \E sweeping \in BOOLEAN : Consume(sweeping)
        \/ Sweep \/ Publish \/ RestartConsumer \/ IntentLapses
        \/ \E r \in Roots : StartRoot(r)
        \/ \E r \in Runs : DecideAndDrive(r) \/ CancelRun(r) \/ GatePasses(r)
        \/ \E c \in Children : DriveChild(c) \/ DriverDies(c) \/ WaitPasses(c)
  BY DEF Next
<1> QED
  BY <1>1, <1>2, <1>3, <1>4, <1>5, <1>6, <1>7

\* The inductive invariant.  What no row of the ledger stands for yet is waited for by
\* the run that delegated it, or that run was cancelled; a run waits for a child of its
\* own, with a row; a child in the hands of its spawner has neither stopped nor
\* delegated; every query of a sweep selects rows of children that were started.
THEOREM FamiliesStayTogether == Spec => []Inv
<1>1. Init => Inv
  BY InitFits
<1>2. Inv /\ [Next]_vars => Inv'
  BY StepFits
<1>3. Spec => Init /\ [][Next]_vars
  BY PTL DEF Spec
<1> QED
  BY <1>1, <1>2, <1>3, PTL

\* Types: of child_runs, run_snapshots and run_cancellations, and of the offsets.
\* No run is left in the middle of a handler, whatever row the handler met.
THEOREM TypeCorrect == Spec => []TypeOK
<1>1. Inv => TypeOK
  <2> SUFFICES ASSUME Inv PROVE TypeOK
    OBVIOUS
  <2>1. Fit(db, {}) /\ db \in Tables
    BY DEF Inv, Fit
  <2>2. db.snap \in [Runs -> TerminalRuns \cup {"none", "gated", "waiting"}]
    BY <2>1 DEF Fit, ParkedFit, Tables, Statuses
  <2>3. \A r \in Runs : db.waits[r] # None <=> db.snap[r] = "waiting"
    BY <2>1 DEF Fit, WaitsFit
  <2>4. \A c \in Children : db.row[c].status \in TerminalRuns \cup {"none", "created"}
    BY <2>1 DEF Tables, RowRecord
  <2>5. db.intent \in [Runs -> {{}, {"asked"}, {"asked", "settled"}, {"asked", "abandoned"},
                                {"asked", "settled", "abandoned"}}]
    <3>1. ASSUME NEW i \in Intents
          PROVE  i \in {{}, {"asked"}, {"asked", "settled"}, {"asked", "abandoned"},
                        {"asked", "settled", "abandoned"}}
      <4>1. \A x \in i : x = "asked" \/ x = "settled" \/ x = "abandoned"
        BY DEF Intents
      <4>2. i = {} \/ "asked" \in i
        BY DEF Intents
      <4>3. CASE i = {}
        BY <4>3
      <4>4. CASE "asked" \in i /\ "settled" \in i /\ "abandoned" \in i
        <5>1. i = {"asked", "settled", "abandoned"}
          BY <4>1, <4>4
        <5> QED
          BY <5>1
      <4>5. CASE "asked" \in i /\ "settled" \in i /\ "abandoned" \notin i
        <5>1. i = {"asked", "settled"}
          BY <4>1, <4>5
        <5> QED
          BY <5>1
      <4>6. CASE "asked" \in i /\ "settled" \notin i /\ "abandoned" \in i
        <5>1. i = {"asked", "abandoned"}
          BY <4>1, <4>6
        <5> QED
          BY <5>1
      <4>7. CASE "asked" \in i /\ "settled" \notin i /\ "abandoned" \notin i
        <5>1. i = {"asked"}
          BY <4>1, <4>7
        <5> QED
          BY <5>1
      <4> QED
        BY <4>2, <4>3, <4>4, <4>5, <4>6, <4>7
    <3>2. db.intent \in [Runs -> Intents]
      BY <2>1 DEF Tables
    <3> QED
      BY <3>1, <3>2
  <2>6. ToSet(db.queue) = {r \in Runs : IsPending(db, r)}
    BY <2>1 DEF Fit, QueueFit
  <2>7. committed <= position /\ position <= Len(log)
    BY DEF Inv, OffsetsFit
  <2> QED
    BY <2>2, <2>3, <2>4, <2>5, <2>6, <2>7 DEF TypeOK
<1> QED
  BY <1>1, FamiliesStayTogether, PTL

\* R-10: an intent to cancel a run is settled only when the run has stopped, whoever
\* cancels it and in whatever state the sweep finds it.
THEOREM SettledRunsHaveStopped == Spec => []SettledMeansStopped
<1>1. Inv => SettledMeansStopped
  BY DEF Inv, Fit, SettledFit, SettledMeansStopped
<1> QED
  BY <1>1, FamiliesStayTogether, PTL

\* D-12, D-13, R-12: a delegation that is closed, in whatever way and by whichever of
\* the loops that close it, is in the ledger, and nobody waits for it.
THEOREM ClosedDelegationsAreAccounted == Spec => []ClosedIsAccounted
<1>1. Inv => ClosedIsAccounted
  BY DEF Inv, Fit, ClosedFit, IsClosed, ClosedIsAccounted
<1> QED
  BY <1>1, FamiliesStayTogether, PTL
=============================================================================
