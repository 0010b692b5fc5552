-------------------------- MODULE ControlPlaneProofs --------------------------
(***************************************************************************)
(* Proofs about ControlPlane for any number of processes, keys, calls and   *)
(* restarts, and of calls that a process handles at a time.                 *)
(***************************************************************************)
EXTENDS ControlPlane, TLAPS

-----------------------------------------------------------------------------
(* The inductive invariant. *)

Phases == {"unsent", "received", "starting", "cancelling", "driving", "answering", "answered", "lost"}

CallRecord ==
    [phase : Phases, op : {"start", "chat", "drive", "cancel"},
     at : Processes \cup {"nowhere"}, key : Keys \cup {"no key"}, mark : Bodies \cup {"none"},
     run : Runs \cup {NoRun}, known : BOOLEAN, fresh : BOOLEAN, code : Nat, status : Statuses]

KeyRecord ==
    [mark : Bodies \cup {"none"}, run : Runs \cup {NoRun}, status : Statuses, by : Runs \cup {NoRun}]

Written ==
    [keys : SUBSET [scope : Scoped, record : KeyRecord],
     saved : SUBSET [run : Runs, status : Statuses], asked : SUBSET Runs]

TypeOK ==
    /\ calls \in [Calls -> CallRecord]
    /\ memory \in [Processes -> [Runs -> Statuses]]
    /\ pending \in [Processes -> Written]
    /\ keys \in [Scoped -> KeyRecord]
    /\ saved \in [Runs -> Statuses]
    /\ aborted \subseteq Processes /\ asked \subseteq Runs /\ faults \in Nat
    /\ around \in [Calls -> SUBSET {"loss", "commit"}]

\* A call that was sent names its process and its key, and the run it is about.
CallOK(call) ==
    /\ call.phase \notin {"unsent", "lost"} => call.at \in Processes /\ call.key \in Keys
    /\ call.phase \in {"driving", "cancelling"} => call.run \in Runs
    /\ call.phase = "received" /\ ~Starts(call) => call.run \in Runs
    /\ call.phase = "starting" => Starts(call)
    /\ call.phase = "driving" => call.op # "cancel" /\ call.op # "start"
    /\ call.phase = "cancelling" => call.op = "cancel"

\* What the connection of p sees for s.
Sees(p, s) == keys[s] # NoRecord \/ \E w \in pending[p].keys : w.scope = s

\* A key that is written and not committed belongs to a call that its process
\* handles, and that call cannot end in a refusal any more.
MayCommit(p, call) ==
    /\ call.at = p
    /\ \/ call.phase = "driving" /\ call.op = "chat" /\ memory[p][call.run] # "absent"
       \/ call.phase = "answering" /\ call.code \in {200, 201, 500}

WritesOK ==
    \A p \in Processes : \A w \in pending[p].keys :
        w.record.run \in Runs /\ w.record.by \in Calls /\ MayCommit(p, calls[w.record.by])

\* It is not in the table, and no other process has written it.
UniqueOK ==
    \A p \in Processes : \A w \in pending[p].keys : keys[w.scope] = NoRecord /\ MayPut(p, w.scope)

\* A key that is committed belongs to a call that was told it had succeeded, or
\* another call of its process committed it.
TableOK ==
    \A s \in Scoped : keys[s] # NoRecord =>
        /\ keys[s].run \in Runs /\ keys[s].by \in Calls
        /\ \/ calls[keys[s].by].phase = "answered" /\ Succeeded(calls[keys[s].by])
           \/ "commit" \in around[keys[s].by]

\* A call that is going to succeed sees its key, and one that has succeeded has left
\* it, unless another call lost their transaction.  One that came after the key was
\* recorded has the run of the record.
GoesWell(call) ==
    \/ call.phase = "driving" /\ call.op = "chat"
    \/ call.phase = "answering" /\ Succeeded(call) /\ IsKeyed(call)

WentWell(call) == call.phase = "answered" /\ Succeeded(call) /\ IsKeyed(call)

PromiseOK(call, met) ==
    /\ GoesWell(call) /\ "loss" \notin met => Sees(call.at, ScopeOf(call))
    /\ WentWell(call) /\ "loss" \notin met => keys[ScopeOf(call)] # NoRecord
    /\ call.known /\ Starts(call) /\ (GoesWell(call) \/ WentWell(call)) => call.run = keys[ScopeOf(call)].run

\* A key that was there when the call came is still there, and the call did not begin.
KnownOK(call) ==
    call.known => /\ IsKeyed(call) /\ call.key \in Keys
                  /\ keys[ScopeOf(call)] # NoRecord /\ ~call.fresh /\ call.phase # "starting"

Inv ==
    /\ TypeOK /\ WritesOK /\ UniqueOK /\ TableOK
    /\ \A c \in Calls : CallOK(calls[c]) /\ PromiseOK(calls[c], around[c]) /\ KnownOK(calls[c])

-----------------------------------------------------------------------------
(* Lemmas. *)

\* A record that is not NoRecord is read exactly where one is seen.
LEMMA RecordIsSeen ==
    ASSUME TypeOK, WritesOK, UniqueOK, TableOK, NEW p \in Processes, NEW s \in Scoped
    PROVE  /\ Record(p, s) \in KeyRecord
           /\ Record(p, s) # NoRecord <=> Sees(p, s)
           /\ Record(p, s) # NoRecord => Record(p, s).run \in Runs
           /\ Record(p, s) = keys[s] \/ \E w \in pending[p].keys : w.scope = s /\ Record(p, s) = w.record
           /\ keys[s] # NoRecord => Record(p, s) = keys[s]
<1> DEFINE own == {w \in pending[p].keys : w.scope = s}
<1>1. \A w \in pending[p].keys : w.record \in KeyRecord /\ w.record.run \in Runs
  BY DEF TypeOK, Written, WritesOK
<1>2. \A w \in pending[p].keys : w.record # NoRecord
  <2> SUFFICES ASSUME NEW w \in pending[p].keys PROVE w.record # NoRecord OBVIOUS
  <2>1. w.record.run \in Runs BY <1>1
  <2>2. NoRecord.run = 0 BY DEF NoRecord, NoRun
  <2>3. 0 \notin Runs BY DEF Runs, Calls
  <2> QED BY <2>1, <2>2, <2>3
<1>3. keys[s] \in KeyRecord BY DEF TypeOK
<1>4. CASE own = {}
  <2>1. Record(p, s) = keys[s] BY <1>4 DEF Record
  <2>2. ~\E w \in pending[p].keys : w.scope = s BY <1>4
  <2> QED BY <2>1, <2>2, <1>3 DEF Sees, TableOK
<1>5. CASE own # {}
  <2> DEFINE v == CHOOSE w \in own : TRUE
  <2>1. v \in own BY <1>5
  <2>2. Record(p, s) = v.record BY <1>5 DEF Record
  <2> HIDE DEF v
  <2>3. v \in pending[p].keys /\ v.scope = s BY <2>1
  <2>4. keys[s] = NoRecord BY <2>3 DEF UniqueOK
  <2> QED BY <2>2, <2>3, <2>4, <1>1, <1>2 DEF Sees
<1> QED BY <1>4, <1>5

\* A key's scope is one of the table's.
LEMMA ScopeIsScoped ==
    ASSUME NEW call, call.key \in Keys
    PROVE  ScopeOf(call) \in Scoped
BY DEF ScopeOf, Scoped

\* What a connection sees of a snapshot is a status.
LEMMA SnapshotType ==
    ASSUME TypeOK, NEW p \in Processes, NEW r \in Runs
    PROVE  Snapshot(p, r) \in Statuses
<1> DEFINE own == {w \in pending[p].saved : w.run = r}
<1>1. \A w \in own : w.status \in Statuses BY DEF TypeOK, Written
<1>2. saved[r] \in Statuses BY DEF TypeOK
<1>3. CASE own = {} BY <1>3, <1>2 DEF Snapshot
<1>4. CASE own # {}
  <2>1. (CHOOSE w \in own : TRUE) \in own BY <1>4
  <2>2. Snapshot(p, r) = (CHOOSE w \in own : TRUE).status BY <1>4 DEF Snapshot
  <2> QED BY <2>1, <2>2, <1>1
<1> QED BY <1>3, <1>4

\* A run in memory is used as it is; a rebuilt one is open.
LEMMA StackType ==
    ASSUME TypeOK, NEW p \in Processes, NEW r \in Runs
    PROVE  /\ Stack(p, r) \in Statuses \cup {"not rebuilt"}
           /\ memory[p][r] # "absent" => Stack(p, r) = memory[p][r]
<1>1. memory[p][r] \in Statuses BY DEF TypeOK
<1>2. Snapshot(p, r) \in Statuses BY SnapshotType
<1>3. CASE memory[p][r] # "absent" BY <1>1, <1>3 DEF Stack
<1>4. CASE memory[p][r] = "absent" /\ Snapshot(p, r) \in Ended BY <1>4 DEF Stack
<1>5. CASE memory[p][r] = "absent" /\ Snapshot(p, r) \notin Ended BY <1>5, <1>2 DEF Stack
<1> QED BY <1>3, <1>4, <1>5

-----------------------------------------------------------------------------
(* The steps of one call.  Each moves one call on, leaves the table alone, *)
(* forgets no run of any process, no write of any connection without the   *)
(* calls that are served there being marked, and adds only writes that     *)
(* nobody else has made and the call itself may still commit.              *)

\* What an action may do to the call it is about,
Moves(c) ==
    /\ calls' \in [Calls -> CallRecord] /\ \A d \in Calls \ {c} : calls'[d] = calls[d]
    /\ Served(calls[c]) /\ Served(calls[c])'
    /\ calls'[c].at = calls[c].at /\ calls'[c].op = calls[c].op
    /\ calls'[c].key = calls[c].key /\ calls'[c].known = calls[c].known
    /\ calls[c].known => ~calls'[c].fresh /\ calls'[c].phase # "starting"
    /\ CallOK(calls[c])'

\* to what is known of a transaction,
Notes ==
    /\ UNCHANGED <<keys, saved, asked>> /\ aborted' \subseteq Processes /\ faults' \in Nat
    /\ around' \in [Calls -> SUBSET {"loss", "commit"}]
    /\ \A d \in Calls : around[d] \subseteq around'[d]

\* to the writes of a connection,
KeepsWrites(c) ==
    \A q \in Processes : \A w \in pending[q].keys :
        \/ w \in pending'[q].keys
        \/ \A d \in Calls \ {c} : calls[d].at = q /\ Served(calls[d]) => "loss" \in around'[d]

\* and to what the processes and their connections hold.
Stores(c) ==
    /\ memory' \in [Processes -> [Runs -> Statuses]] /\ pending' \in [Processes -> Written]
    /\ Notes /\ KeepsWrites(c)
    /\ \A q \in Processes, r \in Runs : memory[q][r] # "absent" => memory'[q][r] # "absent"
    /\ \A q \in Processes : \A w \in pending'[q].keys :
          /\ w \in pending[q].keys \/ (w.record.by = c /\ keys[w.scope] = NoRecord /\ MayPut(q, w.scope))
          /\ w.record.by = c => w.record.run \in Runs /\ MayCommit(q, calls[c])'

\* A step that moves one call, stores what it may and keeps the call's promise keeps the invariant.
LEMMA ServingStep ==
    ASSUME Inv, NEW c \in Calls, Moves(c), Stores(c), PromiseOK(calls[c], around[c])'
    PROVE  Inv'
<1> USE DEF Moves, Stores
<1>1. /\ calls \in [Calls -> CallRecord] /\ calls' \in [Calls -> CallRecord]
      /\ \A d \in Calls \ {c} : calls'[d] = calls[d]
  BY DEF Inv, TypeOK
<1>2. TypeOK' BY <1>1 DEF Inv, TypeOK, Notes
<1>3. UniqueOK'
  <2>1. ASSUME NEW q \in Processes, NEW w \in pending'[q].keys
        PROVE  keys[w.scope] = NoRecord /\ MayPut(q, w.scope)
    BY DEF Inv, UniqueOK
  <2>2. ASSUME NEW q \in Processes, NEW w \in pending'[q].keys, w \notin pending[q].keys
        PROVE  q = calls[c].at
    BY <2>2 DEF MayCommit
  <2>3. ASSUME NEW q \in Processes, NEW w \in pending'[q].keys,
               NEW o \in Processes \ {q}, NEW v \in pending'[o].keys, v.scope = w.scope
        PROVE  FALSE
    <3>1. MayPut(q, w.scope) /\ MayPut(o, w.scope) BY <2>1, <2>3
    <3>2. v \notin pending[o].keys BY <3>1, <2>3 DEF MayPut
    <3>3. w \notin pending[q].keys BY <3>1, <2>3 DEF MayPut
    <3> QED BY <2>2, <3>2, <3>3
  <2> QED BY <2>1, <2>3 DEF UniqueOK, MayPut, Notes
<1>4. WritesOK'
  <2> SUFFICES ASSUME NEW q \in Processes, NEW w \in pending'[q].keys
               PROVE  w.record.run \in Runs /\ w.record.by \in Calls /\ MayCommit(q, calls[w.record.by])'
    BY DEF WritesOK
  <2>1. CASE w.record.by # c
    <3>1. w.record.run \in Runs /\ w.record.by \in Calls /\ MayCommit(q, calls[w.record.by])
      BY <2>1 DEF Inv, WritesOK
    <3>2. calls'[w.record.by] = calls[w.record.by] BY <1>1, <2>1, <3>1
    <3>3. calls[w.record.by].phase = "driving" => calls[w.record.by].run \in Runs
      BY <3>1 DEF Inv, CallOK
    <3> QED BY <3>1, <3>2, <3>3 DEF MayCommit
  <2>2. CASE w.record.by = c
    BY <2>2, <1>1 DEF MayCommit
  <2> QED BY <2>1, <2>2
<1>5. TableOK'
  <2> SUFFICES ASSUME NEW s \in Scoped, keys[s] # NoRecord
               PROVE  /\ keys[s].run \in Runs /\ keys[s].by \in Calls
                      /\ \/ calls'[keys[s].by].phase = "answered" /\ Succeeded(calls'[keys[s].by])
                         \/ "commit" \in around'[keys[s].by]
    BY DEF TableOK, Succeeded, Notes
  <2>1. /\ keys[s].run \in Runs /\ keys[s].by \in Calls
        /\ \/ calls[keys[s].by].phase = "answered" /\ Succeeded(calls[keys[s].by])
           \/ "commit" \in around[keys[s].by]
    BY DEF Inv, TableOK
  <2>2. CASE "commit" \in around[keys[s].by] BY <2>1, <2>2 DEF Notes
  <2>3. CASE calls[keys[s].by].phase = "answered" /\ Succeeded(calls[keys[s].by])
    <3>1. keys[s].by # c BY <2>3 DEF Served
    <3> QED BY <2>1, <2>3, <3>1, <1>1
  <2> QED BY <2>1, <2>2, <2>3
<1>6. ASSUME NEW d \in Calls PROVE CallOK(calls[d])' /\ PromiseOK(calls[d], around[d])' /\ KnownOK(calls[d])'
  <2>1. CallOK(calls[d]) /\ PromiseOK(calls[d], around[d]) /\ KnownOK(calls[d]) BY DEF Inv
  <2>2. CASE d = c
    <3>1. ScopeOf(calls[c])' = ScopeOf(calls[c]) /\ IsKeyed(calls[c])' = IsKeyed(calls[c])
      BY DEF ScopeOf, IsKeyed
    <3>2. KnownOK(calls[d])' BY <2>1, <2>2, <3>1 DEF KnownOK, Notes
    <3> QED BY <2>2, <3>2
  <2>3. CASE d # c
    <3>1. calls'[d] = calls[d] BY <2>3, <1>1
    <3>2. CallOK(calls[d])' BY <2>1, <3>1 DEF CallOK, Starts
    <3>3. KnownOK(calls[d])' BY <2>1, <3>1 DEF KnownOK, ScopeOf, IsKeyed, Notes
    <3>4. ASSUME NEW s, Served(calls[d]), calls[d].at \in Processes, Sees(calls[d].at, s), "loss" \notin around'[d]
          PROVE  keys[s] # NoRecord \/ \E w \in pending'[calls[d].at].keys : w.scope = s
      BY <2>3, <3>4 DEF Sees, KeepsWrites
    <3>5. GoesWell(calls[d]) => calls[d].at \in Processes /\ Served(calls[d]) BY <2>1 DEF CallOK, GoesWell, Served
    <3>6. "loss" \notin around'[d] => "loss" \notin around[d] BY DEF Notes
    <3>7. PromiseOK(calls[d], around'[d]) /\ (GoesWell(calls[d]) /\ "loss" \notin around'[d] =>
             keys[ScopeOf(calls[d])] # NoRecord \/ \E w \in pending'[calls[d].at].keys : w.scope = ScopeOf(calls[d]))
      BY <2>1, <3>4, <3>5, <3>6 DEF PromiseOK
    <3>8. keys' = keys BY DEF Notes
    <3>9. PromiseOK(calls[d], around[d])'
      BY <3>1, <3>7, <3>8 DEF PromiseOK, ScopeOf, IsKeyed, Succeeded, GoesWell, WentWell, Starts, Sees
    <3> QED BY <3>2, <3>3, <3>9
  <2> QED BY <2>2, <2>3
<1> QED BY <1>2, <1>3, <1>4, <1>5, <1>6 DEF Inv

\* What the facts of the invariant say about one call.
LEMMA CallFacts ==
    ASSUME Inv, NEW c \in Calls
    PROVE  /\ calls[c] \in CallRecord
           /\ CallOK(calls[c]) /\ PromiseOK(calls[c], around[c]) /\ KnownOK(calls[c])
           /\ calls[c].phase \notin {"unsent", "lost"} =>
                 /\ calls[c].at \in Processes /\ calls[c].key \in Keys /\ ScopeOf(calls[c]) \in Scoped
           /\ calls[c].phase \notin {"driving", "answering"} =>
                 \A q \in Processes : \A w \in pending[q].keys : w.record.by # c
BY ScopeIsScoped DEF Inv, TypeOK, CallOK, WritesOK, MayCommit

\* What a call does to the transaction, every other one that is served there meets.
LEMMA MeetNotes ==
    ASSUME Inv, NEW c \in Calls, NEW what \in {"loss", "commit"}, Meet(c, what)
    PROVE  /\ around' \in [Calls -> SUBSET {"loss", "commit"}]
           /\ \A d \in Calls : around[d] \subseteq around'[d]
           /\ \A d \in Calls \ {c} : calls[d].at = calls[c].at /\ Served(calls[d]) => what \in around'[d]
           /\ \A d \in Calls : (around'[d] \ around[d]) \subseteq {what}
BY DEF Meet, Inv, TypeOK

\* Answering a call.
LEMMA AnswerMoves ==
    ASSUME Inv, NEW c \in Calls, Served(calls[c]), NEW call \in CallRecord, NEW code \in Nat,
           Answers(c, call, code), call.at = calls[c].at, call.op = calls[c].op, call.key = calls[c].key,
           call.known = calls[c].known, calls[c].known => ~call.fresh
    PROVE  Moves(c) /\ calls'[c].phase = "answering" /\ calls'[c].code = code /\ calls'[c].run = call.run
<1> DEFINE new == [call EXCEPT !.phase = "answering", !.code = code]
<1>1. calls' = [calls EXCEPT ![c] = new] BY DEF Answers
<1>2. /\ new \in CallRecord /\ new.phase = "answering" /\ new.code = code /\ new.at = call.at
      /\ new.op = call.op /\ new.key = call.key /\ new.known = call.known /\ new.fresh = call.fresh
      /\ new.run = call.run
  BY DEF CallRecord, Phases
<1> HIDE DEF new
<1>3. calls' \in [Calls -> CallRecord] /\ calls'[c] = new /\ \A d \in Calls \ {c} : calls'[d] = calls[d]
  BY <1>1, <1>2 DEF Inv, TypeOK
<1>4. calls[c].at \in Processes /\ calls[c].key \in Keys BY CallFacts DEF Served
<1>5. CallOK(calls[c])' BY <1>2, <1>3, <1>4 DEF CallOK
<1>6. Served(calls[c])' BY <1>2, <1>3 DEF Served
<1> QED BY <1>2, <1>3, <1>5, <1>6 DEF Moves

\* Going on with a call.
LEMMA WaitMoves ==
    ASSUME Inv, NEW c \in Calls, Served(calls[c]), NEW call \in CallRecord, NEW phase \in Phases,
           Waits(c, call, phase), call.at = calls[c].at, call.op = calls[c].op, call.key = calls[c].key,
           call.known = calls[c].known, calls[c].known => ~call.fresh /\ phase # "starting",
           \/ phase = "starting" /\ Starts(call)
           \/ phase = "driving" /\ call.op \notin {"cancel", "start"} /\ call.run \in Runs
           \/ phase = "cancelling" /\ call.op = "cancel" /\ call.run \in Runs
    PROVE  Moves(c) /\ calls'[c].phase = phase /\ calls'[c].run = call.run
<1> DEFINE new == [call EXCEPT !.phase = phase]
<1>1. calls' = [calls EXCEPT ![c] = new] BY DEF Waits
<1>2. /\ new \in CallRecord /\ new.phase = phase /\ new.run = call.run /\ new.at = call.at
      /\ new.op = call.op /\ new.key = call.key /\ new.known = call.known /\ new.fresh = call.fresh
  BY DEF CallRecord
<1> HIDE DEF new
<1>3. calls' \in [Calls -> CallRecord] /\ calls'[c] = new /\ \A d \in Calls \ {c} : calls'[d] = calls[d]
  BY <1>1, <1>2 DEF Inv, TypeOK
<1>4. calls[c].at \in Processes /\ calls[c].key \in Keys BY CallFacts DEF Served
<1>5. CallOK(calls[c])' BY <1>2, <1>3, <1>4 DEF CallOK, Starts
<1>6. Served(calls[c])' BY <1>2, <1>3 DEF Served
<1> QED BY <1>2, <1>3, <1>5, <1>6 DEF Moves

\* A call that has written nothing and writes nothing now.
LEMMA StoresNothing ==
    ASSUME Inv, NEW c \in Calls, calls[c].phase \notin {"driving", "answering"},
           UNCHANGED <<memory, pending, aborted, keys, saved, asked, around, faults>>
    PROVE  Stores(c)
BY CallFacts DEF Stores, Notes, KeepsWrites, Inv, TypeOK

\* A reused key is refused: nothing else changes.
LEMMA RefuseReusedStep ==
    ASSUME Inv, NEW c \in Calls, RefuseReused(c)
    PROVE  Inv'
<1>1. calls[c].phase = "received" /\ UNCHANGED <<memory, pending, aborted, keys, saved, asked, around, faults>>
  BY DEF RefuseReused
<1>2. PICK code \in Nat : code = 422 OBVIOUS
<1>3. Answers(c, calls[c], code) BY <1>2 DEF RefuseReused
<1>4. Moves(c) /\ calls'[c].phase = "answering" /\ calls'[c].code = code
  BY <1>1, <1>3, CallFacts, AnswerMoves DEF Served, KnownOK
<1>5. PromiseOK(calls[c], around[c])' BY <1>2, <1>4 DEF PromiseOK, GoesWell, WentWell, Succeeded
<1> QED BY <1>1, <1>4, <1>5, StoresNothing, ServingStep

\* A recorded start is answered with its run, which the process has from now
\* on, or with a conflict; a recorded chat goes on to drive that run.
LEMMA ReplayStartStep ==
    ASSUME Inv, NEW c \in Calls, ReplayStart(c)
    PROVE  Inv'
<1> DEFINE call == calls[c]
           p == call.at
           s == ScopeOf(call)
           r == Record(p, s).run
           stack == Stack(p, r)
           found == [call EXCEPT !.run = r]
           told == [found EXCEPT !.status = stack]
<1>1. /\ call.phase = "received" /\ Starts(call) /\ Record(p, s) # NoRecord
      /\ UNCHANGED <<pending, aborted, keys, saved, asked, around, faults>>
  BY DEF ReplayStart
<1>2. call \in CallRecord /\ p \in Processes /\ s \in Scoped /\ Served(call) /\ (call.known => ~call.fresh)
  BY <1>1, CallFacts DEF Served, KnownOK
<1>3. r \in Runs /\ Sees(p, s) BY <1>1, <1>2, RecordIsSeen DEF Inv
<1> HIDE DEF r
<1>6. call.known => r = keys[s].run
  <2>1. keys[s] # NoRecord => Record(p, s) = keys[s] BY <1>2, RecordIsSeen DEF Inv
  <2> QED BY <2>1, CallFacts DEF KnownOK, r
<1> USE DEF r
<1>4. CASE ReplayMissing(call, stack)
  <2>1. PICK code \in Nat : code = 409 OBVIOUS
  <2>2. Answers(c, call, code) /\ UNCHANGED memory BY <1>4, <2>1 DEF ReplayStart
  <2>3. Moves(c) /\ calls'[c].phase = "answering" /\ calls'[c].code = code
    BY <1>2, <2>2, AnswerMoves
  <2>4. PromiseOK(calls[c], around[c])' BY <2>1, <2>3 DEF PromiseOK, GoesWell, WentWell, Succeeded
  <2> QED BY <1>1, <2>2, <2>3, <2>4, StoresNothing, ServingStep
<1>5. CASE ~ReplayMissing(call, stack)
  <2>1. memory' = [memory EXCEPT ![p][r] = stack] BY <1>5 DEF ReplayStart, Rebuilt
  <2>2. stack \in Statuses /\ stack # "absent" BY <1>2, <1>3, <1>5, StackType DEF Inv, ReplayMissing
  <2>3. Stores(c)
    <3>1. memory \in [Processes -> [Runs -> Statuses]] /\ pending \in [Processes -> Written] BY DEF Inv, TypeOK
    <3>2. \A q \in Processes : \A w \in pending[q].keys : w.record.by # c BY <1>1, CallFacts
    <3>5. Notes /\ KeepsWrites(c) BY <1>1 DEF Notes, KeepsWrites, Inv, TypeOK
    <3> HIDE DEF stack, r
    <3>3. memory' \in [Processes -> [Runs -> Statuses]] BY <1>2, <1>3, <2>1, <2>2, <3>1
    <3>4. \A q \in Processes, i \in Runs : memory[q][i] # "absent" => memory'[q][i] # "absent"
      BY <1>2, <1>3, <2>1, <2>2, <3>1
    <3> QED BY <1>1, <3>1, <3>2, <3>3, <3>4, <3>5 DEF Stores
  <2>4. /\ found \in CallRecord /\ found.at = p /\ found.key = call.key /\ found.op = call.op
        /\ found.known = call.known /\ found.fresh = call.fresh /\ found.run = r
    <3> HIDE DEF r
    <3> QED BY <1>2, <1>3 DEF CallRecord
  <2>5. /\ told \in CallRecord /\ told.at = p /\ told.key = call.key /\ told.op = call.op
        /\ told.known = call.known /\ told.fresh = call.fresh /\ told.run = r
    <3> HIDE DEF found, stack, r
    <3> QED BY <2>4, <2>2 DEF CallRecord
  <2>6. CASE call.op = "chat"
    <3>1. Waits(c, found, "driving") BY <1>5, <2>6 DEF ReplayStart
    <3> HIDE DEF found, r
    <3>2. Moves(c) /\ calls'[c].phase = "driving" /\ calls'[c].run = r
      BY <1>2, <1>3, <2>4, <2>6, <3>1, WaitMoves DEF Phases
    <3>3. PromiseOK(calls[c], around[c])'
      BY <1>1, <1>3, <1>6, <3>2 DEF PromiseOK, GoesWell, WentWell, Sees, ScopeOf, Moves
    <3> QED BY <2>3, <3>2, <3>3, ServingStep
  <2>7. CASE call.op # "chat"
    <3>1. PICK code \in Nat : code = 200 OBVIOUS
    <3>2. Answers(c, told, code) BY <1>5, <2>7, <3>1 DEF ReplayStart
    <3> HIDE DEF told, found, stack, r
    <3>3. Moves(c) /\ calls'[c].phase = "answering" /\ calls'[c].run = r
      BY <1>2, <2>5, <3>2, AnswerMoves
    <3>4. PromiseOK(calls[c], around[c])'
      BY <1>1, <1>3, <1>6, <3>3 DEF PromiseOK, GoesWell, WentWell, Sees, ScopeOf, Moves
    <3> QED BY <2>3, <3>3, <3>4, ServingStep
  <2> QED BY <2>6, <2>7
<1> QED BY <1>4, <1>5

\* A recorded cancel is answered with the view that was recorded.
LEMMA ReplayCancelStep ==
    ASSUME Inv, NEW c \in Calls, ReplayCancel(c)
    PROVE  Inv'
<1> DEFINE call == calls[c]
           p == call.at
           s == ScopeOf(call)
           told == [call EXCEPT !.status = Record(p, s).status]
<1>1. /\ call.phase = "received" /\ call.op = "cancel" /\ Record(p, s) # NoRecord
      /\ UNCHANGED <<memory, pending, aborted, keys, saved, asked, around, faults>>
  BY DEF ReplayCancel
<1>2. call \in CallRecord /\ p \in Processes /\ s \in Scoped /\ Served(call) /\ (call.known => ~call.fresh)
  BY <1>1, CallFacts DEF Served, KnownOK
<1>3. Record(p, s) \in KeyRecord /\ Sees(p, s) BY <1>1, <1>2, RecordIsSeen DEF Inv
<1>4. PICK code \in Nat : code = 200 OBVIOUS
<1>5. Answers(c, told, code) BY <1>4 DEF ReplayCancel
<1>6. /\ told \in CallRecord /\ told.at = p /\ told.key = call.key /\ told.op = call.op
      /\ told.known = call.known /\ told.fresh = call.fresh
  BY <1>2, <1>3 DEF CallRecord, KeyRecord
<1> HIDE DEF told
<1>7. Moves(c) /\ calls'[c].phase = "answering" BY <1>2, <1>5, <1>6, AnswerMoves
<1>8. PromiseOK(calls[c], around[c])'
  BY <1>1, <1>3, <1>7 DEF PromiseOK, GoesWell, WentWell, Sees, ScopeOf, Moves, Starts
<1> QED BY <1>1, <1>7, <1>8, StoresNothing, ServingStep

\* A call begins only without a record, so its key was not there when it came.
LEMMA BeginStep ==
    ASSUME Inv, NEW c \in Calls, Begin(c)
    PROVE  Inv'
<1> DEFINE call == calls[c]
           begun == [call EXCEPT !.fresh = IsKeyed(call)]
           next == IF Starts(call) THEN "starting" ELSE IF call.op = "cancel" THEN "cancelling" ELSE "driving"
<1>1. /\ call.phase = "received" /\ (IsKeyed(call) => Reaches(call) /\ Begins(call)) /\ Waits(c, begun, next)
      /\ UNCHANGED <<memory, pending, aborted, keys, saved, asked, around, faults>>
  BY DEF Begin
<1>2. /\ call \in CallRecord /\ call.at \in Processes /\ ScopeOf(call) \in Scoped /\ Served(call)
      /\ (~Starts(call) => call.run \in Runs)
  BY <1>1, CallFacts DEF Served, CallOK
<1>3. ~call.known
  <2>1. call.known => Sees(call.at, ScopeOf(call)) /\ IsKeyed(call) BY CallFacts DEF KnownOK, Sees
  <2>2. Record(call.at, ScopeOf(call)) # NoRecord <=> Sees(call.at, ScopeOf(call))
    BY <1>2, RecordIsSeen DEF Inv
  <2> QED BY <1>1, <2>1, <2>2 DEF Begins
<1>4. /\ begun \in CallRecord /\ begun.at = call.at /\ begun.key = call.key /\ begun.op = call.op
      /\ begun.known = call.known /\ begun.run = call.run
  BY <1>2 DEF CallRecord, IsKeyed
<1>5. call.op \in {"start", "chat", "drive", "cancel"} BY <1>2 DEF CallRecord
<1>6. /\ next \in Phases
      /\ \/ next = "starting" /\ Starts(begun)
         \/ next = "driving" /\ begun.op \notin {"cancel", "start"} /\ begun.run \in Runs
         \/ next = "cancelling" /\ begun.op = "cancel" /\ begun.run \in Runs
  BY <1>2, <1>4, <1>5 DEF Phases, Starts
<1> HIDE DEF begun
<1>7. Moves(c) /\ calls'[c].phase = next BY <1>1, <1>2, <1>3, <1>4, <1>6, WaitMoves
<1>8. PromiseOK(calls[c], around[c])' BY <1>3, <1>7 DEF PromiseOK, GoesWell, WentWell, Starts, Moves
<1> QED BY <1>1, <1>7, <1>8, StoresNothing, ServingStep

\* Putting a key keeps the other writes, and from then on the connection sees it.
LEMMA PutFacts ==
    ASSUME Inv, NEW p \in Processes, NEW s \in Scoped, NEW record \in KeyRecord
    PROVE  /\ Put(p, s, record) \subseteq [scope : Scoped, record : KeyRecord]
           /\ \A w \in pending[p].keys : w \in Put(p, s, record)
           /\ \A w \in Put(p, s, record) :
                 w \in pending[p].keys \/ (w.record = record /\ w.scope = s /\ keys[s] = NoRecord)
           /\ keys[s] # NoRecord \/ \E w \in Put(p, s, record) : w.scope = s
<1> DEFINE w == [scope |-> s, record |-> record]
<1>1. pending[p].keys \subseteq [scope : Scoped, record : KeyRecord] BY DEF Inv, TypeOK, Written
<1>2. CASE Record(p, s) # NoRecord
  <2>1. Put(p, s, record) = pending[p].keys BY <1>2 DEF Put
  <2>2. Sees(p, s) BY <1>2, RecordIsSeen DEF Inv
  <2> QED BY <1>1, <2>1, <2>2 DEF Sees
<1>3. CASE Record(p, s) = NoRecord
  <2>1. Put(p, s, record) = pending[p].keys \cup {w} BY <1>3 DEF Put
  <2>2. w \in [scope : Scoped, record : KeyRecord] /\ w.scope = s /\ w.record = record OBVIOUS
  <2>3. keys[s] = NoRecord BY <1>3, RecordIsSeen DEF Inv, Sees
  <2> HIDE DEF w
  <2> QED BY <1>1, <2>1, <2>2, <2>3
<1> QED BY <1>2, <1>3

\* Saving a snapshot adds a status to the connection's writes.
LEMMA SavingType ==
    ASSUME Inv, NEW p \in Processes, NEW r \in Runs, NEW status \in Statuses
    PROVE  Saving(p, r, status) \in SUBSET [run : Runs, status : Statuses]
BY DEF Saving, Inv, TypeOK, Written

\* A start writes its key with the run it opens.
LEMMA StartStep ==
    ASSUME Inv, NEW c \in Calls, Start(c)
    PROVE  Inv'
<1> DEFINE call == calls[c]
<1>0. PICK p \in Processes, s \in Scoped : p = call.at /\ s = ScopeOf(call)
  BY CallFacts DEF Start
<1> DEFINE record == [mark |-> call.mark, run |-> c, status |-> "OPEN", by |-> c]
           put == Put(p, s, record)
           opened == [call EXCEPT !.run = c, !.status = "OPEN"]
<1>1. /\ call.phase = "starting" /\ memory' = [memory EXCEPT ![p][c] = "OPEN"]
      /\ pending' = [pending EXCEPT ![p].keys = put] /\ UNCHANGED <<aborted, keys, saved, asked, around, faults>>
      /\ MayPut(p, s)
  BY <1>0 DEF Start
<1>2. /\ call \in CallRecord /\ Served(call)
      /\ (call.known => ~call.fresh) /\ Starts(call)
  BY <1>1, CallFacts DEF Served, KnownOK, CallOK
<1>14. ~call.known BY <1>1, CallFacts DEF KnownOK
<1>3. c \in Runs BY DEF Runs
<1>4. record \in KeyRecord /\ record.run = c /\ record.by = c
  BY <1>2, <1>3 DEF KeyRecord, CallRecord, Statuses
<1>5. /\ opened \in CallRecord /\ opened.at = p /\ opened.key = call.key /\ opened.op = call.op
      /\ opened.known = call.known /\ opened.fresh = call.fresh /\ opened.run = c
  BY <1>0, <1>2, <1>3 DEF CallRecord, Statuses
<1>6. /\ put \subseteq [scope : Scoped, record : KeyRecord] /\ \A w \in pending[p].keys : w \in put
      /\ \A w \in put : w \in pending[p].keys \/ (w.record = record /\ w.scope = s /\ keys[s] = NoRecord)
      /\ keys[s] # NoRecord \/ \E w \in put : w.scope = s
  BY <1>2, <1>4, PutFacts
<1> HIDE DEF put, record
<1>7. memory \in [Processes -> [Runs -> Statuses]] /\ pending \in [Processes -> Written] BY DEF Inv, TypeOK
<1>8. /\ pending' \in [Processes -> Written]
      /\ \A q \in Processes : pending'[q].keys = IF q = p THEN put ELSE pending[q].keys
  BY <1>1, <1>2, <1>6, <1>7 DEF Written
<1>9. /\ memory' \in [Processes -> [Runs -> Statuses]] /\ memory'[p][c] = "OPEN"
      /\ \A q \in Processes, i \in Runs : memory[q][i] # "absent" => memory'[q][i] # "absent"
  BY <1>1, <1>2, <1>3, <1>7 DEF Statuses
<1>10. \A q \in Processes : \A w \in pending[q].keys : w.record.by # c BY <1>1, CallFacts
<1>11. /\ Moves(c)
       /\ \/ calls'[c].phase = "driving" /\ calls'[c].op = "chat" /\ calls'[c].run = c
          \/ calls'[c].phase = "answering" /\ calls'[c].code = 201
  <2>1. CASE call.op = "chat"
    <3>1. Waits(c, opened, "driving") BY <2>1 DEF Start
    <3> HIDE DEF opened
    <3> QED BY <1>0, <1>2, <1>3, <1>5, <2>1, <3>1, WaitMoves DEF Phases, Moves
  <2>2. CASE call.op # "chat"
    <3>1. PICK code \in Nat : code = 201 OBVIOUS
    <3>2. Answers(c, opened, code) BY <2>2, <3>1 DEF Start
    <3> HIDE DEF opened
    <3> QED BY <1>0, <1>2, <1>5, <3>1, <3>2, AnswerMoves
  <2> QED BY <2>1, <2>2
<1>12. Stores(c)
  <2>1. MayCommit(p, calls[c])' BY <1>0, <1>9, <1>11 DEF MayCommit, Moves
  <2>2. ASSUME NEW q \in Processes, NEW w \in pending'[q].keys
        PROVE  /\ w \in pending[q].keys \/ (w.record.by = c /\ keys[w.scope] = NoRecord /\ MayPut(q, w.scope))
               /\ w.record.by = c => w.record.run \in Runs /\ MayCommit(q, calls[c])'
    BY <1>1, <1>3, <1>4, <1>6, <1>8, <1>10, <2>1
  <2>3. KeepsWrites(c) BY <1>6, <1>8 DEF KeepsWrites
  <2>4. Notes BY <1>1 DEF Notes, Inv, TypeOK
  <2> QED BY <1>8, <1>9, <2>2, <2>3, <2>4 DEF Stores
<1>13. PromiseOK(calls[c], around[c])'
  <2>1. keys'[s] # NoRecord \/ \E w \in pending'[p].keys : w.scope = s BY <1>1, <1>6, <1>8
  <2> QED BY <1>0, <1>14, <1>11, <2>1 DEF PromiseOK, GoesWell, WentWell, Sees, ScopeOf, Moves
<1> QED BY <1>11, <1>12, <1>13, ServingStep

\* An answer to a call that is being served: if it has written its key, it succeeds or
\* breaks.  What breaks may lose the writes of its connection.
LEMMA DrivenAnswer ==
    ASSUME Inv, NEW c \in Calls, calls[c].phase \in {"starting", "driving", "cancelling"},
           NEW told \in CallRecord, NEW code \in Nat, Answers(c, told, code),
           told.at = calls[c].at, told.op = calls[c].op, told.key = calls[c].key,
           told.known = calls[c].known, told.fresh = calls[c].fresh, told.run = calls[c].run,
           memory' \in [Processes -> [Runs -> Statuses]], pending' \in [Processes -> Written],
           \A q \in Processes, i \in Runs : memory[q][i] # "absent" => memory'[q][i] # "absent",
           Notes, KeepsWrites(c), \A q \in Processes : pending'[q].keys \subseteq pending[q].keys,
           \/ code = 500
           \/ /\ code = 200 /\ calls[c].phase = "driving"
              /\ \A q \in Processes : pending'[q].keys = pending[q].keys
           \/ code \notin 200 .. 299 /\ (calls[c].op # "chat" \/ memory[calls[c].at][calls[c].run] = "absent")
    PROVE  Inv'
<1>1. /\ calls[c] \in CallRecord /\ Served(calls[c]) /\ (calls[c].known => ~calls[c].fresh)
      /\ CallOK(calls[c]) /\ PromiseOK(calls[c], around[c])
  BY CallFacts DEF Served, KnownOK
<1>2. Moves(c) /\ calls'[c].phase = "answering" /\ calls'[c].code = code /\ calls'[c].run = calls[c].run
  BY <1>1, AnswerMoves
<1>3. Stores(c)
  <2> SUFFICES ASSUME NEW q \in Processes, NEW w \in pending[q].keys, w.record.by = c
               PROVE  w.record.run \in Runs /\ MayCommit(q, calls[c])'
    BY DEF Stores
  <2>1. w.record.run \in Runs /\ MayCommit(q, calls[c]) BY DEF Inv, WritesOK
  <2>2. /\ calls[c].at = q /\ calls[c].phase = "driving" /\ calls[c].op = "chat"
        /\ memory[q][calls[c].run] # "absent"
    BY <2>1 DEF MayCommit
  <2>3. code \in {200, 500} BY <2>2
  <2> QED BY <1>2, <2>1, <2>2, <2>3 DEF MayCommit, Moves
<1>4. PromiseOK(calls[c], around[c])'
  <2>1. CASE code \notin 200 .. 299
    BY <1>2, <2>1 DEF PromiseOK, GoesWell, WentWell, Succeeded
  <2>2. CASE code \in 200 .. 299 /\ calls[c].op # "chat"
    <3>5. calls[c].phase = "driving" BY <2>2
    <3>6. calls[c].op \in {"start", "chat", "drive", "cancel"} BY <1>1 DEF CallRecord
    <3>1. calls[c].phase = "driving" /\ calls[c].op = "drive"
      BY <1>1, <2>2, <3>5, <3>6 DEF CallOK
    <3>2. calls'[c].op = "drive" /\ calls'[c].phase = "answering" BY <1>2, <3>1 DEF Moves
    <3>3. ~IsKeyed(calls'[c]) /\ ~Starts(calls'[c]) BY <3>2 DEF IsKeyed, Starts
    <3>4. ~GoesWell(calls'[c]) /\ ~WentWell(calls'[c]) BY <3>2, <3>3 DEF GoesWell, WentWell
    <3> QED BY <3>3, <3>4 DEF PromiseOK, GoesWell, WentWell, IsKeyed, Starts, Succeeded
  <2>3. CASE code \in 200 .. 299 /\ calls[c].op = "chat"
    <3>1. /\ calls[c].phase = "driving" /\ calls[c].at \in Processes /\ GoesWell(calls[c])
          /\ \A q \in Processes : pending'[q].keys = pending[q].keys
      BY <1>1, <2>3 DEF CallOK, GoesWell
    <3>2. keys' = keys /\ ("loss" \notin around'[c] => "loss" \notin around[c]) BY DEF Notes
    <3>3. "loss" \notin around'[c] => Sees(calls[c].at, ScopeOf(calls[c]))
      BY <1>1, <3>1, <3>2 DEF PromiseOK
    <3>4. calls[c].known => calls[c].run = keys[ScopeOf(calls[c])].run
      BY <1>1, <2>3, <3>1 DEF PromiseOK, Starts
    <3>5. calls'[c].at = calls[c].at /\ ScopeOf(calls'[c]) = ScopeOf(calls[c]) /\ calls'[c].known = calls[c].known
      BY <1>2 DEF Moves, ScopeOf
    <3>6. "loss" \notin around'[c] =>
             keys'[ScopeOf(calls'[c])] # NoRecord \/ \E w \in pending'[calls'[c].at].keys : w.scope = ScopeOf(calls'[c])
      BY <3>1, <3>2, <3>3, <3>5 DEF Sees
    <3>7. ~WentWell(calls'[c]) BY <1>2 DEF WentWell
    <3>8. calls'[c].known => calls'[c].run = keys'[ScopeOf(calls'[c])].run BY <1>2, <3>2, <3>4, <3>5
    <3> QED BY <3>6, <3>7, <3>8
       DEF PromiseOK, GoesWell, WentWell, Sees, ScopeOf, IsKeyed, Succeeded, Starts
  <2> QED BY <2>1, <2>2, <2>3
<1> QED BY <1>2, <1>3, <1>4, ServingStep

\* A driven run is answered; a chat that wrote its key has its run in memory.
LEMMA DriveStep ==
    ASSUME Inv, NEW c \in Calls, Drive(c)
    PROVE  Inv'
<1> DEFINE call == calls[c]
<1>1. call.phase = "driving" /\ Notes
  BY DEF Drive, Notes, Inv, TypeOK
<1>10. (\A q \in Processes : pending'[q].keys = pending[q].keys) => KeepsWrites(c) BY DEF KeepsWrites
<1>2. call \in CallRecord /\ CallOK(call) BY CallFacts
<1>3. PICK p \in Processes, r \in Runs : p = call.at /\ r = call.run BY <1>1, <1>2 DEF CallOK
<1> DEFINE stack == Stack(p, r)
           told(status) == [call EXCEPT !.status = status]
<1>4. memory \in [Processes -> [Runs -> Statuses]] /\ pending \in [Processes -> Written] BY DEF Inv, TypeOK
<1>5. stack \in Statuses \cup {"not rebuilt"} /\ (memory[p][r] # "absent" => stack = memory[p][r])
  BY StackType DEF Inv
<1>6. \A status \in Statuses :
         /\ told(status) \in CallRecord /\ told(status).at = call.at /\ told(status).op = call.op
         /\ told(status).key = call.key /\ told(status).known = call.known /\ told(status).fresh = call.fresh
         /\ told(status).run = call.run
  BY <1>2 DEF CallRecord
<1>7. CASE stack \in {"absent", "not rebuilt"}
  <2>1. memory[p][r] = "absent" BY <1>4, <1>5, <1>7 DEF Statuses
  <2>2. PICK code \in Nat : code \notin 200 .. 299 /\ Answers(c, call, code) /\ UNCHANGED <<memory, pending>>
    <3>1. CASE stack = "absent"
      <4>1. PICK code \in Nat : code = 404 OBVIOUS
      <4>2. Answers(c, call, 404) /\ UNCHANGED <<memory, pending>> BY <1>3, <3>1 DEF Drive, Ended
      <4> QED BY <4>1, <4>2
    <3>2. CASE stack = "not rebuilt"
      <4>1. PICK code \in Nat : code = 409 OBVIOUS
      <4>2. Answers(c, call, 409) /\ UNCHANGED <<memory, pending>> BY <1>3, <3>2 DEF Drive, Ended
      <4> QED BY <4>1, <4>2
    <3> QED BY <1>7, <3>1, <3>2
  <2> HIDE DEF stack
  <2> QED BY <1>1, <1>10, <1>2, <1>3, <1>4, <2>1, <2>2, DrivenAnswer
<1>8. CASE stack \in Ended
  <2>1. PICK code \in Nat : /\ code = (IF call.op = "chat" THEN 200 ELSE 409)
                            /\ Answers(c, told(stack), code) /\ UNCHANGED <<memory, pending>>
    <3>1. PICK code \in Nat : code = (IF call.op = "chat" THEN 200 ELSE 409) OBVIOUS
    <3> QED BY <1>3, <1>8, <3>1 DEF Drive, Ended
  <2>2. stack \in Statuses BY <1>8 DEF Ended, Statuses
  <2> HIDE DEF stack, told
  <2> QED BY <1>1, <1>10, <1>2, <1>3, <1>4, <1>6, <2>1, <2>2, DrivenAnswer
<1>9. CASE stack = "OPEN"
  <2>1. PICK status \in {"OPEN", "COMPLETED"} :
           /\ memory' = [memory EXCEPT ![p][r] = status]
           /\ pending' = [pending EXCEPT ![p].saved = Saving(p, r, status)]
           /\ Answers(c, told(status), 200)
    BY <1>3, <1>9 DEF Drive
  <2>2. status \in Statuses /\ status # "absent" BY DEF Statuses
  <2>3. Saving(p, r, status) \in SUBSET [run : Runs, status : Statuses] BY <2>2, SavingType
  <2>4. PICK code \in Nat : code = 200 OBVIOUS
  <2>5. Answers(c, told(status), code) BY <2>1, <2>4
  <2> HIDE DEF stack, told
  <2>6. /\ memory' \in [Processes -> [Runs -> Statuses]]
        /\ \A q \in Processes, i \in Runs : memory[q][i] # "absent" => memory'[q][i] # "absent"
    BY <1>4, <2>1, <2>2
  <2>7. pending' \in [Processes -> Written] /\ \A q \in Processes : pending'[q].keys = pending[q].keys
    BY <1>4, <2>1, <2>3 DEF Written
  <2> QED BY <1>1, <1>10, <1>2, <1>3, <1>4, <1>6, <2>2, <2>4, <2>5, <2>6, <2>7, DrivenAnswer
<1> QED BY <1>5, <1>7, <1>8, <1>9 DEF Statuses, Ended

\* What breaks is answered with an error.  If a statement failed, all the writes of
\* the connection are lost, and the other calls there are marked.
LEMMA BreakStep ==
    ASSUME Inv, NEW c \in Calls, Break(c)
    PROVE  Inv'
<1> DEFINE call == calls[c]
<1>1. /\ call.phase \in {"starting", "driving", "cancelling"} /\ UNCHANGED <<keys, saved, asked>>
      /\ faults' = IF Reaches(call) THEN faults + 1 ELSE faults
  BY DEF Break
<1>2. call \in CallRecord /\ CallOK(call) BY CallFacts
<1>3. PICK p \in Processes, r \in Runs : p = call.at /\ r = IF call.phase = "starting" THEN c ELSE call.run
  BY <1>1, <1>2 DEF CallOK, Runs
<1>4. memory \in [Processes -> [Runs -> Statuses]] /\ pending \in [Processes -> Written] BY DEF Inv, TypeOK
<1>5. PICK status \in LeftInMemory(call.phase) :
         /\ memory' = [memory EXCEPT ![p][r] = status]
         /\ \/ aborted' = aborted \cup {p} /\ Meet(c, "loss") /\ pending' = [pending EXCEPT ![p] = Nothing]
            \/ UNCHANGED <<aborted, pending, around>>
            \/ pending' = [pending EXCEPT ![p].saved = Saving(p, r, status)] /\ UNCHANGED <<aborted, around>>
  BY <1>3 DEF Break
<1>6. status \in Statuses /\ status # "absent" BY DEF LeftInMemory, Statuses
<1>7. /\ memory' \in [Processes -> [Runs -> Statuses]]
      /\ \A q \in Processes, i \in Runs : memory[q][i] # "absent" => memory'[q][i] # "absent"
  BY <1>4, <1>5, <1>6
<1>8. faults' \in Nat BY <1>1 DEF Inv, TypeOK
<1>9. /\ pending' \in [Processes -> Written] /\ \A q \in Processes : pending'[q].keys \subseteq pending[q].keys
      /\ Notes /\ KeepsWrites(c)
  <2>1. CASE aborted' = aborted \cup {p} /\ Meet(c, "loss") /\ pending' = [pending EXCEPT ![p] = Nothing]
    <3>1. Nothing \in Written /\ Nothing.keys = {} BY DEF Nothing, Written
    <3>2. /\ pending' \in [Processes -> Written]
          /\ \A q \in Processes : pending'[q].keys = IF q = p THEN {} ELSE pending[q].keys
      BY <1>4, <2>1, <3>1
    <3>3. Notes BY <1>1, <1>8, <2>1, MeetNotes DEF Notes, Inv, TypeOK
    <3>4. KeepsWrites(c) BY <1>3, <2>1, <3>2, MeetNotes DEF KeepsWrites
    <3> QED BY <3>2, <3>3, <3>4
  <2>2. CASE UNCHANGED <<aborted, pending, around>>
    BY <1>1, <1>4, <1>8, <2>2 DEF Notes, KeepsWrites, Inv, TypeOK
  <2>3. CASE pending' = [pending EXCEPT ![p].saved = Saving(p, r, status)] /\ UNCHANGED <<aborted, around>>
    <3>1. Saving(p, r, status) \in SUBSET [run : Runs, status : Statuses] BY <1>6, SavingType
    <3>2. pending' \in [Processes -> Written] /\ \A q \in Processes : pending'[q].keys = pending[q].keys
      BY <1>4, <2>3, <3>1 DEF Written
    <3>3. Notes BY <1>1, <1>8, <2>3 DEF Notes, Inv, TypeOK
    <3> QED BY <3>2, <3>3 DEF KeepsWrites
  <2> QED BY <1>5, <2>1, <2>2, <2>3
<1>10. PICK code \in Nat : code = 500 OBVIOUS
<1>11. Answers(c, call, code) BY <1>10 DEF Break
<1> HIDE DEF call
<1>12. /\ call.at = calls[c].at /\ call.op = calls[c].op /\ call.key = calls[c].key /\ call.run = calls[c].run
       /\ call.known = calls[c].known /\ call.fresh = calls[c].fresh /\ call.phase = calls[c].phase
  BY DEF call
<1> QED BY <1>1, <1>2, <1>7, <1>9, <1>10, <1>11, <1>12, DrivenAnswer

\* The call that finds the transaction aborted is answered with an error.
LEMMA FindsAbortedStep ==
    ASSUME Inv, NEW c \in Calls, FindsAborted(c)
    PROVE  Inv'
<1>1. UNCHANGED <<memory, pending, aborted, keys, saved, asked, around, faults>> BY DEF FindsAborted
<1>2. PICK code \in Nat : code = 500 OBVIOUS
<1>3. Answers(c, calls[c], code) BY <1>2 DEF FindsAborted
<1>4. calls[c] \in CallRecord BY CallFacts
<1>5. CASE calls[c].phase = "received"
  <2>1. Moves(c) /\ calls'[c].phase = "answering" /\ calls'[c].code = code
    BY <1>3, <1>5, CallFacts, AnswerMoves DEF Served, KnownOK
  <2>2. PromiseOK(calls[c], around[c])' BY <1>2, <2>1 DEF PromiseOK, GoesWell, WentWell, Succeeded
  <2> QED BY <1>1, <1>5, <2>1, <2>2, StoresNothing, ServingStep
<1>6. CASE calls[c].phase \in {"driving", "cancelling"}
  <2>1. /\ memory' \in [Processes -> [Runs -> Statuses]] /\ pending' \in [Processes -> Written]
        /\ \A q \in Processes, i \in Runs : memory[q][i] # "absent" => memory'[q][i] # "absent"
        /\ Notes /\ KeepsWrites(c) /\ \A q \in Processes : pending'[q].keys \subseteq pending[q].keys
    BY <1>1 DEF Notes, KeepsWrites, Inv, TypeOK
  <2> QED BY <1>2, <1>3, <1>4, <1>6, <2>1, DrivenAnswer
<1> QED BY <1>5, <1>6 DEF FindsAborted

\* A cancel writes its key with the view it is answered with, or is refused and writes nothing.
LEMMA CancelStep ==
    ASSUME Inv, NEW c \in Calls, Cancel(c)
    PROVE  Inv'
<1> DEFINE call == calls[c]
<1>1. call.phase = "cancelling" /\ UNCHANGED <<aborted, keys, saved, asked, around, faults>> BY DEF Cancel
<1>2. call \in CallRecord /\ CallOK(call) /\ Served(call) /\ (call.known => ~call.fresh)
  BY <1>1, CallFacts DEF Served, KnownOK
<1>3. PICK p \in Processes, r \in Runs, s \in Scoped : p = call.at /\ r = call.run /\ s = ScopeOf(call)
  BY <1>1, <1>2, CallFacts DEF CallOK
<1> DEFINE stack == Stack(p, r)
           told(status) == [call EXCEPT !.status = status]
           record(status) == [mark |-> call.mark, run |-> r, status |-> status, by |-> c]
           written(status) == [pending EXCEPT ![p].keys = Put(p, s, record(status)),
                                              ![p].saved = IF status = "CANCELLED" THEN Saving(p, r, status) ELSE @,
                                              ![p].asked = IF status = "absent" THEN @ \cup {r} ELSE @]
<1>4. memory \in [Processes -> [Runs -> Statuses]] /\ pending \in [Processes -> Written] BY DEF Inv, TypeOK
<1>5. ASSUME NEW status \in {"absent", "CANCELLED"}, MayPut(p, s), pending' = written(status), Answers(c, told(status), 200),
             memory' \in [Processes -> [Runs -> Statuses]],
             \A q \in Processes, i \in Runs : memory[q][i] # "absent" => memory'[q][i] # "absent"
      PROVE  Inv'
  <2>1. status \in Statuses BY DEF Statuses
  <2>2. record(status) \in KeyRecord /\ record(status).run = r /\ record(status).by = c
    BY <1>2, <2>1 DEF KeyRecord, CallRecord, Runs
  <2>3. /\ told(status) \in CallRecord /\ told(status).at = call.at /\ told(status).op = call.op
        /\ told(status).key = call.key /\ told(status).known = call.known /\ told(status).fresh = call.fresh
    BY <1>2, <2>1 DEF CallRecord
  <2> DEFINE put == Put(p, s, record(status))
             saving == Saving(p, r, status)
  <2>4. /\ put \subseteq [scope : Scoped, record : KeyRecord] /\ \A w \in pending[p].keys : w \in put
        /\ \A w \in put :
              w \in pending[p].keys \/ (w.record = record(status) /\ w.scope = s /\ keys[s] = NoRecord)
        /\ keys[s] # NoRecord \/ \E w \in put : w.scope = s
    BY <2>2, PutFacts
  <2>5. saving \in SUBSET [run : Runs, status : Statuses] BY <2>1, SavingType
  <2> DEFINE snapshots == IF status = "CANCELLED" THEN saving ELSE pending[p].saved
             requests == IF status = "absent" THEN pending[p].asked \cup {r} ELSE pending[p].asked
             after == [pending[p] EXCEPT !.keys = put, !.saved = snapshots, !.asked = requests]
  <2>6. after \in Written /\ after.keys = put
    <3>1. pending[p] \in Written BY <1>4
    <3>2. put \in SUBSET [scope : Scoped, record : KeyRecord] BY <2>4
    <3>3. snapshots \in SUBSET [run : Runs, status : Statuses] /\ requests \in SUBSET Runs
      BY <3>1, <2>5 DEF Written
    <3> HIDE DEF put, snapshots, requests
    <3> QED BY <3>1, <3>2, <3>3 DEF Written
  <2>7. /\ pending' \in [Processes -> Written]
        /\ \A q \in Processes : pending'[q].keys = IF q = p THEN put ELSE pending[q].keys
    <3>1. pending' = [pending EXCEPT ![p] = after] BY <1>4, <1>5
    <3> HIDE DEF after
    <3> QED BY <1>4, <2>6, <3>1
  <2> HIDE DEF told, record, put, saving, after, snapshots, requests
  <2>8. PICK code \in Nat : code = 200 OBVIOUS
  <2>9. Answers(c, told(status), code) BY <1>5, <2>8
  <2>10. Moves(c) /\ calls'[c].phase = "answering" /\ calls'[c].code = 200 /\ calls'[c].op = "cancel"
    BY <1>1, <1>2, <2>3, <2>8, <2>9, AnswerMoves DEF CallOK, Moves
  <2>11. Stores(c)
    <3>1. MayCommit(p, calls[c])' BY <1>3, <2>10 DEF MayCommit, Moves
    <3>2. \A q \in Processes : \A w \in pending[q].keys : w.record.by # c BY <1>1, CallFacts
    <3>3. ASSUME NEW q \in Processes, NEW w \in pending'[q].keys
          PROVE  /\ w \in pending[q].keys \/ (w.record.by = c /\ keys[w.scope] = NoRecord /\ MayPut(q, w.scope))
                 /\ w.record.by = c => w.record.run \in Runs /\ MayCommit(q, calls[c])'
      BY <1>5, <2>2, <2>4, <2>7, <3>1, <3>2
    <3>4. KeepsWrites(c) BY <2>4, <2>7 DEF KeepsWrites
    <3>5. Notes BY <1>1 DEF Notes, Inv, TypeOK
    <3> QED BY <1>5, <2>7, <3>3, <3>4, <3>5 DEF Stores
  <2>12. PromiseOK(calls[c], around[c])'
    <3>1. keys'[s] # NoRecord \/ \E w \in pending'[p].keys : w.scope = s BY <1>1, <2>4, <2>7
    <3> QED BY <1>3, <2>10, <3>1 DEF PromiseOK, GoesWell, WentWell, Sees, ScopeOf, Moves, Starts
  <2> QED BY <2>10, <2>11, <2>12, ServingStep
<1>6. CASE stack = "absent"
  <2>1. pending' = written("absent") /\ Answers(c, told("absent"), 200) /\ UNCHANGED memory /\ MayPut(p, s)
    BY <1>3, <1>6 DEF Cancel
  <2> HIDE DEF written, told, stack
  <2> QED BY <1>4, <1>5, <2>1
<1>7. CASE stack = "OPEN"
  <2>1. /\ pending' = written("CANCELLED") /\ Answers(c, told("CANCELLED"), 200) /\ MayPut(p, s)
        /\ memory' = [memory EXCEPT ![p][r] = "CANCELLED"]
    BY <1>3, <1>7 DEF Cancel
  <2> HIDE DEF written, told, stack
  <2>2. /\ memory' \in [Processes -> [Runs -> Statuses]]
        /\ \A q \in Processes, i \in Runs : memory[q][i] # "absent" => memory'[q][i] # "absent"
    BY <1>4, <2>1 DEF Statuses
  <2> QED BY <1>5, <2>1, <2>2
<1>8. CASE stack \notin {"absent", "OPEN"}
  <2>1. Answers(c, call, 409) /\ UNCHANGED <<memory, pending>> BY <1>3, <1>8 DEF Cancel
  <2>2. PICK code \in Nat : code = 409 OBVIOUS
  <2>3. Answers(c, call, code) BY <2>1, <2>2
  <2>4. Moves(c) /\ calls'[c].phase = "answering" /\ calls'[c].code = 409
    BY <1>2, <2>2, <2>3, AnswerMoves
  <2>5. PromiseOK(calls[c], around[c])' BY <2>4 DEF PromiseOK, GoesWell, WentWell, Succeeded
  <2> QED BY <1>1, <2>1, <2>4, <2>5, StoresNothing, ServingStep
<1> QED BY <1>6, <1>7, <1>8

-----------------------------------------------------------------------------
(* The other steps: a call comes, a call is answered, a process restarts.   *)

\* A call comes, whatever else its process handles: it has written nothing yet.
LEMMA ReceiveStep ==
    ASSUME Inv, NEW c \in Calls, NEW p \in Processes, NEW op \in {"start", "chat", "drive", "cancel"},
           NEW key \in Keys, NEW mark \in Bodies, NEW run \in Runs \cup {NoRun},
           Receive(c, p, op, key, mark, run)
    PROVE  Inv'
<1> DEFINE call == [Unsent EXCEPT !.phase = "received", !.op = op, !.at = p, !.key = key, !.mark = mark, !.run = run]
           new == [call EXCEPT !.known = IsKeyed(call) /\ keys[ScopeOf(call)] # NoRecord]
<1>1. /\ calls[c].phase = "unsent" /\ (op \in {"start", "chat"} \/ run # NoRun)
      /\ calls' = [calls EXCEPT ![c] = new] /\ UNCHANGED <<memory, pending, aborted, keys, saved, asked, around, faults>>
  BY DEF Receive
<1>2. /\ call \in CallRecord /\ call.phase = "received" /\ call.at = p /\ call.key = key /\ call.op = op
      /\ call.run = run /\ call.fresh = FALSE /\ call.code = 0
  BY DEF CallRecord, Phases, Unsent, Statuses, NoRun
<1> HIDE DEF call
<1>3. /\ new \in CallRecord /\ new.phase = "received" /\ new.at = p /\ new.key = key /\ new.op = op
      /\ new.run = run /\ new.fresh = FALSE
      /\ new.known = (IsKeyed(call) /\ keys[ScopeOf(call)] # NoRecord)
  BY <1>2 DEF CallRecord
<1>4. IsKeyed(new) = IsKeyed(call) /\ ScopeOf(new) = ScopeOf(call) BY <1>2, <1>3 DEF IsKeyed, ScopeOf
<1> HIDE DEF new
<1>5. /\ calls' \in [Calls -> CallRecord] /\ calls'[c] = new /\ \A d \in Calls \ {c} : calls'[d] = calls[d]
  BY <1>1, <1>3 DEF Inv, TypeOK
<1>6. TypeOK' BY <1>1, <1>5 DEF Inv, TypeOK
<1>8. UniqueOK' BY <1>1 DEF Inv, UniqueOK, MayPut
<1>9. WritesOK'
  <2> SUFFICES ASSUME NEW q \in Processes, NEW w \in pending[q].keys
               PROVE  w.record.run \in Runs /\ w.record.by \in Calls /\ MayCommit(q, calls[w.record.by])'
    BY <1>1 DEF WritesOK
  <2>1. w.record.run \in Runs /\ w.record.by \in Calls /\ MayCommit(q, calls[w.record.by])
    BY DEF Inv, WritesOK
  <2>2. w.record.by # c BY <1>1, <2>1 DEF MayCommit
  <2> QED BY <1>1, <1>5, <2>1, <2>2 DEF MayCommit
<1>10. TableOK' BY <1>1, <1>5, SMTT(20) DEF Inv, TableOK, Succeeded
<1>11. ASSUME NEW d \in Calls PROVE CallOK(calls[d])' /\ PromiseOK(calls[d], around[d])' /\ KnownOK(calls[d])'
  <2>1. CallOK(calls[d]) /\ PromiseOK(calls[d], around[d]) /\ KnownOK(calls[d]) BY DEF Inv
  <2>2. CASE d = c
    <3>1. CallOK(calls[d])' BY <1>1, <1>3, <1>5, <2>2 DEF CallOK, Starts
    <3>2. PromiseOK(calls[d], around[d])' BY <1>3, <1>5, <2>2 DEF PromiseOK, GoesWell, WentWell
    <3>3. KnownOK(new) BY <1>3, <1>4 DEF KnownOK
    <3>4. KnownOK(calls[d])' BY <1>1, <1>5, <2>2, <3>3 DEF KnownOK, IsKeyed, ScopeOf
    <3> QED BY <3>1, <3>2, <3>4
  <2>3. CASE d # c
    <3>1. calls'[d] = calls[d] /\ keys' = keys /\ pending' = pending /\ around' = around BY <1>1, <1>5, <2>3
    <3>2. CallOK(calls[d])' /\ KnownOK(calls[d])'
      BY <2>1, <3>1 DEF CallOK, KnownOK, Starts, ScopeOf, IsKeyed
    <3>3. PromiseOK(calls[d], around[d])'
      BY <2>1, <3>1 DEF PromiseOK, GoesWell, WentWell, Sees, Starts, ScopeOf, IsKeyed, Succeeded
    <3> QED BY <3>2, <3>3
  <2> QED BY <2>2, <2>3
<1> QED BY <1>6, <1>8, <1>9, <1>10, <1>11 DEF Inv

\* The table only grows, and a call that ends leaves what its connection has written to it.
LEMMA RespondStep ==
    ASSUME Inv, NEW c \in Calls, Respond(c)
    PROVE  Inv'
<1> DEFINE call == calls[c]
<1>1. /\ call.phase = "answering" /\ calls' = [calls EXCEPT ![c].phase = "answered"]
      /\ pending' = [pending EXCEPT ![call.at] = Nothing] /\ UNCHANGED <<memory, faults>>
      /\ aborted' = aborted \ {call.at}
      /\ IF Commits(call.code) THEN Meet(c, "commit") ELSE Meet(c, "loss")
  BY DEF Respond
<1>2. /\ call \in CallRecord /\ Served(call) /\ CallOK(call) /\ PromiseOK(call, around[c])
  BY <1>1, CallFacts DEF Served
<1>17. /\ around' \in [Calls -> SUBSET {"loss", "commit"}] /\ \A d \in Calls : around[d] \subseteq around'[d]
       /\ Commits(call.code) => /\ \A d \in Calls \ {c} : calls[d].at = call.at /\ Served(calls[d]) => "commit" \in around'[d]
                                /\ \A d \in Calls : "loss" \in around'[d] => "loss" \in around[d]
       /\ ~Commits(call.code) => \A d \in Calls \ {c} : calls[d].at = call.at /\ Served(calls[d]) => "loss" \in around'[d]
  <2>1. CASE Commits(call.code)
    <3>1. Meet(c, "commit") BY <1>1, <2>1
    <3> QED BY <2>1, <3>1, MeetNotes
  <2>2. CASE ~Commits(call.code)
    <3>1. Meet(c, "loss") BY <1>1, <2>2
    <3> QED BY <2>2, <3>1, MeetNotes
  <2> QED BY <2>1, <2>2
<1>3. PICK p \in Processes : p = call.at BY <1>1, <1>2 DEF CallOK
<1> DEFINE new == [call EXCEPT !.phase = "answered"]
<1>4. /\ new \in CallRecord /\ new.phase = "answered" /\ new.code = call.code /\ new.at = call.at
      /\ new.op = call.op /\ new.key = call.key /\ new.known = call.known /\ new.fresh = call.fresh
      /\ new.run = call.run
  BY <1>2 DEF CallRecord, Phases
<1>5. calls' = [calls EXCEPT ![c] = new] BY <1>1
<1> HIDE DEF new
<1>6. /\ calls' \in [Calls -> CallRecord] /\ calls'[c] = new /\ \A d \in Calls \ {c} : calls'[d] = calls[d]
  BY <1>4, <1>5 DEF Inv, TypeOK
<1>7. \A w \in pending[p].keys :
         /\ w.record.run \in Runs /\ w.record.by \in Calls
         /\ w.record.by = c => call.code \in {200, 201, 500}
         /\ Served(calls[w.record.by]) /\ calls[w.record.by].at = p
  <2> SUFFICES ASSUME NEW w \in pending[p].keys
               PROVE  /\ w.record.run \in Runs /\ w.record.by \in Calls
                      /\ w.record.by = c => call.code \in {200, 201, 500}
                      /\ Served(calls[w.record.by]) /\ calls[w.record.by].at = p
    OBVIOUS
  <2>1. w.record.run \in Runs /\ w.record.by \in Calls /\ MayCommit(p, calls[w.record.by])
    BY DEF Inv, WritesOK
  <2>2. Served(calls[w.record.by]) /\ calls[w.record.by].at = p BY <2>1 DEF MayCommit, Served
  <2> QED BY <1>1, <2>1, <2>2 DEF MayCommit
<1>8. pending \in [Processes -> Written] /\ Nothing \in Written /\ Nothing.keys = {}
  BY DEF Inv, TypeOK, Nothing, Written
<1>9. /\ pending' \in [Processes -> Written]
      /\ \A q \in Processes : pending'[q].keys = IF q = p THEN {} ELSE pending[q].keys
  BY <1>1, <1>3, <1>8
<1>10. \A s \in Scoped : Record(p, s) \in KeyRecord BY RecordIsSeen DEF Inv
<1>11. /\ keys' \in [Scoped -> KeyRecord] /\ saved' \in [Runs -> Statuses] /\ asked' \subseteq Runs
       /\ \A s \in Scoped : keys[s] # NoRecord => keys'[s] = keys[s]
       /\ \A s \in Scoped : keys'[s] # keys[s] => Commits(call.code) /\ keys'[s] = Record(p, s)
       /\ Commits(call.code) => \A s \in Scoped : keys[s] = NoRecord => keys'[s] = Record(p, s)
  <2>1. CASE Commits(call.code)
    <3>1. /\ keys' = [s \in Scoped |-> Record(p, s)]
          /\ saved' = [i \in Runs |-> Snapshot(p, i)] /\ asked' = asked \cup pending[p].asked
      BY <1>3, <2>1 DEF Respond
    <3>2. \A i \in Runs : Snapshot(p, i) \in Statuses BY SnapshotType DEF Inv
    <3>3. pending[p].asked \subseteq Runs /\ asked \subseteq Runs BY <1>8 DEF Written, Inv, TypeOK
    <3>4. \A s \in Scoped : keys[s] # NoRecord => Record(p, s) = keys[s] BY RecordIsSeen DEF Inv
    <3> QED BY <1>10, <2>1, <3>1, <3>2, <3>3, <3>4
  <2>2. CASE ~Commits(call.code)
    <3>1. UNCHANGED <<keys, saved, asked>> BY <2>2 DEF Respond
    <3> QED BY <2>2, <3>1 DEF Inv, TypeOK
  <2> QED BY <2>1, <2>2
<1>12. TypeOK' BY <1>1, <1>17, <1>6, <1>9, <1>11 DEF Inv, TypeOK
<1>13. UniqueOK'
  <2> SUFFICES ASSUME NEW q \in Processes, NEW w \in pending'[q].keys
               PROVE  /\ keys'[w.scope] = NoRecord
                      /\ \A o \in Processes \ {q} : \A v \in pending'[o].keys : v.scope # w.scope
    BY DEF UniqueOK, MayPut
  <2>1. q # p /\ w \in pending[q].keys /\ w.scope \in Scoped BY <1>8, <1>9 DEF Written
  <2>2. keys[w.scope] = NoRecord /\ MayPut(q, w.scope) BY <2>1 DEF Inv, UniqueOK
  <2>3. ~Sees(p, w.scope) BY <2>1, <2>2 DEF Sees, MayPut
  <2>4. Record(p, w.scope) = NoRecord BY <2>1, <2>3, RecordIsSeen DEF Inv
  <2>5. keys'[w.scope] = NoRecord BY <1>11, <2>1, <2>2, <2>4
  <2> QED BY <1>9, <2>2, <2>5 DEF MayPut
<1>14. WritesOK'
  <2> SUFFICES ASSUME NEW q \in Processes, NEW w \in pending'[q].keys
               PROVE  w.record.run \in Runs /\ w.record.by \in Calls /\ MayCommit(q, calls[w.record.by])'
    BY DEF WritesOK
  <2>1. q # p /\ w \in pending[q].keys BY <1>9
  <2>2. w.record.run \in Runs /\ w.record.by \in Calls /\ MayCommit(q, calls[w.record.by])
    BY <2>1 DEF Inv, WritesOK
  <2>3. w.record.by # c BY <1>3, <2>1, <2>2 DEF MayCommit
  <2> QED BY <1>1, <1>6, <2>2, <2>3 DEF MayCommit
<1>15. TableOK'
  <2> SUFFICES ASSUME NEW s \in Scoped, keys'[s] # NoRecord
               PROVE  /\ keys'[s].run \in Runs /\ keys'[s].by \in Calls
                      /\ \/ calls'[keys'[s].by].phase = "answered" /\ Succeeded(calls'[keys'[s].by])
                         \/ "commit" \in around'[keys'[s].by]
    BY DEF TableOK, Succeeded
  <2>1. CASE keys[s] # NoRecord
    <3>1. /\ keys[s].run \in Runs /\ keys[s].by \in Calls /\ keys'[s] = keys[s]
          /\ \/ calls[keys[s].by].phase = "answered" /\ Succeeded(calls[keys[s].by])
             \/ "commit" \in around[keys[s].by]
      BY <1>11, <2>1 DEF Inv, TableOK
    <3>2. CASE "commit" \in around[keys[s].by] BY <1>17, <3>1, <3>2
    <3>3. CASE calls[keys[s].by].phase = "answered" /\ Succeeded(calls[keys[s].by])
      <4>1. keys[s].by # c BY <1>1, <3>3
      <4> QED BY <1>6, <3>1, <3>3, <4>1
    <3> QED BY <3>1, <3>2, <3>3
  <2>2. CASE keys[s] = NoRecord
    <3>1. Commits(call.code) /\ keys'[s] = Record(p, s) BY <1>11, <2>2
    <3>2. PICK w \in pending[p].keys : Record(p, s) = w.record
      BY <2>2, <3>1, RecordIsSeen DEF Inv
    <3>3. /\ w.record.run \in Runs /\ w.record.by \in Calls
          /\ Served(calls[w.record.by]) /\ calls[w.record.by].at = call.at
      BY <1>3, <1>7
    <3>4. CASE w.record.by = c
      <4>1. call.code \in {200, 201} BY <1>7, <3>1, <3>4 DEF Commits
      <4> QED BY <1>4, <1>6, <3>1, <3>2, <3>3, <3>4, <4>1 DEF Succeeded
    <3>5. CASE w.record.by # c
      <4>1. "commit" \in around'[w.record.by] BY <1>17, <3>1, <3>3, <3>5
      <4> QED BY <3>1, <3>2, <3>3, <4>1
    <3> QED BY <3>4, <3>5
  <2> QED BY <2>1, <2>2
<1>16. ASSUME NEW d \in Calls PROVE CallOK(calls[d])' /\ PromiseOK(calls[d], around[d])' /\ KnownOK(calls[d])'
  <2>1. /\ CallOK(calls[d]) /\ PromiseOK(calls[d], around[d]) /\ KnownOK(calls[d])
        /\ calls[d].phase \notin {"unsent", "lost"} => calls[d].at \in Processes /\ ScopeOf(calls[d]) \in Scoped
    BY CallFacts
  <2>2. KnownOK(calls[d])'
    <3>1. /\ calls'[d].known = calls[d].known /\ calls'[d].fresh = calls[d].fresh
          /\ calls'[d].op = calls[d].op /\ calls'[d].key = calls[d].key
      BY <1>4, <1>6
    <3>2. calls[d].known => IsKeyed(calls[d]) /\ calls[d].key \in Keys /\ keys[ScopeOf(calls[d])] # NoRecord
                            /\ ~calls[d].fresh /\ ScopeOf(calls[d]) \in Scoped
      BY <2>1, ScopeIsScoped DEF KnownOK
    <3>3. calls[d].known => keys'[ScopeOf(calls[d])] # NoRecord BY <1>11, <3>2
    <3>4. ScopeOf(calls'[d]) = ScopeOf(calls[d]) /\ IsKeyed(calls'[d]) = IsKeyed(calls[d])
      BY <3>1 DEF ScopeOf, IsKeyed
    <3>5. calls'[d].phase # "starting" \/ calls'[d] = calls[d] BY <1>4, <1>6
    <3> QED BY <2>1, <3>1, <3>2, <3>3, <3>4, <3>5 DEF KnownOK, ScopeOf, IsKeyed
  <2>3. CASE d = c
    <3>1. CallOK(calls[d])' BY <1>1, <1>2, <1>4, <1>6, <2>3 DEF CallOK
    <3>2. PromiseOK(calls[d], around[d])'
      <4>1. ~GoesWell(calls'[c]) /\ (WentWell(calls'[c]) => GoesWell(call) /\ Commits(call.code))
        BY <1>1, <1>4, <1>6 DEF GoesWell, WentWell, Succeeded, IsKeyed, Commits
      <4>2. /\ ScopeOf(calls'[c]) = ScopeOf(call) /\ ScopeOf(call) \in Scoped
            /\ Starts(calls'[c]) = Starts(call) /\ calls'[c].known = call.known /\ calls'[c].run = call.run
        BY <1>1, <1>4, <1>6, <2>1, <2>3 DEF ScopeOf, Starts
      <4>3. ASSUME WentWell(calls'[c]), "loss" \notin around'[c] PROVE keys'[ScopeOf(call)] # NoRecord
        <5>1. Sees(p, ScopeOf(call)) BY <1>2, <1>17, <1>3, <4>1, <4>3 DEF PromiseOK
        <5>2. Record(p, ScopeOf(call)) # NoRecord BY <4>2, <5>1, RecordIsSeen DEF Inv
        <5> QED BY <1>11, <4>1, <4>2, <4>3, <5>2
      <4>4. ASSUME calls'[c].known, Starts(calls'[c]), WentWell(calls'[c]) PROVE calls'[c].run = keys'[ScopeOf(call)].run
        <5>1. call.run = keys[ScopeOf(call)].run BY <1>2, <4>1, <4>2, <4>4 DEF PromiseOK
        <5>2. keys[ScopeOf(call)] # NoRecord BY <2>1, <2>3, <4>2, <4>4 DEF KnownOK
        <5> QED BY <1>11, <4>2, <5>1, <5>2
      <4>5. /\ WentWell(calls'[c]) /\ "loss" \notin around'[c] => keys'[ScopeOf(calls'[c])] # NoRecord
            /\ calls'[c].known /\ Starts(calls'[c]) /\ WentWell(calls'[c]) =>
                  calls'[c].run = keys'[ScopeOf(calls'[c])].run
        BY <4>2, <4>3, <4>4
      <4>6. PromiseOK(calls[c], around[c])'
        BY <4>1, <4>5 DEF PromiseOK, GoesWell, WentWell, ScopeOf, IsKeyed, Succeeded, Starts
      <4> QED BY <2>3, <4>6
    <3> QED BY <2>2, <3>1, <3>2
  <2>4. CASE d # c
    <3>1. calls'[d] = calls[d] BY <1>6, <2>4
    <3>2. CallOK(calls[d])' BY <2>1, <3>1 DEF CallOK, Starts
    <3>3. /\ GoesWell(calls[d]) => Served(calls[d]) /\ calls[d].at \in Processes /\ ScopeOf(calls[d]) \in Scoped
          /\ WentWell(calls[d]) => ScopeOf(calls[d]) \in Scoped
      BY <2>1 DEF GoesWell, WentWell, Served
    <3>4. ASSUME GoesWell(calls[d]), "loss" \notin around'[d]
          PROVE  \/ keys'[ScopeOf(calls[d])] # NoRecord
                 \/ \E w \in pending'[calls[d].at].keys : w.scope = ScopeOf(calls[d])
      <4>1. Sees(calls[d].at, ScopeOf(calls[d])) BY <1>17, <2>1, <3>4 DEF PromiseOK
      <4>2. CASE calls[d].at # p BY <1>9, <1>11, <3>3, <3>4, <4>1, <4>2 DEF Sees
      <4>3. CASE calls[d].at = p
        <5>1. Commits(call.code) BY <1>17, <1>3, <2>4, <3>3, <3>4, <4>3
        <5>2. Record(p, ScopeOf(calls[d])) # NoRecord BY <3>3, <3>4, <4>1, <4>3, RecordIsSeen DEF Inv
        <5> QED BY <1>11, <3>3, <3>4, <5>1, <5>2
      <4> QED BY <4>2, <4>3
    <3>5. ASSUME WentWell(calls[d]), "loss" \notin around'[d] PROVE keys'[ScopeOf(calls[d])] # NoRecord
      BY <1>17, <1>11, <2>1, <3>3, <3>5 DEF PromiseOK
    <3>6. ASSUME calls[d].known, Starts(calls[d]), GoesWell(calls[d]) \/ WentWell(calls[d])
          PROVE  calls[d].run = keys'[ScopeOf(calls[d])].run
      <4>1. calls[d].run = keys[ScopeOf(calls[d])].run BY <2>1, <3>6 DEF PromiseOK
      <4>2. keys[ScopeOf(calls[d])] # NoRecord BY <2>1, <3>6 DEF KnownOK
      <4> QED BY <1>11, <3>3, <3>6, <4>1, <4>2
    <3>7. PromiseOK(calls[d], around[d])'
      BY <3>1, <3>4, <3>5, <3>6 DEF PromiseOK, GoesWell, WentWell, Sees, ScopeOf, IsKeyed, Succeeded, Starts
    <3> QED BY <2>2, <3>2, <3>7
  <2> QED BY <2>3, <2>4
<1> QED BY <1>12, <1>13, <1>14, <1>15, <1>16 DEF Inv

\* A restart loses what was not committed, with the calls that had not been answered.
LEMMA RestartStep ==
    ASSUME Inv, NEW p \in Processes, Restart(p)
    PROVE  Inv'
<1>1. /\ memory' = [memory EXCEPT ![p] = [r \in Runs |-> "absent"]]
      /\ pending' = [pending EXCEPT ![p] = Nothing] /\ faults' = faults + 1
      /\ aborted' = aborted \ {p} /\ UNCHANGED <<keys, saved, asked, around>>
  BY DEF Restart
<1> DEFINE lost(d) == calls[d].at = p /\ calls[d].phase \notin {"answered", "lost"}
<1>2. \A d \in Calls : calls'[d] = IF lost(d) THEN [calls[d] EXCEPT !.phase = "lost"] ELSE calls[d]
  BY DEF Restart
<1>3. ASSUME NEW d \in Calls
      PROVE  /\ calls'[d] \in CallRecord
             /\ calls'[d].at = calls[d].at /\ calls'[d].op = calls[d].op /\ calls'[d].key = calls[d].key
             /\ calls'[d].known = calls[d].known /\ calls'[d].fresh = calls[d].fresh
             /\ calls'[d].phase = "starting" => calls[d].phase = "starting"
             /\ Served(calls'[d]) => calls'[d] = calls[d] /\ calls[d].at # p
             /\ calls'[d] = calls[d] \/ calls'[d].phase = "lost"
             /\ calls[d].phase = "answered" => calls'[d] = calls[d]
  <2>1. calls[d] \in CallRecord BY CallFacts
  <2>2. CASE lost(d)
    <3>1. calls'[d] = [calls[d] EXCEPT !.phase = "lost"] BY <1>2, <2>2
    <3> QED BY <2>1, <2>2, <3>1 DEF CallRecord, Phases, Served
  <2>3. CASE ~lost(d)
    <3>1. calls'[d] = calls[d] BY <1>2, <2>3
    <3> QED BY <2>1, <2>3, <3>1 DEF Served
  <2> QED BY <2>2, <2>3
<1>4. calls' \in [Calls -> CallRecord]
  <2>1. calls' = [d \in Calls |-> calls'[d]] BY DEF Restart
  <2> QED BY <1>3, <2>1
<1> HIDE DEF lost
<1>5. /\ pending \in [Processes -> Written] /\ Nothing \in Written /\ Nothing.keys = {}
      /\ memory \in [Processes -> [Runs -> Statuses]] /\ faults \in Nat
  BY DEF Inv, TypeOK, Nothing, Written
<1>6. /\ pending' \in [Processes -> Written]
      /\ \A q \in Processes : pending'[q].keys = IF q = p THEN {} ELSE pending[q].keys
  BY <1>1, <1>5
<1>7. memory' \in [Processes -> [Runs -> Statuses]] /\ \A q \in Processes \ {p} : memory'[q] = memory[q]
  BY <1>1, <1>5 DEF Statuses
<1>8. faults' \in Nat BY <1>1, <1>5
<1>9. TypeOK' BY <1>1, <1>4, <1>6, <1>7, <1>8 DEF Inv, TypeOK
<1>10. UniqueOK'
  <2> SUFFICES ASSUME NEW q \in Processes, NEW w \in pending'[q].keys
               PROVE  /\ keys[w.scope] = NoRecord
                      /\ \A o \in Processes \ {q} : \A v \in pending'[o].keys : v.scope # w.scope
    BY <1>1 DEF UniqueOK, MayPut
  <2> QED BY <1>6 DEF Inv, UniqueOK, MayPut
<1>11. WritesOK'
  <2> SUFFICES ASSUME NEW q \in Processes, NEW w \in pending'[q].keys
               PROVE  w.record.run \in Runs /\ w.record.by \in Calls /\ MayCommit(q, calls[w.record.by])'
    BY DEF WritesOK
  <2>1. q # p /\ w \in pending[q].keys BY <1>6
  <2>2. w.record.run \in Runs /\ w.record.by \in Calls /\ MayCommit(q, calls[w.record.by])
    BY <2>1 DEF Inv, WritesOK
  <2>3. calls'[w.record.by] = calls[w.record.by] BY <1>2, <2>1, <2>2, ZenonT(30) DEF MayCommit, lost
  <2> QED BY <1>7, <2>1, <2>2, <2>3 DEF MayCommit
<1>12. TableOK' BY <1>1, <1>3 DEF Inv, TableOK, Succeeded
<1>13. ASSUME NEW d \in Calls PROVE CallOK(calls[d])' /\ PromiseOK(calls[d], around[d])' /\ KnownOK(calls[d])'
  <2>1. CallOK(calls[d]) /\ PromiseOK(calls[d], around[d]) /\ KnownOK(calls[d]) BY DEF Inv
  <2>2. KnownOK(calls[d])' BY <1>1, <1>3, <2>1 DEF KnownOK, ScopeOf, IsKeyed
  <2>3. CASE calls'[d] = calls[d]
    <3>1. CallOK(calls[d])' BY <2>1, <2>3 DEF CallOK, Starts
    <3>2. calls[d].phase \in {"driving", "answering"} => calls[d].at \in Processes \ {p}
      BY <1>3, <2>1, <2>3 DEF CallOK, Served
    <3>3. PromiseOK(calls[d], around[d])'
      BY <1>1, <1>6, <2>1, <2>3, <3>2
         DEF PromiseOK, GoesWell, WentWell, Sees, ScopeOf, IsKeyed, Succeeded, Starts
    <3> QED BY <2>2, <3>1, <3>3
  <2>4. CASE calls'[d].phase = "lost"
    <3>1. CallOK(calls[d])' BY <2>4 DEF CallOK
    <3>2. PromiseOK(calls[d], around[d])' BY <2>4 DEF PromiseOK, GoesWell, WentWell
    <3> QED BY <2>2, <3>1, <3>2
  <2> QED BY <1>3, <2>3, <2>4
<1> QED BY <1>9, <1>10, <1>11, <1>12, <1>13 DEF Inv

\* Nothing has been sent or written.
LEMMA InitInv ==
    ASSUME Init PROVE Inv
<1>1. Unsent \in CallRecord /\ Unsent.phase = "unsent" /\ Unsent.known = FALSE
  BY DEF Unsent, CallRecord, Phases, Statuses
<1>2. NoRecord \in KeyRecord BY DEF NoRecord, KeyRecord, Statuses
<1>3. Nothing \in Written /\ Nothing.keys = {} BY DEF Nothing, Written
<1>4. \A d \in Calls : calls[d] = Unsent BY DEF Init
<1>5. TypeOK BY <1>1, <1>2, <1>3 DEF Init, TypeOK, Statuses
<1>6. UniqueOK BY <1>3 DEF UniqueOK, Init
<1>7. WritesOK BY <1>3 DEF WritesOK, Init
<1>8. TableOK BY DEF TableOK, Init
<1>9. \A d \in Calls : CallOK(calls[d]) /\ PromiseOK(calls[d], around[d]) /\ KnownOK(calls[d])
  BY <1>1, <1>4 DEF CallOK, PromiseOK, GoesWell, WentWell, KnownOK
<1> QED BY <1>5, <1>6, <1>7, <1>8, <1>9 DEF Inv

\* What changes nothing disturbs nothing.
LEMMA StutterInv ==
    ASSUME Inv, UNCHANGED vars PROVE Inv'
<1>1. UNCHANGED <<calls, memory, pending, aborted, keys, saved, asked, around, faults>> BY DEF vars
<1>2. TypeOK' BY <1>1 DEF Inv, TypeOK
<1>3. UniqueOK' BY <1>1 DEF Inv, UniqueOK, MayPut
<1>4. WritesOK' BY <1>1 DEF Inv, WritesOK, MayCommit
<1>5. TableOK' BY <1>1 DEF Inv, TableOK, Succeeded
<1>6. \A d \in Calls : CallOK(calls[d])' /\ KnownOK(calls[d])'
  BY <1>1 DEF Inv, CallOK, Starts, KnownOK, ScopeOf, IsKeyed
<1>7. \A d \in Calls : PromiseOK(calls[d], around[d])'
  BY <1>1 DEF Inv, PromiseOK, GoesWell, WentWell, Sees, ScopeOf, IsKeyed, Succeeded, Starts
<1> QED BY <1>2, <1>3, <1>4, <1>5, <1>6, <1>7 DEF Inv

-----------------------------------------------------------------------------
(* The theorems. *)

\* The invariant holds of every behaviour, whatever a process handles at a time, and
\* whatever breaks or restarts.
THEOREM SpecInv == Spec => []Inv
<1>1. Init => Inv BY InitInv
<1>2. Inv /\ [Next]_vars => Inv'
  <2> SUFFICES ASSUME Inv, [Next]_vars PROVE Inv' OBVIOUS
  <2>1. ASSUME NEW c \in Calls, NEW p \in Processes, NEW key \in Keys, NEW mark \in Bodies,
               NEW run \in Runs \cup {NoRun}, NEW op \in {"start", "chat", "drive", "cancel"},
               Receive(c, p, op, key, mark, run)
        PROVE  Inv'
    BY <2>1, ReceiveStep
  <2>2. ASSUME NEW c \in Calls, RefuseReused(c) PROVE Inv' BY <2>2, RefuseReusedStep
  <2>3. ASSUME NEW c \in Calls, ReplayStart(c) PROVE Inv' BY <2>3, ReplayStartStep
  <2>4. ASSUME NEW c \in Calls, ReplayCancel(c) PROVE Inv' BY <2>4, ReplayCancelStep
  <2>5. ASSUME NEW c \in Calls, Begin(c) PROVE Inv' BY <2>5, BeginStep
  <2>6. ASSUME NEW c \in Calls, Start(c) PROVE Inv' BY <2>6, StartStep
  <2>7. ASSUME NEW c \in Calls, Drive(c) PROVE Inv' BY <2>7, DriveStep
  <2>8. ASSUME NEW c \in Calls, Break(c) PROVE Inv' BY <2>8, BreakStep
  <2>9. ASSUME NEW c \in Calls, Cancel(c) PROVE Inv' BY <2>9, CancelStep
  <2>10. ASSUME NEW c \in Calls, Respond(c) PROVE Inv' BY <2>10, RespondStep
  <2>11. ASSUME NEW p \in Processes, Restart(p) PROVE Inv' BY <2>11, RestartStep
  <2>12. CASE UNCHANGED vars BY <2>12, StutterInv
  <2>13. ASSUME NEW c \in Calls, FindsAborted(c) PROVE Inv' BY <2>13, FindsAbortedStep
  <2> QED BY <2>13, <2>1, <2>2, <2>3, <2>4, <2>5, <2>6, <2>7, <2>8, <2>9, <2>10, <2>11, <2>12 DEF Next
<1> QED BY <1>1, <1>2, PTL DEF Spec

\* A client that was told its write succeeded finds its key recorded from then
\* on, and no key is recorded for a write that failed, but for those whose
\* transaction another call of the process ended (transaction_per_request).
THEOREM KeysTellTheTruthAlways == Spec => []KeysTellTheTruth
<1>1. Inv => KeysTellTheTruth
  <2> SUFFICES ASSUME Inv PROVE KeysTellTheTruth OBVIOUS
  <2>1. ToldIsKept BY DEF Inv, ToldIsKept, PromiseOK, WentWell
  <2>2. FailureTakesNoKey
    <3> SUFFICES ASSUME NEW s \in Scoped, keys[s] # NoRecord, "commit" \notin around[keys[s].by]
                 PROVE  Succeeded(calls[keys[s].by])
      BY DEF FailureTakesNoKey
    <3> QED BY DEF Inv, TableOK
  <2> QED BY <2>1, <2>2 DEF KeysTellTheTruth
<1> QED BY <1>1, SpecInv, PTL

\* A call whose key was recorded when it came never begins its work again, and a
\* start or chat among them that succeeds has the run the key has, then and ever after.
THEOREM RecordedIsNotRedoneAlways == Spec => []RecordedIsNotRedone
<1>1. Inv => RecordedIsNotRedone
  <2> SUFFICES ASSUME Inv, NEW c \in Calls, calls[c].known
               PROVE  /\ ~calls[c].fresh
                      /\ calls[c].phase = "answered" /\ Succeeded(calls[c]) /\ Starts(calls[c])
                           => calls[c].run = keys[ScopeOf(calls[c])].run
    BY DEF RecordedIsNotRedone
  <2> QED BY DEF Inv, KnownOK, PromiseOK, WentWell
<1> QED BY <1>1, SpecInv, PTL
=============================================================================
