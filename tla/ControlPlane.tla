---------------------------- MODULE ControlPlane ----------------------------
(***************************************************************************)
(* The HTTP control plane: API processes that start, drive and cancel runs *)
(* for clients that retry with idempotency keys.  A process keeps its runs *)
(* in memory and has one database connection, shared by all its requests;  *)
(* the transaction middleware commits that connection when a response is   *)
(* below 500 and rolls it back otherwise.                                  *)
(*                                                                         *)
(* A call is received, looks its key up, does its work (and, for a chat,   *)
(* drives its run), and is answered.  The handlers run in a pool of        *)
(* threads: other calls, of the same process too, and restarts come        *)
(* between any two of these.  What a run does is AgentRun's subject: here  *)
(* a run is open or has ended.                                             *)
(***************************************************************************)
EXTENDS Naturals, FiniteSets

CONSTANTS Processes,    \* API processes, each with its own connection
          Keys,         \* Idempotency-Key values the clients send
          Bodies,       \* what a request says: its fingerprint
          MaxCalls,     \* bound on the requests that are sent
          MaxFaults     \* bound on requests that break, and restarts

ASSUME PlaneAssumption == /\ MaxCalls \in Nat \ {0} /\ MaxFaults \in Nat

VARIABLES calls,     \* [Calls -> a request, how far it is and its answer]
          memory,    \* InProcessControlPlane.runs of each process
          pending,   \* what each process's connection has not committed
          aborted,   \* processes whose transaction had a statement that failed
          keys,      \* idempotency_keys
          saved,     \* run_snapshots: the status of the latest snapshot
          asked,     \* run_cancellations: runs somebody asked to stop
          around,    \* history: what other calls did to a call's transaction
          faults     \* the bounded counter

vars == <<calls, memory, pending, aborted, keys, saved, asked, around, faults>>

Calls == 1 .. MaxCalls
Runs == Calls                  \* a call opens at most one run: its own number
NoRun == 0
Statuses == {"absent", "OPEN", "COMPLETED", "CANCELLED"}
Ended == {"COMPLETED", "CANCELLED"}

\* The two namespaces keep one key apart for the two writes.
Scoped == {"run", "cancel"} \X Keys
NoRecord == [mark |-> "none", run |-> NoRun, status |-> "absent", by |-> NoRun]

Nothing == [keys |-> {}, saved |-> {}, asked |-> {}]

Unsent == [phase |-> "unsent", op |-> "start", at |-> "nowhere", key |-> "no key", mark |-> "none",
           run |-> NoRun, known |-> FALSE, fresh |-> FALSE, code |-> 0, status |-> "absent"]

Init == /\ calls = [c \in Calls |-> Unsent]
        /\ memory = [p \in Processes |-> [r \in Runs |-> "absent"]]
        /\ pending = [p \in Processes |-> Nothing]
        /\ keys = [s \in Scoped |-> NoRecord]
        /\ saved = [r \in Runs |-> "absent"]
        /\ aborted = {} /\ asked = {} /\ faults = 0
        /\ around = [c \in Calls |-> {}]

-----------------------------------------------------------------------------
(* What a connection sees: its own writes over the committed ones.         *)

Record(p, s) ==
  LET own == {w \in pending[p].keys : w.scope = s}
  IN IF own = {} THEN keys[s] ELSE (CHOOSE w \in own : TRUE).record

Snapshot(p, r) ==
  LET own == {w \in pending[p].saved : w.run = r}
  IN IF own = {} THEN saved[r] ELSE (CHOOSE w \in own : TRUE).status

\* PostgresIdempotencyStore.put waits for a transaction that inserted the key.
MayPut(p, s) == \A q \in Processes \ {p} : \A w \in pending[q].keys : w.scope # s

\* Mutant: the last record stays.
PutOver(p, s, record) ==
  {w \in pending[p].keys : w.scope # s} \cup {[scope |-> s, record |-> record]}

\* It does nothing if the key is there.
Put(p, s, record) ==
  IF Record(p, s) # NoRecord THEN pending[p].keys
  ELSE pending[p].keys \cup {[scope |-> s, record |-> record]}

Saving(p, r, status) ==
  {w \in pending[p].saved : w.run # r} \cup {[run |-> r, status |-> status]}

\* _try_stack: the run in memory, or rebuilt from its snapshot; a run without a
\* snapshot is not found, and one that ended cannot be rebuilt.
Stack(p, r) ==
  CASE memory[p][r] # "absent" -> memory[p][r]
    [] memory[p][r] = "absent" /\ Snapshot(p, r) \in Ended -> "not rebuilt"
    [] OTHER -> Snapshot(p, r)

Rebuilt(p, r) == [memory EXCEPT ![p][r] = Stack(p, r)]

\* The scope a call's key is looked up in; a drive sends no key.
ScopeOf(call) == <<IF call.op = "cancel" THEN "cancel" ELSE "run", call.key>>
IsKeyed(call) == call.op # "drive"
Starts(call) == call.op \in {"start", "chat"}

Answers(c, call, code) == calls' = [calls EXCEPT ![c] = [call EXCEPT !.phase = "answering", !.code = code]]
Waits(c, call, phase) == calls' = [calls EXCEPT ![c] = [call EXCEPT !.phase = phase]]

\* The calls that a process works on, but c, see that their transaction was committed
\* or lost.
Served(call) == call.phase \notin {"unsent", "answered", "lost"}
Meet(c, what) ==
  around' = [d \in Calls |-> IF d # c /\ calls[d].at = calls[c].at /\ Served(calls[d])
                             THEN around[d] \cup {what} ELSE around[d]]

\* After a statement that failed every other one on the connection fails, too.
Reaches(call) == call.at \notin aborted

-----------------------------------------------------------------------------
(* Requests.                                                               *)

\* A client sends a request or sends one again; calls are numbered as they come.
Receive(c, p, op, key, mark, run) ==
  /\ calls[c].phase = "unsent" /\ \A d \in 1 .. c - 1 : calls[d].phase # "unsent"
  /\ IF op \in {"start", "chat"} THEN run = NoRun ELSE \E d \in Calls : calls[d].run = run /\ run # NoRun
  /\ LET call == [Unsent EXCEPT !.phase = "received", !.op = op, !.at = p, !.key = key, !.mark = mark, !.run = run]
     IN calls' = [calls EXCEPT ![c] = [call EXCEPT !.known = IsKeyed(call) /\ keys[ScopeOf(call)] # NoRecord]]
  /\ UNCHANGED <<memory, pending, aborted, keys, saved, asked, around, faults>>

\* A key that was used for another request: 422, whatever became of the first.
RefuseReused(c) ==
  LET call == calls[c] IN
  /\ call.phase = "received" /\ IsKeyed(call) /\ Reaches(call)
  /\ LET record == Record(call.at, ScopeOf(call)) IN record # NoRecord /\ record.mark # call.mark
  /\ Answers(c, call, 422)
  /\ UNCHANGED <<memory, pending, aborted, keys, saved, asked, around, faults>>

\* A start or chat whose key is recorded: the run that was opened then, in
\* memory or rebuilt.  One that cannot be rebuilt is a conflict (409), never a
\* second run.
ReplayMissing(call, stack) == stack \in {"absent", "not rebuilt"}

ReplayStart(c) ==
  LET call == calls[c]
      record == Record(call.at, ScopeOf(call))
      found == [call EXCEPT !.run = record.run]
      stack == Stack(call.at, record.run)
  IN
  /\ call.phase = "received" /\ Starts(call) /\ Reaches(call)
  /\ record # NoRecord /\ record.mark = call.mark
  /\ IF ReplayMissing(call, stack) THEN Answers(c, call, 409) /\ UNCHANGED memory
     ELSE /\ memory' = Rebuilt(call.at, record.run)
          /\ IF call.op = "chat" THEN Waits(c, found, "driving") ELSE Answers(c, [found EXCEPT !.status = stack], 200)
  /\ UNCHANGED <<pending, aborted, keys, saved, asked, around, faults>>

\* A cancel whose key is recorded is answered with the view the first one got.
ReplayCancel(c) ==
  LET call == calls[c]
      record == Record(call.at, ScopeOf(call))
  IN
  /\ call.phase = "received" /\ call.op = "cancel" /\ Reaches(call)
  /\ record # NoRecord /\ record.mark = call.mark
  /\ Answers(c, [call EXCEPT !.status = record.status], 200)
  /\ UNCHANGED <<memory, pending, aborted, keys, saved, asked, around, faults>>

\* The key is not recorded: the call goes on to its work.
\* Mutant: a run that is not in memory is opened again.
BeginsUnlessLoaded(call) ==
  \/ Record(call.at, ScopeOf(call)) = NoRecord
  \/ /\ Starts(call) /\ Record(call.at, ScopeOf(call)) # NoRecord
     /\ memory[call.at][Record(call.at, ScopeOf(call)).run] = "absent"

Begins(call) == Record(call.at, ScopeOf(call)) = NoRecord

Begin(c) ==
  LET call == calls[c] IN
  /\ call.phase = "received" /\ (IsKeyed(call) => Reaches(call) /\ Begins(call))
  /\ Waits(c, [call EXCEPT !.fresh = IsKeyed(call)],
           IF Starts(call) THEN "starting" ELSE IF call.op = "cancel" THEN "cancelling" ELSE "driving")
  /\ UNCHANGED <<memory, pending, aborted, keys, saved, asked, around, faults>>

\* start_run: a new run in memory, and its key with it; no snapshot is saved.
Start(c) ==
  LET call == calls[c]
      opened == [call EXCEPT !.run = c, !.status = "OPEN"]
      record == [mark |-> call.mark, run |-> c, status |-> "OPEN", by |-> c]
  IN
  /\ call.phase = "starting" /\ Reaches(call) /\ MayPut(call.at, ScopeOf(call))
  /\ memory' = [memory EXCEPT ![call.at][c] = "OPEN"]
  /\ pending' = [pending EXCEPT ![call.at].keys = Put(call.at, ScopeOf(call), record)]
  /\ IF call.op = "chat" THEN Waits(c, opened, "driving") ELSE Answers(c, opened, 201)
  /\ UNCHANGED <<aborted, keys, saved, asked, around, faults>>

\* drive_run on a run of this process, or rebuilt: it goes on until it stops,
\* and a snapshot is saved.  A chat swallows the conflict of a run that ended.
Drive(c) ==
  LET call == calls[c]
      p == call.at
      r == call.run
      stack == Stack(p, r)
  IN
  /\ call.phase = "driving" /\ (Reaches(call) \/ stack \in Ended)
  /\ CASE stack = "absent" -> Answers(c, call, 404) /\ UNCHANGED <<memory, pending>>
       [] stack = "not rebuilt" -> Answers(c, call, 409) /\ UNCHANGED <<memory, pending>>
       [] stack \in Ended -> Answers(c, [call EXCEPT !.status = stack], IF call.op = "chat" THEN 200 ELSE 409)
                             /\ UNCHANGED <<memory, pending>>
       [] stack = "OPEN" -> \E status \in {"OPEN", "COMPLETED"} :
                              /\ memory' = [memory EXCEPT ![p][r] = status]
                              /\ pending' = [pending EXCEPT ![p].saved = Saving(p, r, status)]
                              /\ Answers(c, [call EXCEPT !.status = status], 200)
  /\ UNCHANGED <<aborted, keys, saved, asked, around, faults>>

\* Something unexpected is raised while the run is opened, driven or cancelled:
\* guard answers 500.  What the loop did in memory stays done, and what it saved
\* stays on the connection.  When it was a statement that failed (a put that two
\* processes wait for in turn is one) the transaction is lost for every call of the
\* process, and their next statements fail, too.
LeftInMemory(phase) ==
  CASE phase = "starting" -> {"OPEN"}
    [] phase = "driving" -> {"OPEN", "COMPLETED"}
    [] OTHER -> {"OPEN", "CANCELLED"}

Break(c) ==
  LET call == calls[c]
      p == call.at
      r == IF call.phase = "starting" THEN c ELSE call.run
  IN
  /\ Reaches(call) => faults < MaxFaults
  /\ faults' = IF Reaches(call) THEN faults + 1 ELSE faults
  /\ call.phase \in {"starting", "driving", "cancelling"}
  /\ call.phase = "starting" \/ (Stack(p, r) = "OPEN" /\ (Reaches(call) \/ memory[p][r] = "OPEN"))
  /\ Answers(c, call, 500)
  /\ \E status \in LeftInMemory(call.phase) :
       /\ memory' = [memory EXCEPT ![p][r] = status]
       /\ \/ /\ Reaches(call) /\ aborted' = aborted \cup {p} /\ Meet(c, "loss")
             /\ pending' = [pending EXCEPT ![p] = Nothing]
          \/ UNCHANGED <<aborted, pending, around>>
          \/ /\ call.phase # "starting" /\ Reaches(call)
             /\ pending' = [pending EXCEPT ![p].saved = Saving(p, r, status)]
             /\ UNCHANGED <<aborted, around>>
  /\ UNCHANGED <<keys, saved, asked>>

\* The first statement of the call fails, because another call's has.
FindsAborted(c) ==
  LET call == calls[c] IN
  /\ ~Reaches(call)
  /\ \/ call.phase = "received" /\ IsKeyed(call)
     \/ call.phase \in {"driving", "cancelling"} /\ memory[call.at][call.run] = "absent"
  /\ Answers(c, call, 500)
  /\ UNCHANGED <<memory, pending, aborted, keys, saved, asked, around, faults>>

\* _cancel_now, then the key.  A run this process neither has nor can rebuild
\* is left a request to stop; one that ended is refused and takes no key.
Cancel(c) ==
  LET call == calls[c]
      p == call.at
      r == call.run
      stack == Stack(p, r)
      Told(status) ==
        LET record == [mark |-> call.mark, run |-> r, status |-> status, by |-> c]
        IN /\ MayPut(p, ScopeOf(call))
           /\ pending' = [pending EXCEPT ![p].keys = Put(p, ScopeOf(call), record),
                                         ![p].saved = IF status = "CANCELLED" THEN Saving(p, r, status) ELSE @,
                                         ![p].asked = IF status = "absent" THEN @ \cup {r} ELSE @]
           /\ Answers(c, [call EXCEPT !.status = status], 200)
  IN
  /\ call.phase = "cancelling" /\ (Reaches(call) \/ stack \in Ended)
  /\ CASE stack = "absent" -> Told("absent") /\ UNCHANGED memory
       [] stack = "OPEN" -> Told("CANCELLED") /\ memory' = [memory EXCEPT ![p][r] = "CANCELLED"]
       [] OTHER -> Answers(c, call, 409) /\ UNCHANGED <<memory, pending>>
  /\ UNCHANGED <<aborted, keys, saved, asked, around, faults>>

\* Mutant: 500 commits, too.
CommitsAlways(code) == code > 0

\* The middleware: below 500 everything on the connection is committed, the
\* writes of other calls in progress there included; otherwise it is all gone.
\* The COMMIT of a transaction that was aborted finds nothing, and says nothing.
Commits(code) == code < 500

Respond(c) ==
  LET call == calls[c]
      p == call.at
  IN
  /\ call.phase = "answering"
  /\ calls' = [calls EXCEPT ![c].phase = "answered"]
  /\ pending' = [pending EXCEPT ![p] = Nothing]
  /\ aborted' = aborted \ {p}
  /\ IF Commits(call.code)
     THEN /\ keys' = [s \in Scoped |-> Record(p, s)]
          /\ saved' = [r \in Runs |-> Snapshot(p, r)]
          /\ asked' = asked \cup pending[p].asked
          /\ Meet(c, "commit")
     ELSE Meet(c, "loss") /\ UNCHANGED <<keys, saved, asked>>
  /\ UNCHANGED <<memory, faults>>

\* A process ends and starts again: its memory and its transaction are gone, and
\* the clients of its calls hear nothing.
Restart(p) ==
  /\ faults < MaxFaults /\ faults' = faults + 1
  /\ memory' = [memory EXCEPT ![p] = [r \in Runs |-> "absent"]]
  /\ pending' = [pending EXCEPT ![p] = Nothing]
  /\ aborted' = aborted \ {p}
  /\ calls' = [c \in Calls |-> IF calls[c].at = p /\ calls[c].phase \notin {"answered", "lost"}
                               THEN [calls[c] EXCEPT !.phase = "lost"] ELSE calls[c]]
  /\ UNCHANGED <<keys, saved, asked, around>>

Next == \/ \E c \in Calls, p \in Processes, key \in Keys, mark \in Bodies, run \in Runs \cup {NoRun},
              op \in {"start", "chat", "drive", "cancel"} : Receive(c, p, op, key, mark, run)
        \/ \E c \in Calls : RefuseReused(c) \/ ReplayStart(c) \/ ReplayCancel(c) \/ Begin(c) \/ Start(c)
                              \/ Drive(c) \/ Break(c) \/ FindsAborted(c) \/ Cancel(c) \/ Respond(c)
        \/ \E p \in Processes : Restart(p)

Spec == Init /\ [][Next]_vars

-----------------------------------------------------------------------------
(* Properties.                                                             *)

Succeeded(call) == call.code \in 200 .. 299

\* A client that was told its keyed write succeeded can rely on the key: a record
\* is in the table from then on, whatever restarts and other calls come after,
\* unless another call of the process lost the transaction they shared.
ToldIsKept ==
  \A c \in Calls : calls[c].phase = "answered" /\ Succeeded(calls[c]) /\ IsKeyed(calls[c]) /\ "loss" \notin around[c]
    => keys[ScopeOf(calls[c])] # NoRecord

\* A write that failed holds no key ("a failure does not take the key",
\* cancel_run's docstring), unless another call of the process committed it.
FailureTakesNoKey ==
  \A s \in Scoped : keys[s] # NoRecord =>
    LET c == keys[s].by IN calls[c].phase = "answered" /\ "commit" \notin around[c] => Succeeded(calls[c])

\* Together: a key is recorded exactly for those it was told to, with any number of
\* requests at a time, but for those whose transaction another one ended.
KeysTellTheTruth == ToldIsKept /\ FailureTakesNoKey

\* Once a key is recorded the write behind it is never done again: a call that
\* arrives later is refused, or told the run that the key has for ever, although
\* restarts lose the run and calls that began before still put the key.
RecordedIsNotRedone ==
  \A c \in Calls : calls[c].known =>
    /\ ~calls[c].fresh
    /\ calls[c].phase = "answered" /\ Succeeded(calls[c]) /\ Starts(calls[c])
         => calls[c].run = keys[ScopeOf(calls[c])].run

\* A 5xx leaves not a word behind (app.py:333): no key is held by a call that failed.
FailureLeavesNothing ==
  \A s \in Scoped : keys[s] # NoRecord =>
    LET call == calls[keys[s].by] IN call.phase = "answered" => call.code < 500

\* One key, one run: all clients that were answered for one key were told the
\* same run (service.py:335).
OneRunPerKey ==
  \A c, d \in Calls :
    /\ Starts(calls[c]) /\ Starts(calls[d]) /\ calls[c].key = calls[d].key
    /\ calls[c].phase = "answered" /\ calls[d].phase = "answered"
    /\ Succeeded(calls[c]) /\ Succeeded(calls[d])
    => calls[c].run = calls[d].run
=============================================================================
