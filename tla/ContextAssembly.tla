--------------------------- MODULE ContextAssembly ---------------------------
(***************************************************************************)
(* What an agent gets to read: the chunks an index finds for a question,    *)
(* which version of the knowledge they are of, who may see them, how the    *)
(* lists of several indexes are merged and reranked, and what of it all     *)
(* fits into the model's window.  Chunks are records [id, score, coverage,  *)
(* owner, version, chars]; scores are whole numbers, and a text is the      *)
(* number of its characters and the share of the question it covers.        *)
(***************************************************************************)
EXTENDS Integers, Sequences, SequencesExt, FiniteSets

LesserOf(x, y) == IF x < y THEN x ELSE y

Ids(seq) == [i \in DOMAIN seq |-> seq[i].id]

\* Best score first, the identifier among equals.
ByScore(x, y) == x.score > y.score \/ (x.score = y.score /\ x.id < y.id)

FirstOf(seq, limit) == SubSeq(seq, 1, LesserOf(limit, Len(seq)))

-----------------------------------------------------------------------------
(* The indexes.  A query is [limit, tenant, version]; version "" asks for   *)
(* no version.                                                             *)

\* BM25 ends at the first chunk that shares no word with the question.
IndexSearch(chunks, query) ==
  FirstOf(SortSeq(SelectSeq(chunks, LAMBDA c : c.score > 0 /\ query.version \in {"", c.version}), ByScore),
          query.limit)

\* The registry of knowledge versions: [known, current].
EmptyRegistry == [known |-> {}, current |-> ""]

Register(registry, version, makeCurrent) ==
  IF version \in registry.known THEN registry
  ELSE [known |-> registry.known \cup {version},
        current |-> IF makeCurrent \/ registry.current = "" THEN version ELSE registry.current]

SetCurrent(registry, version) ==
  IF version \in registry.known THEN [registry EXCEPT !.current = version] ELSE registry

ResolvedVersion(registry, pinned) ==
  IF pinned # "" THEN IF pinned \in registry.known THEN pinned ELSE "UnknownVersion"
  ELSE IF registry.current # "" THEN registry.current ELSE "NoCurrentVersion"

Failures == {"UnknownVersion", "NoCurrentVersion", "VersionMismatch", "ContextBudgetError"}

\* The wrapped index is asked for one version; one that does not filter is found out.
VersionedSearch(registry, pinned, chunks, query, filters) ==
  LET version == ResolvedVersion(registry, pinned)
      found == IndexSearch(chunks, [query EXCEPT !.version = IF filters THEN version ELSE ""])
  IN IF version \in Failures THEN [error |-> version, found |-> <<>>]
     ELSE IF \E i \in DOMAIN found : found[i].version # version THEN [error |-> "VersionMismatch", found |-> <<>>]
     ELSE [error |-> "", found |-> found]

\* Reciprocal rank fusion: 1 / (k + rank), summed, in units that keep it whole for lists of three.
FusionUnit(k) == (k + 1) * (k + 2) * (k + 3)

RankIn(list, id) == LET at == {i \in DOMAIN list : list[i].id = id} IN IF at = {} THEN 0 ELSE CHOOSE i \in at : TRUE

FusedScore(k, lists, id) ==
  LET ranks == [i \in DOMAIN lists |-> RankIn(lists[i], id)]
  IN FoldLeft(LAMBDA sum, r : IF r = 0 THEN sum ELSE sum + FusionUnit(k) \div (k + r), 0, ranks)

HybridSearch(k, lists) ==
  LET all == FlattenSeq(lists)
      best(id) == CHOOSE c \in ToSet(all) : c.id = id /\ \A d \in ToSet(all) : d.id = id => d.score <= c.score
      fused == {[best(id) EXCEPT !.score = FusedScore(k, lists, id)] : id \in ToSet(Ids(all))}
  IN SortSeq(SetToSeq(fused), ByScore)

\* Coverage and rank weight are given in halves; equals keep their order.
LexicalRerank(weight, chunks) ==
  LET value(i) == 12 * chunks[i].coverage + (weight * 12) \div i
      order == SortSeq([i \in DOMAIN chunks |-> i],
                       LAMBDA i, j : value(i) > value(j) \/ (value(i) = value(j) /\ i < j))
  IN [n \in DOMAIN order |-> chunks[order[n]]]

-----------------------------------------------------------------------------
(* The pipeline: search, rerank, who may see it, and the best of the rest.  *)

\* A query without a tenant sees nothing of anybody.
TenantMaySee(chunk, query) == query.tenant # "" /\ chunk.owner = query.tenant

RetrievalResult(candidates, query) ==
  [kept |-> FirstOf(SortSeq(SelectSeq(candidates, LAMBDA c : TenantMaySee(c, query)), ByScore), query.limit),
   denied |-> SelectSeq(candidates, LAMBDA c : ~TenantMaySee(c, query))]

-----------------------------------------------------------------------------
(* The window.  An item is [id, source, priority, pinned, chars].           *)

Tokens(chars, perToken) == (chars + perToken - 1) \div perToken

BudgetIsValid(budget) == budget.total > 0 /\ budget.reserved >= 0 /\ budget.reserved < budget.total
Available(budget) == budget.total - budget.reserved

\* Pinned first, then by priority, then by key.
ByRank(x, y) ==
  \/ x.pinned /\ ~y.pinned
  \/ x.pinned = y.pinned /\ (x.priority > y.priority \/ (x.priority = y.priority /\ x.id < y.id))

NothingAllocated == [kept |-> <<>>, dropped |-> <<>>, used |-> 0, error |-> ""]

\* One item after the other: a smaller one may still fit behind one that did not.
AllocatedNext(plan, item, available, perToken) ==
  LET cost == Tokens(item.chars, perToken)
  IN IF plan.error # "" THEN plan
     ELSE IF plan.used + cost <= available
     THEN [plan EXCEPT !.kept = Append(@, item), !.used = @ + cost]
     ELSE IF item.pinned THEN [plan EXCEPT !.error = "ContextBudgetError"]
     ELSE [plan EXCEPT !.dropped = Append(@, item)]

Allocate(items, budget, perToken) ==
  FoldLeft(LAMBDA plan, item : AllocatedNext(plan, item, Available(budget), perToken),
           NothingAllocated, SortSeq(items, ByRank))

Sources == <<"system", "conversation", "memory", "knowledge", "runtime_state", "skill", "tool", "metadata">>
SourceRank(source) == CHOOSE i \in DOMAIN Sources : Sources[i] = source

Item(source, id, priority, pinned, chars) ==
  [id |-> id, source |-> source, priority |-> priority, pinned |-> pinned, chars |-> chars]

KnowledgeItem(chunk) == Item("knowledge", chunk.id, 30, FALSE, chunk.chars)

\* A message is [role, chars]; its key begins with its role, so one role's messages come before another's.
MessageItem(message, place) ==
  Item("conversation", (IF message.role = "user" THEN 100 ELSE 0) + place, 50, FALSE, message.chars)

\* Memories: records [id, layer, subject, run, chars, says], "says" when the text
\* contains the whole of what is asked; no time is ever recorded, so identifiers order them.
MemoryIsBuilt(record) == record.subject # "" /\ record.chars > 0 /\ (record.layer = "episodic" => record.run # "")

MemorySearch(rows, layer, subject, asked, limit) ==
  FirstOf(SortSeq(SelectSeq(rows, LAMBDA r : r.layer = layer /\ subject \in {"", r.subject} /\ (asked => r.says)),
                  LAMBDA x, y : x.id < y.id), limit)

Recall(rows, subject, asked, limit) ==
  LET built == SelectSeq(rows, MemoryIsBuilt)
      found == MemorySearch(built, "semantic", subject, asked, limit)
               \o MemorySearch(built, "episodic", subject, asked, limit)
  IN [i \in DOMAIN found |-> Item("memory", found[i].id, 40, FALSE, found[i].chars)]

\* A request is [system, messages, memory, subject, knowledge, tools, state]: sizes, texts and records.
Collected(request) ==
  (IF request.system > 0 THEN <<Item("system", 0, 100, TRUE, request.system)>> ELSE <<>>)
  \o [i \in DOMAIN request.messages |-> MessageItem(request.messages[i], i - 1)]
  \o Recall(request.memory, request.subject, request.messages # <<>>, 10)
  \o [i \in DOMAIN request.knowledge |-> KnowledgeItem(request.knowledge[i])]
  \o (IF request.state > 0 THEN <<Item("runtime_state", 0, 60, FALSE, request.state)>> ELSE <<>>)
  \o (IF request.tools = <<>> THEN <<Item("tool", 0, 90, TRUE, 1)>>
      ELSE [i \in DOMAIN request.tools |-> Item("tool", i, 90, TRUE, request.tools[i])])

InOrder(items) ==
  SortSeq(items, LAMBDA x, y : \/ SourceRank(x.source) < SourceRank(y.source)
                               \/ x.source = y.source /\ x.id < y.id)

\* What is rendered is what the snapshot keeps; what was dropped is kept with it.
ContextBuild(request, budget, perToken) ==
  LET plan == Allocate(Collected(request), budget, perToken)
  IN [plan EXCEPT !.kept = InOrder(plan.kept)]

\* An evaluation ranks its chunks by what the retrieval said of them.
AssembledContext(kept, budget, perToken) ==
  Allocate([i \in DOMAIN kept |-> [KnowledgeItem(kept[i]) EXCEPT !.priority = 1000000 - (i - 1)]], budget, perToken)

-----------------------------------------------------------------------------
(* What must hold of them.                                                  *)

NothingIsLost(all, kept, dropped) ==
  /\ Len(kept) + Len(dropped) = Len(all)
  /\ ToSet(kept) \cup ToSet(dropped) = ToSet(all)

\* The window is never exceeded and the part kept for the answer never touched,
\* nothing disappears without being named as dropped, what is pinned is never
\* dropped, and what is dropped would not have fitted beside what came before it.
ContextFits(in) ==
  BudgetIsValid(in.budget) =>
    LET all == Collected(in.request)
        build == ContextBuild(in.request, in.budget, in.perToken)
        cost(items) == FoldLeft(LAMBDA sum, x : sum + Tokens(x.chars, in.perToken), 0, items)
        before(x) == SelectSeq(build.kept, LAMBDA y : ByRank(y, x))
    IN IF build.error # "" THEN cost(SelectSeq(all, LAMBDA x : x.pinned)) > Available(in.budget)
       ELSE /\ cost(build.kept) = build.used
            /\ build.used + in.budget.reserved <= in.budget.total
            /\ NothingIsLost(all, build.kept, build.dropped)
            /\ in.request.subject # "" =>
                 \A r \in ToSet(in.request.memory) :
                   r.subject # in.request.subject => Item("memory", r.id, 40, FALSE, r.chars) \notin ToSet(build.kept)
            /\ \A x \in ToSet(build.dropped) :
                 ~x.pinned /\ cost(before(x)) + Tokens(x.chars, in.perToken) > Available(in.budget)

\* Whatever the indexes answer, a tenant reads its own chunks only, of one
\* version when one is asked for, and a chunk every index ranks above another
\* stays above it.
RetrievalKeepsApart(in) ==
  LET one == VersionedSearch(in.registry, in.pinned, in.chunks, in.query, in.filters)
      other == SortSeq(in.chunks, LAMBDA x, y : x.id < y.id)
      lists == <<one.found, FirstOf(other, in.query.limit)>>
      merged == HybridSearch(in.k, lists)
      result == RetrievalResult(LexicalRerank(1, merged), in.query)
      above(x, y) == \A l \in ToSet(lists) :
                       \/ RankIn(l, y.id) = 0
                       \/ RankIn(l, x.id) > 0 /\ RankIn(l, x.id) < RankIn(l, y.id)
  IN /\ one.error = "" => \A c \in ToSet(one.found) : c.version = ResolvedVersion(in.registry, in.pinned)
     /\ one.error = "VersionMismatch" => ~in.filters
     /\ ToSet(Ids(merged)) = ToSet(Ids(FlattenSeq(lists)))
     /\ \A c \in ToSet(result.kept) : c.owner = in.query.tenant
     /\ Len(result.kept) <= in.query.limit
     /\ \A i, j \in DOMAIN merged : above(merged[i], merged[j]) /\ merged[i].id # merged[j].id => i < j

\* A version once registered is the current one or another one is, whatever follows.
RegistryIsResolved(in) ==
  LET step(registry, call) == IF call.op = "register" THEN Register(registry, call.version, call.current)
                              ELSE SetCurrent(registry, call.version)
      after == FoldLeft(step, EmptyRegistry, in)
  IN /\ after.known = {in[i].version : i \in {j \in DOMAIN in : in[j].op = "register"}}
     /\ after.known = {} <=> ResolvedVersion(after, "") = "NoCurrentVersion"
     /\ after.known # {} => after.current \in after.known

\* LexicalRerank: what covers more of the question comes first.  RetrievalPipeline
\* sorts by score again when it has been reranked, so it does not.
RerankIsKept(in) ==
  LET reranked == LexicalRerank(in.weight, SortSeq(in.chunks, ByScore))
      mine == SelectSeq(reranked, LAMBDA c : TenantMaySee(c, in.query))
  IN RetrievalResult(reranked, in.query).kept = FirstOf(mine, in.query.limit)
=============================================================================
