---------------------------- MODULE KnowledgeIndex ----------------------------
(***************************************************************************)
(* How a topic's documents become a knowledge base: which units are         *)
(* fetched, how a text is packed into chunks, how chunks get their vectors, *)
(* what an index run does to the collection and its manifest, what a search *)
(* is refused or answered, and which citations are made of an answer.       *)
(***************************************************************************)
EXTENDS Integers, Sequences, FiniteSets
LOCAL INSTANCE SequencesExt
LOCAL INSTANCE FiniteSetsExt

LOCAL Total(s) == FoldLeft(LAMBDA a, b : a + b, 0, s)

-----------------------------------------------------------------------------
(* Packing.  A block is [id, part, kind, chars, runs]: a code block is a    *)
(* fence around runs of lines, separated by blank lines, and is the only    *)
(* one that is ever cut, at those.                                          *)

Overhead == 2   \* the fences and their line ends

CodeChars(runs) == Overhead - 1 + Total(runs) + Len(runs) - 1

\* A cut keeps no blank line; a group takes runs while they fit.
GroupedRuns(runs, budget) ==
  FoldLeft(LAMBDA groups, size :
             IF groups = <<>> \/ Overhead + Total(groups[Len(groups)]) + size > budget
             THEN Append(groups, <<size>>)
             ELSE [groups EXCEPT ![Len(groups)] = Append(@, size)], <<>>, runs)

SplitCodeBlock(block, budget) ==
  LET groups == GroupedRuns(block.runs, budget)
  IN IF Len(groups) <= 1 THEN <<block>>
     ELSE [i \in DOMAIN groups |-> [block EXCEPT !.part = i, !.runs = groups[i], !.chars = Overhead - 1 + Total(groups[i])]]

FitBlocks(blocks, budget) ==
  FoldLeft(LAMBDA out, b : out \o (IF b.kind = "code" /\ b.chars > budget THEN SplitCodeBlock(b, budget) ELSE <<b>>),
           <<>>, blocks)

CharsOf(group) == Total([i \in DOMAIN group |-> group[i].chars])
WithGroup(out, group) == IF group = <<>> THEN out ELSE Append(out, group)

\* A block above the budget is alone; a full group's last block is repeated in
\* the next one when it is within the overlap.
PackBlocks(blocks, budget, overlap) ==
  LET packed ==
        FoldLeft(LAMBDA a, b :
                   IF b.chars > budget THEN [out |-> Append(WithGroup(a.out, a.current), <<b>>), current |-> <<>>]
                   ELSE IF a.current # <<>> /\ CharsOf(a.current) + b.chars > budget
                        THEN LET tail == a.current[Len(a.current)]
                             IN [out |-> Append(a.out, a.current),
                                 current |-> IF tail.chars <= overlap THEN <<tail, b>> ELSE <<b>>]
                        ELSE [a EXCEPT !.current = Append(@, b)],
                 [out |-> <<>>, current |-> <<>>], blocks)
  IN WithGroup(packed.out, packed.current)

\* Blocks are joined by two characters.
PieceOf(group, budget) ==
  LET chars == CharsOf(group) + 2 * (Len(group) - 1) IN [group |-> group, chars |-> chars, oversized |-> chars > budget]
Fit(blocks, budget, overlap) ==
  LET groups == PackBlocks(FitBlocks(blocks, budget), budget, overlap)
  IN [i \in DOMAIN groups |-> PieceOf(groups[i], budget)]

\* The chunks of a document are numbered as they are emitted, and a chunk that is
\* too short, header included, is left out.
ChunkDocument(document, pieces, header, minimum) ==
  LET kept == SelectSeq(pieces, LAMBDA p : header + p.chars >= minimum)
  IN [i \in DOMAIN kept |-> [id |-> <<document, i - 1>>, piece |-> kept[i]]]

\* A unit [id, reply, cached, chunks] is fetched, or taken from the cache when
\* offline, and it fails without chunks as it fails without a page.
IngestUnit(unit, offline) ==
  LET status == IF offline THEN IF unit.cached THEN "ok" ELSE "missing_cache" ELSE unit.reply
  IN [status |-> status, cached |-> unit.cached \/ status = "ok",
      chunks |-> IF status = "ok" THEN unit.chunks ELSE <<>>]

Ingest(units, offline, only) ==
  LET wanted == SelectSeq(units, LAMBDA u : only = {} \/ u.id \in only)
      done == [i \in DOMAIN wanted |-> [id |-> wanted[i].id] @@ IngestUnit(wanted[i], offline)]
      good(d) == d.chunks # <<>>
  IN [fetched |-> [i \in DOMAIN done |-> done[i].status],
      ok |-> SelectSeq(done, good), failed |-> SelectSeq(done, LAMBDA d : ~good(d)),
      chunks |-> FoldLeft(LAMBDA a, d : a \o d.chunks, <<>>, done)]

-----------------------------------------------------------------------------
(* Vectors.  A reply is [code, rows]: code 0 is a connection that fails, a   *)
(* row [index, of, dim] the vector of one text.                             *)

RetryStatus == {408, 409, 425, 429, 500, 502, 503, 504}

EmbedFails(tries) == [ok |-> FALSE, tries |-> tries, vectors |-> <<>>]

\* Stable in the rows' order, as Python's sort is.
ByIndex(rows) ==
  LET before(i, j) == rows[i].index < rows[j].index \/ (rows[i].index = rows[j].index /\ i < j)
      place(j) == Cardinality({i \in DOMAIN rows : before(i, j)}) + 1
  IN [n \in DOMAIN rows |-> rows[CHOOSE j \in DOMAIN rows : place(j) = n]]

\* The attempts run until one is answered, or is not worth another.
EmbedPost(count, dim, retries, replies) ==
  LET lastOf(i) == i = retries + 1 \/ (replies[i].code # 0 /\ replies[i].code \notin RetryStatus)
      at == CHOOSE i \in DOMAIN replies : lastOf(i) /\ \A j \in 1 .. i - 1 : ~lastOf(j)
      rows == ByIndex(replies[at].rows)
  IN IF replies[at].code # 200 \/ Len(rows) # count \/ \E i \in DOMAIN rows : rows[i].dim # dim THEN EmbedFails(at)
     ELSE [ok |-> TRUE, tries |-> at, vectors |-> rows]

-----------------------------------------------------------------------------
(* Index runs.  An embedder is [name, slug, dim, semantic]; its signature is *)
(* its name and dimension.  The world is [corpus, collections, manifest]:   *)
(* the texts of the chunks by number, the points of each collection, each    *)
(* [text, by], and what the last whole run wrote down.                      *)

SignatureOf(embedder) == <<embedder.name, embedder.dim>>
CollectionOf(embedder) == <<embedder.slug, embedder.dim>>

NoManifest == [written |-> FALSE]
PutPoints(points, chunks, vectors, embedder) ==
  [k \in DOMAIN points \cup 1 .. vectors |->
     IF k <= vectors THEN [text |-> chunks[k], by |-> SignatureOf(embedder)] ELSE points[k]]

\* A collection that is there is kept, unless it is to be made anew.
EnsureCollection(world, name, recreate) ==
  IF name \in DOMAIN world.collections /\ ~recreate THEN world.collections
  ELSE [n \in DOMAIN world.collections \cup {name} |-> IF n = name THEN <<>> ELSE world.collections[n]]

\* Without a corpus nothing is done.  The run stops after as many points as it
\* gets to; only a whole one has a manifest.
IndexTopic(world, run) ==
  LET chunks == IF run.limit = 0 THEN world.corpus ELSE SubSeq(world.corpus, 1, Min({run.limit, Len(world.corpus)}))
      name == CollectionOf(run.by)
      ensured == EnsureCollection(world, name, run.recreate)
      written == Min({run.reach, Len(chunks)})
      points == PutPoints(ensured[name], chunks, written, run.by)
      after == [world EXCEPT !.collections = [ensured EXCEPT ![name] = points]]
  IN IF chunks = <<>> THEN world
     ELSE IF run.reach < Len(chunks) THEN after
     ELSE [after EXCEPT !.manifest = [written |-> TRUE, collection |-> name, signature |-> SignatureOf(run.by),
                                      semantic |-> run.by.semantic, corpus |-> chunks, total |-> Cardinality(DOMAIN points)]]

StaleCorpus(world) == world.corpus # world.manifest.corpus

AssertEmbedderMatches(manifest, embedder, allowed) ==
  /\ manifest.written /\ manifest.signature = SignatureOf(embedder)
  /\ manifest.semantic \/ allowed

\* The points a search may answer from.
SearchTopic(world, embedder, allowed) ==
  IF AssertEmbedderMatches(world.manifest, embedder, allowed)
  THEN [ok |-> TRUE, points |-> world.collections[world.manifest.collection]]
  ELSE [ok |-> FALSE, points |-> <<>>]

Operated(world, op) ==
  IF op.does = "ingest" THEN [world EXCEPT !.corpus = op.corpus] ELSE IndexTopic(world, op)
WorldAfter(ops) == FoldLeft(Operated, [corpus |-> <<>>, collections |-> <<>>, manifest |-> NoManifest], ops)

-----------------------------------------------------------------------------
(* Answers.  What a model writes [is, n] is a key, a number or anything      *)
(* else; the contexts' keys are numbered as they were given.                *)

Citation(written, count) ==
  IF written.is = "number" /\ written.n \in 1 .. count THEN [is |-> "key", n |-> written.n] ELSE written

NormalizeCitations(raw, count) ==
  FoldLeft(LAMBDA out, c : IF Contains(out, c) THEN out ELSE Append(out, c), <<>>,
           [i \in DOMAIN raw |-> Citation(raw[i], count)])

\* A content is JSON or not, and its citations are a list or not: without one
\* nothing was declared, which is not the same as no citation.
ParseResponse(content, count) ==
  IF ~content.json \/ ~content.list THEN [declared |-> FALSE, citations |-> <<>>]
  ELSE [declared |-> TRUE, citations |-> NormalizeCitations(content.raw, count)]

-----------------------------------------------------------------------------
(* Claims: each for one input.                                             *)

\* Packing loses and cuts nothing: without the repeated blocks, the groups are
\* the blocks in their order, a code block in parts that hold its lines; and a
\* group is above budget and overlap only if it is one block (pack_blocks, _fit).
PiecesKeep(c, fitted, pieces) ==
  LET group(k) == pieces[k].group
      repeats(k) == k > 1 /\ group(k)[1] = group(k - 1)[Len(group(k - 1))]
      kept == FlattenSeq([k \in DOMAIN pieces |-> IF repeats(k) THEN Tail(group(k)) ELSE group(k)])
      chunks == ChunkDocument("d", pieces, 1, c.minimum)
  IN /\ kept = fitted
     /\ \A k \in DOMAIN c.blocks : FlattenSeq([i \in DOMAIN SelectSeq(fitted, LAMBDA b : b.id = k) |->
                                                SelectSeq(fitted, LAMBDA b : b.id = k)[i].runs]) = c.blocks[k].runs
     /\ \A k \in DOMAIN pieces : Len(group(k)) = 1 \/ CharsOf(group(k)) <= c.budget + c.overlap
     /\ \A k \in DOMAIN chunks : chunks[k].id = <<"d", k - 1>>

TextIsKept(c) == PiecesKeep(c, FitBlocks(c.blocks, c.budget), Fit(c.blocks, c.budget, c.overlap))

\* Each unit that is wanted succeeds or fails, once, and exactly the chunks of
\* those that succeed are written, whatever the network does (ingest).
UnitsAreAccounted(c) ==
  LET report == Ingest(c.units, c.offline, c.only)
      wanted == {id \in {c.units[i].id : i \in DOMAIN c.units} : c.only = {} \/ id \in c.only}
      idsOf(s) == {s[i].id : i \in DOMAIN s}
  IN /\ idsOf(report.ok) \cup idsOf(report.failed) = wanted
     /\ idsOf(report.ok) \cap idsOf(report.failed) = {}
     /\ Len(report.ok) + Len(report.failed) = Len(report.fetched)
     /\ ToSet(report.chunks) = UNION {ToSet(report.ok[i].chunks) : i \in DOMAIN report.ok}

\* The vectors that are returned are as many as the texts and, if the service
\* numbers its rows by the texts, in the texts' order, however it sends them; it
\* is asked at most once more than the retries (APIEmbedder._post).
VectorsAnswerTexts(c) ==
  LET result == EmbedPost(c.count, c.dim, c.retries, c.replies)
      truthful == \A i \in DOMAIN c.replies : \A j \in DOMAIN c.replies[i].rows : c.replies[i].rows[j].index = c.replies[i].rows[j].of
      each == \A i \in DOMAIN c.replies : LET rows == c.replies[i].rows IN {rows[j].index : j \in DOMAIN rows} = 0 .. Len(rows) - 1
  IN /\ result.tries <= c.retries + 1
     /\ result.ok => Len(result.vectors) = c.count
     /\ result.ok /\ truthful /\ each => \A i \in 1 .. c.count : result.vectors[i].of = i - 1

\* Whatever was indexed, by whom, and wherever runs broke off: a search that is
\* not refused compares only vectors of its own embedder, with its dimension; an
\* embedder without meaning has to be allowed; and when the last run was whole,
\* every chunk of the corpus is found with its text, and repeating the run
\* changes nothing (collection_name, assert_embedder_matches, index_topic).
IndexHolds(c) ==
  LET world == WorldAfter(c.ops)
      found == SearchTopic(world, c.by, c.allowed)
      last == c.ops[Len(c.ops)]
      whole == c.ops # <<>> /\ world.corpus # <<>> /\ last.does = "index" /\ last.reach >= Len(world.corpus) /\ last.limit = 0
  IN /\ found.ok => \A k \in DOMAIN found.points : found.points[k].by = SignatureOf(c.by)
     /\ found.ok /\ ~c.by.semantic => c.allowed
     /\ whole => /\ ~StaleCorpus(world)
                 /\ \A k \in DOMAIN world.corpus : world.collections[CollectionOf(last.by)][k].text = world.corpus[k]
                 /\ IndexTopic(world, last) = world

\* A search whose index is not stale answers only from the corpus.
SearchTellsTheCorpus(c) ==
  LET world == WorldAfter(c.ops)
      found == SearchTopic(world, c.by, c.allowed)
  IN found.ok /\ ~StaleCorpus(world) =>
       /\ DOMAIN found.points = DOMAIN world.corpus
       /\ \A k \in DOMAIN world.corpus : found.points[k].text = world.corpus[k]

\* A citation is kept as it was written or stands for a context that was given,
\* and none counts twice; no list is not an empty list (parse_response).
CitationsAreGiven(c) ==
  LET parsed == ParseResponse(c.content, c.count)
      cited == parsed.citations
  IN /\ parsed.declared <=> c.content.json /\ c.content.list
     /\ \A i, j \in DOMAIN cited : cited[i] = cited[j] => i = j
     /\ \A i \in DOMAIN cited : \/ cited[i] \in ToSet(c.content.raw)
                                \/ cited[i].is = "key" /\ cited[i].n \in 1 .. c.count
=============================================================================
