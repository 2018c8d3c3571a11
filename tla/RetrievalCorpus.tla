-------------------------- MODULE RetrievalCorpus --------------------------
(***************************************************************************)
(* The user's retrieval index.  A source is cut into chunks, one row each: *)
(* its old rows are deactivated first, then every chunk is given a vector, *)
(* from another row or from the embedding provider, and upserted.  A job   *)
(* or people search indexes its candidates as a batch and then retrieves   *)
(* among their rows; other retrievals look at all rows.  A retrieval       *)
(* searches by words and by vectors at the same time and fuses the two     *)
(* rankings.  A backfill gives vectors to the rows without one.  Every     *)
(* database call is a transaction of its own, and several tabs work on the *)
(* same index.                                                             *)
(***************************************************************************)
EXTENDS Naturals, Sequences, FiniteSets, SequencesExt, FiniteSetsExt, Selection

CONSTANTS
  Workers,     \* calls that run at the same time
  Sources,     \* what is indexed
  Versions,    \* versions a source is indexed under
  Texts,
  Chunks,      \* chunks, by their content
  ChunksOf,    \* how each text is cut
  Oversized,   \* chunks the provider finds too long
  HalvesOf,    \* what a chunk that is too long is cut into
  ByWords,     \* how well each chunk matches the query's words; 0 for not at all
  ByVector,    \* how close each chunk is to the query
  Entries,     \* sources indexed one at a time, with their text and version
  Batches,     \* candidates a search indexes together, with their texts
  Sessions,    \* search sessions: the versions of candidates
  K,           \* the constant of the fusion
  Limit,       \* rows of one ranking
  TopK,        \* hits of a retrieval
  MaxCalls,    \* bound: calls started
  MaxFailures  \* bound: calls that break off

ASSUME CutAssumption ==
  /\ ChunksOf \in [Texts -> Seq(Chunks) \ {<<>>}] /\ Oversized \subseteq Chunks
  /\ HalvesOf \in [Oversized -> Seq(Chunks)]
\* The code fuses with 60, ranks 30 rows and returns 10 at most.
ASSUME QueryAssumption ==
  /\ ByWords \in [Chunks -> Nat] /\ ByVector \in [Chunks -> Nat]
  /\ K \in Nat /\ Limit \in Nat /\ TopK \in 1..Limit /\ Limit <= K
ASSUME CorpusBounds ==
  /\ Entries \subseteq [source : Sources, text : Texts, version : Versions]
  /\ Versions # {} /\ Sessions \subseteq Versions
  /\ MaxCalls \in Nat /\ MaxFailures \in Nat

Item == [source : Sources, text : Texts]

\* The candidates of a batch have different identifiers; an empty batch does nothing.
ASSUME BatchAssumption ==
  \A b \in Batches :
    /\ b \in Seq(Item) \ {<<>>}
    /\ \A i, j \in DOMAIN b : b[i].source = b[j].source => i = j

VARIABLES
  rows,     \* the rows of the index, in the order of their creation
  work,     \* what each worker is doing
  backfill, \* what the backfill is doing
  calls,    \* calls started
  failures, \* calls that broke off
  last      \* for each source, what the last call stored, if it was alone there and ended

vars == <<rows, work, backfill, calls, failures, last>>

Row == [source : Sources, version : Versions, index : Nat, chunk : Chunks,
        active : BOOLEAN, vector : BOOLEAN]

\* A chunk to be stored: where it belongs, and its vector if there is one; and one that was.
Unit  == [source : Sources, index : Nat, chunk : Chunks, vector : BOOLEAN]
Piece == [source : Sources, index : Nat, chunk : Chunks]

Rankings  == Seq(DOMAIN rows)
NoRanking == <<0>>

\* model: the embedding provider can be reached; plan: what is still to be read; units:
\* chunks to be stored; placed: those that were; own: the rows of this search, which are
\* all a retrieval looks at unless it is open; query: the query has a vector; crossed: the
\* sources that another call worked on at the same time.
Idle ==
  [pc |-> "idle", model |-> FALSE, version |-> CHOOSE v \in Versions : TRUE, items |-> <<>>,
   plan |-> <<>>, units |-> <<>>, placed |-> <<>>, own |-> {}, open |-> FALSE,
   query |-> FALSE, sparse |-> NoRanking, dense |-> NoRanking, hits |-> <<>>,
   reranked |-> FALSE, crossed |-> {}]

Work ==
  [pc : {"idle", "chunk", "upsert", "gather", "embed", "store", "query", "search", "hits"},
   model : BOOLEAN, version : Versions, items : Seq(Item), plan : Seq(Chunks) \cup Seq(Item),
   units : Seq(Unit), placed : Seq(Piece), own : SUBSET DOMAIN rows, open : BOOLEAN,
   query : BOOLEAN, sparse : Rankings \cup {NoRanking}, dense : Rankings \cup {NoRanking},
   hits : Rankings, reranked : BOOLEAN, crossed : SUBSET Sources]

TypeOK ==
  /\ rows \in Seq(Row)
  /\ work \in [Workers -> Work]
  /\ backfill \in [todo : Rankings, vector : BOOLEAN]
  /\ calls \in 0..MaxCalls /\ failures \in 0..MaxFailures
  /\ last \in [Sources -> [alone : BOOLEAN, placed : Seq(Piece)]]

Init ==
  /\ rows = <<>>
  /\ work = [w \in Workers |-> Idle]
  /\ backfill = [todo |-> <<>>, vector |-> FALSE]
  /\ calls = 0 /\ failures = 0
  /\ last = [s \in Sources |-> [alone |-> TRUE, placed |-> <<>>]]

At(w, pc)    == work[w].pc = pc
ActiveRows   == {i \in DOMAIN rows : rows[i].active}
RowsOf(s)    == {i \in ActiveRows : rows[i].source = s}
Cached(c)    == \E i \in DOMAIN rows : rows[i].chunk = c /\ rows[i].vector
WorksOn(w)   == {work[w].items[i].source : i \in DOMAIN work[w].items}
To(w, next)  == work' = [work EXCEPT ![w] = next]

\* Mutant: only rows of the version that is indexed are deactivated.
VersionDeactivated(s, v) ==
  [i \in DOMAIN rows |-> IF rows[i].source = s /\ rows[i].version = v
                         THEN [rows[i] EXCEPT !.active = FALSE] ELSE rows[i]]

\* Mutant: the rows of all other versions are deactivated as well, whatever their source.
OthersDeactivated(s, v) ==
  [i \in DOMAIN rows |-> IF rows[i].source = s \/ rows[i].version # v
                         THEN [rows[i] EXCEPT !.active = FALSE] ELSE rows[i]]

\* All rows of a source are deactivated, whatever their version.
Deactivated(s, v) ==
  [i \in DOMAIN rows |-> IF rows[i].source = s
                         THEN [rows[i] EXCEPT !.active = FALSE] ELSE rows[i]]

\* Mutant: a row that is stored again takes the new vector, if there is one or not.
TakenOver(row, vector) == [row EXCEPT !.active = TRUE, !.vector = vector]

\* A row that is stored again is active again and keeps a vector it has.
Revived(row, vector) == [row EXCEPT !.active = TRUE, !.vector = @ \/ vector]

SameRow(row, u, v) ==
  row.source = u.source /\ row.version = v /\ row.index = u.index /\ row.chunk = u.chunk

\* A new row takes the vector of any row with the same content.
Upserted(u, v, model) ==
  IF \E i \in DOMAIN rows : SameRow(rows[i], u, v)
  THEN [i \in DOMAIN rows |->
          IF SameRow(rows[i], u, v) THEN Revived(rows[i], u.vector) ELSE rows[i]]
  ELSE Append(rows, [source |-> u.source, version |-> v, index |-> u.index, chunk |-> u.chunk,
                     active |-> TRUE, vector |-> u.vector \/ (model /\ Cached(u.chunk))])

\* Mutant: an upsert is taken to have made a row of its own.
NewRow(u, v) == Len(rows) + 1

\* The row an upsert of this chunk leaves.
RowOf(u, v) == CHOOSE i \in DOMAIN rows' : SameRow(rows'[i], u, v)

-----------------------------------------------------------------------------
(***************************************************************************)
(* Indexing one text.                                                      *)
(***************************************************************************)

\* A call starts on its sources: calls that work on one of them cross each other.
Crossing(w, sources, next) ==
  LET busy == {s \in sources : \E o \in Workers \ {w} : s \in WorksOn(o)}
  IN  work' = [o \in Workers |->
        IF o = w THEN [next EXCEPT !.crossed = busy]
        ELSE [work[o] EXCEPT !.crossed = @ \cup (sources \cap WorksOn(o))]]

\* One more chunk is stored.
WithPiece(w, u) ==
  Append(work[w].placed, [source |-> u.source, index |-> u.index, chunk |-> u.chunk])

\* Once it ends, what it put into a source is all there is, if nobody else was there.
Ended(w, placed) ==
  last' = [s \in Sources |->
    IF s \notin WorksOn(w) \/ s \in work[w].crossed THEN last[s]
    ELSE [alone |-> TRUE, placed |-> placed]]

Start(w, sources, next) ==
  /\ At(w, "idle") /\ calls < MaxCalls
  /\ calls' = calls + 1
  /\ Crossing(w, sources, next)
  /\ last' = [s \in Sources |-> IF s \in sources THEN [alone |-> FALSE, placed |-> <<>>] ELSE last[s]]
  /\ UNCHANGED <<backfill, failures>>

StartText(w, e) ==
  /\ \E model \in BOOLEAN :
       Start(w, {e.source}, [Idle EXCEPT !.pc = "chunk", !.model = model, !.version = e.version,
                               !.items = <<[source |-> e.source, text |-> e.text]>>,
                               !.plan = ChunksOf[e.text]])
  /\ rows' = Deactivated(e.source, e.version)

\* The next chunk gets its vector from another row or from the provider; either may fail.
\* The provider may find it too long: then its parts take its place, unless it cannot be cut.
ReadChunk(w) ==
  /\ At(w, "chunk")
  /\ LET next == Head(work[w].plan)
         unit == [source |-> work[w].items[1].source, index |-> Len(work[w].placed),
                  chunk |-> next, vector |-> FALSE]
         With(vector) == [work[w] EXCEPT !.pc = "upsert", !.units = <<[unit EXCEPT !.vector = vector]>>]
     IN  \/ To(w, With(FALSE))
         \/ /\ work[w].model /\ (Cached(next) \/ next \notin Oversized)
            /\ To(w, With(TRUE))
         \/ /\ work[w].model /\ ~Cached(next) /\ next \in Oversized /\ Len(HalvesOf[next]) > 1
            /\ To(w, [work[w] EXCEPT !.plan = HalvesOf[next] \o Tail(@)])
  /\ UNCHANGED <<rows, backfill, calls, failures, last>>

PlaceChunk(w) ==
  /\ At(w, "upsert")
  /\ LET unit == work[w].units[1]
         placed == WithPiece(w, unit)
     IN  /\ rows' = Upserted(unit, work[w].version, work[w].model)
         /\ IF Len(work[w].plan) = 1
            THEN To(w, Idle) /\ Ended(w, placed)
            ELSE /\ To(w, [work[w] EXCEPT !.pc = "chunk", !.plan = Tail(@), !.placed = placed])
                 /\ UNCHANGED last
  /\ UNCHANGED <<backfill, calls, failures>>

-----------------------------------------------------------------------------
(***************************************************************************)
(* Indexing the candidates of a search.                                    *)
(***************************************************************************)

StartBatch(w, v, items) ==
  /\ \E model \in BOOLEAN :
       Start(w, {items[i].source : i \in DOMAIN items},
             [Idle EXCEPT !.pc = "gather", !.model = model, !.version = v, !.items = items,
                          !.plan = items])
  /\ UNCHANGED rows

\* The rows of the next candidate are deactivated, and vectors are looked up for its chunks.
Gather(w) ==
  /\ At(w, "gather")
  /\ LET item   == Head(work[w].plan)
         chunks == ChunksOf[item.text]
         units  == [i \in DOMAIN chunks |->
                      [source |-> item.source, index |-> i - 1, chunk |-> chunks[i],
                       vector |-> work[w].model /\ Cached(chunks[i])]]
     IN  /\ rows' = Deactivated(item.source, work[w].version)
         /\ To(w, [work[w] EXCEPT !.units = @ \o units, !.plan = Tail(@),
                                  !.pc = IF Len(work[w].plan) = 1 THEN "embed" ELSE "gather"])
  /\ UNCHANGED <<backfill, calls, failures, last>>

\* The others are asked of the provider at once; each request may fail.
EmbedAll(w) ==
  /\ At(w, "embed")
  /\ \E made \in SUBSET {i \in DOMAIN work[w].units : work[w].model /\ ~work[w].units[i].vector} :
       To(w, [work[w] EXCEPT !.pc = "store",
                !.units = [i \in DOMAIN @ |-> IF i \in made THEN [@[i] EXCEPT !.vector = TRUE] ELSE @[i]]])
  /\ UNCHANGED <<rows, backfill, calls, failures, last>>

StoreUnit(w) ==
  /\ At(w, "store")
  /\ LET unit   == Head(work[w].units)
         placed == WithPiece(w, unit)
         own    == work[w].own \cup {RowOf(unit, work[w].version)}
         next   == [work[w] EXCEPT !.units = Tail(@), !.placed = placed, !.own = own]
     IN  /\ rows' = Upserted(unit, work[w].version, work[w].model)
         /\ IF Len(work[w].units) = 1
            THEN To(w, [next EXCEPT !.pc = "query", !.placed = <<>>, !.model = FALSE]) /\ Ended(w, placed)
            ELSE To(w, next) /\ UNCHANGED last
  /\ UNCHANGED <<backfill, calls, failures>>

-----------------------------------------------------------------------------
(***************************************************************************)
(* Retrieval.                                                              *)
(***************************************************************************)

StartRetrieval(w) ==
  /\ Start(w, {}, [Idle EXCEPT !.pc = "query", !.open = TRUE])
  /\ UNCHANGED rows

Visible(w) == IF work[w].open THEN ActiveRows ELSE ActiveRows \cap work[w].own

First(n, seq) == SubSeq(seq, 1, Min({n, Len(seq)}))
Better(set, score) ==
  {p \in set \X set :
     LET x == score[rows[p[1]].chunk]
         y == score[rows[p[2]].chunk]
     IN  x > y \/ (x = y /\ p[1] < p[2])}
Ranking(set, score) == First(Limit, Sorted(set, Better(set, score)))

\* Without a vector for the query only its words are searched for.
EmbedQuery(w) ==
  /\ At(w, "query")
  /\ \E query \in BOOLEAN : To(w, [work[w] EXCEPT !.pc = "search", !.query = query])
  /\ UNCHANGED <<rows, backfill, calls, failures, last>>

\* The two searches run side by side, each in a transaction of its own.
SearchWords(w) ==
  /\ At(w, "search") /\ work[w].sparse = NoRanking
  /\ To(w, [work[w] EXCEPT !.sparse =
              Ranking({i \in Visible(w) : ByWords[rows[i].chunk] > 0}, ByWords)])
  /\ UNCHANGED <<rows, backfill, calls, failures, last>>
SearchVectors(w) ==
  /\ At(w, "search") /\ work[w].query /\ work[w].dense = NoRanking
  /\ To(w, [work[w] EXCEPT !.dense = Ranking({i \in Visible(w) : rows[i].vector}, ByVector)])
  /\ UNCHANGED <<rows, backfill, calls, failures, last>>

DenseOf(w)  == IF work[w].query THEN work[w].dense ELSE <<>>
Searched(w) == work[w].sparse # NoRanking /\ DenseOf(w) # NoRanking
Found(w)    == ToSet(work[w].sparse) \cup ToSet(DenseOf(w))

PlaceIn(i, ranking) == CHOOSE n \in DOMAIN ranking : ranking[n] = i
\* Mutant: a row counts by the better of its ranks.
BestRank(i, sparse, dense) ==
  LET ranks == {PlaceIn(i, r) : r \in {s \in {sparse, dense} : i \in ToSet(s)}}
  IN  [num |-> 1, den |-> K + Min(ranks)]

\* Reciprocal rank fusion: 1 / (K + rank) from each ranking the row is in, as a fraction.
\* Rows that tie go by their identifiers, here by their age.
Fusion(i, sparse, dense) ==
  LET words   == K + PlaceIn(i, sparse)
      vectors == K + PlaceIn(i, dense)
  IN  IF i \notin ToSet(dense) THEN [num |-> 1, den |-> words]
      ELSE IF i \notin ToSet(sparse) THEN [num |-> 1, den |-> vectors]
      ELSE [num |-> words + vectors, den |-> words * vectors]

Ahead(w, i, j) ==
  LET x == Fusion(i, work[w].sparse, DenseOf(w))
      y == Fusion(j, work[w].sparse, DenseOf(w))
  IN  x.num * y.den > y.num * x.den \/ (x.num * y.den = y.num * x.den /\ i < j)

Fused(w) == First(Limit, Sorted(Found(w), {p \in Found(w) \X Found(w) : Ahead(w, p[1], p[2])}))

\* The reranker, when it is on and answers, chooses among the rows its own way.
Fuse(w) ==
  /\ At(w, "search") /\ Searched(w)
  /\ \/ To(w, [work[w] EXCEPT !.pc = "hits", !.hits = First(TopK, Fused(w))])
     \/ \E chosen \in kSubset(Min({TopK, Len(Fused(w))}), ToSet(Fused(w))) :
          /\ chosen # {}
          /\ To(w, [work[w] EXCEPT !.pc = "hits", !.hits = SetToSeq(chosen), !.reranked = TRUE])
  /\ UNCHANGED <<rows, backfill, calls, failures, last>>

Return(w) ==
  /\ At(w, "hits")
  /\ To(w, Idle)
  /\ UNCHANGED <<rows, backfill, calls, failures, last>>

\* The database refuses a write: the call raises and leaves what it had done.
BreakOff(w) ==
  /\ work[w].pc \in {"chunk", "upsert", "gather", "store"}
  /\ failures < MaxFailures
  /\ failures' = failures + 1
  /\ To(w, Idle)
  /\ UNCHANGED <<rows, backfill, calls, last>>

-----------------------------------------------------------------------------
(***************************************************************************)
(* The backfill.                                                           *)
(***************************************************************************)

Missing == {i \in ActiveRows : ~rows[i].vector}

StartBackfill ==
  /\ backfill.todo = <<>> /\ Missing # {} /\ calls < MaxCalls
  /\ calls' = calls + 1
  /\ backfill' = [todo |-> Sorted(Missing, {p \in Missing \X Missing : p[1] < p[2]}), vector |-> FALSE]
  /\ UNCHANGED <<rows, work, failures, last>>

\* A vector is found or made for the next row of the list; a provider that fails ends it all.
FindVector ==
  /\ backfill.todo # <<>> /\ ~backfill.vector
  /\ \/ backfill' = [backfill EXCEPT !.vector = TRUE]
     \/ /\ ~Cached(rows[Head(backfill.todo)].chunk)
        /\ backfill' = [todo |-> <<>>, vector |-> FALSE]
  /\ UNCHANGED <<rows, work, calls, failures, last>>

\* It is stored, unless the row has been given one meanwhile.
SetVector ==
  /\ backfill.vector
  /\ rows' = [rows EXCEPT ![Head(backfill.todo)].vector = TRUE]
  /\ backfill' = [todo |-> Tail(backfill.todo), vector |-> FALSE]
  /\ UNCHANGED <<work, calls, failures, last>>

Step(w) ==
  \/ ReadChunk(w) \/ PlaceChunk(w)
  \/ Gather(w) \/ EmbedAll(w) \/ StoreUnit(w)
  \/ EmbedQuery(w) \/ SearchWords(w) \/ SearchVectors(w) \/ Fuse(w) \/ Return(w)

Next ==
  \/ \E w \in Workers :
       \/ Step(w) \/ BreakOff(w) \/ StartRetrieval(w)
       \/ \E e \in Entries : StartText(w, e)
       \/ \E v \in Sessions, b \in Batches : StartBatch(w, v, b)
  \/ StartBackfill \/ FindVector \/ SetVector

Spec == Init /\ [][Next]_vars

-----------------------------------------------------------------------------
(***************************************************************************)
(* Properties.                                                             *)
(***************************************************************************)

\* After any number of calls, with other texts, versions, failures and calls that broke
\* off, a source that was indexed to the end while nobody else indexed it has the rows of
\* just that call: no chunk of an older text answers for it (retrieval.py, index_text and
\* index_text_batch).
Of(pieces, s) == {n \in DOMAIN pieces : pieces[n].source = s}
SourceIsWhole ==
  \A s \in Sources : last[s].alone =>
    LET placed == last[s].placed IN
    /\ {<<rows[i].index, rows[i].chunk>> : i \in RowsOf(s)} =
         {<<placed[n].index, placed[n].chunk>> : n \in Of(placed, s)}
    /\ Cardinality(RowsOf(s)) = Cardinality(Of(placed, s))

\* A search loses a candidate that matches its words between indexing and ranking only when
\* the hits are full, or when another call indexed the same source at the same time
\* (job_search.py, search, and retrieval.py, retrieve with document_ids).
OwnRowsRetrieved ==
  \A w \in Workers : At(w, "hits") /\ ~work[w].open /\ Len(work[w].hits) < TopK =>
    \A i \in work[w].own :
      \/ i \in ToSet(work[w].hits)
      \/ ByWords[rows[i].chunk] = 0
      \/ rows[i].source \in work[w].crossed

\* The fused order is fair: no row is lost or doubled, a row that both searches found comes
\* before a row only one of them found (K is 60 and a ranking has 30 rows at most), and a
\* row that is no worse in either ranking is not placed behind (retrieval.py,
\* reciprocal_rank_fusion).
FairFusion ==
  \A w \in Workers : At(w, "hits") /\ ~work[w].reranked =>
    LET hits   == work[w].hits
        sparse == work[w].sparse
        dense  == DenseOf(w)
        Both   == ToSet(sparse) \cap ToSet(dense)
        Before(i, j) == \E m \in DOMAIN hits : hits[m] = i /\ \A n \in 1..m : hits[n] # j
        NoWorse(i, j, r) == j \in ToSet(r) => i \in ToSet(r) /\ PlaceIn(i, r) < PlaceIn(j, r)
    IN  /\ Cardinality(ToSet(hits)) = Len(hits)
        /\ Len(hits) = Min({TopK, Cardinality(Found(w))})
        /\ \A j \in ToSet(hits) : \A i \in Found(w) \ {j} :
             (i \in Both /\ j \notin Both) \/ (NoWorse(i, j, sparse) /\ NoWorse(i, j, dense))
             => Before(i, j)

\* A row never loses its vector: not when it is indexed again while the provider is down, and
\* not to a backfill that is late (retrieval_repository.py, upsert_document, set_embedding).
VectorsStay == [][\A i \in DOMAIN rows : rows[i].vector => rows'[i].vector]_vars

=============================================================================
