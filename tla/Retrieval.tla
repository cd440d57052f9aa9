------------------------------ MODULE Retrieval ------------------------------
(***************************************************************************)
(* RetrievalService.search (app/retrieval/service.py) over the index that  *)
(* DocumentIndex keeps changing.  A search reads the index up to four      *)
(* times, each time in a transaction of its own: a dense backend or its    *)
(* fallback, the full-text index, and the siblings of what it returns.     *)
(*                                                                         *)
(* Every content is cut into the same parts.  How well a part of a content *)
(* matches a query is given, in tenths, and scores are computed in         *)
(* thousandths.  The query embedding and the models are external.          *)
(***************************************************************************)
EXTENDS DocumentIndex, Integers, Sequences, FiniteSets

CONSTANTS
  Parts,             \* ordinals of the chunks of a content
  Level, Section,    \* part -> its chunk_level, its section or NoSection
  NoSection,
  Queries,
  Dense, Sparse, Rerank,  \* query -> <<content, part>> -> score
  Filters,           \* RetrievalFilters of the requests; {} lets all pass
  Targets,           \* index_target of the requests
  TopK,              \* top_k
  Candidates,        \* HYBRID_CANDIDATE_COUNT
  Window,            \* RERANKER_CANDIDATE_COUNT
  DenseWeight, SparseWeight, BaseShare,   \* in percent
  LocalLimit,        \* MAX_LOCAL_DENSE_CANDIDATES
  ReadLimit,         \* the limit on the siblings read
  DensePrimary, AllowFallback

ASSUME RetrievalAssumption ==
  /\ Parts \subseteq Nat /\ IsFiniteSet(Parts)
  /\ {Dense, Sparse, Rerank} \subseteq [Queries -> [Contents \X Parts -> Int]]
  /\ DenseWeight \in Nat /\ SparseWeight \in Nat /\ BaseShare \in 0..100
  /\ \A filter \in Filters : {"docs", "levels"} \subseteq DOMAIN filter
  /\ TopK \in Nat \ {0} /\ Candidates \in Nat \ {0} /\ Window \in Nat \ {0}
  /\ LocalLimit \in Nat \ {0} /\ ReadLimit \in Nat
  /\ DensePrimary \in {"auto", "pgvector", "local"} /\ AllowFallback \in BOOLEAN

VARIABLE search

searchVars == <<vars, search>>

Larger(m, n) == IF m >= n THEN m ELSE n

\* A chunk is a part of a generation.
Chunks == {<<id[1], id[2], id[3], part>> : id \in ChunkIds, part \in Parts}
Generation(c) == <<c[1], c[2], c[3]>>
Passage(c) == <<c[2], c[4]>>

\* parent_chunk_id is the name of the section, not of the text in it.
Parent(c) == <<c[1], Section[c[4]], c[3]>>

Request == [query : Queries, strategy : {"sparse", "dense", "hybrid"},
            target : Targets, rerank : BOOLEAN, filter : Filters]

\* "seen" is not in the code: the generations that were current at some time
\* of the search.
NoSearch == [pc |-> "idle", request |-> [query |-> "none"], backends |-> <<>>,
             dense |-> <<>>, sparse |-> <<>>, results |-> <<>>,
             seen |-> {}]

SearchInit == Init /\ search = NoSearch

-----------------------------------------------------------------------------
(* Reading the index *)

\* Mutant: retired generations are found too.
VisibleStale(filter) ==
  {c \in Chunks : /\ chunk[Generation(c)] # "absent"
                  /\ filter.docs = {} \/ c[1] \in filter.docs
                  /\ filter.levels = {} \/ Level[c[4]] \in filter.levels}

\* The chunks that the filters let pass; current_only is never switched off.
Visible(filter) ==
  {c \in Chunks : /\ chunk[Generation(c)] = "current"
                  /\ filter.docs = {} \/ c[1] \in filter.docs
                  /\ filter.levels = {} \/ Level[c[4]] \in filter.levels}

\* The k best of a set of chunks, best first; ties are in no order.
Best(found, score, k) ==
  LET n == IF Cardinality(found) < k THEN Cardinality(found) ELSE k
      tops == {top \in SUBSET found :
                 /\ Cardinality(top) = n
                 /\ \A c \in top, d \in found \ top : score[c] >= score[d]}
  IN  UNION {{s \in [1..n -> top] :
                \A i, j \in 1..n : i < j => s[i] # s[j] /\ score[s[i]] >= score[s[j]]} :
             top \in tops}

Matching(chunks, score) ==
  {c \in chunks : score[Passage(c)] > 0}

ScoreOf(chunks, score) == [c \in chunks |-> score[Passage(c)]]

\* max(top_k, hybrid_candidate_count)
DenseLimit == Larger(TopK, Candidates)

\* _backend_order
Backends(target) ==
  LET local == IF AllowFallback THEN <<"local">> ELSE <<>>
  IN  CASE target = "local" -> <<"local">>
        [] target = "pgvector" -> <<"pgvector">> \o local
        [] OTHER -> IF DensePrimary = "local" THEN local ELSE <<"pgvector">> \o local

-----------------------------------------------------------------------------
(* Ranking *)

\* The elements of a set in the order of a relation, by the number of those before.
InOrder(S, before) ==
  LET rank == [x \in S |-> Cardinality({y \in S : <<y, x>> \in before})]
  IN  [n \in 1..Cardinality(S) |-> CHOOSE x \in S : rank[x] = n - 1]

\* The elements of s at some places.
Picked(s, places) == [n \in DOMAIN places |-> s[places[n]]]

\* Mutant: sorted, and not reversed.
StableAscending(s, score) ==
  Picked(s, InOrder(DOMAIN s,
    {e \in (DOMAIN s) \X (DOMAIN s) : \/ score[s[e[1]]] < score[s[e[2]]]
                                      \/ score[s[e[1]]] = score[s[e[2]]] /\ e[1] < e[2]}))

\* Which of two places goes first: equal ones keep their order.
Better(s, score, i, j) ==
  \/ score[s[i]] > score[s[j]]
  \/ score[s[i]] = score[s[j]] /\ i < j

\* sorted(..., reverse=True)
StableDescending(s, score) ==
  Picked(s, InOrder(DOMAIN s, {e \in (DOMAIN s) \X (DOMAIN s) : Better(s, score, e[1], e[2])}))

Elements(s) == {s[i] : i \in DOMAIN s}

\* The elements of s at the places in keep.
Subsequence(s, keep) == Picked(s, InOrder(keep, {e \in keep \X keep : e[1] < e[2]}))

BestOf(score, s) ==
  LET values == {score[Passage(c)] : c \in Elements(s)}
  IN  CHOOSE best \in values : \A value \in values : value <= best

\* 1 / (60 + rank), for each list that has the chunk.
Reciprocal(c, s) ==
  IF c \in Elements(s) THEN 1000 \div (60 + (CHOOSE i \in DOMAIN s : s[i] = c)) ELSE 0

\* Scores are shares of the best one of their list.  What only the dense list
\* has keeps its share without weight.
FusedScore(query, dense, sparse) ==
  LET bestDense == BestOf(Dense[query], dense)
      bestSparse == BestOf(Sparse[query], sparse)
      denseShare(c) == IF c \in Elements(dense)
                       THEN (1000 * Dense[query][Passage(c)]) \div bestDense ELSE 0
      sparseShare(c) == (1000 * Sparse[query][Passage(c)]) \div bestSparse
  IN  [c \in Elements(dense) \cup Elements(sparse) |->
         IF c \notin Elements(sparse) THEN denseShare(c)
         ELSE (DenseWeight * denseShare(c) + SparseWeight * sparseShare(c)) \div 100
              + Reciprocal(c, dense) + Reciprocal(c, sparse)]

\* The candidates before the ranker, and the scores they have.
Scores(r, dense, sparse) ==
  CASE r.strategy = "hybrid" -> FusedScore(r.query, dense, sparse)
    [] r.strategy = "dense" -> [c \in Elements(dense) |-> 100 * Dense[r.query][Passage(c)]]
    [] r.strategy = "sparse" -> [c \in Elements(sparse) |-> 100 * Sparse[r.query][Passage(c)]]

Pool(dense, sparse) ==
  dense \o Subsequence(sparse, {i \in DOMAIN sparse : sparse[i] \notin Elements(dense)})

\* The first of the candidates change places, the others follow as they were.
Reranked(query, s, score) ==
  LET window == Larger(TopK, Window)
      n == IF Len(s) < window THEN Len(s) ELSE window
      blended == [c \in Elements(s) |->
                    (BaseShare * score[c] + (100 - BaseShare) * 100 * Rerank[query][Passage(c)])
                      \div 100]
  IN  StableDescending(SubSeq(s, 1, n), blended) \o SubSeq(s, n + 1, Len(s))

\* Mutant: a third passage of a document.
DiversifiedThree(s) ==
  Subsequence(s, {i \in DOMAIN s : Cardinality({j \in 1..(i - 1) : s[j][1] = s[i][1]}) < 3})

\* Two passages of a document at most.
Diversify(s) ==
  Subsequence(s, {i \in DOMAIN s : Cardinality({j \in 1..(i - 1) : s[j][1] = s[i][1]}) < 2})

Ranked(r, dense, sparse) ==
  LET score == Scores(r, dense, sparse)
      fused == IF r.strategy = "hybrid" THEN StableDescending(Pool(dense, sparse), score)
               ELSE Pool(dense, sparse)
      all == Diversify(IF r.rerank THEN Reranked(r.query, fused, score) ELSE fused)
  IN  SubSeq(all, 1, IF Len(all) < TopK THEN Len(all) ELSE TopK)

-----------------------------------------------------------------------------
(* A search *)

Current == {id \in ChunkIds : chunk[id] = "current"}

Begin(r) ==
  /\ search.pc \in {"idle", "done"}
  /\ search' = [NoSearch EXCEPT !.request = r, !.seen = Current,
                                !.backends = Backends(r.target),
                                !.pc = IF r.strategy = "sparse" THEN "sparse" ELSE "dense"]
  /\ UNCHANGED vars

AfterDense == IF search.request.strategy = "dense" THEN "answer" ELSE "sparse"

\* The vectors of current chunks, as far as upsert_chunks has written them.
SearchPgVector ==
  LET score == Dense[search.request.query]
      found == {c \in Matching(Visible(search.request.filter), score) :
                  Generation(c) \in embedded}
  IN  \E dense \in Best(found, ScoreOf(found, score), DenseLimit) :
        search' = [search EXCEPT !.dense = dense, !.pc = AfterDense]

\* Every visible chunk is embedded now, unless there are too many.
SearchLocal ==
  LET score == Dense[search.request.query]
      visible == Visible(search.request.filter)
      found == Matching(visible, score)
  IN  /\ Cardinality(visible) <= LocalLimit
      /\ \E dense \in Best(found, ScoreOf(found, score), DenseLimit) :
           search' = [search EXCEPT !.dense = dense, !.pc = AfterDense]

\* A backend answers, or is unavailable and the next one is asked; pgvector is
\* so whenever its query fails.  Without any the list is empty.
SearchDense ==
  /\ search.pc = "dense"
  /\ IF search.backends = <<>> THEN search' = [search EXCEPT !.pc = AfterDense]
     ELSE \/ Head(search.backends) = "pgvector" /\ SearchPgVector
          \/ Head(search.backends) = "local" /\ SearchLocal
          \/ /\ \/ Head(search.backends) = "pgvector"
                \/ Cardinality(Visible(search.request.filter)) > LocalLimit
             /\ search' = [search EXCEPT !.backends = Tail(@)]
  /\ UNCHANGED vars

SearchSparse ==
  /\ search.pc = "sparse"
  /\ LET score == Sparse[search.request.query]
         found == Matching(Visible(search.request.filter), score)
         limit == IF search.request.strategy = "sparse" THEN TopK ELSE DenseLimit
     IN  \E sparse \in Best(found, ScoreOf(found, score), limit) :
           search' = [search EXCEPT !.sparse = sparse, !.pc = "answer"]
  /\ UNCHANGED vars

\* The first two others of the section of c, by their ordinals.
Siblings(c, read) ==
  LET others == {s \in read : Parent(s) = Parent(c) /\ s # c}
  IN  {s \in others : Cardinality({t \in others : t[4] < s[4]}) < 2}

\* The results, each with its siblings among what was read.
Expanded(ranked, read) ==
  [i \in DOMAIN ranked |->
     [id |-> ranked[i],
      siblings |-> IF Section[ranked[i][4]] = NoSection THEN {} ELSE Siblings(ranked[i], read)]]

\* Ranking reads nothing.  What the section of a result says next is added to
\* its text: that read is limited and in no order, and ignores the levels
\* asked for.
Answer ==
  /\ search.pc = "answer"
  /\ LET visible == Visible([search.request.filter EXCEPT !.levels = {}])
         n == IF Cardinality(visible) < ReadLimit THEN Cardinality(visible) ELSE ReadLimit
     IN  \E ranked \in {Ranked(search.request, search.dense, search.sparse)},
            read \in {s \in SUBSET visible : Cardinality(s) = n} :
           search' = [search EXCEPT !.pc = "done", !.results = Expanded(ranked, read)]
  /\ UNCHANGED vars

\* The embedding, a query or the ranker raises.
RaiseSearch ==
  /\ search.pc \notin {"idle", "done"}
  /\ search' = NoSearch
  /\ UNCHANGED vars

\* The index changes under a search, or after it.
IndexStep ==
  /\ Next
  /\ search' = IF search.pc \in {"idle", "done"} THEN NoSearch
               ELSE [search EXCEPT !.seen = @ \cup Current']

SearchNext ==
  \/ \E r \in Request : Begin(r)
  \/ SearchDense \/ SearchSparse \/ Answer \/ RaiseSearch
  \/ IndexStep

SearchSpec == SearchInit /\ [][SearchNext]_searchVars

-----------------------------------------------------------------------------
(* Properties *)

Texts(result) == {result.id} \cup result.siblings

\* Whatever backend answered and whatever runs committed between the reads, a
\* result and the siblings in its text passed the filters, and were current
\* at some time of the search: nothing retired before it is found.
ResultsCurrent ==
  \A i \in DOMAIN search.results :
    LET result == search.results[i]
        filter == search.request.filter
    IN  /\ \A c \in Texts(result) : /\ Generation(c) \in search.seen
                                    /\ filter.docs = {} \/ c[1] \in filter.docs
        /\ filter.levels = {} \/ Level[result.id[4]] \in filter.levels

\* A document has at most two results and a chunk one, and a search gives less
\* than it was asked for only if it has shown two results, or all it found, of
\* every document it found.
Diversified ==
  search.pc = "done" =>
    LET of(d, ids) == {c \in ids : c[1] = d}
        ids == {search.results[i].id : i \in DOMAIN search.results}
        pool == Elements(search.dense) \cup Elements(search.sparse)
    IN  /\ Cardinality(ids) = Len(search.results)
        /\ Len(search.results) <= TopK
        /\ \A d \in Docs : Cardinality(of(d, ids)) <= 2
        /\ Len(search.results) < TopK =>
             \A d \in Docs : \/ Cardinality(of(d, ids)) = 2
                             \/ of(d, ids) = of(d, pool)

\* Without a dense backend, a hybrid search that is not reranked returns what
\* the full-text search found, in its order and with its best match first:
\* fusion with an empty list changes nothing.
DegradesToSparse ==
  (/\ search.pc = "done" /\ search.request.strategy = "hybrid"
   /\ ~search.request.rerank /\ search.dense = <<>>) =>
    LET place(i) == CHOOSE n \in DOMAIN search.sparse : search.sparse[n] = search.results[i].id
    IN  /\ search.sparse # <<>> => search.results # <<>> /\ place(1) = 1
        /\ \A i, j \in DOMAIN search.results : i < j => place(i) < place(j)

\* However many runs commit during a search, each of its reads shows one version
\* of a document: the dense list, the full-text list, and the siblings of all its
\* results together (under one index version; the three may differ, see below).
ReadsOfOneVersion ==
  LET siblings == UNION {search.results[i].siblings : i \in DOMAIN search.results}
  IN  \A read \in {Elements(search.dense), Elements(search.sparse), siblings} :
        \A c, d \in read : c[1] = d[1] => Generation(c) = Generation(d)

-----------------------------------------------------------------------------
(* What the code does not have. *)

\* The text of a result is of one version of its document.
TextOfOneVersion ==
  \A i \in DOMAIN search.results :
    \A c \in Texts(search.results[i]) : c[2] = search.results[i].id[2]

\* All results of a document are of one version.
OneVersionPerDocument ==
  \A i, j \in DOMAIN search.results :
    search.results[i].id[1] = search.results[j].id[1]
      => search.results[i].id[2] = search.results[j].id[2]

\* A chunk that matches at least as well as another of its document in both
\* lists, and that both lists have, is not ranked behind it.
BetterIsFirst ==
  (/\ search.pc = "done" /\ search.request.strategy = "hybrid"
   /\ ~search.request.rerank) =>
    \A i, j \in DOMAIN search.results :
      LET c == search.results[i].id
          d == search.results[j].id
          q == search.request.query
      IN  (/\ j < i
           /\ {c, d} \subseteq Elements(search.dense) /\ c \in Elements(search.sparse))
            => \/ Dense[q][Passage(c)] <= Dense[q][Passage(d)]
               \/ Sparse[q][Passage(c)] <= Sparse[q][Passage(d)]

\* The siblings of a result are found.
SiblingsFound ==
  \A i \in DOMAIN search.results :
    LET c == search.results[i].id
    IN  (Section[c[4]] # NoSection
           /\ \E s \in Chunks : s # c /\ Parent(s) = Parent(c) /\ Generation(s) = Generation(c))
          => search.results[i].siblings # {}
=============================================================================
