------------------------------- MODULE Retrieval -------------------------------
(***************************************************************************)
(* Search in the embedded texts of an investigation: by the words of a     *)
(* query, by the distance of its vector, and by both, for a question in    *)
(* the chat (Retriever, rag_handler) and for an agent (hybrid_search).     *)
(*                                                                         *)
(* A text is a record: its owner, its size, and for each query how far its *)
(* vector is (0..Far, the cosine distance) and how well its words match    *)
(* (0: not at all). Weights are in tenths, normalised values in hundredths.*)
(***************************************************************************)
EXTENDS Naturals, Integers, Sequences, SequencesExt, FiniteSets, FiniteSetsExt

Far == 100
Owners == {"chat", "timeline", "note", "tool"}
IsText(t) ==
  /\ t.owner \in Owners /\ t.size \in Nat /\ t.id \in Nat
  /\ t.far \in Seq(0..Far) /\ t.words \in Seq(Nat) /\ Len(t.far) >= 2 /\ Len(t.words) >= 2
\* What has been embedded of an investigation.
IsCorpus(texts) ==
  /\ IsFiniteSet(texts) /\ \A t \in texts : IsText(t)
  /\ \A t, u \in texts : t.id = u.id => t = u

\* A set in the order of its keys, each a value and what decides between equal
\* values: the order of the ids, where the database is free to take any.
Earlier(a, b) == a[1] < b[1] \/ (a[1] = b[1] /\ a[2] < b[2])
Rank(x, S, key) == Cardinality({y \in S : Earlier(key[y], key[x])}) + 1
Sorted(S, key) == [n \in 1..Cardinality(S) |-> CHOOSE x \in S : Rank(x, S, key) = n]
Ascending(texts, value) == Sorted(texts, [t \in texts |-> <<value[t], t.id>>])
Descending(texts, value) == Sorted(texts, [t \in texts |-> <<-value[t], t.id>>])

\* The first n of a sequence, and those of one of its pages.
First(s, n) == SubSeq(s, 1, IF Len(s) < n THEN Len(s) ELSE n)
Page(s, limit, offset) == First(SubSeq(s, offset + 1, Len(s)), limit)

WordsIn(texts, q) == [t \in texts |-> t.words[q]]
Distances(texts, q) == [t \in texts |-> t.far[q]]
Similarities(texts, q) == [t \in texts |-> Far - t.far[q]]
With(texts, q) == {t \in texts : t.words[q] > 0}

\* Values in hundredths of the highest, and the sum of two by their weights.
Normalised(value) ==
  LET highest == Max({value[t] : t \in DOMAIN value})
  IN [t \in DOMAIN value |-> IF highest > 0 THEN (value[t] * 100) \div highest ELSE 0]
Weighted(words, vectors, weight) ==
  [t \in DOMAIN words \cup DOMAIN vectors |->
     weight * (IF t \in DOMAIN words THEN Normalised(words)[t] ELSE 0)
     + (10 - weight) * (IF t \in DOMAIN vectors THEN Normalised(vectors)[t] ELSE 0)]

-----------------------------------------------------------------------------
(* The retriever of the chat.                                              *)

Fetched(k) == IF k * 3 < 150 THEN k * 3 ELSE 150

\* Texts with the query's words: not the best, those embedded first.
Bm25Search(texts, q, n) == ToSet(First(Ascending(With(texts, q), [t \in texts |-> t.id]), n))

VectorSearch(texts, q, n) == ToSet(First(Ascending(texts, Distances(texts, q)), n))

\* _hybrid_retrieve: the value of a text is its share of the best words and of
\* the greatest distance.
Fused(texts, q, k, weight) ==
  Weighted(WordsIn(Bm25Search(texts, q, Fetched(k)), q), Distances(VectorSearch(texts, q, Fetched(k)), q), weight)

HybridRetrieve(texts, q, k) ==
  LET value == Fused(texts, q, k, 3) IN First(Descending(DOMAIN value, value), k)

\* _load_texts_with_events: a text that is gone is left out, the score of the
\* others is one minus the value, as if that were a distance. (Those of several
\* queries are put together, and their order is made anew.)
LoadTexts(ts, value, gone) ==
  {[text |-> t, score |-> 1000 - value[t]] : t \in {u \in ToSet(ts) : u.id \notin gone}}

Retrieve(texts, q, k, gone) == LoadTexts(HybridRetrieve(texts, q, k), Fused(texts, q, k, 3), gone)

\* The fewer queries there are, the more texts are taken for each.
QueryK(n) == IF n > 20 THEN 10 ELSE IF n > 15 THEN 20 ELSE IF n > 10 THEN 30 ELSE IF n > 5 THEN 40 ELSE 50

\* The best score of each text over all queries, in descending order.
Deduplicate(found, n) ==
  LET texts == {c.text : c \in found}
      score == [t \in texts |-> Max({c.score : c \in {d \in found : d.text = t}})]
  IN First(Descending(texts, score), n)

\* The reranker's order, for the batches of at most b documents that it is asked
\* about at the same time. A result's index counts within its batch, and is used
\* among all documents.
Reranked(texts, b, n) ==
  LET order == Sorted(DOMAIN texts, [i \in DOMAIN texts |-> <<texts[i].far[1], i>>])
  IN First([i \in DOMAIN order |-> texts[((order[i] - 1) % b) + 1]], n)

-----------------------------------------------------------------------------
(* The agent's tool. It looks for events: by words among all of them, by   *)
(* vector among those with a timeline entry.                               *)

HybridScores(words, vectors, q, weight) == Weighted(WordsIn(words, q), Similarities(vectors, q), weight)

\* One page of the best hundred of each search; without embeddings, of the words'.
HybridSearch(texts, q, weight, limit, offset) ==
  LET events == With({t \in texts : t.owner = "tool"}, q)
      entries == {t \in texts : t.owner = "timeline"}
      words == ToSet(First(Descending(events, WordsIn(events, q)), 100))
      vectors == ToSet(First(Ascending(entries, Distances(entries, q)), 100))
      score == HybridScores(words, vectors, q, weight)
  IN Page(Descending(DOMAIN score, score), limit, offset)

Bm25Only(texts, q, limit, offset) ==
  LET events == With({t \in texts : t.owner = "tool"}, q)
  IN Page(Descending(events, WordsIn(events, q)), limit, offset)
=============================================================================
