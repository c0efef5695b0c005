------------------------------ MODULE Collector ------------------------------
(***************************************************************************)
(* DefaultCollector: from the answers of the news service to the stories   *)
(* of a collection.  An answer for an item is                              *)
(*   error   "none", "timeout", "connection" or "http"                     *)
(*   body    "object", "null" (or empty) or "malformed"                    *)
(* and an object has                                                       *)
(*   type    "story" or another item type                                  *)
(*   deleted                                                               *)
(*   id      numbered in the order of the source_id strings                *)
(*   title   "text", "blank", or "mustache" for a text with {{ }}          *)
(*   url     "none", "http", "other" scheme, "bad", or "raises" for one    *)
(*           whose port or address makes urllib raise                      *)
(*   time    hours, 0 for none and -1 for no number                        *)
(*   clean   no control characters                                         *)
(*   score, comments   0 where they are missing                            *)
(***************************************************************************)
EXTENDS Integers, Sequences, FiniteSetsExt

CONSTANTS
  CandidateCount,    \* collection.candidate_count
  PoolSize,          \* compute_pool_size(candidate_count)
  WeightScore, WeightComments, WeightRecency   \* scoring weights, in tenths

ASSUME CollectorAssumption ==
  /\ CandidateCount \in Nat \ {0} /\ PoolSize \in Nat
  /\ {WeightScore, WeightComments, WeightRecency} \subseteq Int

\* FetchErrorClassifier.classify_feed_failure, of an exception or a status;
\* a body that is no array of integers is a response error.
ClassifyFeedFailure(f) ==
  CASE f.error = "timeout"    -> "COL_TIMEOUT"
    [] f.error = "connection" -> "COL_FETCH"
    [] f.error = "http"       ->
         IF f.status \in {408, 429} \/ f.status \notin 400 .. 499
         THEN "COL_FETCH" ELSE "COL_RESPONSE"
    [] f.error = "malformed"  -> "COL_RESPONSE"

\* classify_item_failure, decode_item and parse_item: what becomes of an
\* answer before its story is looked at.
ItemOutcome(r) ==
  IF r.error # "none"            THEN "skip"
  ELSE IF r.body = "malformed"   THEN "reject_json"
  ELSE IF r.body = "null"        THEN "null"
  ELSE IF r.item.type # "story"  THEN "not_a_story"
  ELSE IF r.item.deleted         THEN "reject"
  ELSE "story"

\* UrlCanonicalizer.canonicalize and the handler of its error: a URL with a
\* scheme that is not HTTP is kept as it is.
UrlOutcome(url) ==
  CASE url = "bad" -> "reject" [] url = "raises" -> "raise" [] OTHER -> "ok"

\* StoryNormalizer.normalize
Normalize(item) ==
  IF item.title = "blank"                 THEN "reject"
  ELSE IF UrlOutcome(item.url) # "ok"     THEN UrlOutcome(item.url)
  ELSE IF item.time = -1 \/ ~ item.clean  THEN "reject"
  ELSE "accept"

\* The outcome of a whole answer, in the collector's two loops.
Outcome(r) ==
  IF ItemOutcome(r) = "story" THEN Normalize(r.item) ELSE ItemOutcome(r)

\* The numbers of a story, as far as there are any.
Numeric(item) ==
  /\ {item.id, item.score, item.comments} \subseteq Int
  /\ item.time \in Nat \cup {-1}

\* StoryDeduplicator.dedupe on the accepted drafts, which are in the order of
\* their answers: one turn of the loop, and what is kept in the end.
Keep(kept, r) ==
  IF Outcome(r) # "accept" \/ \E k \in DOMAIN kept : kept[k].id = r.item.id
  THEN kept ELSE Append(kept, r.item)

Dedupe(results) ==
  LET kept[n \in 0 .. Len(results)] ==
        IF n = 0 THEN <<>> ELSE Keep(kept[n - 1], results[n])
  IN kept[Len(results)]

\* StoryRanker._reference_published_at and _recency_signal, in sixtieths
\* (exact for ages up to five hours).
Recency(d, drafts) ==
  LET newest == Max({drafts[i].time : i \in DOMAIN drafts})
  IN IF d.time = 0 THEN 0 ELSE 60 \div (1 + newest - d.time)

\* _compute_rank_score, in 1/600.
RankScore(d, drafts) ==
  60 * (WeightScore * d.score + WeightComments * d.comments)
  + WeightRecency * Recency(d, drafts)

\* StoryRanker.rank: by descending score, then by source_id.  No two ids are
\* the same after dedupe, so the k-th story is the one with k - 1 before it.
Precedes(a, b, drafts) ==
  LET x == RankScore(a, drafts)
      y == RankScore(b, drafts)
  IN x > y \/ (x = y /\ a.id < b.id)

Rank(drafts) ==
  LET Before(i) == {j \in DOMAIN drafts : Precedes(drafts[j], drafts[i], drafts)}
  IN [k \in DOMAIN drafts |->
        drafts[CHOOSE i \in DOMAIN drafts : Cardinality(Before(i)) = k - 1]]

\* collect_stories after the fetch, on the answers in the order in which
\* fetch_all returns them: the collection, or an exception's name.
CollectionOf(results) ==
  LET Count(S) == Cardinality({i \in DOMAIN results : Outcome(results[i]) \in S})
      kept == Dedupe(results)
      ranked == Rank(kept)
  IN IF Count({"raise"}) > 0
     THEN [ok |-> FALSE, code |-> "ValueError"]
     ELSE [ok |-> TRUE,
           stories |-> ranked,
           candidates |-> SubSeq(ranked, 1, Min({CandidateCount, Len(ranked)})),
           fetched |-> Count({"null", "not_a_story", "reject", "accept"}),
           rejected |-> Count({"reject_json", "reject"}) + Count({"accept"}) - Len(kept)]
==============================================================================
