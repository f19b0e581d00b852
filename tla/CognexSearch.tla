---------------------------- MODULE CognexSearch ----------------------------
(***************************************************************************)
(* The search side of Cognex: what put(), del(), recover() and compact()   *)
(* do to the search structures of CognexIndex beside the key index, and    *)
(* the query engine that answers from them.                                *)
(*                                                                         *)
(* All of it lives in memory, one call at a time, so a call is one action  *)
(* here. The key index is a map from keys to values: CognexStorage shows   *)
(* that its offsets can be read.                                           *)
(***************************************************************************)
EXTENDS CognexIndex, SequencesExt

CONSTANTS
  CompactionDeleteThreshold,   \* compactionDeleteThreshold_
  Queries,                     \* [terms, filters, topK, sortBy]
  SizeModulus,                 \* 2^64: size_t arithmetic wraps here
  Bm25(_, _, _, _, _, _),      \* compute_bm25() and compute_idf(), scaled to Nat
  MaxCalls,                    \* bound: calls since the process started
  MaxReplayed                  \* bound: records in the log that is replayed

ASSUME SearchAssumption ==
  /\ CompactionDeleteThreshold \in Nat \ {0}
  /\ MaxCalls \in Nat
  /\ MaxReplayed \in Nat
  /\ SizeModulus \in Nat \ {0}

(* What parse_query() can make of a line: it drops a filter on another field. *)
ASSUME QueryAssumption ==
  Queries \subseteq
    [terms   : Seq(Text),
     filters : SUBSET [field : {"relevance", "similarity"}, op : STRING, value : Nat],
     topK    : Nat,
     sortBy  : {"relevance", "similarity"}]

VARIABLES
  index,                           \* index_: {} or {v} for each key
  search,                          \* entries_, postings_, keyToEntry_, totalTokens_
  deleteOpsSinceLastCompaction,    \* deleteOpsSinceLastCompaction_
  pc,                              \* where the process is
  answer,                          \* what the last call printed, if a query
  count                            \* calls made, or records replayed

vars == <<index, search, deleteOpsSinceLastCompaction, pc, answer, count>>

NoAnswer == [query |-> {}, lines |-> <<>>]

-----------------------------------------------------------------------------
(* The query engine *)

PostingsFor(s, term) == IF term \in Token THEN s.postings[term] ELSE <<>>

TotalDocs(map) == Cardinality({k \in Key : map[k] # {}})

(* documentFrequency: the length of the postings list. *)
DocumentFrequency(s, term) == Len(PostingsFor(s, term))

(* The j-th posting of the i-th term, <<i, j>>. *)
HitPosting(s, q, hit) == PostingsFor(s, q.terms[hit[1]])[hit[2]]

(***************************************************************************)
(* The postings that generate_candidates() adds up for an entry: one for   *)
(* each place a term has in the query, so a repeated term counts twice.    *)
(***************************************************************************)
Hits(s, q, id) ==
  {hit \in (DOMAIN q.terms) \X (1 .. Len(s.entries)) :
     /\ hit[2] <= DocumentFrequency(s, q.terms[hit[1]])
     /\ HitPosting(s, q, hit).entryId = id}

(* A mutant of Touched: deleted entries are not skipped. *)
TouchedDeleted(s, q) == {id \in DOMAIN s.entries : Hits(s, q, id) # {}}

(* touchedDocs_: the entries with a hit that are not deleted. *)
Touched(s, q) ==
  {id \in DOMAIN s.entries : ~s.entries[id].isDeleted /\ Hits(s, q, id) # {}}

TermFrequencyScore(s, q, id) ==
  SumFunction([hit \in Hits(s, q, id) |-> HitPosting(s, q, hit).frequency])

(* The two operands of compute_idf() are size_t, and so is their difference. *)
Rarity(docs, df) == (docs - df) % SizeModulus

Bm25Score(s, q, docs, id) ==
  SumFunction(
    [hit \in Hits(s, q, id) |->
      LET df == DocumentFrequency(s, q.terms[hit[1]])
      IN  Bm25(HitPosting(s, q, hit).frequency, Len(s.entries[id].tokens),
               s.totalTokens, docs, Rarity(docs, df), df)])

(* A score becomes a percentage of the best one, rounded to the nearest. *)
Percentage(score, best) == IF best > 0 THEN (200 * score + best) \div (2 * best) ELSE score

Candidates(s, q, docs) ==
  LET scored == {<<id, Bm25Score(s, q, docs, id)>> : id \in Touched(s, q)}
      best   == Max({d[2] : d \in scored})
  IN  {[entryId    |-> d[1],
        relevance  |-> TermFrequencyScore(s, q, d[1]),
        similarity |-> Percentage(d[2], best)] : d \in scored}

(* apply_filters(): a field or an operator it does not know lets all pass. *)
Rejects(f, result) ==
  LET fieldValue == IF f.field = "relevance" THEN result.relevance ELSE result.similarity
  IN  /\ f.field \in {"relevance", "similarity"}
      /\ \/ f.op = ">"  /\ fieldValue <= f.value
         \/ f.op = ">=" /\ fieldValue < f.value
         \/ f.op = "<"  /\ fieldValue >= f.value
         \/ f.op = "<=" /\ fieldValue > f.value
         \/ f.op = "="  /\ fieldValue # f.value

Filtered(q, results) == {r \in results : \A f \in q.filters : ~Rejects(f, r)}

SortKey(q, r) == IF q.sortBy = "similarity" THEN r.similarity ELSE r.relevance

(***************************************************************************)
(* rank_results(): the first topK of the results in descending order. The  *)
(* standard library leaves open in which order ties come out, and which of *)
(* them are cut off, so there can be several outcomes.                     *)
(***************************************************************************)
Ranked(q, results) ==
  LET n == Min({q.topK, Cardinality(results)})
  IN  {ranking \in [1 .. n -> results] :
         /\ IsInjective(ranking)
         /\ \A i, j \in 1 .. n : i < j => SortKey(q, ranking[i]) >= SortKey(q, ranking[j])
         /\ \A r \in results \ Range(ranking) :
              \A i \in 1 .. n : SortKey(q, ranking[i]) >= SortKey(q, r)}

-----------------------------------------------------------------------------

Init ==
  /\ index = Empty
  /\ search = EmptySearch
  /\ deleteOpsSinceLastCompaction = 0
  /\ pc = "down"
  /\ answer = NoAnswer
  /\ count = 0

(* recover(): the snapshot is loaded, whatever it holds, ... *)
Start ==
  /\ pc = "down"
  /\ index' \in Contents
  /\ pc' = "replay"
  /\ UNCHANGED <<search, deleteOpsSinceLastCompaction, answer, count>>

(* ... the log is replayed, which also enters what it puts, ... *)
ReplayPut(k, v) ==
  /\ pc = "replay"
  /\ count < MaxReplayed
  /\ count' = count + 1
  /\ search' = Inserted(search, k, v)
  /\ index' = [index EXCEPT ![k] = {v}]
  /\ UNCHANGED <<deleteOpsSinceLastCompaction, pc, answer>>

ReplayDel(k) ==
  /\ pc = "replay"
  /\ count < MaxReplayed
  /\ count' = count + 1
  /\ search' = Forgotten(search, k)
  /\ index' = [index EXCEPT ![k] = {}]
  /\ UNCHANGED <<deleteOpsSinceLastCompaction, pc, answer>>

(* ... and what was entered is dropped again, except for keyToEntry_. *)
Reset ==
  /\ pc = "replay"
  /\ search' = Dropped(search)
  /\ pc' = "rebuild"
  /\ count' = 0
  /\ UNCHANGED <<index, deleteOpsSinceLastCompaction, answer>>

Rebuilt(k) == \E id \in DOMAIN search.entries : search.entries[id].key = k

(* The keys of the index are entered, in the order the hash map has them. *)
Rebuild(k) ==
  /\ pc = "rebuild"
  /\ ~Rebuilt(k)
  /\ \E v \in index[k] : search' = Inserted(search, k, v)
  /\ UNCHANGED <<index, deleteOpsSinceLastCompaction, pc, answer, count>>

Ready ==
  /\ pc = "rebuild"
  /\ \A k \in Key : index[k] # {} => Rebuilt(k)
  /\ pc' = "ready"
  /\ UNCHANGED <<index, search, deleteOpsSinceLastCompaction, answer, count>>

-----------------------------------------------------------------------------

Called ==
  /\ pc = "ready"
  /\ count < MaxCalls
  /\ count' = count + 1
  /\ UNCHANGED pc

(* A mutant of Put: the old version is not marked deleted. *)
PutKeepsOld(k, v) ==
  /\ Called
  /\ search' = Inserted(search, k, v)
  /\ index' = [index EXCEPT ![k] = {v}]
  /\ answer' = NoAnswer
  /\ UNCHANGED deleteOpsSinceLastCompaction

Put(k, v) ==
  /\ Called
  /\ search' = Inserted(Tombstoned(search, k), k, v)
  /\ index' = [index EXCEPT ![k] = {v}]
  /\ answer' = NoAnswer
  /\ UNCHANGED deleteOpsSinceLastCompaction

(* del() of a key that is not there only writes to the log. *)
DelMissing(k) ==
  /\ Called
  /\ index[k] = {}
  /\ answer' = NoAnswer
  /\ UNCHANGED <<index, search, deleteOpsSinceLastCompaction>>

(* A mutant of Del: the count goes on after a compaction. *)
DelCountsOn(k) ==
  /\ Called
  /\ index[k] # {}
  /\ index' = [index EXCEPT ![k] = {}]
  /\ deleteOpsSinceLastCompaction' = deleteOpsSinceLastCompaction + 1
  /\ search' = IF deleteOpsSinceLastCompaction + 1 >= CompactionDeleteThreshold
                  THEN Compacted(Forgotten(search, k))
                  ELSE Forgotten(search, k)
  /\ answer' = NoAnswer

Del(k) ==
  /\ Called
  /\ index[k] # {}
  /\ index' = [index EXCEPT ![k] = {}]
  /\ IF deleteOpsSinceLastCompaction + 1 >= CompactionDeleteThreshold
       THEN /\ deleteOpsSinceLastCompaction' = 0
            /\ search' = Compacted(Forgotten(search, k))
       ELSE /\ deleteOpsSinceLastCompaction' = deleteOpsSinceLastCompaction + 1
            /\ search' = Forgotten(search, k)
  /\ answer' = NoAnswer

(* COMPACT leaves the count of deletes as it is. *)
Compact ==
  /\ Called
  /\ search' = Compacted(search)
  /\ answer' = NoAnswer
  /\ UNCHANGED <<index, deleteOpsSinceLastCompaction>>

(* QUERY prints the key of each result, which it looks up by its id. *)
Query(q) ==
  /\ pc = "ready"
  /\ \E ranking \in Ranked(q, Filtered(q, Candidates(search, q, TotalDocs(index)))) :
       answer' = [query |-> {q},
                  lines |-> [i \in DOMAIN ranking |->
                              [key        |-> search.entries[ranking[i].entryId].key,
                               relevance  |-> ranking[i].relevance,
                               similarity |-> ranking[i].similarity]]]
  /\ UNCHANGED <<index, search, deleteOpsSinceLastCompaction, pc, count>>

Kill ==
  /\ pc # "down"
  /\ index' = Empty
  /\ search' = EmptySearch
  /\ deleteOpsSinceLastCompaction' = 0
  /\ pc' = "down"
  /\ answer' = NoAnswer
  /\ count' = 0

Next ==
  \/ Start \/ Reset \/ Ready
  \/ \E k \in Key :
       \/ \E v \in Value : ReplayPut(k, v) \/ Put(k, v)
       \/ ReplayDel(k) \/ Rebuild(k) \/ DelMissing(k) \/ Del(k)
  \/ Compact
  \/ \E q \in Queries : Query(q)
  \/ Kill

Spec == Init /\ [][Next]_vars

-----------------------------------------------------------------------------
(* Properties *)

(* The type invariant. *)
TypeOK ==
  /\ index \in Contents
  /\ search \in Searches
  /\ deleteOpsSinceLastCompaction \in 0 .. CompactionDeleteThreshold - 1
  /\ pc \in {"down", "replay", "rebuild", "ready"}
  /\ answer.query \subseteq Queries
  /\ count \in Nat

(***************************************************************************)
(* Between calls, exactly the stored keys have an entry that is not        *)
(* deleted, one each, which holds the stored value and is the one that     *)
(* keyToEntry_ leads to: so after any mixture of overwrites, deletes,      *)
(* compactions and recoveries, in which keyToEntry_ is not cleared         *)
(* (cognex.cpp:93-95, 222-227, 265-272, 301-344).                          *)
(***************************************************************************)
SearchMatchesStore == pc = "ready" => FindsStored(search, index)

(***************************************************************************)
(* The postings list of a token names exactly the entries whose tokens     *)
(* contain it, deleted ones too, in ascending order and with the right     *)
(* frequency, and totalTokens_ adds up their lengths: the query engine     *)
(* never indexes past the end of entries_ (query_engine.cpp:96), and a     *)
(* compaction renumbers all of it at once (cognex.cpp:301-345).            *)
(***************************************************************************)
PostingsMatchEntries == PostingsMatch(search)

(***************************************************************************)
(* An id a caller has from query() goes on to mean the same key and value, *)
(* and a deleted entry stays deleted, until a call drops entries: get_entry*)
(* takes any id without a look at isDeleted (cognex.cpp:384-387).          *)
(***************************************************************************)
IdsKeepTheirMeaning ==
  [][pc = "ready" /\ pc' = "ready" /\ Len(search'.entries) >= Len(search.entries) =>
       \A id \in DOMAIN search.entries :
         /\ search'.entries[id].key = search.entries[id].key
         /\ search'.entries[id].value = search.entries[id].value
         /\ search.entries[id].isDeleted => search'.entries[id].isDeleted]_vars

(* A query answers from what is stored: CognexSearchable is implemented. *)
Searchable == INSTANCE CognexSearchable WITH
  up    <- pc = "ready",
  store <- IF pc = "ready" THEN index ELSE Empty

RefinesSearchable == Searchable!Spec

(***************************************************************************)
(* What BM25 computes with is counted over the documents, the stored       *)
(* values: query_engine.cpp:84 "DF = number of documents containing the    *)
(* term" and query_engine.cpp:73 "average document length across corpus".  *)
(* It does not hold: an overwritten or deleted value stays in the postings *)
(* and in totalTokens_ until the next compaction.                          *)
(***************************************************************************)
StatisticsExact ==
  pc = "ready" =>
    /\ \A t \in Token :
         DocumentFrequency(search, t) =
           Cardinality({k \in Key : \E v \in index[k] : Frequency(Words[v], t) > 0})
    /\ search.totalTokens =
         MapThenSumSet(LAMBDA k : MapThenSumSet(LAMBDA v : Len(Words[v]), index[k]), Key)
=============================================================================
