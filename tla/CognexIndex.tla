----------------------------- MODULE CognexIndex -----------------------------
(***************************************************************************)
(* The search structures of Cognex as one value: the entries, the postings *)
(* lists, the map from a key to its entry and the count of tokens, and     *)
(* what put(), del(), recover() and compact() do to them.                  *)
(*                                                                         *)
(* An entry is never taken out of the middle of the list. Deleting a key   *)
(* or overwriting it leaves a tombstone, which stays in the postings until *)
(* compact() writes the whole index anew and gives out new ids. Ids count  *)
(* from 1; 0 stands for no entry.                                          *)
(***************************************************************************)
EXTENDS CognexTokens, CognexContents

ASSUME ValueAssumption == Value \subseteq Text

Words == [v \in Value |-> Tokens(v)]

(* Every token the postings map can have a list for; a list can be empty. *)
Token == UNION {Range(Words[v]) : v \in Value}

NoEntry == 0

EmptySearch ==
  [entries     |-> <<>>,
   postings    |-> [t \in Token |-> <<>>],
   keyToEntry  |-> [k \in Key |-> NoEntry],
   totalTokens |-> 0]

-----------------------------------------------------------------------------

(* One posting for each token that occurs, however often it does. *)
Posted(postings, id, tokens) ==
  [t \in Token |->
    IF Frequency(tokens, t) = 0
      THEN postings[t]
      ELSE Append(postings[t], [entryId |-> id, frequency |-> Frequency(tokens, t)])]

(* A new entry at the end of the list, which its key now stands for. *)
Entered(s, key, value, tokens) ==
  LET id == Len(s.entries) + 1
  IN  [entries     |-> Append(s.entries, [key |-> key, value |-> value,
                                          tokens |-> tokens, isDeleted |-> FALSE]),
       postings    |-> Posted(s.postings, id, tokens),
       keyToEntry  |-> [s.keyToEntry EXCEPT ![key] = id],
       totalTokens |-> s.totalTokens + Len(tokens)]

(* A mutant of Inserted: a key that has an entry gets that one written over. *)
InsertedInPlace(s, key, value) ==
  IF s.keyToEntry[key] = NoEntry
    THEN Entered(s, key, value, Words[value])
    ELSE [s EXCEPT !.entries[s.keyToEntry[key]] =
            [key |-> key, value |-> value, tokens |-> Words[value], isDeleted |-> FALSE]]

Inserted(s, key, value) == Entered(s, key, value, Words[value])

(* The entry a key stands for is marked deleted; the postings keep it. *)
Tombstoned(s, key) ==
  IF s.keyToEntry[key] = NoEntry
    THEN s
    ELSE [s EXCEPT !.entries[s.keyToEntry[key]].isDeleted = TRUE]

Forgotten(s, key) == [Tombstoned(s, key) EXCEPT !.keyToEntry[key] = NoEntry]

(* recover() drops what replay has entered, except for keyToEntry_. *)
Dropped(s) == [EmptySearch EXCEPT !.keyToEntry = s.keyToEntry]

(* compact() enters what is not deleted into an empty index, in order: the *)
(* index it has built from the first n entries.                            *)
Compacting(s) ==
  LET built[n \in 0 .. Len(s.entries)] ==
        IF n = 0 THEN EmptySearch
        ELSE IF s.entries[n].isDeleted THEN built[n - 1]
        ELSE Entered(built[n - 1], s.entries[n].key, s.entries[n].value, s.entries[n].tokens)
  IN  built

(* A mutant of Compacted: totalTokens_ is not counted anew. *)
CompactedSameTotal(s) ==
  [Compacting(s)[Len(s.entries)] EXCEPT !.totalTokens = s.totalTokens]

Compacted(s) == Compacting(s)[Len(s.entries)]

-----------------------------------------------------------------------------
(* What the structures have to be *)

Entry   == [key : Key, value : Value, tokens : Seq(Token), isDeleted : BOOLEAN]
Posting == [entryId : Nat \ {0}, frequency : Nat \ {0}]

Searches ==
  [entries     : Seq(Entry),
   postings    : [Token -> Seq(Posting)],
   keyToEntry  : [Key -> Nat],
   totalTokens : Nat]

(* How many tokens the first n entries of a list have. *)
TokensUpTo(entries) ==
  LET total[n \in 0 .. Len(entries)] ==
        IF n = 0 THEN 0 ELSE total[n - 1] + Len(entries[n].tokens)
  IN  total

(* The entries that are not deleted are those of what map stores. *)
FindsStored(s, map) ==
  /\ {<<s.entries[id].key, {s.entries[id].value}, id>> :
        id \in {i \in DOMAIN s.entries : ~s.entries[i].isDeleted}}
     = {<<k, map[k], s.keyToEntry[k]>> : k \in {j \in Key : map[j] # {}}}
  /\ \A k \in Key : map[k] = {} => s.keyToEntry[k] = NoEntry

(* The postings and the count of tokens are those of the entries. *)
PostingsMatch(s) ==
  /\ \A t \in Token :
       LET list == s.postings[t]
       IN  /\ \A i, j \in DOMAIN list : i < j => list[i].entryId < list[j].entryId
           /\ Range(list) =
                {[entryId |-> id, frequency |-> Frequency(s.entries[id].tokens, t)] :
                   id \in {d \in DOMAIN s.entries : t \in Range(s.entries[d].tokens)}}
  /\ s.totalTokens = TokensUpTo(s.entries)[Len(s.entries)]
=============================================================================
