------------------------- MODULE CognexSearch_proofs -------------------------
(***************************************************************************)
(* Proofs about CognexSearch: its type invariant, that the entries match   *)
(* the store and the postings the entries, that ids keep their meaning,    *)
(* and that queries answer from what is stored.                            *)
(***************************************************************************)
EXTENDS CognexSearch, CognexIndex_proofs

(* What has been rebuilt is right, and keyToEntry_ leads nowhere for the other keys. *)
Rebuilding ==
  /\ \A id \in 1 .. Len(search.entries) : ~search.entries[id].isDeleted
  /\ EntriesStored(search, index)
  /\ NoneFor(search, index)

Phase ==
  /\ pc = "down" => search = EmptySearch
  /\ pc = "replay" => Leads(search, index)
  /\ pc = "rebuild" => Rebuilding
  /\ pc = "ready" => Matches(search, index)

(* The inductive invariant. *)
SearchInv == TypeOK /\ Consistent(search) /\ Phase

-----------------------------------------------------------------------------

(* Where the index is between calls, and the rest of the type. *)
Rest ==
  /\ index \in Contents
  /\ deleteOpsSinceLastCompaction \in 0 .. CompactionDeleteThreshold - 1
  /\ answer.query \subseteq Queries
  /\ count \in Nat

PhaseOf == pc \in {"down", "replay", "rebuild", "ready"}

LEMMA InvFromParts == Rest /\ PhaseOf /\ Consistent(search) /\ Phase => SearchInv
<1> SUFFICES ASSUME Rest, PhaseOf, Consistent(search), Phase
             PROVE  TypeOK
  BY DEF SearchInv
<1>1. search \in Searches
  BY DEF Consistent
<1> QED
  BY <1>1 DEF Rest, PhaseOf, TypeOK

LEMMA SearchInit == Init => SearchInv
<1> SUFFICES ASSUME Init
             PROVE  SearchInv
  OBVIOUS
<1>1. Rest
  <2>1. index \in Contents
    BY DEF Init, Empty, Contents
  <2>2. answer.query = {}
    BY DEF Init, NoAnswer
  <2> QED
    BY <2>1, <2>2, SearchAssumption DEF Init, Rest
<1>2. Consistent(search)
  BY EmptyConsistent DEF Init
<1>3. PhaseOf /\ Phase
  BY DEF Init, PhaseOf, Phase
<1> QED
  BY <1>1, <1>2, <1>3, InvFromParts

LEMMA SearchStep == SearchInv /\ [Next]_vars => SearchInv'
<1> SUFFICES ASSUME SearchInv, [Next]_vars
             PROVE  Rest' /\ PhaseOf' /\ Consistent(search)' /\ Phase'
  <2>1. (Rest /\ PhaseOf /\ Consistent(search) /\ Phase)' => SearchInv'
    BY InvFromParts, PTL
  <2> QED
    BY <2>1
<1>1. Rest /\ PhaseOf /\ Consistent(search) /\ search \in Searches /\ Phase
  BY DEF SearchInv, TypeOK, Rest, PhaseOf, Consistent
<1>2. /\ search.entries \in Seq(Entry) /\ Len(search.entries) \in Nat
      /\ search.keyToEntry \in [Key -> Nat]
  <2>1. search.entries \in Seq(Entry) /\ search.keyToEntry \in [Key -> Nat]
    BY <1>1 DEF Searches
  <2> QED
    BY <2>1, LenProperties
<1>3. ASSUME NEW k \in Key, NEW v \in Value, index' = [index EXCEPT ![k] = {v}]
      PROVE  index' \in Contents /\ Stores(index, index', k, {v})
  <2> DEFINE m == {v}
  <2>1. m \in {{}} \cup {{w} : w \in Value} /\ index' = [index EXCEPT ![k] = m]
    BY <1>3
  <2> HIDE DEF m
  <2>2. index' \in Contents /\ Stores(index, index', k, m)
    BY <1>1, <2>1, ChangedContents DEF Rest
  <2> QED
    BY <2>2 DEF m
<1>4. CASE UNCHANGED vars
  <2>1. Rest' /\ PhaseOf'
    BY <1>1, <1>4 DEF vars, Rest, PhaseOf
  <2>2. Consistent(search)'
    BY <1>1, <1>4 DEF vars
  <2>3. Phase'
    BY <1>1, <1>4 DEF vars, Phase, Leads, Rebuilding, EntriesStored, NoneFor, Matches, Found
  <2> QED
    BY <2>1, <2>2, <2>3
<1>5. CASE Start
  <2>1. Rest' /\ PhaseOf' /\ pc' = "replay" /\ search' = search /\ search = EmptySearch
    BY <1>1, <1>5 DEF Start, Rest, PhaseOf, Phase
  <2>2. Leads(search', index')
    <3>1. \A k \in Key : search'.keyToEntry[k] = NoEntry /\ Len(search'.entries) = 0
      BY <2>1, EmptyConsistent DEF EmptySearch
    <3> QED
      BY <3>1 DEF Leads, NoneFor, NoEntry
  <2> QED
    BY <1>1, <2>1, <2>2 DEF Phase
<1>6. ASSUME NEW k \in Key, NEW v \in Value, ReplayPut(k, v)
      PROVE  Rest' /\ PhaseOf' /\ Consistent(search)' /\ Phase'
  <2>1. /\ pc = "replay" /\ pc' = pc /\ search' = Inserted(search, k, v)
        /\ index' = [index EXCEPT ![k] = {v}] /\ count' = count + 1
        /\ UNCHANGED <<deleteOpsSinceLastCompaction, answer>>
    BY <1>6 DEF ReplayPut
  <2>2. Rest' /\ PhaseOf' /\ Stores(index, index', k, {v})
    <3>1. index' \in Contents /\ Stores(index, index', k, {v})
      BY <1>3, <2>1
    <3> QED
      BY <1>1, <2>1, <3>1 DEF Rest, PhaseOf
  <2>3. Words[v] \in Seq(Token)
    BY WordsType
  <2>4. Consistent(search')
    BY <1>1, <2>1, <2>3, EnteredConsistent DEF Inserted
  <2>5. Leads(search', index')
    <3>1. Leads(search, index)
      BY <1>1, <2>1 DEF Phase
    <3> QED
      BY <1>1, <2>1, <2>2, <3>1, InsertedLeads
  <2> QED
    BY <2>1, <2>2, <2>4, <2>5 DEF Phase
<1>7. ASSUME NEW k \in Key, ReplayDel(k)
      PROVE  Rest' /\ PhaseOf' /\ Consistent(search)' /\ Phase'
  <2>1. /\ pc = "replay" /\ pc' = pc /\ search' = Forgotten(search, k)
        /\ index' = [index EXCEPT ![k] = {}] /\ count' = count + 1
        /\ UNCHANGED <<deleteOpsSinceLastCompaction, answer>>
    BY <1>7 DEF ReplayDel
  <2>2. index' \in Contents /\ Stores(index, index', k, {})
    BY <1>1, <2>1, ChangedContents DEF Rest
  <2>3. Rest' /\ PhaseOf'
    BY <1>1, <2>1, <2>2 DEF Rest, PhaseOf
  <2>4. Kept(search, search') /\ Leads(search', index')
    <3>1. Leads(search, index)
      BY <1>1, <2>1 DEF Phase
    <3> QED
      BY <1>1, <2>1, <2>2, <3>1, ForgottenLeads
  <2>5. Consistent(search')
    BY <1>1, <2>4, KeptConsistent
  <2> QED
    BY <2>1, <2>3, <2>4, <2>5 DEF Phase
<1>8. CASE Reset
  <2>1. /\ pc = "replay" /\ pc' = "rebuild" /\ count' = 0 /\ index' = index
        /\ search' = Dropped(search)
        /\ UNCHANGED <<deleteOpsSinceLastCompaction, answer>>
    BY <1>8 DEF Reset
  <2>2. Rest' /\ PhaseOf'
    BY <1>1, <2>1 DEF Rest, PhaseOf
  <2>3. /\ Consistent(search') /\ Len(search'.entries) = 0
        /\ search'.keyToEntry = search.keyToEntry
    BY <1>1, <2>1, DroppedIs
  <2>4. Rebuilding'
    <3>1. \A k \in Key : index'[k] = {} => search'.keyToEntry[k] = NoEntry
      BY <1>1, <2>1, <2>3 DEF Phase, Leads, NoneFor
    <3> QED
      BY <2>3, <3>1 DEF Rebuilding, EntriesStored, NoneFor
  <2> QED
    BY <2>1, <2>2, <2>3, <2>4 DEF Phase
<1>9. ASSUME NEW k \in Key, Rebuild(k)
      PROVE  Rest' /\ PhaseOf' /\ Consistent(search)' /\ Phase'
  <2>1. PICK v \in index[k] : search' = Entered(search, k, v, Words[v])
    BY <1>9 DEF Rebuild, Inserted
  <2>2. /\ pc = "rebuild" /\ ~Rebuilt(k)
        /\ UNCHANGED <<index, deleteOpsSinceLastCompaction, pc, answer, count>>
    BY <1>9 DEF Rebuild
  <2>3. Rest' /\ PhaseOf'
    BY <1>1, <2>2 DEF Rest, PhaseOf
  <2>4. v \in Value /\ index[k] = {v}
    <3>1. index[k] \in {{}} \cup {{w} : w \in Value}
      BY <1>1 DEF Rest, Contents
    <3> QED
      BY <3>1
  <2>5. Words[v] \in Seq(Token)
    BY <2>4, WordsType
  <2>6. Consistent(search')
    BY <1>1, <2>1, <2>4, <2>5, EnteredConsistent
  <2>7. Unused(search, k)
    <3>1. \A id \in 1 .. Len(search.entries) : search.entries[id].key # k
      BY <1>2, <2>2, LenProperties DEF Rebuilt
    <3> QED
      BY <3>1 DEF Unused
  <2>8. Rebuilding
    BY <1>1, <2>2 DEF Phase
  <2>9. EntriesStored(search', index) /\ NoneFor(search', index)
    <3>1. Stores(index, index, k, {v})
      BY <2>4 DEF Stores
    <3>2. EntriesStored(search, index) /\ NoneFor(search, index)
      BY <2>8 DEF Rebuilding
    <3> QED
      BY <1>1, <2>1, <2>4, <2>5, <2>7, <3>1, <3>2, EnteredMatches
  <2>10. \A id \in 1 .. Len(search'.entries) : ~search'.entries[id].isDeleted
    <3> DEFINE e == NewEntry(k, v, Words[v])
    <3>1. Enters(search, search', e) /\ ~e.isDeleted
      BY <1>1, <2>1, <2>4, <2>5, EnteredIs DEF NewEntry
    <3> HIDE DEF e
    <3>2. /\ Len(search'.entries) = Len(search.entries) + 1
          /\ \A id \in 1 .. Len(search.entries) : search'.entries[id] = search.entries[id]
          /\ search'.entries[Len(search.entries) + 1] = e
      BY <3>1 DEF Enters, Extended
    <3> SUFFICES ASSUME NEW id \in 1 .. Len(search'.entries)
                 PROVE  ~search'.entries[id].isDeleted
      OBVIOUS
    <3>3. id \in 1 .. Len(search.entries) \/ id = Len(search.entries) + 1
      BY <1>2, <3>2
    <3>4. ASSUME id \in 1 .. Len(search.entries)
          PROVE  ~search'.entries[id].isDeleted
      BY <2>8, <3>2, <3>4, Zenon DEF Rebuilding
    <3>5. ASSUME id = Len(search.entries) + 1
          PROVE  ~search'.entries[id].isDeleted
      BY <3>1, <3>2, <3>5, Zenon
    <3> QED
      BY <3>3, <3>4, <3>5
  <2>11. Rebuilding'
    BY <2>2, <2>9, <2>10 DEF Rebuilding, EntriesStored, NoneFor
  <2> QED
    BY <2>2, <2>3, <2>6, <2>11 DEF Phase
<1>10. CASE Ready
  <2>1. /\ pc = "rebuild" /\ pc' = "ready"
        /\ \A k \in Key : index[k] # {} => Rebuilt(k)
        /\ UNCHANGED <<index, search, deleteOpsSinceLastCompaction, answer, count>>
    BY <1>10 DEF Ready
  <2>2. Rest' /\ PhaseOf' /\ Consistent(search')
    BY <1>1, <2>1 DEF Rest, PhaseOf
  <2>3. Rebuilding
    BY <1>1, <2>1 DEF Phase
  <2>4. Found(search, index, Key)
    <3> SUFFICES ASSUME NEW k \in Key, index[k] # {}
                 PROVE  /\ search.keyToEntry[k] \in 1 .. Len(search.entries)
                        /\ search.entries[search.keyToEntry[k]].key = k
                        /\ ~search.entries[search.keyToEntry[k]].isDeleted
      BY DEF Found
    <3>1. PICK id \in 1 .. Len(search.entries) : search.entries[id].key = k
      BY <1>2, <2>1, LenProperties DEF Rebuilt
    <3>2. ~search.entries[id].isDeleted
      BY <2>3, Zenon DEF Rebuilding
    <3>3. search.keyToEntry[k] = id
      BY <2>3, <3>1, <3>2, Zenon DEF Rebuilding, EntriesStored
    <3> QED
      BY <3>1, <3>2, <3>3
  <2>5. Matches(search', index')
    BY <2>1, <2>3, <2>4 DEF Rebuilding, Matches
  <2> QED
    BY <2>1, <2>2, <2>5 DEF Phase
<1>11. ASSUME NEW k \in Key, NEW v \in Value, Put(k, v)
       PROVE  Rest' /\ PhaseOf' /\ Consistent(search)' /\ Phase'
  <2> DEFINE n == Tombstoned(search, k)
  <2>1. /\ pc = "ready" /\ pc' = pc /\ search' = Inserted(n, k, v)
        /\ index' = [index EXCEPT ![k] = {v}] /\ count' = count + 1
        /\ answer' = NoAnswer /\ UNCHANGED deleteOpsSinceLastCompaction
    BY <1>11 DEF Put, Called
  <2>2. Rest' /\ PhaseOf' /\ Stores(index, index', k, {v})
    <3>1. index' \in Contents /\ Stores(index, index', k, {v})
      BY <1>3, <2>1
    <3> QED
      BY <1>1, <2>1, <3>1 DEF Rest, PhaseOf, NoAnswer
  <2>3. Matches(search, index)
    BY <1>1, <2>1 DEF Phase
  <2>4. search.keyToEntry[k] \in 0 .. Len(search.entries)
    BY <1>1, <2>3, MatchesInRange
  <2>5. Kept(search, n)
    BY <1>1, <2>4, TombstonedIs DEF Marked
  <2>6. Consistent(n)
    BY <1>1, <2>5, KeptConsistent
  <2>7. Consistent(search')
    <3>1. Words[v] \in Seq(Token)
      BY WordsType
    <3> HIDE DEF n
    <3> QED
      BY <2>1, <2>6, <3>1, EnteredConsistent DEF Inserted
  <2>8. Matches(search', index')
    BY <1>1, <2>1, <2>2, <2>3, <2>4, ReplacedMatches
  <2> QED
    BY <2>1, <2>2, <2>7, <2>8 DEF Phase
<1>12. ASSUME NEW k \in Key, DelMissing(k)
       PROVE  Rest' /\ PhaseOf' /\ Consistent(search)' /\ Phase'
  <2>1. /\ pc = "ready" /\ pc' = pc /\ count' = count + 1 /\ answer' = NoAnswer
        /\ UNCHANGED <<index, search, deleteOpsSinceLastCompaction>>
    BY <1>12 DEF DelMissing, Called
  <2>2. Matches(search', index')
    BY <1>1, <2>1 DEF Phase
  <2> QED
    BY <1>1, <2>1, <2>2 DEF Rest, PhaseOf, NoAnswer, Phase
<1>13. ASSUME NEW k \in Key, Del(k)
       PROVE  Rest' /\ PhaseOf' /\ Consistent(search)' /\ Phase'
  <2> DEFINE n == Forgotten(search, k)
  <2>1. /\ pc = "ready" /\ pc' = pc /\ search' \in {n, Compacted(n)}
        /\ index' = [index EXCEPT ![k] = {}] /\ count' = count + 1
        /\ answer' = NoAnswer
        /\ deleteOpsSinceLastCompaction' \in
             {0} \cup {i \in {deleteOpsSinceLastCompaction + 1} : ~(i >= CompactionDeleteThreshold)}
    BY <1>13 DEF Del, Called
  <2>2. Rest' /\ PhaseOf'
    <3>1. index' \in Contents
      BY <1>1, <2>1, ChangedContents DEF Rest
    <3> QED
      BY <1>1, <2>1, <3>1, SearchAssumption DEF Rest, PhaseOf, NoAnswer
  <2>3. Matches(search, index)
    BY <1>1, <2>1 DEF Phase
  <2>4. search.keyToEntry[k] \in 0 .. Len(search.entries)
    BY <1>1, <2>3, MatchesInRange
  <2>5. Kept(search, n)
    BY <1>1, <2>4, ForgottenIs DEF Marked
  <2>6. Consistent(n) /\ n \in Searches
    BY <1>1, <2>5, KeptConsistent DEF Kept
  <2>7. Matches(n, index')
    <3>1. Stores(index, index', k, {})
      BY <1>1, <2>1, ChangedContents DEF Rest
    <3> QED
      BY <1>1, <2>3, <2>4, <3>1, ForgottenMatches
  <2>8. Consistent(Compacted(n)) /\ Matches(Compacted(n), index')
    <3> HIDE DEF n
    <3> QED
      BY <2>6, <2>7, CompactedIs
  <2>9. Consistent(search') /\ Matches(search', index')
    <3> HIDE DEF n
    <3> QED
      BY <2>1, <2>6, <2>7, <2>8
  <2> QED
    BY <2>1, <2>2, <2>9 DEF Phase
<1>14. CASE Compact
  <2>1. /\ pc = "ready" /\ pc' = pc /\ search' = Compacted(search) /\ count' = count + 1
        /\ answer' = NoAnswer /\ UNCHANGED <<index, deleteOpsSinceLastCompaction>>
    BY <1>14 DEF Compact, Called
  <2>2. Rest' /\ PhaseOf'
    BY <1>1, <2>1 DEF Rest, PhaseOf, NoAnswer
  <2>3. Matches(search, index)
    BY <1>1, <2>1 DEF Phase
  <2>4. Consistent(search') /\ Matches(search', index')
    BY <1>1, <2>1, <2>3, CompactedIs
  <2> QED
    BY <2>1, <2>2, <2>4 DEF Phase
<1>15. ASSUME NEW q \in Queries, Query(q)
       PROVE  Rest' /\ PhaseOf' /\ Consistent(search)' /\ Phase'
  <2>1. /\ pc = "ready" /\ pc' = pc
        /\ UNCHANGED <<index, search, deleteOpsSinceLastCompaction, pc, count>>
        /\ answer'.query = {q}
    BY <1>15 DEF Query
  <2>2. Matches(search', index')
    BY <1>1, <2>1 DEF Phase
  <2> QED
    BY <1>1, <2>1, <2>2 DEF Rest, PhaseOf, Phase
<1>16. CASE Kill
  <2>1. /\ pc' = "down" /\ index' = Empty /\ search' = EmptySearch /\ count' = 0
        /\ deleteOpsSinceLastCompaction' = 0 /\ answer' = NoAnswer
    BY <1>16 DEF Kill
  <2>2. Rest' /\ PhaseOf'
    <3>1. index' \in Contents
      BY <2>1 DEF Empty, Contents
    <3> QED
      BY <2>1, <3>1, SearchAssumption DEF Rest, PhaseOf, NoAnswer
  <2>3. Consistent(search')
    BY <2>1, EmptyConsistent
  <2> QED
    BY <2>1, <2>2, <2>3 DEF Phase
<1> QED
  BY <1>4, <1>5, <1>6, <1>7, <1>8, <1>9, <1>10, <1>11, <1>12, <1>13, <1>14, <1>15, <1>16 DEF Next

THEOREM SearchInvariant == Spec => []SearchInv
<1> QED
  BY SearchInit, SearchStep, PTL DEF Spec

(* The type invariant of the search side. *)
THEOREM TypeCorrect == Spec => []TypeOK
<1>1. SearchInv => TypeOK
  BY DEF SearchInv
<1> QED
  BY <1>1, SearchInvariant, PTL

(***************************************************************************)
(* Between calls the entries that are not deleted are the stored values,   *)
(* one for each key, where keyToEntry_ leads (cognex.cpp:93-95, 222-227,   *)
(* 265-272, 301-344).                                                      *)
(***************************************************************************)
THEOREM SearchAlwaysMatchesStore == Spec => []SearchMatchesStore
<1>1. SearchInv => SearchMatchesStore
  BY MatchesFinds DEF SearchInv, Phase, Consistent, SearchMatchesStore
<1> QED
  BY <1>1, SearchInvariant, PTL

(***************************************************************************)
(* The postings name exactly the entries with their token, in order and    *)
(* with their frequency, and totalTokens_ adds up the lengths of the       *)
(* entries (cognex.cpp:301-345, query_engine.cpp:96).                      *)
(***************************************************************************)
THEOREM PostingsAlwaysMatchEntries == Spec => []PostingsMatchEntries
<1>1. SearchInv => PostingsMatchEntries
  BY ConsistentPostings DEF SearchInv, PostingsMatchEntries
<1> QED
  BY <1>1, SearchInvariant, PTL

(***************************************************************************)
(* An id goes on to mean the same key and value, and a deleted entry stays *)
(* deleted, until a call drops entries (cognex.cpp:384-387).               *)
(***************************************************************************)
THEOREM IdsAlwaysKeepTheirMeaning == Spec => IdsKeepTheirMeaning
<1> DEFINE Step == pc = "ready" /\ pc' = "ready" /\ Len(search'.entries) >= Len(search.entries) =>
                     \A id \in DOMAIN search.entries :
                       /\ search'.entries[id].key = search.entries[id].key
                       /\ search'.entries[id].value = search.entries[id].value
                       /\ search.entries[id].isDeleted => search'.entries[id].isDeleted
<1>1. SearchInv /\ [Next]_vars => [Step]_vars
  <2> SUFFICES ASSUME SearchInv, Next, pc = "ready", pc' = "ready"
               PROVE  SameIds(search, search')
    <3>1. DOMAIN search.entries = 1 .. Len(search.entries)
      BY LenProperties DEF SearchInv, TypeOK
    <3> QED
      BY <3>1 DEF SameIds
  <2>1. Matches(search, index) /\ search \in Searches /\ Consistent(search)
    BY DEF SearchInv, Phase, Consistent
  <2>2. Len(search.entries) \in Nat
    BY <2>1, LenProperties DEF Searches
  <2>3. \A k \in Key : search.keyToEntry[k] \in 0 .. Len(search.entries)
    BY <2>1, MatchesInRange
  <2>4. CASE search' = search
    BY <2>4 DEF SameIds
  <2>5. ASSUME NEW k \in Key, NEW v \in Value, Put(k, v)
        PROVE  SameIds(search, search')
    <3> DEFINE n == Tombstoned(search, k)
               e == NewEntry(k, v, Words[v])
    <3>1. Marked(search, n, k)
      BY <2>1, <2>3, TombstonedIs
    <3>2. search' = Entered(n, k, v, Words[v])
      BY <2>5 DEF Put, Inserted
    <3> HIDE DEF n
    <3>3. Kept(search, n)
      BY <3>1 DEF Marked
    <3>4. Enters(n, search', e)
      <4>1. Words[v] \in Seq(Token) /\ n \in Searches
        BY <3>3, WordsType DEF Kept
      <4> QED
        BY <3>2, <4>1, EnteredIs
    <3>5. \A id \in 1 .. Len(search.entries) : search'.entries[id] = n.entries[id]
      BY <3>3, <3>4 DEF Kept, Enters, Extended
    <3> SUFFICES ASSUME NEW id \in 1 .. Len(search.entries)
                 PROVE  /\ search'.entries[id].key = search.entries[id].key
                        /\ search'.entries[id].value = search.entries[id].value
                        /\ search.entries[id].isDeleted => search'.entries[id].isDeleted
      BY DEF SameIds
    <3>6. n.entries[id].key = search.entries[id].key /\ n.entries[id].value = search.entries[id].value
      BY <3>3 DEF Kept
    <3>7. search.entries[id].isDeleted => n.entries[id].isDeleted
      BY <3>1, Zenon DEF Marked
    <3> QED
      BY <3>5, <3>6, <3>7, Zenon
  <2>6. ASSUME NEW k \in Key, Del(k)
        PROVE  SameIds(search, search')
    <3> DEFINE n == Forgotten(search, k)
               map == [index EXCEPT ![k] = {}]
    <3>1. Marked(search, n, k)
      BY <2>1, <2>3, ForgottenIs
    <3>2. search' \in {n, Compacted(n)}
      BY <2>6 DEF Del
    <3>3. Matches(n, map)
      <4>1. Stores(index, map, k, {})
        BY ChangedContents DEF SearchInv, TypeOK
      <4> HIDE DEF map
      <4> QED
        BY <2>1, <2>3, <4>1, ForgottenMatches
    <3> HIDE DEF n, map
    <3>4. Kept(search, n) /\ n \in Searches
      BY <3>1 DEF Marked, Kept
    <3>5. \A id \in 1 .. Len(search.entries) : search.entries[id].isDeleted => n.entries[id].isDeleted
      BY <3>1, Zenon DEF Marked
    <3>6. SameIds(search, n)
      BY <3>4, <3>5 DEF SameIds, Kept
    <3>7. SameIds(search, Compacted(n))
      BY <2>1, <3>3, <3>4, <3>5, CompactedSameIds
    <3> QED
      BY <3>2, <3>6, <3>7
  <2>7. CASE Compact
    <3>1. search' = Compacted(search)
      BY <2>7 DEF Compact
    <3>2. Kept(search, search)
      BY <2>1 DEF Kept
    <3> QED
      BY <2>1, <3>1, <3>2, CompactedSameIds
  <2>8. ~Start /\ ~Reset /\ ~Ready /\ ~Kill
        /\ \A k \in Key : ~ReplayDel(k) /\ ~Rebuild(k) /\ \A v \in Value : ~ReplayPut(k, v)
    BY DEF Start, Reset, Ready, Kill, ReplayDel, Rebuild, ReplayPut
  <2>9. ASSUME NEW k \in Key, DelMissing(k)
        PROVE  search' = search
    BY <2>9 DEF DelMissing
  <2>10. ASSUME NEW q \in Queries, Query(q)
         PROVE  search' = search
    BY <2>10 DEF Query
  <2> QED
    BY <2>4, <2>5, <2>6, <2>7, <2>8, <2>9, <2>10 DEF Next
<1>2. Spec => [][Step]_vars
  BY <1>1, SearchInvariant, PTL DEF Spec
<1> QED
  BY <1>2 DEF IdsKeepTheirMeaning

-----------------------------------------------------------------------------
(* Queries: what the index answers is what is stored. *)

(* The list that the query engine finds for a term, which may be no token at all. *)
LEMMA PostingsForListed ==
  ASSUME NEW s, Consistent(s), NEW t
  PROVE  /\ PostingsFor(s, t) \in Seq(Posting)
         /\ Listed(PostingsFor(s, t), s.entries, t)
<1>1. s.entries \in Seq(Entry) /\ s.postings \in [Token -> Seq(Posting)]
  BY DEF Consistent, Searches
<1>2. CASE t \in Token
  BY <1>1, <1>2 DEF Consistent, PostingsFor
<1>3. CASE t \notin Token
  <2>1. PostingsFor(s, t) = <<>>
    BY <1>3 DEF PostingsFor
  <2>2. ASSUME NEW id \in 1 .. Len(s.entries)
        PROVE  Frequency(s.entries[id].tokens, t) = 0
    <3>1. s.entries[id] \in Entry
      BY <1>1, ElementOfSeq
    <3>2. s.entries[id].tokens \in Seq(Token)
      BY <3>1 DEF Entry
    <3> DEFINE tokens == s.entries[id].tokens
    <3> HIDE DEF tokens
    <3>3. tokens \in Seq(Token)
      BY <3>2 DEF tokens
    <3>4. t \notin Range(tokens)
      <4>1. \A i \in DOMAIN tokens : tokens[i] \in Token
        BY <3>3, ElementOfSeq, LenProperties
      <4> QED
        BY <1>3, <4>1 DEF Range
    <3>5. Frequency(tokens, t) = 0
      BY <3>3, <3>4, FrequencyCounts
    <3> QED
      BY <3>5 DEF tokens
  <2>3. <<>> \in Seq(Posting) /\ Len(<<>>) = 0
    OBVIOUS
  <2> QED
    BY <2>1, <2>2, <2>3 DEF Listed
<1> QED
  BY <1>2, <1>3

(* Ids go up along a list, so none of them comes later than its number says. *)
LEMMA ListedShort ==
  ASSUME NEW list \in Seq(Posting), NEW entries \in Seq(Entry), NEW t, Listed(list, entries, t)
  PROVE  \A n \in 1 .. Len(list) : n \in 1 .. Len(entries)
<1>0. Len(list) \in Nat /\ Len(entries) \in Nat
  BY LenProperties
<1> DEFINE l == Len(list)
           T == {n \in 0 .. l : n = 0 \/ n <= list[n].entryId}
<1>1. 0 \in T
  BY <1>0
<1>2. ASSUME NEW n \in 1 .. l, n - 1 \in T
      PROVE  n \in T
  <2>1. list[n].entryId \in 1 .. Len(entries)
    BY DEF Listed
  <2>2. CASE n = 1
    BY <1>0, <2>1, <2>2
  <2>3. CASE n # 1
    <3>1. n - 1 \in 1 .. l /\ n - 1 < n
      BY <1>0, <2>3
    <3>2. list[n - 1].entryId < list[n].entryId /\ list[n - 1].entryId \in 1 .. Len(entries)
      BY <3>1 DEF Listed
    <3>3. n - 1 <= list[n - 1].entryId
      BY <1>2, <3>1
    <3> DEFINE a == list[n - 1].entryId
               b == list[n].entryId
    <3>4. a \in Nat /\ b \in Nat /\ a < b /\ n - 1 <= a
      BY <1>0, <2>1, <3>2, <3>3
    <3>5. n <= b
      <4> HIDE DEF a, b
      <4> QED
        BY <1>0, <3>4
    <3> QED
      BY <1>0, <3>5
  <2> QED
    BY <2>2, <2>3
<1>3. 0 .. l \subseteq T
  <2> HIDE DEF T
  <2> QED
    BY <1>0, <1>1, <1>2, CountedInduction
<1> SUFFICES ASSUME NEW n \in 1 .. l
             PROVE  n \in 1 .. Len(entries)
  OBVIOUS
<1>4. n <= list[n].entryId /\ list[n].entryId \in 1 .. Len(entries)
  BY <1>0, <1>3 DEF Listed
<1> QED
  BY <1>0, <1>4

(* Where the terms of a query occur among the tokens of a value. *)
Places(terms, tokens) ==
  {hit \in (DOMAIN terms) \X (DOMAIN tokens) : terms[hit[1]] = tokens[hit[2]]}

(* A query for terms can ask about an entry. *)
Askable(s, q, id) ==
  /\ Consistent(s)
  /\ q.terms \in Seq(Text)
  /\ id \in 1 .. Len(s.entries)

(* What is known of a hit <<i, n>>. *)
LEMMA HitIs ==
  ASSUME NEW s, NEW q, NEW id, Askable(s, q, id), NEW hit \in Hits(s, q, id)
  PROVE  LET t == q.terms[hit[1]]
         IN  /\ hit[1] \in 1 .. Len(q.terms)
             /\ hit[2] \in 1 .. Len(PostingsFor(s, t))
             /\ hit = <<hit[1], hit[2]>>
             /\ PostingsFor(s, t)[hit[2]].entryId = id
             /\ HitPosting(s, q, hit) = PostingsFor(s, t)[hit[2]]
             /\ HitPosting(s, q, hit).frequency = Frequency(s.entries[id].tokens, t)
             /\ Frequency(s.entries[id].tokens, t) # 0
<1> DEFINE t == q.terms[hit[1]]
           list == PostingsFor(s, t)
<1>1. DOMAIN q.terms = 1 .. Len(q.terms) /\ Len(q.terms) \in Nat
  BY LenProperties DEF Askable
<1>2. s.entries \in Seq(Entry) /\ Len(s.entries) \in Nat
  BY LenProperties DEF Askable, Consistent, Searches
<1>3. /\ hit \in (DOMAIN q.terms) \X (1 .. Len(s.entries))
      /\ hit[2] <= Len(list) /\ HitPosting(s, q, hit) = list[hit[2]]
      /\ HitPosting(s, q, hit).entryId = id
  BY DEF Hits, DocumentFrequency, HitPosting
<1>4. list \in Seq(Posting) /\ Listed(list, s.entries, t)
  BY PostingsForListed DEF Askable
<1>5. hit[1] \in 1 .. Len(q.terms) /\ hit[2] \in 1 .. Len(s.entries) /\ hit = <<hit[1], hit[2]>>
  <2> DEFINE A == DOMAIN q.terms
             B == 1 .. Len(s.entries)
  <2>1. hit \in A \X B
    BY <1>3
  <2>2. hit[1] \in A /\ hit[2] \in B /\ hit = <<hit[1], hit[2]>>
    <3> HIDE DEF A, B
    <3> QED
      BY <2>1
  <2> QED
    BY <1>1, <2>2
<1>6. Len(list) \in Nat
  BY <1>4, LenProperties
<1>7. hit[2] \in 1 .. Len(list)
  <2> DEFINE n == hit[2]
             l == Len(list)
             m == Len(s.entries)
  <2>1. n \in 1 .. m /\ n <= l /\ l \in Nat /\ m \in Nat
    BY <1>2, <1>3, <1>5, <1>6
  <2>2. n \in 1 .. l
    <3> HIDE DEF n, l, m
    <3> QED
      BY <2>1
  <2> QED
    BY <2>2
<1>8. /\ list[hit[2]].frequency = Frequency(s.entries[list[hit[2]].entryId].tokens, t)
      /\ Frequency(s.entries[list[hit[2]].entryId].tokens, t) # 0
  BY <1>4, <1>7 DEF Listed
<1> HIDE DEF list, t
<1>9. /\ hit[2] \in 1 .. Len(list) /\ list[hit[2]].entryId = id
      /\ list[hit[2]].frequency = Frequency(s.entries[id].tokens, t)
      /\ Frequency(s.entries[id].tokens, t) # 0
  BY <1>3, <1>7, <1>8
<1> QED
  BY <1>3, <1>5, <1>9 DEF list, t

(* Where there is an occurrence there is a hit. *)
LEMMA PlaceIsHit ==
  ASSUME NEW s, NEW q, NEW id, Askable(s, q, id), NEW i \in 1 .. Len(q.terms),
         Frequency(s.entries[id].tokens, q.terms[i]) # 0
  PROVE  \E n : <<i, n>> \in Hits(s, q, id)
<1> DEFINE t == q.terms[i]
           list == PostingsFor(s, t)
<1>1. DOMAIN q.terms = 1 .. Len(q.terms)
  BY LenProperties DEF Askable
<1>2. s.entries \in Seq(Entry)
  BY DEF Askable, Consistent, Searches
<1>3. list \in Seq(Posting) /\ Listed(list, s.entries, t)
  BY PostingsForListed DEF Askable
<1>4. PICK n \in 1 .. Len(list) : list[n].entryId = id
  BY <1>3 DEF Listed, Askable
<1>5. n \in 1 .. Len(s.entries)
  BY <1>2, <1>3, ListedShort
<1>6. n <= Len(list)
  BY <1>3, LenProperties
<1> DEFINE hit == <<i, n>>
<1>7. hit[1] = i /\ hit[2] = n /\ hit \in (DOMAIN q.terms) \X (1 .. Len(s.entries))
  BY <1>1, <1>5
<1> HIDE DEF hit
<1>8. hit \in Hits(s, q, id)
  BY <1>4, <1>6, <1>7 DEF Hits, DocumentFrequency, HitPosting
<1> QED
  BY <1>8 DEF hit

(* A term has at most one hit in an entry. *)
LEMMA HitsApart ==
  ASSUME NEW s, NEW q, NEW id, Askable(s, q, id),
         NEW a \in Hits(s, q, id), NEW b \in Hits(s, q, id), a[1] = b[1]
  PROVE  a = b
<1> DEFINE t == q.terms[a[1]]
           list == PostingsFor(s, t)
<1>1. /\ a[2] \in 1 .. Len(list) /\ list[a[2]].entryId = id /\ a = <<a[1], a[2]>>
      /\ b[2] \in 1 .. Len(list) /\ list[b[2]].entryId = id /\ b = <<b[1], b[2]>>
  BY HitIs
<1>2. list \in Seq(Posting) /\ Listed(list, s.entries, t)
  BY PostingsForListed DEF Askable
<1>3. Len(list) \in Nat /\ id \in Nat
  <2>1. Len(s.entries) \in Nat
    BY LenProperties DEF Askable, Consistent, Searches
  <2> QED
    BY <1>2, <2>1, LenProperties DEF Askable
<1> DEFINE l == Len(list)
           m == a[2]
           n == b[2]
<1>4. \A i, j \in 1 .. l : i < j => list[i].entryId < list[j].entryId
  BY <1>2 DEF Listed
<1>5. m \in 1 .. l /\ n \in 1 .. l /\ l \in Nat /\ list[m].entryId = id /\ list[n].entryId = id
  BY <1>1, <1>3
<1>6. m = n
  <2> HIDE DEF m, n, l, list
  <2>1. ~(m < n) /\ ~(n < m)
    BY <1>3, <1>4, <1>5
  <2> QED
    BY <1>5, <2>1
<1> QED
  BY <1>1, <1>6

LEMMA HitsFinite ==
  ASSUME NEW s, NEW q, NEW id, Askable(s, q, id)
  PROVE  IsFiniteSet(Hits(s, q, id))
<1> DEFINE A == DOMAIN q.terms
           B == 1 .. Len(s.entries)
<1>1. IsFiniteSet(A) /\ IsFiniteSet(B)
  <2>1. A = 1 .. Len(q.terms) /\ Len(q.terms) \in Int /\ 1 \in Int
    BY LenProperties DEF Askable
  <2>2. Len(s.entries) \in Int
    BY LenProperties DEF Askable, Consistent, Searches
  <2> QED
    BY <2>1, <2>2, FS_Interval
<1>2. IsFiniteSet(A \X B)
  <2> HIDE DEF A, B
  <2> QED
    BY <1>1, FS_Product
<1>3. Hits(s, q, id) \in SUBSET (A \X B)
  BY DEF Hits
<1> HIDE DEF A, B
<1> QED
  BY <1>2, <1>3, FS_Subset

(* The places of one term: as many as its frequency. *)
LEMMA PlacesOfTerm ==
  ASSUME NEW S, NEW tokens \in Seq(S), NEW t, NEW i
  PROVE  LET p == {<<i, j>> : j \in {k \in DOMAIN tokens : tokens[k] = t}}
         IN  IsFiniteSet(p) /\ Cardinality(p) = Frequency(tokens, t)
<1> DEFINE J == {k \in DOMAIN tokens : tokens[k] = t}
           p == {<<i, j>> : j \in J}
           f == [j \in J |-> <<i, j>>]
<1>1. IsFiniteSet(J) /\ Cardinality(J) = Frequency(tokens, t)
  <2>1. DOMAIN tokens = 1 .. Len(tokens) /\ Len(tokens) \in Int /\ 1 \in Int
    BY LenProperties
  <2>2. IsFiniteSet(DOMAIN tokens)
    BY <2>1, FS_Interval
  <2> QED
    BY <2>2, FS_Subset DEF Frequency
<1>2. f \in Bijection(J, p)
  <2> HIDE DEF J
  <2>1. f \in [J -> p] /\ \A a, b \in J : f[a] = f[b] => a = b
    OBVIOUS
  <2>2. \A y \in p : \E x \in J : f[x] = y
    OBVIOUS
  <2> HIDE DEF f, p
  <2> QED
    BY <2>1, <2>2 DEF Bijection, Injection, Surjection, IsInjective
<1>3. ExistsBijection(J, p)
  BY <1>2 DEF ExistsBijection
<1> HIDE DEF J, p, f
<1>4. IsFiniteSet(p) /\ Cardinality(p) = Frequency(tokens, t)
  BY <1>1, <1>3, FS_Bijection
<1> QED
  BY <1>4 DEF p, J

(***************************************************************************)
(* The frequencies in the postings of an entry add up to the number of     *)
(* places where the terms of the query occur in it.                        *)
(***************************************************************************)
LEMMA RelevanceCounts ==
  ASSUME NEW s, NEW q, NEW id, Askable(s, q, id)
  PROVE  LET places == Places(q.terms, s.entries[id].tokens)
         IN  /\ TermFrequencyScore(s, q, id) = Cardinality(places)
             /\ IsFiniteSet(places)
             /\ Hits(s, q, id) # {} <=> places # {}
<1> DEFINE tokens == s.entries[id].tokens
           H == Hits(s, q, id)
           P == [hit \in H |-> {<<hit[1], j>> : j \in {k \in DOMAIN tokens : tokens[k] = q.terms[hit[1]]}}]
           f == [hit \in H |-> HitPosting(s, q, hit).frequency]
<1>1. tokens \in Seq(Token)
  <2>1. s.entries \in Seq(Entry)
    BY DEF Askable, Consistent, Searches
  <2>2. s.entries[id] \in Entry
    BY <2>1, ElementOfSeq DEF Askable
  <2> QED
    BY <2>2 DEF Entry
<1>2. DOMAIN q.terms = 1 .. Len(q.terms)
  BY LenProperties DEF Askable
<1>3. TermFrequencyScore(s, q, id) = SumFunction(f)
  BY DEF TermFrequencyScore
<1>4. IsFiniteSet(H)
  BY HitsFinite
<1>5. ASSUME NEW hit \in H
      PROVE  /\ hit[1] \in DOMAIN q.terms
             /\ f[hit] = Frequency(tokens, q.terms[hit[1]])
             /\ f[hit] \in Nat
             /\ f[hit] # 0
  <2>1. /\ hit[1] \in 1 .. Len(q.terms)
        /\ HitPosting(s, q, hit).frequency = Frequency(tokens, q.terms[hit[1]])
        /\ Frequency(tokens, q.terms[hit[1]]) # 0
    BY HitIs
  <2>2. Frequency(tokens, q.terms[hit[1]]) \in Nat
    BY <1>1, FrequencyCounts
  <2> QED
    BY <1>2, <2>1, <2>2
<1>6. f \in [H -> Nat]
  BY <1>5
<1> HIDE DEF tokens, H
<1>7. ASSUME NEW x \in H
      PROVE  IsFiniteSet(P[x]) /\ Cardinality(P[x]) = f[x]
  <2> DEFINE t == q.terms[x[1]]
             i == x[1]
             p == {<<i, j>> : j \in {k \in DOMAIN tokens : tokens[k] = t}}
  <2>1. P[x] = p /\ f[x] = Frequency(tokens, t)
    BY <1>5
  <2>2. IsFiniteSet(p) /\ Cardinality(p) = Frequency(tokens, t)
    <3> HIDE DEF t, i
    <3> QED
      BY <1>1, PlacesOfTerm
  <2> QED
    BY <2>1, <2>2
<1>8. ASSUME NEW x \in H, NEW y \in H, x # y
      PROVE  P[x] \cap P[y] = {}
  <2>1. x[1] # y[1]
    BY <1>8, HitsApart DEF H
  <2>2. \A z \in P[x] : z[1] = x[1]
    OBVIOUS
  <2>3. \A z \in P[y] : z[1] = y[1]
    OBVIOUS
  <2> HIDE DEF P
  <2> QED
    BY <2>1, <2>2, <2>3
<1>9. Apart(P, H, f)
  BY <1>7, <1>8 DEF Apart
<1>10. Owned(P, H) = Places(q.terms, tokens)
  <2>1. ASSUME NEW z \in Owned(P, H)
        PROVE  z \in Places(q.terms, tokens)
    <3>1. PICK hit \in H : z \in P[hit]
      BY <2>1 DEF Owned
    <3>2. PICK j \in DOMAIN tokens : tokens[j] = q.terms[hit[1]] /\ z = <<hit[1], j>>
      BY <3>1
    <3>3. hit[1] \in DOMAIN q.terms
      BY <1>5
    <3> HIDE DEF P, f
    <3> QED
      BY <3>2, <3>3 DEF Places
  <2>2. ASSUME NEW z \in Places(q.terms, tokens)
        PROVE  z \in Owned(P, H)
    <3>1. PICK i \in DOMAIN q.terms, j \in DOMAIN tokens : z = <<i, j>> /\ q.terms[i] = tokens[j]
      BY DEF Places
    <3>2. Frequency(tokens, q.terms[i]) # 0
      <4>1. q.terms[i] \in Range(tokens)
        BY <3>1 DEF Range
      <4> QED
        BY <1>1, <4>1, FrequencyCounts
    <3>3. PICK n : <<i, n>> \in H
      BY <1>2, <3>2, PlaceIsHit DEF H, tokens
    <3> DEFINE hit == <<i, n>>
    <3>4. hit \in H /\ hit[1] = i
      BY <3>3
    <3> HIDE DEF hit
    <3>5. z \in P[hit]
      BY <3>1, <3>4
    <3> HIDE DEF P
    <3> QED
      BY <3>4, <3>5 DEF Owned
  <2> QED
    BY <2>1, <2>2
<1>11. H # {} <=> Places(q.terms, tokens) # {}
  <2>1. ASSUME NEW hit \in H
        PROVE  Places(q.terms, tokens) # {}
    <3>1. q.terms[hit[1]] \in Range(tokens)
      <4>1. Frequency(tokens, q.terms[hit[1]]) # 0
        BY <1>5
      <4> QED
        BY <1>1, <4>1, FrequencyCounts
    <3>2. PICK j \in DOMAIN tokens : tokens[j] = q.terms[hit[1]]
      BY <3>1 DEF Range
    <3>3. hit[1] \in DOMAIN q.terms
      BY <1>5
    <3>4. <<hit[1], j>> \in Places(q.terms, tokens)
      BY <3>2, <3>3 DEF Places
    <3> QED
      BY <3>4
  <2>2. ASSUME Places(q.terms, tokens) # {}
        PROVE  H # {}
    <3>1. Owned(P, H) # {}
      BY <1>10, <2>2
    <3> HIDE DEF P
    <3> QED
      BY <3>1 DEF Owned
  <2> QED
    BY <2>1, <2>2
<1>12. IsFiniteSet(Owned(P, H)) /\ SumFunction(f) = Cardinality(Owned(P, H))
  <2> HIDE DEF P, f
  <2> QED
    BY <1>4, <1>6, <1>9, SumOfSizes
<1> QED
  BY <1>3, <1>10, <1>11, <1>12 DEF tokens, H

(***************************************************************************)
(* What the proof needs of BM25: a document that has a term gets a score.  *)
(* compute_idf() takes the logarithm of a number above 1, and the rest of  *)
(* compute_bm25() is a quotient of positive numbers (query_engine.cpp:8,   *)
(* 20-36).                                                                 *)
(***************************************************************************)
Bm25Positive ==
  \A frequency, length, total, docs, df \in Nat \ {0} : \A rarity \in Nat :
    Bm25(frequency, length, total, docs, rarity, df) \in Nat \ {0}

(* The total is that of at least one entry. *)
LEMMA TotalPositive ==
  ASSUME NEW s, Consistent(s), NEW id \in 1 .. Len(s.entries), Len(s.entries[id].tokens) \in Nat \ {0}
  PROVE  s.totalTokens \in Nat \ {0}
<1> DEFINE l == Len(s.entries)
           total == TokensUpTo(s.entries)
           size == Len(s.entries[id].tokens)
           T == {n \in 0 .. l : n < id \/ total[n] # 0}
<1>1. s.entries \in Seq(Entry) /\ l \in Nat
  BY LenProperties DEF Consistent, Searches
<1>2. /\ total[0] = 0
      /\ \A n \in 1 .. l : total[n] = total[n - 1] + Len(s.entries[n].tokens)
      /\ \A n \in 0 .. l : total[n] \in Nat
  BY <1>1, TokensUpToIs
<1>3. \A n \in 1 .. l : Len(s.entries[n].tokens) \in Nat
  <2> SUFFICES ASSUME NEW n \in 1 .. l
               PROVE  Len(s.entries[n].tokens) \in Nat
    OBVIOUS
  <2>1. s.entries[n] \in Entry
    BY <1>1, ElementOfSeq
  <2>2. s.entries[n].tokens \in Seq(Token)
    BY <2>1 DEF Entry
  <2> QED
    BY <2>2, LenProperties
<1>4. s.totalTokens = total[l]
  BY DEF Consistent
<1>5. 0 \in T
  BY <1>1
<1>6. ASSUME NEW n \in 1 .. l, n - 1 \in T
      PROVE  n \in T
  <2>1. total[n] = total[n - 1] + Len(s.entries[n].tokens) /\ total[n - 1] \in Nat
    BY <1>1, <1>2
  <2> HIDE DEF total
  <2>2. CASE n < id
    BY <2>2
  <2>3. CASE n = id
    BY <1>3, <2>1, <2>3
  <2>4. CASE n > id
    <3>1. total[n - 1] # 0
      BY <1>1, <1>6, <2>4
    <3> DEFINE a == total[n - 1]
               b == Len(s.entries[n].tokens)
    <3>2. a \in Nat /\ a # 0 /\ b \in Nat /\ total[n] = a + b
      BY <1>3, <2>1, <3>1
    <3>3. a + b # 0
      <4> HIDE DEF a, b
      <4> QED
        BY <3>2
    <3> QED
      BY <3>2, <3>3
  <2> QED
    BY <1>1, <2>2, <2>3, <2>4
<1>7. 0 .. l \subseteq T
  <2> HIDE DEF T
  <2> QED
    BY <1>1, <1>5, <1>6, CountedInduction
<1>8. l \in 0 .. l /\ ~(l < id)
  BY <1>1
<1> HIDE DEF total
<1> QED
  BY <1>2, <1>4, <1>7, <1>8

LEMMA ScorePositive ==
  ASSUME Bm25Positive, NEW s, NEW q, NEW id, Askable(s, q, id), Hits(s, q, id) # {},
         NEW docs \in Nat \ {0}
  PROVE  Bm25Score(s, q, docs, id) \in Nat \ {0}
<1> DEFINE H == Hits(s, q, id)
           Df(hit) == DocumentFrequency(s, q.terms[hit[1]])
           size == Len(s.entries[id].tokens)
           Score(hit) == Bm25(HitPosting(s, q, hit).frequency, size, s.totalTokens, docs,
                              Rarity(docs, Df(hit)), Df(hit))
           f == [hit \in H |-> Score(hit)]
<1>1. Bm25Score(s, q, docs, id) = SumFunction(f)
  BY DEF Bm25Score
<1>2. s.entries[id].tokens \in Seq(Token)
  <2>1. s.entries \in Seq(Entry)
    BY DEF Askable, Consistent, Searches
  <2>2. s.entries[id] \in Entry
    BY <2>1, ElementOfSeq DEF Askable
  <2> QED
    BY <2>2 DEF Entry
<1>3. ASSUME NEW hit \in H
      PROVE  /\ HitPosting(s, q, hit).frequency \in Nat \ {0}
             /\ Df(hit) \in Nat \ {0}
             /\ size \in Nat \ {0}
  <2> DEFINE t == q.terms[hit[1]]
             tokens == s.entries[id].tokens
  <2>1. /\ hit[2] \in 1 .. Len(PostingsFor(s, t))
        /\ HitPosting(s, q, hit).frequency = Frequency(tokens, t)
        /\ Frequency(tokens, t) # 0
    BY HitIs
  <2>2. Frequency(tokens, t) \in Nat /\ t \in Range(tokens)
    BY <1>2, <2>1, FrequencyCounts
  <2>3. Df(hit) \in Nat \ {0}
    <3>1. PostingsFor(s, t) \in Seq(Posting)
      BY PostingsForListed DEF Askable
    <3>2. Len(PostingsFor(s, t)) \in Nat
      BY <3>1, LenProperties
    <3> QED
      BY <2>1, <3>2 DEF DocumentFrequency
  <2>4. size \in Nat \ {0}
    <3>1. \E j : j \in DOMAIN tokens
      BY <2>2 DEF Range
    <3> QED
      BY <1>2, <3>1, LenProperties
  <2> QED
    BY <2>1, <2>2, <2>3, <2>4
<1>4. \A hit \in H : Rarity(docs, Df(hit)) \in Nat
  <2> SUFFICES ASSUME NEW hit \in H
               PROVE  Rarity(docs, Df(hit)) \in Nat
    OBVIOUS
  <2> DEFINE df == Df(hit)
  <2>1. df \in Nat
    BY <1>3
  <2> HIDE DEF df
  <2>2. Rarity(docs, df) \in Nat
    BY <2>1, SearchAssumption DEF Rarity
  <2> QED
    BY <2>2 DEF df
<1>5. s.totalTokens \in Nat \ {0}
  BY <1>3, TotalPositive DEF Askable
<1>6. \A hit \in H : Score(hit) \in Nat \ {0}
  <2> SUFFICES ASSUME NEW hit \in H
               PROVE  Score(hit) \in Nat \ {0}
    OBVIOUS
  <2> DEFINE a == HitPosting(s, q, hit).frequency
             b == Df(hit)
             c == Rarity(docs, b)
             d == s.totalTokens
  <2>1. a \in Nat \ {0} /\ b \in Nat \ {0} /\ size \in Nat \ {0} /\ c \in Nat /\ d \in Nat \ {0}
    BY <1>3, <1>4, <1>5
  <2> HIDE DEF a, b, c, d, size
  <2>2. Bm25(a, size, d, docs, c, b) \in Nat \ {0}
    BY <2>1 DEF Bm25Positive
  <2> QED
    BY <2>2 DEF a, b, c, d
<1>7. f \in [H -> Nat \ {0}]
  <2> HIDE DEF Score, H
  <2> QED
    BY <1>6
<1>8. IsFiniteSet(H)
  BY HitsFinite
<1>9. SumFunction(f) \in Nat \ {0}
  <2> HIDE DEF f, H
  <2> QED
    BY <1>7, <1>8, SumPositive DEF H
<1> QED
  BY <1>1, <1>9

(* A finite set of numbers has a greatest one. *)
LEMMA MaxIs ==
  ASSUME NEW S \in SUBSET Nat, IsFiniteSet(S), S # {}
  PROVE  Max(S) \in S /\ \A x \in S : Max(S) >= x
<1> DEFINE D == SUBSET S
           N == Cardinality(S)
           rank == [s \in D |-> Cardinality(s)]
           T == {s \in D : s # {} => \E x \in s : \A y \in s : x >= y}
<1>1. N \in Nat /\ rank \in [D -> 0 .. N]
  <2>1. N \in Nat
    BY FS_CardinalityType
  <2>2. ASSUME NEW s \in D
        PROVE  Cardinality(s) \in Nat /\ Cardinality(s) <= N
    BY FS_Subset, FS_CardinalityType
  <2> QED
    BY <2>1, <2>2
<1>2. ASSUME NEW s \in D, \A c \in D : rank[c] < rank[s] => c \in T
      PROVE  s \in T
  <2> SUFFICES ASSUME NEW x \in s
               PROVE  \E m \in s : \A y \in s : m >= y
    OBVIOUS
  <2> DEFINE c == s \ {x}
  <2>1. c \in D /\ rank[c] < rank[s]
    <3>1. IsFiniteSet(s) /\ Cardinality(s) \in Nat
      BY FS_Subset, FS_CardinalityType
    <3>2. Cardinality(c) = Cardinality(s) - 1
      BY <3>1, FS_RemoveElement
    <3> QED
      BY <3>1, <3>2
  <2>2. c \in T
    BY <1>2, <2>1
  <2>3. CASE c = {}
    <3>1. \A y \in s : y = x
      BY <2>3
    <3> QED
      BY <3>1
  <2>4. CASE c # {}
    <3>1. PICK m \in c : \A y \in c : m >= y
      BY <2>2, <2>4
    <3>2. m \in Nat /\ x \in Nat /\ m \in s /\ \A y \in s : y \in Nat /\ (y = x \/ m >= y)
      BY <3>1
    <3>3. CASE m >= x
      BY <3>2, <3>3
    <3>4. CASE ~(m >= x)
      BY <3>2, <3>4
    <3> QED
      BY <3>3, <3>4
  <2> QED
    BY <2>3, <2>4
<1>3. D \subseteq T
  <2> HIDE DEF D, N, rank, T
  <2> QED
    BY <1>1, <1>2, RankInduction
<1>4. \E x \in S : \A y \in S : x >= y
  BY <1>3
<1> QED
  BY <1>4 DEF Max

(* Percentages of the best are percentages, and the best has 100 of them. *)
LEMMA PercentageIs ==
  ASSUME NEW best \in Nat \ {0}
  PROVE  /\ \A score \in 0 .. best : Percentage(score, best) \in 0 .. 100
         /\ Percentage(best, best) = 100
<1>1. ASSUME NEW score \in 0 .. best
      PROVE  (200 * score + best) \div (2 * best) \in 0 .. 100
  OBVIOUS
<1>2. (200 * best + best) \div (2 * best) = 100
  OBVIOUS
<1> QED
  BY <1>1, <1>2 DEF Percentage

(* The tokens of an entry are those of its value. *)
TokensKept(s) ==
  \A id \in 1 .. Len(s.entries) : s.entries[id].tokens = Words[s.entries[id].value]

(* A query is asked between calls. *)
Serving(q) == SearchInv /\ TokensKept(search) /\ pc = "ready" /\ q \in Queries

Live == {id \in 1 .. Len(search.entries) : ~search.entries[id].isDeleted}

(* Both modules mean the same by the size of a set. *)
LEMMA SameCardinality == \A S : Searchable!Cardinality(S) = Cardinality(S)
BY DEF Searchable!Cardinality, Cardinality

LEMMA QueryIs ==
  ASSUME NEW q \in Queries
  PROVE  /\ q.terms \in Seq(Text)
         /\ \A f \in q.filters : f.field \in {"relevance", "similarity"} /\ f.value \in Nat
         /\ q.topK \in Nat
         /\ q.sortBy \in {"relevance", "similarity"}
<1> DEFINE F == [field : {"relevance", "similarity"}, op : STRING, value : Nat]
           S == Seq(Text)
<1>1. q \in [terms : S, filters : SUBSET F, topK : Nat, sortBy : {"relevance", "similarity"}]
  BY QueryAssumption
<1>2. q.terms \in S /\ q.filters \in SUBSET F /\ q.topK \in Nat /\ q.sortBy \in {"relevance", "similarity"}
  <2> HIDE DEF S, F
  <2> QED
    BY <1>1
<1>3. ASSUME NEW f \in q.filters
      PROVE  f.field \in {"relevance", "similarity"} /\ f.value \in Nat
  BY <1>2
<1> QED
  BY <1>2, <1>3

LEMMA LiveIs ==
  ASSUME NEW q, Serving(q), NEW id \in Live
  PROVE  /\ Askable(search, q, id)
         /\ search.entries[id].key \in Key
         /\ index[search.entries[id].key] = {search.entries[id].value}
         /\ search.keyToEntry[search.entries[id].key] = id
         /\ search.entries[id].tokens = Words[search.entries[id].value]
<1>1. Consistent(search) /\ Matches(search, index) /\ q.terms \in Seq(Text)
  BY QueryIs DEF Serving, SearchInv, Phase
<1>2. id \in 1 .. Len(search.entries) /\ ~search.entries[id].isDeleted
  BY DEF Live
<1>3. search.entries[id].key \in Key
  <2>1. search.entries \in Seq(Entry)
    BY <1>1 DEF Consistent, Searches
  <2>2. search.entries[id] \in Entry
    BY <1>2, <2>1, ElementOfSeq
  <2> QED
    BY <2>2 DEF Entry
<1>4. /\ search.keyToEntry[search.entries[id].key] = id
      /\ index[search.entries[id].key] = {search.entries[id].value}
  BY <1>1, <1>2, Zenon DEF Matches, EntriesStored
<1>5. search.entries[id].tokens = Words[search.entries[id].value]
  BY <1>2 DEF Serving, TokensKept
<1> QED
  BY <1>1, <1>2, <1>3, <1>4, <1>5 DEF Askable

(* The relevance that the index counts is the relevance of what is stored. *)
LEMMA RelevanceOf ==
  ASSUME NEW q, Serving(q), NEW id \in Live
  PROVE  LET k == search.entries[id].key
         IN  /\ Searchable!Relevance(q, k) = TermFrequencyScore(search, q, id)
             /\ Searchable!Relevance(q, k) \in Nat
             /\ k \in Searchable!Matching(q) <=> Hits(search, q, id) # {}
<1> DEFINE k == search.entries[id].key
           v == search.entries[id].value
           tokens == search.entries[id].tokens
           places == Places(q.terms, tokens)
<1>1. Askable(search, q, id) /\ k \in Key /\ index[k] = {v} /\ tokens = Words[v]
  BY LiveIs
<1>2. /\ TermFrequencyScore(search, q, id) = Cardinality(places)
      /\ IsFiniteSet(places)
      /\ Hits(search, q, id) # {} <=> places # {}
  BY <1>1, RelevanceCounts
<1>3. Searchable!Relevance(q, k) = Cardinality(places)
  <2> DEFINE Of(w) == {hit \in (DOMAIN q.terms) \X (DOMAIN Words[w]) : q.terms[hit[1]] = Words[w][hit[2]]}
  <2>1. (IF pc = "ready" THEN index ELSE Empty) = index
    BY DEF Serving
  <2>2. Searchable!Relevance(q, k) = Cardinality(UNION {Of(w) : w \in index[k]})
    BY <2>1, SameCardinality DEF Searchable!Relevance
  <2>3. UNION {Of(w) : w \in index[k]} = Of(v)
    <3> HIDE DEF Of, k, v
    <3> QED
      BY <1>1
  <2>4. Of(v) = places
    <3> HIDE DEF v, tokens
    <3> QED
      BY <1>1 DEF Places
  <2> QED
    BY <2>2, <2>3, <2>4
<1> HIDE DEF places
<1>4. Cardinality(places) \in Nat /\ (Cardinality(places) = 0 <=> places = {})
  BY <1>2, FS_CardinalityType, FS_EmptySet
<1>5. k \in Searchable!Matching(q) <=> Searchable!Relevance(q, k) > 0
  BY <1>1 DEF Searchable!Matching
<1> QED
  BY <1>2, <1>3, <1>4, <1>5

(* A key with a match has an entry, which is in use. *)
LEMMA MatchIsLive ==
  ASSUME NEW q, Serving(q), NEW k \in Searchable!Matching(q)
  PROVE  \E id \in Live : search.entries[id].key = k
<1>1. k \in Key /\ Searchable!Relevance(q, k) > 0
  BY DEF Searchable!Matching
<1>2. index[k] # {}
  <2> SUFFICES ASSUME index[k] = {}
               PROVE  FALSE
    OBVIOUS
  <2>1. (IF pc = "ready" THEN index ELSE Empty) = index
    BY DEF Serving
  <2>2. Searchable!Relevance(q, k) = Cardinality({})
    <3> DEFINE Of(w) == {hit \in (DOMAIN q.terms) \X (DOMAIN Words[w]) : q.terms[hit[1]] = Words[w][hit[2]]}
    <3>1. Searchable!Relevance(q, k) = Cardinality(UNION {Of(w) : w \in index[k]})
      BY <2>1, SameCardinality DEF Searchable!Relevance
    <3>2. UNION {Of(w) : w \in index[k]} = {}
      <4> HIDE DEF Of
      <4> QED
        OBVIOUS
    <3> QED
      BY <3>1, <3>2
  <2> QED
    BY <1>1, <2>2, FS_EmptySet
<1>3. Found(search, index, Key)
  BY DEF Serving, SearchInv, Phase, Matches
<1>4. /\ search.keyToEntry[k] \in 1 .. Len(search.entries)
      /\ search.entries[search.keyToEntry[k]].key = k
      /\ ~search.entries[search.keyToEntry[k]].isDeleted
  BY <1>1, <1>2, <1>3 DEF Found
<1> QED
  BY <1>4 DEF Live

LEMMA DocsPositive ==
  ASSUME NEW q, Serving(q), NEW id \in Live
  PROVE  TotalDocs(index) \in Nat \ {0}
<1> DEFINE K == {k \in Key : index[k] # {}}
           f == [k \in K |-> search.keyToEntry[k]]
           I == 1 .. Len(search.entries)
<1>1. Found(search, index, Key)
  BY DEF Serving, SearchInv, Phase, Matches
<1>2. \A k \in K : f[k] \in I /\ search.entries[f[k]].key = k
  BY <1>1 DEF Found
<1>3. f \in Injection(K, I)
  <2>1. f \in [K -> I] /\ DOMAIN f = K
    BY <1>2
  <2>2. \A a, b \in K : f[a] = f[b] => a = b
    BY <1>2
  <2> HIDE DEF f, K, I
  <2> QED
    BY <2>1, <2>2 DEF Injection, IsInjective
<1>4. IsFiniteSet(I)
  <2>1. Len(search.entries) \in Int /\ 1 \in Int
    BY LenProperties DEF Serving, SearchInv, Consistent, Searches
  <2> QED
    BY <2>1, FS_Interval
<1>5. search.entries[id].key \in K
  BY LiveIs
<1> HIDE DEF K, f, I
<1>6. IsFiniteSet(K)
  BY <1>3, <1>4, FS_Injection
<1>7. Cardinality(K) \in Nat /\ Cardinality(K) # 0
  BY <1>5, <1>6, FS_CardinalityType, FS_EmptySet
<1> QED
  BY <1>7 DEF TotalDocs, K

KeyOf(result) == search.entries[result.entryId].key

(***************************************************************************)
(* The results are the matches, each once, with the relevance that they    *)
(* have and a similarity from 0 to 100, which the best of them has.        *)
(***************************************************************************)
Answers(q, results) ==
  /\ IsFiniteSet(results)
  /\ \A r \in results :
       /\ KeyOf(r) \in Searchable!Matching(q)
       /\ r.relevance = Searchable!Relevance(q, KeyOf(r))
       /\ r.relevance \in Nat
       /\ r.similarity \in 0 .. 100
  /\ \A a, b \in results : KeyOf(a) = KeyOf(b) => a = b
  /\ \A k \in Searchable!Matching(q) : \E r \in results : KeyOf(r) = k
  /\ results # {} => \E r \in results : r.similarity = 100

LEMMA CandidatesAnswer ==
  ASSUME Bm25Positive, NEW q, Serving(q)
  PROVE  Answers(q, Candidates(search, q, TotalDocs(index)))
<1> DEFINE I == Touched(search, q)
           docs == TotalDocs(index)
           score == [id \in I |-> Bm25Score(search, q, docs, id)]
           scored == {<<id, Bm25Score(search, q, docs, id)>> : id \in I}
           scores == {d[2] : d \in scored}
           best == Max(scores)
           Result(d) == [entryId    |-> d[1],
                         relevance  |-> TermFrequencyScore(search, q, d[1]),
                         similarity |-> Percentage(d[2], best)]
           R(id) == Result(<<id, score[id]>>)
           results == {Result(d) : d \in scored}
<1>1. Candidates(search, q, docs) = results
  BY DEF Candidates
<1>2. Len(search.entries) \in Nat /\ DOMAIN search.entries = 1 .. Len(search.entries)
  BY LenProperties DEF Serving, SearchInv, Consistent, Searches
<1>3. \A id \in I : id \in Live /\ Hits(search, q, id) # {}
  BY <1>2 DEF Touched, Live
<1>4. \A id \in Live : Hits(search, q, id) # {} => id \in I
  BY <1>2 DEF Touched, Live
<1>5. IsFiniteSet(I)
  <2>1. IsFiniteSet(1 .. Len(search.entries))
    <3>1. 1 \in Int /\ Len(search.entries) \in Int
      BY <1>2
    <3> QED
      BY <3>1, FS_Interval
  <2>2. I \in SUBSET (1 .. Len(search.entries))
    BY <1>2 DEF Touched
  <2> QED
    BY <2>1, <2>2, FS_Subset
<1>6. \A id \in I : score[id] \in Nat \ {0}
  <2> SUFFICES ASSUME NEW id \in I
               PROVE  Bm25Score(search, q, docs, id) \in Nat \ {0}
    OBVIOUS
  <2>1. id \in Live /\ Hits(search, q, id) # {}
    BY <1>3
  <2>2. docs \in Nat \ {0} /\ Askable(search, q, id)
    BY <2>1, DocsPositive, LiveIs
  <2> QED
    BY <2>1, <2>2, ScorePositive
<1>7. scored = {<<id, score[id]>> : id \in I}
  OBVIOUS
<1>8. scores = {score[id] : id \in I}
  <2> DEFINE pair(id) == <<id, score[id]>>
  <2>1. \A id \in I : pair(id)[2] = score[id]
    OBVIOUS
  <2>2. scored = {pair(id) : id \in I}
    BY <1>7
  <2> HIDE DEF pair, I, scored, score
  <2> QED
    BY <2>1, <2>2
<1>9. results = {R(id) : id \in I}
  <2> HIDE DEF Result, I, scored, score
  <2> QED
    BY <1>7
<1> HIDE DEF scored
<1>10. \A id \in I : /\ R(id).entryId = id
                     /\ R(id).relevance = TermFrequencyScore(search, q, id)
                     /\ R(id).similarity = Percentage(score[id], best)
  <2> HIDE DEF I, score, best
  <2> QED
    OBVIOUS
<1> HIDE DEF Result
<1>11. ASSUME NEW id \in I
       PROVE  /\ KeyOf(R(id)) = search.entries[id].key
              /\ KeyOf(R(id)) \in Searchable!Matching(q)
              /\ R(id).relevance = Searchable!Relevance(q, KeyOf(R(id)))
              /\ R(id).relevance \in Nat
              /\ search.keyToEntry[KeyOf(R(id))] = id
  <2>1. KeyOf(R(id)) = search.entries[id].key
    BY <1>10 DEF KeyOf
  <2>2. id \in Live /\ Hits(search, q, id) # {}
    BY <1>3
  <2>3. search.keyToEntry[search.entries[id].key] = id
    BY <2>2, LiveIs
  <2> HIDE DEF I, R
  <2>4. /\ search.entries[id].key \in Searchable!Matching(q)
        /\ Searchable!Relevance(q, search.entries[id].key) = TermFrequencyScore(search, q, id)
        /\ Searchable!Relevance(q, search.entries[id].key) \in Nat
    BY <2>2, RelevanceOf
  <2> QED
    BY <1>10, <2>1, <2>3, <2>4
<1>12. CASE I = {}
  <2>1. results = {}
    BY <1>9, <1>12
  <2>2. Searchable!Matching(q) = {}
    <3> SUFFICES ASSUME NEW k \in Searchable!Matching(q)
                 PROVE  FALSE
      OBVIOUS
    <3>1. PICK id \in Live : search.entries[id].key = k
      BY MatchIsLive
    <3>2. Hits(search, q, id) # {}
      BY <3>1, RelevanceOf
    <3> QED
      BY <1>4, <1>12, <3>2
  <2> HIDE DEF results
  <2> QED
    BY <1>1, <2>1, <2>2, FS_EmptySet DEF Answers
<1>13. CASE I # {}
  <2>1. best \in scores /\ \A x \in scores : best >= x
    <3>1. scores # {} /\ scores \in SUBSET Nat
      BY <1>6, <1>8, <1>13
    <3>2. IsFiniteSet(scores)
      <4>1. score \in Surjection(I, scores)
        <5> HIDE DEF I
        <5>1. score \in [I -> scores]
          BY <1>8
        <5>2. \A x \in scores : \E id \in I : score[id] = x
          BY <1>8
        <5> HIDE DEF score, scores
        <5> QED
          BY <5>1, <5>2 DEF Surjection
      <4> HIDE DEF score, scores, I
      <4> QED
        BY <1>5, <4>1, FS_Surjection
    <3> HIDE DEF scores
    <3> QED
      BY <3>1, <3>2, MaxIs
  <2> HIDE DEF best
  <2>2. PICK top \in I : score[top] = best
    BY <1>8, <2>1
  <2>3. best \in Nat \ {0} /\ \A id \in I : score[id] \in 0 .. best
    <3>1. best \in Nat \ {0}
      BY <1>6, <2>2
    <3>2. \A id \in I : best >= score[id]
      BY <1>8, <2>1
    <3> HIDE DEF score, I
    <3> QED
      BY <1>6, <3>1, <3>2
  <2> HIDE DEF score, R, I
  <2>4. \A id \in I : R(id).similarity \in 0 .. 100
    BY <1>10, <2>3, PercentageIs
  <2>5. R(top).similarity = 100
    BY <1>10, <2>2, <2>3, PercentageIs
  <2>6. \A k \in Searchable!Matching(q) : \E r \in results : KeyOf(r) = k
    <3> SUFFICES ASSUME NEW k \in Searchable!Matching(q)
                 PROVE  \E id \in I : KeyOf(R(id)) = k
      BY <1>9
    <3>1. PICK id \in Live : search.entries[id].key = k
      BY MatchIsLive
    <3>2. Hits(search, q, id) # {}
      BY <3>1, RelevanceOf
    <3>3. id \in I
      BY <1>4, <3>2
    <3> QED
      BY <1>11, <3>1, <3>3
  <2>7. IsFiniteSet(results)
    <3> DEFINE f == [id \in I |-> R(id)]
    <3>1. f \in Surjection(I, results)
      <4>1. f \in [I -> results]
        BY <1>9
      <4>2. \A x \in results : \E id \in I : f[id] = x
        BY <1>9
      <4> HIDE DEF f, results
      <4> QED
        BY <4>1, <4>2 DEF Surjection
    <3> HIDE DEF f, results
    <3> QED
      BY <1>5, <3>1, FS_Surjection
  <2>8. ASSUME NEW r \in results
        PROVE  /\ KeyOf(r) \in Searchable!Matching(q)
               /\ r.relevance = Searchable!Relevance(q, KeyOf(r))
               /\ r.relevance \in Nat
               /\ r.similarity \in 0 .. 100
    <3>1. PICK id \in I : r = R(id)
      BY <1>9
    <3> QED
      BY <1>11, <2>4, <3>1
  <2>9. ASSUME NEW a \in results, NEW b \in results, KeyOf(a) = KeyOf(b)
        PROVE  a = b
    <3>1. PICK i \in I : a = R(i)
      BY <1>9
    <3>2. PICK j \in I : b = R(j)
      BY <1>9
    <3>3. search.keyToEntry[KeyOf(a)] = i /\ search.keyToEntry[KeyOf(b)] = j
      BY <1>11, <3>1, <3>2
    <3> QED
      BY <2>9, <3>1, <3>2, <3>3
  <2>10. \E r \in results : r.similarity = 100
    BY <1>9, <2>5
  <2> HIDE DEF results
  <2> QED
    BY <1>1, <2>6, <2>7, <2>8, <2>9, <2>10 DEF Answers
<1> QED
  BY <1>12, <1>13

(* The two modules agree on what a filter rejects and on the order of lines. *)
LEMMA LineIsResult ==
  ASSUME NEW q \in Queries, NEW r, r.relevance \in Nat, r.similarity \in Nat,
         NEW line, line.relevance = r.relevance, line.similarity = r.similarity
  PROVE  /\ Searchable!Passes(q, line) <=> \A f \in q.filters : ~Rejects(f, r)
         /\ Searchable!Rank(q, line) = SortKey(q, r)
         /\ SortKey(q, r) \in Nat
<1>1. ASSUME NEW f \in q.filters
      PROVE  Searchable!Compares(f.op, Searchable!Field(line, f.field), f.value) <=> ~Rejects(f, r)
  <2>1. f.field \in {"relevance", "similarity"} /\ f.value \in Nat
    BY QueryIs
  <2> DEFINE x == IF f.field = "relevance" THEN r.relevance ELSE r.similarity
             y == f.value
             op == f.op
  <2>2. x \in Nat /\ y \in Nat /\ Searchable!Field(line, f.field) = x
    BY <2>1 DEF Searchable!Field
  <2>3. Rejects(f, r) <=> \/ op = ">"  /\ x <= y
                          \/ op = ">=" /\ x < y
                          \/ op = "<"  /\ x >= y
                          \/ op = "<=" /\ x > y
                          \/ op = "="  /\ x # y
    BY <2>1 DEF Rejects
  <2> HIDE DEF x, y, op
  <2>4. Searchable!Compares(op, x, y) <=> ~(\/ op = ">"  /\ x <= y
                                            \/ op = ">=" /\ x < y
                                            \/ op = "<"  /\ x >= y
                                            \/ op = "<=" /\ x > y
                                            \/ op = "="  /\ x # y)
    BY <2>2 DEF Searchable!Compares
  <2> QED
    BY <2>2, <2>3, <2>4 DEF y, op
<1>2. Searchable!Passes(q, line) <=> \A f \in q.filters : ~Rejects(f, r)
  BY <1>1 DEF Searchable!Passes
<1>3. Searchable!Rank(q, line) = SortKey(q, r) /\ SortKey(q, r) \in Nat
  BY QueryIs DEF Searchable!Rank, Searchable!Field, SortKey
<1> QED
  BY <1>2, <1>3

(* What is known of a ranking. *)
RanksOf(q, results, ranking, n) ==
  /\ n \in Nat /\ n <= q.topK
  /\ ranking \in [1 .. n -> results]
  /\ \A i, j \in 1 .. n : i # j => ranking[i] # ranking[j]
  /\ \A i, j \in 1 .. n : i < j => SortKey(q, ranking[i]) >= SortKey(q, ranking[j])
  /\ \A r \in results : (\A i \in 1 .. n : ranking[i] # r) =>
       n = q.topK /\ \A i \in 1 .. n : SortKey(q, ranking[i]) >= SortKey(q, r)

LEMMA RankedIs ==
  ASSUME NEW q \in Queries, NEW results, IsFiniteSet(results), NEW ranking \in Ranked(q, results)
  PROVE  \E n : RanksOf(q, results, ranking, n)
<1> DEFINE c == Cardinality(results)
           n == Min({q.topK, c})
<1>1. c \in Nat /\ q.topK \in Nat
  BY FS_CardinalityType, QueryIs
<1>2. n \in Nat /\ n <= q.topK /\ (n = q.topK \/ n = c) /\ n <= c
  <2> DEFINE k == q.topK
  <2>1. k \in Nat /\ c \in Nat
    BY <1>1
  <2> HIDE DEF k, c
  <2>2. \E x \in {k, c} : \A y \in {k, c} : x =< y
    BY <2>1
  <2>3. Min({k, c}) \in {k, c} /\ \A y \in {k, c} : Min({k, c}) =< y
    BY <2>2 DEF Min
  <2> QED
    BY <2>1, <2>3 DEF k
<1>3. /\ ranking \in [1 .. n -> results]
      /\ IsInjective(ranking)
      /\ \A i, j \in 1 .. n : i < j => SortKey(q, ranking[i]) >= SortKey(q, ranking[j])
      /\ \A r \in results \ Range(ranking) :
           \A i \in 1 .. n : SortKey(q, ranking[i]) >= SortKey(q, r)
  BY DEF Ranked
<1> HIDE DEF n, c
<1>4. DOMAIN ranking = 1 .. n
  BY <1>3
<1>5. \A i, j \in 1 .. n : i # j => ranking[i] # ranking[j]
  BY <1>3, <1>4 DEF IsInjective
<1>6. ASSUME NEW r \in results, \A i \in 1 .. n : ranking[i] # r
      PROVE  n = q.topK /\ \A i \in 1 .. n : SortKey(q, ranking[i]) >= SortKey(q, r)
  <2>1. r \notin Range(ranking)
    BY <1>4, <1>6 DEF Range
  <2>2. n = q.topK
    <3> SUFFICES ASSUME n # q.topK
                 PROVE  FALSE
      OBVIOUS
    <3> DEFINE S == 1 .. n
               T == results \ {r}
    <3>1. n = c
      BY <1>2
    <3>2. IsFiniteSet(T) /\ Cardinality(T) = c - 1
      BY FS_RemoveElement DEF c
    <3>3. IsFiniteSet(S) /\ Cardinality(S) = n
      <4>1. 1 \in Int /\ n \in Int
        BY <1>2
      <4>2. IsFiniteSet(S) /\ Cardinality(S) = IF 1 > n THEN 0 ELSE n - 1 + 1
        BY <4>1, FS_Interval
      <4> HIDE DEF S
      <4> QED
        BY <1>2, <4>2
    <3>4. ranking \in [S -> T]
      BY <1>3, <1>6
    <3> HIDE DEF S, T
    <3>5. Cardinality(T) < Cardinality(S)
      BY <1>1, <3>1, <3>2, <3>3
    <3>6. \E x, y \in S : x # y /\ ranking[x] = ranking[y]
      BY <3>2, <3>3, <3>4, <3>5, FS_PigeonHole
    <3> QED
      BY <1>5, <3>6 DEF S
  <2> QED
    BY <1>3, <2>1, <2>2
<1>7. RanksOf(q, results, ranking, n)
  BY <1>2, <1>3, <1>5, <1>6 DEF RanksOf
<1> QED
  BY <1>7

LineOf(r) == [key |-> KeyOf(r), relevance |-> r.relevance, similarity |-> r.similarity]

(* What QUERY prints of such a ranking is what CognexSearchable permits. *)
LEMMA RankingPermitted ==
  ASSUME NEW q \in Queries, NEW results, Answers(q, results),
         NEW ranking \in Ranked(q, Filtered(q, results))
  PROVE  Searchable!Permitted(q, [i \in DOMAIN ranking |-> LineOf(ranking[i])])
<1> DEFINE passed == Filtered(q, results)
           lines == [i \in DOMAIN ranking |-> LineOf(ranking[i])]
           listed == {lines[i].key : i \in DOMAIN lines}
           Matching == Searchable!Matching(q)
<1>1. passed \subseteq results /\ IsFiniteSet(passed)
  BY FS_Subset DEF Filtered, Answers
<1>2. PICK n : RanksOf(q, passed, ranking, n)
  BY <1>1, RankedIs
<1>3. /\ n \in Nat /\ n <= q.topK /\ q.topK \in Nat
      /\ DOMAIN ranking = 1 .. n
      /\ \A i \in 1 .. n : ranking[i] \in passed /\ ranking[i] \in results
  BY <1>1, <1>2, QueryIs DEF RanksOf
<1>4. lines = [i \in 1 .. n |-> LineOf(ranking[i])]
  BY <1>3
<1>5. Len(lines) = n /\ DOMAIN lines = 1 .. n
  BY <1>3, <1>4
<1>6. ASSUME NEW r \in results
      PROVE  /\ LineOf(r).key = KeyOf(r) /\ LineOf(r).relevance = r.relevance
             /\ LineOf(r).similarity = r.similarity
             /\ KeyOf(r) \in Matching
             /\ r.relevance = Searchable!Relevance(q, KeyOf(r))
             /\ r.relevance \in Nat /\ r.similarity \in 0 .. 100 /\ r.similarity \in Nat
             /\ Searchable!Passes(q, LineOf(r)) <=> r \in passed
             /\ Searchable!Rank(q, LineOf(r)) = SortKey(q, r)
  <2>1. /\ LineOf(r).key = KeyOf(r) /\ LineOf(r).relevance = r.relevance
        /\ LineOf(r).similarity = r.similarity
    BY DEF LineOf
  <2>2. /\ KeyOf(r) \in Matching /\ r.relevance = Searchable!Relevance(q, KeyOf(r))
        /\ r.relevance \in Nat /\ r.similarity \in 0 .. 100
    BY DEF Answers
  <2>3. r.similarity \in Nat
    BY <2>2
  <2>4. /\ Searchable!Passes(q, LineOf(r)) <=> \A f \in q.filters : ~Rejects(f, r)
        /\ Searchable!Rank(q, LineOf(r)) = SortKey(q, r)
    BY <2>1, <2>2, <2>3, LineIsResult
  <2>5. r \in passed <=> \A f \in q.filters : ~Rejects(f, r)
    BY DEF Filtered
  <2> HIDE DEF passed
  <2> QED
    BY <2>1, <2>2, <2>3, <2>4, <2>5
<1>7. \A i \in 1 .. n : lines[i] = LineOf(ranking[i])
  BY <1>4
<1> HIDE DEF lines, passed
<1>8. \A i \in 1 .. n : lines[i].key = KeyOf(ranking[i])
  BY <1>3, <1>6, <1>7
<1>9. \A k : k \in listed <=> \E i \in 1 .. n : KeyOf(ranking[i]) = k
  BY <1>5, <1>8
<1>10. listed \subseteq Matching
  BY <1>3, <1>6, <1>9
<1>11. ASSUME NEW i \in 1 .. n, NEW j \in 1 .. n, i < j
       PROVE  lines[i].key # lines[j].key /\ Searchable!Rank(q, lines[i]) >= Searchable!Rank(q, lines[j])
  <2>1. ranking[i] # ranking[j] /\ SortKey(q, ranking[i]) >= SortKey(q, ranking[j])
    BY <1>2, <1>11 DEF RanksOf
  <2>2. KeyOf(ranking[i]) # KeyOf(ranking[j])
    BY <1>3, <2>1 DEF Answers
  <2> QED
    BY <1>3, <1>6, <1>7, <1>8, <2>1, <2>2
<1>12. ASSUME NEW i \in 1 .. n
       PROVE  /\ lines[i].relevance = Searchable!Relevance(q, lines[i].key)
              /\ lines[i].similarity \in 0 .. 100
              /\ Searchable!Passes(q, lines[i])
  <2> DEFINE r == ranking[i]
  <2>1. r \in results /\ r \in passed /\ lines[i] = LineOf(r)
    BY <1>3, <1>7
  <2> HIDE DEF r
  <2> QED
    BY <1>6, <2>1
<1>13. ASSUME NEW r \in results, KeyOf(r) \notin listed
       PROVE  Searchable!MayBeLeftOut(q, lines, KeyOf(r), r.similarity)
  <2> DEFINE line == [key |-> KeyOf(r), relevance |-> Searchable!Relevance(q, KeyOf(r)),
                      similarity |-> r.similarity]
  <2>1. line = LineOf(r)
    BY <1>6 DEF LineOf
  <2> HIDE DEF line
  <2>2. CASE r \notin passed
    <3>1. ~Searchable!Passes(q, line)
      BY <1>6, <2>1, <2>2
    <3> QED
      BY <3>1 DEF Searchable!MayBeLeftOut, line
  <2>3. CASE r \in passed
    <3>1. \A i \in 1 .. n : ranking[i] # r
      BY <1>9, <1>13
    <3>2. n = q.topK /\ \A i \in 1 .. n : SortKey(q, ranking[i]) >= SortKey(q, r)
      BY <1>2, <2>3, <3>1 DEF RanksOf
    <3>3. \A i \in 1 .. n : Searchable!Rank(q, lines[i]) >= Searchable!Rank(q, line)
      BY <1>3, <1>6, <1>7, <2>1, <3>2
    <3>4. Len(lines) = q.topK /\ \A i \in DOMAIN lines : Searchable!Rank(q, lines[i]) >= Searchable!Rank(q, line)
      BY <1>5, <3>2, <3>3
    <3> QED
      BY <3>4 DEF Searchable!MayBeLeftOut, line
  <2> QED
    BY <2>2, <2>3
<1>14. ASSUME NEW k \in Matching \ listed
       PROVE  \E m \in 0 .. 100 : Searchable!MayBeLeftOut(q, lines, k, m)
  <2>1. PICK r \in results : KeyOf(r) = k
    BY DEF Answers
  <2> QED
    BY <1>6, <1>13, <2>1
<1>15. ASSUME Matching # {}
       PROVE  \/ \E i \in 1 .. n : lines[i].similarity = 100
              \/ \E k \in Matching \ listed : Searchable!MayBeLeftOut(q, lines, k, 100)
  <2>1. results # {}
    BY <1>15 DEF Answers
  <2>2. PICK r \in results : r.similarity = 100
    BY <2>1 DEF Answers
  <2>3. CASE KeyOf(r) \in listed
    <3>1. PICK i \in 1 .. n : KeyOf(ranking[i]) = KeyOf(r)
      BY <1>9, <2>3
    <3>2. ranking[i] = r
      BY <1>3, <3>1 DEF Answers
    <3>3. lines[i].similarity = 100
      BY <1>6, <1>7, <2>2, <3>2
    <3> QED
      BY <3>3
  <2>4. CASE KeyOf(r) \notin listed
    BY <1>6, <1>13, <2>2, <2>4
  <2> QED
    BY <2>3, <2>4
<1> HIDE DEF Matching, listed
<1>16. Searchable!Permitted(q, lines)
  BY <1>3, <1>5, <1>10, <1>11, <1>12, <1>14, <1>15 DEF Searchable!Permitted, listed, Matching
<1> QED
  BY <1>16 DEF lines

(* Whatever is done to the structures, entries keep the tokens of their values. *)
LEMMA InsertedKeepsTokens ==
  ASSUME NEW s \in Searches, NEW k \in Key, NEW v \in Value, TokensKept(s)
  PROVE  TokensKept(Inserted(s, k, v))
<1> DEFINE n == Inserted(s, k, v)
           e == NewEntry(k, v, Words[v])
           l == Len(s.entries)
<1>1. Words[v] \in Seq(Token)
  BY WordsType
<1>2. Enters(s, n, e)
  BY <1>1, EnteredIs DEF Inserted
<1>3. e.tokens = Words[v] /\ e.value = v
  BY DEF NewEntry
<1> HIDE DEF n, e
<1>4. /\ l \in Nat /\ Len(n.entries) = l + 1
      /\ \A id \in 1 .. l : n.entries[id] = s.entries[id]
      /\ n.entries[l + 1] = e
  BY <1>2 DEF Enters, Extended
<1>5. ASSUME NEW id \in 1 .. Len(n.entries)
      PROVE  n.entries[id].tokens = Words[n.entries[id].value]
  <2>1. id \in 1 .. l \/ id = l + 1
    BY <1>4
  <2>2. CASE id \in 1 .. l
    BY <1>4, <2>2 DEF TokensKept
  <2>3. CASE id = l + 1
    BY <1>3, <1>4, <2>3
  <2> QED
    BY <2>1, <2>2, <2>3
<1>6. TokensKept(n)
  BY <1>5 DEF TokensKept
<1> QED
  BY <1>6 DEF n

LEMMA KeptKeepsTokens ==
  ASSUME NEW s, NEW n, Kept(s, n), TokensKept(s)
  PROVE  TokensKept(n)
BY DEF Kept, TokensKept

LEMMA CompactedKeepsTokens ==
  ASSUME NEW s \in Searches, TokensKept(s)
  PROVE  TokensKept(Compacted(s))
<1> DEFINE c == Compacting(s)
           l == Len(s.entries)
           T == {n \in 0 .. l : TokensKept(c[n])}
<1>1. s.entries \in Seq(Entry) /\ l \in Nat
  BY LenProperties DEF Searches
<1>2. /\ c[0] = EmptySearch
      /\ \A n \in 1 .. l :
           c[n] = IF s.entries[n].isDeleted THEN c[n - 1]
                  ELSE Entered(c[n - 1], s.entries[n].key, s.entries[n].value, s.entries[n].tokens)
      /\ \A n \in 0 .. l : Consistent(c[n])
  BY CompactingIs
<1>3. Compacted(s) = c[l]
  BY DEF Compacted
<1> HIDE DEF c
<1>4. 0 \in T
  <2>1. TokensKept(EmptySearch)
    BY EmptyConsistent DEF TokensKept
  <2> QED
    BY <1>1, <1>2, <2>1
<1>5. ASSUME NEW n \in 1 .. l, n - 1 \in T
      PROVE  n \in T
  <2>1. TokensKept(c[n - 1])
    BY <1>5
  <2>2. CASE s.entries[n].isDeleted
    <3>1. c[n] = c[n - 1]
      BY <1>2, <2>2
    <3> QED
      BY <1>1, <2>1, <3>1
  <2>3. CASE ~s.entries[n].isDeleted
    <3> DEFINE k == s.entries[n].key
               v == s.entries[n].value
    <3>1. c[n] = Entered(c[n - 1], k, v, s.entries[n].tokens)
      BY <1>2, <2>3
    <3>2. k \in Key /\ v \in Value
      <4>1. s.entries[n] \in Entry
        BY <1>1, ElementOfSeq
      <4> QED
        BY <4>1 DEF Entry
    <3>3. s.entries[n].tokens = Words[v]
      BY DEF TokensKept
    <3> HIDE DEF k, v
    <3>4. c[n] = Inserted(c[n - 1], k, v)
      BY <3>1, <3>3 DEF Inserted
    <3>5. c[n - 1] \in Searches
      <4>1. n - 1 \in 0 .. l
        BY <1>1
      <4> QED
        BY <1>2, <4>1 DEF Consistent
    <3>6. TokensKept(c[n])
      BY <2>1, <3>2, <3>4, <3>5, InsertedKeepsTokens
    <3> QED
      BY <1>1, <3>6
  <2> QED
    BY <2>2, <2>3
<1>6. 0 .. l \subseteq T
  <2> HIDE DEF T
  <2> QED
    BY <1>1, <1>4, <1>5, CountedInduction
<1> QED
  BY <1>1, <1>3, <1>6

(* Nothing has been answered before the process is ready. *)
AnswerInv == TokensKept(search) /\ (pc # "ready" => answer = NoAnswer)

LEMMA AnswerStep == SearchInv /\ AnswerInv /\ [Next]_vars => AnswerInv'
<1> SUFFICES ASSUME SearchInv, AnswerInv, [Next]_vars
             PROVE  TokensKept(search') /\ (pc' # "ready" => answer' = NoAnswer)
  BY DEF AnswerInv, TokensKept
<1>1. /\ search \in Searches /\ Consistent(search) /\ TokensKept(search)
      /\ pc # "ready" => answer = NoAnswer
      /\ Phase /\ index \in Contents
  BY DEF SearchInv, TypeOK, AnswerInv
<1>2. CASE UNCHANGED vars
  BY <1>1, <1>2 DEF vars
<1>3. CASE Start \/ Ready
  BY <1>1, <1>3 DEF Start, Ready
<1>4. ASSUME NEW k \in Key, NEW v \in Value, ReplayPut(k, v)
      PROVE  TokensKept(search') /\ (pc' # "ready" => answer' = NoAnswer)
  BY <1>1, <1>4, InsertedKeepsTokens DEF ReplayPut
<1>5. ASSUME NEW k \in Key, ReplayDel(k)
      PROVE  TokensKept(search') /\ (pc' # "ready" => answer' = NoAnswer)
  <2>1. /\ pc = "replay" /\ pc' = pc /\ search' = Forgotten(search, k) /\ answer' = answer
        /\ index' = [index EXCEPT ![k] = {}]
    BY <1>5 DEF ReplayDel
  <2>2. Stores(index, index', k, {})
    BY <1>1, <2>1, ChangedContents
  <2>3. Kept(search, search')
    <3>1. Leads(search, index)
      BY <1>1, <2>1 DEF Phase
    <3> QED
      BY <1>1, <2>1, <2>2, <3>1, ForgottenLeads
  <2> QED
    BY <1>1, <2>1, <2>3, KeptKeepsTokens
<1>6. CASE Reset
  <2>1. /\ pc = "replay" /\ pc' = "rebuild" /\ search' = Dropped(search) /\ answer' = answer
    BY <1>6 DEF Reset
  <2>2. Len(search'.entries) = 0
    BY <1>1, <2>1, DroppedIs
  <2> QED
    BY <1>1, <2>1, <2>2 DEF TokensKept
<1>7. ASSUME NEW k \in Key, Rebuild(k)
      PROVE  TokensKept(search') /\ (pc' # "ready" => answer' = NoAnswer)
  <2>1. PICK v \in index[k] : search' = Inserted(search, k, v)
    BY <1>7 DEF Rebuild
  <2>2. v \in Value
    <3>1. index[k] \in {{}} \cup {{w} : w \in Value}
      BY <1>1 DEF Contents
    <3> QED
      BY <3>1
  <2>3. TokensKept(search')
    BY <1>1, <2>1, <2>2, InsertedKeepsTokens
  <2> QED
    BY <1>1, <1>7, <2>3 DEF Rebuild
<1>8. ASSUME pc = "ready", NEW k \in Key
      PROVE  /\ search.keyToEntry[k] \in 0 .. Len(search.entries)
             /\ Kept(search, Tombstoned(search, k))
             /\ Kept(search, Forgotten(search, k))
  <2>1. search.keyToEntry[k] \in 0 .. Len(search.entries)
    BY <1>1, <1>8, MatchesInRange DEF Phase
  <2> QED
    BY <1>1, <2>1, TombstonedIs, ForgottenIs DEF Marked
<1>9. ASSUME NEW k \in Key, NEW v \in Value, Put(k, v)
      PROVE  TokensKept(search') /\ (pc' # "ready" => answer' = NoAnswer)
  <2> DEFINE n == Tombstoned(search, k)
  <2>1. pc = "ready" /\ search' = Inserted(n, k, v) /\ answer' = NoAnswer
    BY <1>9 DEF Put, Called
  <2>2. TokensKept(n) /\ n \in Searches
    BY <1>1, <1>8, <2>1, KeptKeepsTokens DEF Kept
  <2> HIDE DEF n
  <2> QED
    BY <2>1, <2>2, InsertedKeepsTokens
<1>10. ASSUME NEW k \in Key, DelMissing(k)
       PROVE  TokensKept(search') /\ (pc' # "ready" => answer' = NoAnswer)
  BY <1>1, <1>10 DEF DelMissing
<1>11. ASSUME NEW k \in Key, Del(k)
       PROVE  TokensKept(search') /\ (pc' # "ready" => answer' = NoAnswer)
  <2> DEFINE n == Forgotten(search, k)
  <2>1. pc = "ready" /\ search' \in {n, Compacted(n)} /\ answer' = NoAnswer
    BY <1>11 DEF Del, Called
  <2>2. TokensKept(n) /\ n \in Searches
    BY <1>1, <1>8, <2>1, KeptKeepsTokens DEF Kept
  <2> HIDE DEF n
  <2>3. TokensKept(Compacted(n))
    BY <2>2, CompactedKeepsTokens
  <2> QED
    BY <2>1, <2>2, <2>3
<1>12. CASE Compact
  BY <1>1, <1>12, CompactedKeepsTokens DEF Compact
<1>13. ASSUME NEW q \in Queries, Query(q)
       PROVE  TokensKept(search') /\ (pc' # "ready" => answer' = NoAnswer)
  BY <1>1, <1>13 DEF Query
<1>14. CASE Kill
  BY <1>14, EmptyConsistent DEF Kill, TokensKept
<1> QED
  BY <1>2, <1>3, <1>4, <1>5, <1>6, <1>7, <1>9, <1>10, <1>11, <1>12, <1>13, <1>14 DEF Next

THEOREM AnswerInvariant == Spec => []AnswerInv
<1>1. Init => AnswerInv
  BY EmptyConsistent DEF Init, AnswerInv, TokensKept
<1> QED
  BY <1>1, AnswerStep, SearchInvariant, PTL DEF Spec

(* A step of the search side is a step of CognexSearchable, or nothing a caller sees. *)
LEMMA SearchableStep ==
  ASSUME Bm25Positive
  PROVE  SearchInv /\ AnswerInv /\ [Next]_vars => [Searchable!Next]_(Searchable!vars)
<1> SUFFICES ASSUME SearchInv, AnswerInv, [Next]_vars
             PROVE  Searchable!Next \/ UNCHANGED Searchable!vars
  OBVIOUS
<1> DEFINE up == pc = "ready"
           store == IF pc = "ready" THEN index ELSE Empty
<1>1. index \in Contents /\ (pc # "ready" => answer = NoAnswer)
  BY DEF SearchInv, TypeOK, AnswerInv
<1>2. ASSUME up' = up, store' = store, answer' = answer
      PROVE  UNCHANGED Searchable!vars
  BY <1>2 DEF Searchable!vars
<1>3. NoAnswer = Searchable!NoAnswer /\ Contents = Searchable!Contents /\ Empty = Searchable!Empty
  BY DEF NoAnswer, Searchable!NoAnswer, Contents, Searchable!Contents, Empty, Searchable!Empty
<1>4. CASE UNCHANGED vars
  BY <1>2, <1>4 DEF vars
<1>5. ASSUME pc # "ready", pc' # "ready", answer' = answer
      PROVE  UNCHANGED Searchable!vars
  BY <1>2, <1>5
<1>6. CASE Start \/ Reset
  BY <1>5, <1>6 DEF Start, Reset
<1>7. ASSUME NEW k \in Key, NEW v \in Value, ReplayPut(k, v)
      PROVE  UNCHANGED Searchable!vars
  BY <1>5, <1>7 DEF ReplayPut
<1>8. ASSUME NEW k \in Key, ReplayDel(k) \/ Rebuild(k)
      PROVE  UNCHANGED Searchable!vars
  BY <1>5, <1>8 DEF ReplayDel, Rebuild
<1>9. CASE Ready
  <2>1. ~up /\ up' /\ store' = index /\ answer' = NoAnswer
    BY <1>1, <1>9 DEF Ready
  <2>2. Searchable!Recover
    BY <1>1, <1>3, <2>1 DEF Searchable!Recover
  <2> QED
    BY <2>2 DEF Searchable!Next
<1>10. ASSUME NEW k \in Key, NEW m, pc = "ready", pc' = "ready", answer' = NoAnswer,
              index' = [index EXCEPT ![k] = m]
       PROVE  Searchable!Store(k, m)
  BY <1>3, <1>10 DEF Searchable!Store
<1>11. ASSUME NEW k \in Key, NEW v \in Value, Put(k, v)
       PROVE  Searchable!Next
  <2>1. Searchable!Store(k, {v})
    BY <1>10, <1>11 DEF Put, Called
  <2> QED
    BY <2>1 DEF Searchable!Next
<1>12. ASSUME NEW k \in Key, DelMissing(k)
       PROVE  Searchable!Next
  <2>1. index' = [index EXCEPT ![k] = {}]
    BY <1>1, <1>12 DEF DelMissing, Contents
  <2>2. Searchable!Store(k, {})
    BY <1>10, <1>12, <2>1 DEF DelMissing, Called
  <2> QED
    BY <2>2 DEF Searchable!Next
<1>13. ASSUME NEW k \in Key, Del(k)
       PROVE  Searchable!Next
  <2>1. Searchable!Store(k, {})
    BY <1>10, <1>13 DEF Del, Called
  <2> QED
    BY <2>1 DEF Searchable!Next
<1>14. CASE Compact
  <2>1. Searchable!Tidy
    BY <1>3, <1>14 DEF Compact, Called, Searchable!Tidy
  <2> QED
    BY <2>1 DEF Searchable!Next
<1>15. ASSUME NEW q \in Queries, Query(q)
       PROVE  Searchable!Next
  <2> DEFINE results == Candidates(search, q, TotalDocs(index))
  <2>1. PICK ranking \in Ranked(q, Filtered(q, results)) :
          answer' = [query |-> {q}, lines |-> [i \in DOMAIN ranking |-> LineOf(ranking[i])]]
    BY <1>15 DEF Query, LineOf, KeyOf
  <2>2. pc = "ready" /\ pc' = pc /\ index' = index
    BY <1>15 DEF Query
  <2>3. Serving(q)
    BY <2>2 DEF Serving, AnswerInv
  <2>4. Answers(q, results)
    BY <2>3, CandidatesAnswer
  <2> HIDE DEF results
  <2>5. Searchable!Permitted(q, answer'.lines) /\ answer'.query = {q}
    BY <2>1, <2>4, RankingPermitted
  <2>6. Searchable!Ask(q)
    BY <2>2, <2>5 DEF Searchable!Ask
  <2> QED
    BY <2>6 DEF Searchable!Next
<1>16. CASE Kill
  <2>1. Searchable!Stop
    BY <1>3, <1>16 DEF Kill, Searchable!Stop
  <2> QED
    BY <2>1 DEF Searchable!Next
<1> QED
  BY <1>4, <1>6, <1>7, <1>8, <1>9, <1>11, <1>12, <1>13, <1>14, <1>15, <1>16 DEF Next

(***************************************************************************)
(* A query answers from what is stored at that moment, whatever tombstones *)
(* the index holds: every match that passes the filters, once, with its    *)
(* relevance, best first (cognex.cpp:350-387, query_engine.cpp:42-278).    *)
(***************************************************************************)
THEOREM QueriesAnswerFromTheStore ==
  ASSUME Bm25Positive
  PROVE  Spec => RefinesSearchable
<1>1. Init => Searchable!Init
  BY DEF Init, Searchable!Init, Empty, Searchable!Empty, NoAnswer, Searchable!NoAnswer
<1>2. SearchInv /\ AnswerInv /\ [Next]_vars => [Searchable!Next]_(Searchable!vars)
  BY SearchableStep
<1> QED
  BY <1>1, <1>2, SearchInvariant, AnswerInvariant, PTL
  DEF Spec, RefinesSearchable, Searchable!Spec
=============================================================================
