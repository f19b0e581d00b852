--------------------------- MODULE CognexIndex_proofs ---------------------------
(***************************************************************************)
(* Proofs about the search structures as values: the tokens of a value,    *)
(* and what put(), del() and compact() keep of the order between entries,  *)
(* postings, keyToEntry_ and the stored contents.                          *)
(***************************************************************************)
EXTENDS CognexIndex, CognexText_proofs, FiniteSetTheorems

-----------------------------------------------------------------------------
(* The tokens of a text *)

LEMMA CleanedType ==
  ASSUME NEW word \in Text
  PROVE  Cleaned(word) \in Text
<1> DEFINE black == {i \in DOMAIN word : word[i] \notin White}
<1>0. Len(word) \in Nat /\ DOMAIN word = 1 .. Len(word)
  BY LenProperties DEF Text
<1>1. CASE black = {}
  <2>1. Cleaned(word) = <<>>
    BY <1>1 DEF Cleaned
  <2> QED
    BY <2>1 DEF Text
<1>2. CASE black # {}
  <2>1. black \in SUBSET Nat /\ black \in SUBSET (0 .. Len(word))
    BY <1>0
  <2> DEFINE a == Min(black)
             b == Max(black)
  <2>2. Cleaned(word) = SubSeq(word, a, b)
    BY <1>2 DEF Cleaned
  <2>3. a \in black
    <3>1. \E i \in black : \A j \in black : i <= j
      <4> HIDE DEF black
      <4> QED
        BY <1>2, <2>1, NatMin
    <3> HIDE DEF black
    <3> QED
      BY <3>1 DEF Min
  <2>4. b \in black
    <3>1. \E i \in black : \A j \in black : j <= i
      <4> HIDE DEF black
      <4> QED
        BY <1>0, <1>2, <2>1, NatMax
    <3>2. \E i \in black : \A j \in black : i >= j
      BY <3>1, <2>1
    <3> HIDE DEF black
    <3> QED
      BY <3>2 DEF Max
  <2>5. a \in 1 .. Len(word) /\ b \in 1 .. Len(word)
    BY <1>0, <2>3, <2>4
  <2> HIDE DEF a, b
  <2>6. \A i \in a .. b : word[i] \in Symbol
    BY <1>0, <2>5, ElementOfSeq DEF Text
  <2> QED
    BY <2>2, <2>5, <2>6, SubSeqProperties DEF Text
<1> QED
  BY <1>1, <1>2

(***************************************************************************)
(* The tokens of a text are texts: tokenize_and_update() comes to an end,  *)
(* since each round of its loop starts further on.                         *)
(***************************************************************************)
LEMMA TokensType ==
  ASSUME NEW text \in Text
  PROVE  Tokens(text) \in Seq(Text)
<1> DEFINE End(i) == IF Find(text, SP, i) = NPos THEN Len(text) + 1 ELSE Find(text, SP, i)
           Piece(i) == LET token == Cleaned(SubSeq(text, i, End(i) - 1))
                       IN  IF token = <<>> THEN <<>> ELSE <<token>>
           D == 1 .. Len(text) + 2
           Def(f, i) == IF i > Len(text) THEN <<>>
                        ELSE IF text[i] = SP THEN f[i + 1]
                        ELSE Piece(i) \o f[End(i) + 1]
           found == CHOOSE f : f = [i \in D |-> Def(f, i)]
           S == Seq(Text)
           m == Len(text) + 2
           Stop == {i \in D : i > Len(text)}
           before == [i \in D |-> IF i \in Stop THEN i
                                  ELSE IF text[i] = SP THEN i + 1 ELSE End(i) + 1]
           rank == [i \in D |-> (Len(text) + 2) - i]
           base == [i \in D |-> <<>>]
           step == [i \in D |-> [s \in S |-> IF i \in Stop \/ text[i] = SP THEN s ELSE Piece(i) \o s]]
<1>0. Len(text) \in Nat
  BY LenProperties DEF Text
<1>1. Tokens(text) = found[1]
  BY DEF Tokens
<1>2. ASSUME NEW i \in 1 .. Len(text)
      PROVE  End(i) \in i .. Len(text) + 1
  <2>1. Find(text, SP, i) = NPos \/ Find(text, SP, i) \in i .. Len(text)
    BY <1>0, FindFirst
  <2> QED
    BY <1>0, <2>1 DEF NPos
<1>3. ASSUME NEW i \in 1 .. Len(text)
      PROVE  Piece(i) \in Seq(Text)
  <2>1. End(i) - 1 \in 0 .. Len(text) /\ i \in Nat \ {0}
    BY <1>0, <1>2
  <2> DEFINE word == SubSeq(text, i, End(i) - 1)
  <2>2. word \in Text
    <3> HIDE DEF End
    <3> QED
      BY <2>1, SubText
  <2> HIDE DEF word
  <2>3. Cleaned(word) \in Text
    BY <2>2, CleanedType
  <2>4. Piece(i) = IF Cleaned(word) = <<>> THEN <<>> ELSE <<Cleaned(word)>>
    BY DEF word
  <2> HIDE DEF Piece
  <2>5. \A t \in Text : <<t>> \in Seq(Text)
    OBVIOUS
  <2>6. <<>> \in Seq(Text)
    OBVIOUS
  <2> QED
    BY <2>3, <2>4, <2>5, <2>6
<1> HIDE DEF End, Piece
<1>4. \A i \in D : i \in Stop \/ i \in 1 .. Len(text)
  BY <1>0
<1>7. \A a, b \in S : a \o b \in S
  BY ConcatProperties
<1>5. \E f \in [D -> S] :
        \A i \in D : f[i] = IF i \in Stop THEN base[i] ELSE step[i][f[before[i]]]
  <2>1. m \in Nat /\ rank \in [D -> 0 .. m]
    BY <1>0
  <2>2. base \in [D -> S]
    OBVIOUS
  <2>3. before \in [D -> D]
    BY <1>0, <1>2
  <2>4. step \in [D -> [S -> S]]
    <3>1. \A i \in D, s \in S : i \notin Stop => Piece(i) \o s \in S
      BY <1>3, <1>4, <1>7
    <3> HIDE DEF S, Stop, D
    <3> QED
      BY <3>1
  <2>5. \A i \in D : i \notin Stop => rank[before[i]] < rank[i]
    BY <1>0, <1>2
  <2>6. Recursive(D, S, m, rank, Stop, base, before, step)
    <3> HIDE DEF D, Stop, base, before, step, rank, S, m
    <3> QED
      BY <2>1, <2>2, <2>3, <2>4, <2>5 DEF Recursive
  <2> HIDE DEF D, Stop, base, before, step, rank, S, m
  <2> QED
    BY <2>6, Recursion
<1>6. found = [i \in D |-> Def(found, i)]
  <2>1. PICK f \in [D -> S] :
          \A i \in D : f[i] = IF i \in Stop THEN base[i] ELSE step[i][f[before[i]]]
    BY <1>5
  <2>2. ASSUME NEW i \in D
        PROVE  f[i] = Def(f, i)
    <3>1. CASE i \in Stop
      BY <2>1, <3>1
    <3>2. CASE i \notin Stop
      <4>1. i \in 1 .. Len(text) /\ ~(i > Len(text)) /\ before[i] \in D
        BY <1>0, <1>2, <1>4, <3>2
      <4>2. f[i] = step[i][f[before[i]]] /\ f[before[i]] \in S
        <5> HIDE DEF D, S, Stop, base, before, step, Def
        <5> QED
          BY <2>1, <3>2, <4>1
      <4>3. f[i] = IF text[i] = SP THEN f[before[i]] ELSE Piece(i) \o f[before[i]]
        <5> HIDE DEF D, S, Stop, before, Def
        <5> QED
          BY <3>2, <4>2
      <4> HIDE DEF step, S
      <4> QED
        BY <3>2, <4>1, <4>3
    <3> QED
      BY <3>1, <3>2
  <2>3. f = [i \in D |-> Def(f, i)]
    <3> HIDE DEF Def, D, S
    <3> QED
      BY <2>1, <2>2
  <2> HIDE DEF Def
  <2> QED
    BY <2>3
<1> DEFINE T == {i \in D : found[i] \in S}
<1>8. ASSUME NEW i \in D, \A j \in D : rank[j] < rank[i] => j \in T
      PROVE  i \in T
  <2>1. found[i] = Def(found, i)
    <3> HIDE DEF found, Def
    <3> QED
      BY <1>6
  <2> HIDE DEF found
  <2>2. CASE i \in Stop
    <3>1. found[i] = <<>>
      BY <2>1, <2>2
    <3>2. <<>> \in S
      OBVIOUS
    <3> HIDE DEF S
    <3> QED
      BY <3>1, <3>2
  <2>3. CASE i \notin Stop
    <3>1. i \in 1 .. Len(text) /\ ~(i > Len(text))
      BY <1>4, <2>3
    <3>2. i + 1 \in D /\ rank[i + 1] < rank[i]
      BY <1>0, <3>1
    <3>3. End(i) + 1 \in D /\ rank[End(i) + 1] < rank[i]
      BY <1>0, <1>2, <3>1
    <3>4. found[i + 1] \in S /\ found[End(i) + 1] \in S
      <4> HIDE DEF S, D, rank
      <4> QED
        BY <1>8, <3>2, <3>3
    <3>5. Piece(i) \o found[End(i) + 1] \in S
      BY <1>3, <1>7, <3>1, <3>4
    <3> HIDE DEF S
    <3> QED
      BY <2>1, <3>1, <3>4, <3>5
  <2> QED
    BY <2>2, <2>3
<1>9. D \subseteq T
  <2>1. m \in Nat /\ rank \in [D -> 0 .. m]
    BY <1>0
  <2> HIDE DEF D, T, m, rank
  <2> QED
    BY <1>8, <2>1, RankInduction
<1> QED
  BY <1>0, <1>1, <1>9

(* A token is counted if it occurs. *)
LEMMA FrequencyCounts ==
  ASSUME NEW S, NEW tokens \in Seq(S), NEW token
  PROVE  /\ Frequency(tokens, token) \in Nat
         /\ Frequency(tokens, token) = 0 <=> token \notin Range(tokens)
<1> DEFINE places == {i \in DOMAIN tokens : tokens[i] = token}
<1>1. IsFiniteSet(DOMAIN tokens)
  <2>1. DOMAIN tokens = 1 .. Len(tokens) /\ Len(tokens) \in Int /\ 1 \in Int
    BY LenProperties
  <2> QED
    BY <2>1, FS_Interval
<1>2. IsFiniteSet(places)
  BY <1>1, FS_Subset
<1>3. Cardinality(places) \in Nat /\ (Cardinality(places) = 0 <=> places = {})
  <2> HIDE DEF places
  <2> QED
    BY <1>2, FS_CardinalityType, FS_EmptySet
<1>4. places = {} <=> token \notin Range(tokens)
  BY DEF Range
<1> QED
  BY <1>3, <1>4 DEF Frequency

-----------------------------------------------------------------------------
(* What the structures have to be *)

(* A postings list names the entries that contain token t, in order. *)
Listed(list, entries, t) ==
  /\ \A i, j \in 1 .. Len(list) : i < j => list[i].entryId < list[j].entryId
  /\ \A i \in 1 .. Len(list) :
       /\ list[i].entryId \in 1 .. Len(entries)
       /\ Frequency(entries[list[i].entryId].tokens, t) # 0
       /\ list[i].frequency = Frequency(entries[list[i].entryId].tokens, t)
  /\ \A id \in 1 .. Len(entries) :
       Frequency(entries[id].tokens, t) # 0 => \E i \in 1 .. Len(list) : list[i].entryId = id

(* The postings and the total are those of the entries. *)
Consistent(s) ==
  /\ s \in Searches
  /\ \A t \in Token : Listed(s.postings[t], s.entries, t)
  /\ s.totalTokens = TokensUpTo(s.entries)[Len(s.entries)]

(***************************************************************************)
(* What is not deleted is what `map` stores, one entry for each key, and   *)
(* keyToEntry_ leads there.                                                *)
(***************************************************************************)
EntriesStored(s, map) ==
  \A id \in 1 .. Len(s.entries) :
    ~s.entries[id].isDeleted =>
      /\ s.keyToEntry[s.entries[id].key] = id
      /\ map[s.entries[id].key] = {s.entries[id].value}

NoneFor(s, map) == \A k \in Key : map[k] = {} => s.keyToEntry[k] = NoEntry

Found(s, map, keys) ==
  \A k \in keys : map[k] # {} =>
    /\ s.keyToEntry[k] \in 1 .. Len(s.entries)
    /\ s.entries[s.keyToEntry[k]].key = k
    /\ ~s.entries[s.keyToEntry[k]].isDeleted

Matches(s, map) == EntriesStored(s, map) /\ Found(s, map, Key) /\ NoneFor(s, map)

(* Tokens *)

LEMMA WordsType ==
  ASSUME NEW v \in Value
  PROVE  Words[v] \in Seq(Token)
<1>1. Words[v] \in Seq(Text)
  <2>1. v \in Text
    BY ValueAssumption
  <2> QED
    BY <2>1, TokensType DEF Words
<1>2. Words[v] \in Seq(Range(Words[v]))
  BY <1>1, SeqOfRange
<1>3. Range(Words[v]) \subseteq Token
  BY DEF Token
<1> QED
  BY <1>2, <1>3, SeqMonotonic

(* The count of tokens goes up by those of each entry. *)
LEMMA TokensUpToIs ==
  ASSUME NEW entries \in Seq(Entry)
  PROVE  /\ TokensUpTo(entries)[0] = 0
         /\ \A n \in 1 .. Len(entries) :
              TokensUpTo(entries)[n] = TokensUpTo(entries)[n - 1] + Len(entries[n].tokens)
         /\ \A n \in 0 .. Len(entries) : TokensUpTo(entries)[n] \in Nat
<1> DEFINE D == 0 .. Len(entries)
           Def(f, n) == IF n = 0 THEN 0 ELSE f[n - 1] + Len(entries[n].tokens)
           total == CHOOSE f : f = [n \in D |-> Def(f, n)]
           S == Nat
           step == [n \in 1 .. Len(entries) |-> [x \in S |-> x + Len(entries[n].tokens)]]
<1>0. Len(entries) \in Nat
  BY LenProperties
<1>1. TokensUpTo(entries) = total
  BY DEF TokensUpTo
<1>2. \A n \in 1 .. Len(entries) : Len(entries[n].tokens) \in Nat
  <2> SUFFICES ASSUME NEW n \in 1 .. Len(entries)
               PROVE  Len(entries[n].tokens) \in Nat
    OBVIOUS
  <2>1. entries[n] \in Entry
    BY ElementOfSeq
  <2>2. entries[n].tokens \in Seq(Token)
    BY <2>1 DEF Entry
  <2> QED
    BY <2>2, LenProperties
<1>3. step \in [1 .. Len(entries) -> [S -> S]] /\ 0 \in S
  BY <1>2
<1>4. PICK g \in [D -> S] : \A n \in D : g[n] = IF n = 0 THEN 0 ELSE step[n][g[n - 1]]
  <2> DEFINE l == Len(entries)
             first == 0
  <2>1. Counted(l, S, first, step)
    BY <1>0, <1>3 DEF Counted
  <2> HIDE DEF step, S, l, first
  <2>2. \E g \in [0 .. l -> S] : \A n \in 0 .. l : g[n] = IF n = 0 THEN first ELSE step[n][g[n - 1]]
    BY <2>1, CountedRecursion
  <2> QED
    BY <2>2 DEF l, first
<1>5. g = [n \in D |-> Def(g, n)]
  <2>1. \A n \in D : n # 0 => n \in 1 .. Len(entries) /\ n - 1 \in D
    BY <1>0
  <2>2. \A n \in D : g[n] = Def(g, n)
    <3> SUFFICES ASSUME NEW n \in D
                 PROVE  g[n] = Def(g, n)
      OBVIOUS
    <3> HIDE DEF D
    <3> QED
      BY <1>4, <2>1
  <2> HIDE DEF Def, D
  <2> QED
    BY <1>4, <2>2
<1>6. total = [n \in D |-> Def(total, n)]
  <2> HIDE DEF Def
  <2> QED
    BY <1>5
<1> HIDE DEF total
<1>7. \A n \in D : total[n] = Def(total, n)
  <2> HIDE DEF Def
  <2> QED
    BY <1>6
<1>8. \A n \in 1 .. Len(entries) : total[n] = total[n - 1] + Len(entries[n].tokens)
  BY <1>0, <1>7
<1>9. total[0] = 0
  BY <1>0, <1>7
<1> DEFINE T == {n \in D : total[n] \in Nat}
<1>10. 0 \in T
  BY <1>0, <1>9
<1>11. \A n \in 1 .. Len(entries) : n - 1 \in T => n \in T
  BY <1>0, <1>2, <1>8
<1>12. D \subseteq T
  <2> HIDE DEF T
  <2> QED
    BY <1>0, <1>10, <1>11, CountedInduction
<1> QED
  BY <1>1, <1>8, <1>9, <1>12

(* Lists of entries with the same tokens have as many. *)
LEMMA SameTokens ==
  ASSUME NEW a \in Seq(Entry), NEW b \in Seq(Entry), NEW m \in Nat, m <= Len(a), m <= Len(b),
         \A i \in 1 .. m : a[i].tokens = b[i].tokens
  PROVE  TokensUpTo(a)[m] = TokensUpTo(b)[m]
<1> DEFINE T == {n \in 0 .. m : TokensUpTo(a)[n] = TokensUpTo(b)[n]}
<1>0. Len(a) \in Nat /\ Len(b) \in Nat
  BY LenProperties
<1>1. 0 \in T
  BY TokensUpToIs
<1>2. ASSUME NEW i \in 1 .. m, i - 1 \in T
      PROVE  i \in T
  <2>1. i \in 1 .. Len(a) /\ i \in 1 .. Len(b)
    BY <1>0
  <2>2. /\ TokensUpTo(a)[i] = TokensUpTo(a)[i - 1] + Len(a[i].tokens)
        /\ TokensUpTo(b)[i] = TokensUpTo(b)[i - 1] + Len(b[i].tokens)
    BY <2>1, TokensUpToIs
  <2> QED
    BY <1>2, <2>2
<1>3. 0 .. m \subseteq T
  <2> HIDE DEF T
  <2> QED
    BY <1>1, <1>2, CountedInduction
<1> QED
  BY <1>3

-----------------------------------------------------------------------------
(* A new entry *)

LEMMA AppendEntry ==
  ASSUME NEW R, NEW list \in Seq(R), NEW r \in R
  PROVE  /\ Append(list, r) \in Seq(R)
         /\ Len(list) \in Nat
         /\ Len(Append(list, r)) = Len(list) + 1
         /\ \A i \in 1 .. Len(list) : Append(list, r)[i] = list[i]
         /\ Append(list, r)[Len(list) + 1] = r
BY AppendProperties, LenProperties

NewEntry(k, v, tokens) == [key |-> k, value |-> v, tokens |-> tokens, isDeleted |-> FALSE]

(* Entries b are entries a with e after them. *)
Extended(a, b, e) ==
  /\ Len(a) \in Nat /\ Len(b) = Len(a) + 1
  /\ \A i \in 1 .. Len(a) : b[i] = a[i]
  /\ b[Len(a) + 1] = e

LEMMA PostedList ==
  ASSUME NEW a \in Seq(Entry), NEW b \in Seq(Entry), NEW e \in Entry, Extended(a, b, e), NEW t,
         NEW list \in Seq(Posting), Listed(list, a, t)
  PROVE  LET f == Frequency(e.tokens, t)
             new == IF f = 0 THEN list
                    ELSE Append(list, [entryId |-> Len(a) + 1, frequency |-> f])
         IN  new \in Seq(Posting) /\ Listed(new, b, t)
<1> DEFINE f == Frequency(e.tokens, t)
           posting == [entryId |-> Len(a) + 1, frequency |-> f]
           id == Len(a) + 1
<1>0. e.tokens \in Seq(Token)
  BY DEF Entry
<1>1. f \in Nat /\ Len(a) \in Nat /\ Len(b) = id
  BY <1>0, FrequencyCounts DEF Extended
<1>2. \A i \in 1 .. Len(a) : b[i].tokens = a[i].tokens
  BY DEF Extended
<1>3. Frequency(b[id].tokens, t) = f
  BY DEF Extended
<1>4. CASE f = 0
  <2> HIDE DEF f, id
  <2>1. id \in Nat /\ id = Len(a) + 1
    BY <1>1 DEF id
  <2>2. ASSUME NEW i \in 1 .. Len(list)
        PROVE  /\ list[i].entryId \in 1 .. Len(b)
               /\ Frequency(b[list[i].entryId].tokens, t) # 0
               /\ list[i].frequency = Frequency(b[list[i].entryId].tokens, t)
    <3>1. /\ list[i].entryId \in 1 .. Len(a)
          /\ Frequency(a[list[i].entryId].tokens, t) # 0
          /\ list[i].frequency = Frequency(a[list[i].entryId].tokens, t)
      BY DEF Listed
    <3>2. b[list[i].entryId].tokens = a[list[i].entryId].tokens
      BY <1>2, <3>1
    <3>3. list[i].entryId \in 1 .. Len(b)
      BY <1>1, <2>1, <3>1
    <3> QED
      BY <3>1, <3>2, <3>3
  <2>3. ASSUME NEW n \in 1 .. Len(b), Frequency(b[n].tokens, t) # 0
        PROVE  \E i \in 1 .. Len(list) : list[i].entryId = n
    <3>1. n \in 1 .. Len(a)
      BY <1>1, <1>3, <1>4, <2>1, <2>3
    <3>2. Frequency(a[n].tokens, t) # 0
      BY <1>2, <2>3, <3>1
    <3> QED
      BY <3>1, <3>2 DEF Listed
  <2>4. Listed(list, b, t)
    BY <2>2, <2>3 DEF Listed
  <2> QED
    BY <1>4, <2>4 DEF f
<1>5. CASE f # 0
  <2> DEFINE new == Append(list, posting)
  <2>1. posting \in Posting /\ posting.entryId = id /\ posting.frequency = f
    BY <1>1, <1>5 DEF Posting
  <2> HIDE DEF posting
  <2>2. /\ new \in Seq(Posting) /\ Len(list) \in Nat /\ Len(new) = Len(list) + 1
        /\ \A i \in 1 .. Len(list) : new[i] = list[i]
        /\ new[Len(list) + 1] = posting
    BY <2>1, AppendEntry
  <2> HIDE DEF new, f, id
  <2>3. \A i \in 1 .. Len(new) : i \in 1 .. Len(list) \/ i = Len(list) + 1
    BY <2>2
  <2>4. id \in Nat /\ id = Len(a) + 1
    BY <1>1 DEF id
  <2>5. \A i \in 1 .. Len(list) : list[i].entryId \in 1 .. Len(a)
    BY DEF Listed
  <2>6. \A i, j \in 1 .. Len(new) : i < j => new[i].entryId < new[j].entryId
    <3> SUFFICES ASSUME NEW i \in 1 .. Len(new), NEW j \in 1 .. Len(new), i < j
                 PROVE  new[i].entryId < new[j].entryId
      OBVIOUS
    <3>1. i \in 1 .. Len(list)
      BY <2>2
    <3>2. CASE j \in 1 .. Len(list)
      BY <2>2, <3>1, <3>2 DEF Listed
    <3>3. CASE j = Len(list) + 1
      <4>1. new[i].entryId \in 1 .. Len(a) /\ new[j].entryId = id
        BY <2>1, <2>2, <2>5, <3>1, <3>3
      <4> QED
        BY <1>1, <2>4, <4>1
    <3> QED
      BY <2>3, <3>2, <3>3
  <2>7. ASSUME NEW i \in 1 .. Len(new)
        PROVE  /\ new[i].entryId \in 1 .. Len(b)
               /\ Frequency(b[new[i].entryId].tokens, t) # 0
               /\ new[i].frequency = Frequency(b[new[i].entryId].tokens, t)
    <3>1. CASE i \in 1 .. Len(list)
      <4>1. new[i] = list[i] /\ list[i].entryId \in 1 .. Len(a)
        BY <2>2, <2>5, <3>1
      <4>2. /\ Frequency(a[list[i].entryId].tokens, t) # 0
            /\ list[i].frequency = Frequency(a[list[i].entryId].tokens, t)
        BY <3>1 DEF Listed
      <4>3. b[list[i].entryId].tokens = a[list[i].entryId].tokens
        BY <1>2, <4>1
      <4>4. list[i].entryId \in 1 .. Len(b)
        BY <1>1, <2>4, <4>1
      <4> QED
        BY <4>1, <4>2, <4>3, <4>4
    <3>2. CASE i = Len(list) + 1
      <4>1. new[i].entryId = id /\ new[i].frequency = f
        BY <2>1, <2>2, <3>2
      <4>2. id \in 1 .. Len(b)
        BY <1>1, <2>4
      <4> QED
        BY <1>3, <1>5, <4>1, <4>2
    <3> QED
      BY <2>3, <3>1, <3>2
  <2>8. ASSUME NEW n \in 1 .. Len(b), Frequency(b[n].tokens, t) # 0
        PROVE  \E i \in 1 .. Len(new) : new[i].entryId = n
    <3>1. CASE n \in 1 .. Len(a)
      <4>1. Frequency(a[n].tokens, t) # 0
        BY <1>2, <2>8, <3>1
      <4>2. PICK i \in 1 .. Len(list) : list[i].entryId = n
        BY <3>1, <4>1 DEF Listed
      <4>3. i \in 1 .. Len(new) /\ new[i] = list[i]
        BY <2>2
      <4> QED
        BY <4>2, <4>3
    <3>2. CASE n = id
      <4>1. Len(list) + 1 \in 1 .. Len(new) /\ new[Len(list) + 1].entryId = id
        BY <2>1, <2>2
      <4> QED
        BY <3>2, <4>1
    <3> QED
      BY <1>1, <2>4, <3>1, <3>2
  <2>9. Listed(new, b, t)
    BY <2>6, <2>7, <2>8 DEF Listed
  <2> QED
    BY <1>5, <2>2, <2>9 DEF new, posting, f, id
<1> QED
  BY <1>4, <1>5

(* What a new entry changes. *)
Enters(s, n, e) ==
  /\ Extended(s.entries, n.entries, e)
  /\ n.entries \in Seq(Entry)
  /\ n.keyToEntry = [s.keyToEntry EXCEPT ![e.key] = Len(s.entries) + 1]
  /\ n.keyToEntry \in [Key -> Nat]
  /\ n.totalTokens = s.totalTokens + Len(e.tokens)
  /\ n.totalTokens \in Nat

LEMMA EnteredIs ==
  ASSUME NEW s \in Searches, NEW k \in Key, NEW v \in Value, NEW tokens \in Seq(Token)
  PROVE  /\ NewEntry(k, v, tokens) \in Entry
         /\ Enters(s, Entered(s, k, v, tokens), NewEntry(k, v, tokens))
<1> DEFINE e == NewEntry(k, v, tokens)
           n == Entered(s, k, v, tokens)
<1>1. e \in Entry /\ e.key = k /\ e.tokens = tokens
  BY DEF NewEntry, Entry
<1>2. /\ n.entries = Append(s.entries, e)
      /\ n.keyToEntry = [s.keyToEntry EXCEPT ![k] = Len(s.entries) + 1]
      /\ n.totalTokens = s.totalTokens + Len(tokens)
  BY DEF Entered, NewEntry
<1>3. s.entries \in Seq(Entry) /\ s.keyToEntry \in [Key -> Nat] /\ s.totalTokens \in Nat
  BY DEF Searches
<1>4. Len(tokens) \in Nat
  BY LenProperties
<1> HIDE DEF e, n
<1>5. n.entries \in Seq(Entry) /\ Extended(s.entries, n.entries, e)
  BY <1>1, <1>2, <1>3, AppendEntry DEF Extended
<1>6. Len(s.entries) + 1 \in Nat
  BY <1>5 DEF Extended
<1>7. n.keyToEntry \in [Key -> Nat] /\ n.totalTokens \in Nat
  BY <1>2, <1>3, <1>4, <1>6
<1> QED
  BY <1>1, <1>2, <1>5, <1>7 DEF Enters, e, n

(* A new entry gets its postings, and its tokens are added. *)
LEMMA EnteredConsistent ==
  ASSUME NEW s, Consistent(s), NEW k \in Key, NEW v \in Value, NEW tokens \in Seq(Token)
  PROVE  Consistent(Entered(s, k, v, tokens))
<1> DEFINE e == NewEntry(k, v, tokens)
           n == Entered(s, k, v, tokens)
<1>1. s \in Searches
  BY DEF Consistent
<1>2. e \in Entry /\ Enters(s, n, e)
  BY <1>1, EnteredIs
<1>3. e.tokens = tokens
  BY DEF NewEntry
<1>4. s.entries \in Seq(Entry) /\ s.postings \in [Token -> Seq(Posting)]
  BY <1>1 DEF Searches
<1>5. \A t \in Token : s.postings[t] \in Seq(Posting)
  BY <1>4
<1>6. ASSUME NEW t \in Token
      PROVE  n.postings[t] \in Seq(Posting) /\ Listed(n.postings[t], n.entries, t)
  <2> DEFINE f == Frequency(e.tokens, t)
             list == s.postings[t]
             new == IF f = 0 THEN list
                    ELSE Append(list, [entryId |-> Len(s.entries) + 1, frequency |-> f])
  <2>1. n.postings = Posted(s.postings, Len(s.entries) + 1, tokens)
    BY DEF Entered
  <2>2. n.postings[t] = new
    <3> HIDE DEF n, e
    <3> QED
      BY <1>3, <2>1 DEF Posted
  <2>3. list \in Seq(Posting) /\ Listed(list, s.entries, t)
    BY <1>5 DEF Consistent
  <2>4. Extended(s.entries, n.entries, e) /\ n.entries \in Seq(Entry)
    BY <1>2 DEF Enters
  <2> HIDE DEF n, e, list
  <2>5. new \in Seq(Posting) /\ Listed(new, n.entries, t)
    BY <1>2, <1>4, <2>3, <2>4, PostedList
  <2> HIDE DEF new
  <2> QED
    BY <2>2, <2>5
<1>7. n.postings \in [Token -> Seq(Posting)]
  <2>1. n.postings = Posted(s.postings, Len(s.entries) + 1, tokens)
    BY DEF Entered
  <2>2. n.postings = [t \in Token |-> n.postings[t]]
    <3> HIDE DEF n
    <3> QED
      BY <2>1 DEF Posted
  <2> DEFINE S == Seq(Posting)
  <2> HIDE DEF n, S
  <2>3. \A t \in Token : n.postings[t] \in S
    BY <1>6 DEF S
  <2>4. n.postings \in [Token -> S]
    BY <2>2, <2>3
  <2> QED
    BY <2>4 DEF S
<1>8. n \in Searches
  <2>1. n = [entries |-> n.entries, postings |-> n.postings,
             keyToEntry |-> n.keyToEntry, totalTokens |-> n.totalTokens]
    BY DEF Entered
  <2> HIDE DEF n, e
  <2> DEFINE S == Seq(Entry)
             P == [Token -> Seq(Posting)]
             K == [Key -> Nat]
  <2>2. n.entries \in S /\ n.postings \in P /\ n.keyToEntry \in K /\ n.totalTokens \in Nat
    BY <1>2, <1>7 DEF Enters
  <2>3. Searches = [entries : S, postings : P, keyToEntry : K, totalTokens : Nat]
    BY DEF Searches
  <2> HIDE DEF S, P, K
  <2> QED
    BY <2>1, <2>2, <2>3
<1>9. n.totalTokens = TokensUpTo(n.entries)[Len(n.entries)]
  <2> DEFINE a == s.entries
             b == n.entries
             l == Len(s.entries)
  <2>1. /\ a \in Seq(Entry) /\ b \in Seq(Entry) /\ l \in Nat /\ Len(b) = l + 1 /\ Len(a) = l
        /\ \A i \in 1 .. l : b[i] = a[i]
        /\ b[l + 1] = e
        /\ n.totalTokens = s.totalTokens + Len(e.tokens)
    BY <1>2, <1>4 DEF Enters, Extended
  <2>2. s.totalTokens = TokensUpTo(a)[l]
    BY DEF Consistent
  <2> HIDE DEF a, b, l, n, e
  <2>3. TokensUpTo(a)[l] = TokensUpTo(b)[l]
    <3>1. l <= Len(a) /\ l <= Len(b) /\ \A i \in 1 .. l : a[i].tokens = b[i].tokens
      BY <2>1
    <3> QED
      BY <2>1, <3>1, SameTokens
  <2>4. TokensUpTo(b)[l + 1] = TokensUpTo(b)[l] + Len(b[l + 1].tokens)
    <3>1. l + 1 \in 1 .. Len(b) /\ (l + 1) - 1 = l
      BY <2>1
    <3>2. \A i \in 1 .. Len(b) : TokensUpTo(b)[i] = TokensUpTo(b)[i - 1] + Len(b[i].tokens)
      BY <2>1, TokensUpToIs
    <3> QED
      BY <3>1, <3>2
  <2>5. n.totalTokens = TokensUpTo(b)[Len(b)]
    BY <2>1, <2>2, <2>3, <2>4
  <2> QED
    BY <2>5 DEF b
<1> QED
  BY <1>6, <1>8, <1>9 DEF Consistent

-----------------------------------------------------------------------------
(* A tombstone *)

(* n has the entries of s, up to which of them are deleted. *)
Kept(s, n) ==
  /\ n \in Searches
  /\ n.postings = s.postings
  /\ n.totalTokens = s.totalTokens
  /\ Len(n.entries) = Len(s.entries)
  /\ \A id \in 1 .. Len(s.entries) :
       /\ n.entries[id].key = s.entries[id].key
       /\ n.entries[id].value = s.entries[id].value
       /\ n.entries[id].tokens = s.entries[id].tokens

(* The entry that key k leads to, if any, is the only one newly deleted. *)
Marked(s, n, k) ==
  /\ Kept(s, n)
  /\ \A id \in 1 .. Len(s.entries) :
       n.entries[id].isDeleted <=> s.entries[id].isDeleted \/ id = s.keyToEntry[k]

(* Postings and total do not see what is deleted. *)
LEMMA KeptConsistent ==
  ASSUME NEW s, NEW n, Consistent(s), Kept(s, n)
  PROVE  Consistent(n)
<1>1. /\ s.entries \in Seq(Entry) /\ n.entries \in Seq(Entry) /\ n \in Searches
      /\ Len(n.entries) = Len(s.entries)
      /\ \A id \in 1 .. Len(s.entries) : n.entries[id].tokens = s.entries[id].tokens
  BY DEF Consistent, Kept, Searches
<1>2. Len(s.entries) \in Nat
  BY <1>1, LenProperties
<1>3. ASSUME NEW t \in Token
      PROVE  Listed(n.postings[t], n.entries, t)
  <2>1. Listed(s.postings[t], s.entries, t) /\ n.postings[t] = s.postings[t]
    BY DEF Consistent, Kept
  <2> DEFINE list == s.postings[t]
             a == s.entries
             b == n.entries
  <2>2. /\ Listed(list, a, t) /\ Len(b) = Len(a)
        /\ \A id \in 1 .. Len(a) : b[id].tokens = a[id].tokens
    BY <1>1, <2>1
  <2> HIDE DEF list, a, b
  <2>3. Listed(list, b, t)
    <3>1. \A i \in 1 .. Len(list) :
            /\ list[i].entryId \in 1 .. Len(b)
            /\ Frequency(b[list[i].entryId].tokens, t) # 0
            /\ list[i].frequency = Frequency(b[list[i].entryId].tokens, t)
      <4> SUFFICES ASSUME NEW i \in 1 .. Len(list)
                   PROVE  /\ list[i].entryId \in 1 .. Len(b)
                          /\ Frequency(b[list[i].entryId].tokens, t) # 0
                          /\ list[i].frequency = Frequency(b[list[i].entryId].tokens, t)
        OBVIOUS
      <4>1. /\ list[i].entryId \in 1 .. Len(a)
            /\ Frequency(a[list[i].entryId].tokens, t) # 0
            /\ list[i].frequency = Frequency(a[list[i].entryId].tokens, t)
        BY <2>2 DEF Listed
      <4> QED
        BY <2>2, <4>1
    <3>2. \A id \in 1 .. Len(b) : Frequency(b[id].tokens, t) = Frequency(a[id].tokens, t)
      BY <2>2
    <3> QED
      BY <2>2, <3>1, <3>2 DEF Listed
  <2> QED
    BY <2>1, <2>3 DEF list, b
<1>4. n.totalTokens = TokensUpTo(n.entries)[Len(n.entries)]
  <2>1. s.totalTokens = TokensUpTo(s.entries)[Len(s.entries)]
    BY DEF Consistent
  <2>2. n.totalTokens = s.totalTokens
    BY DEF Kept
  <2> DEFINE a == s.entries
             b == n.entries
             l == Len(s.entries)
  <2>3. /\ a \in Seq(Entry) /\ b \in Seq(Entry) /\ l \in Nat /\ l <= Len(a) /\ l <= Len(b)
        /\ \A i \in 1 .. l : a[i].tokens = b[i].tokens
    BY <1>1, <1>2
  <2> HIDE DEF a, b, l
  <2>4. TokensUpTo(a)[l] = TokensUpTo(b)[l]
    BY <2>3, SameTokens
  <2> QED
    BY <1>1, <2>1, <2>2, <2>4 DEF a, b, l
<1> QED
  BY <1>1, <1>3, <1>4 DEF Consistent

LEMMA TombstonedIs ==
  ASSUME NEW s \in Searches, NEW k \in Key, s.keyToEntry[k] \in 0 .. Len(s.entries)
  PROVE  /\ Marked(s, Tombstoned(s, k), k)
         /\ Tombstoned(s, k).keyToEntry = s.keyToEntry
<1> DEFINE n == Tombstoned(s, k)
           d == s.keyToEntry[k]
<1>1. CASE d = NoEntry
  <2>1. n = s /\ d = 0
    BY <1>1 DEF Tombstoned, NoEntry
  <2>2. \A id \in 1 .. Len(s.entries) : id # d
    BY <2>1
  <2> HIDE DEF n, d
  <2>3. Kept(s, n)
    BY <2>1 DEF Kept
  <2>4. Marked(s, n, k)
    <3> SUFFICES ASSUME NEW id \in 1 .. Len(s.entries)
                 PROVE  n.entries[id].isDeleted <=> s.entries[id].isDeleted \/ id = d
      BY <2>3 DEF Marked, d
    <3> QED
      BY <2>1, <2>2, Zenon
  <2> QED
    BY <2>1, <2>4 DEF n
<1>2. CASE d # NoEntry
  <2>1. n = [s EXCEPT !.entries[d].isDeleted = TRUE]
    BY <1>2 DEF Tombstoned
  <2>2. s.entries \in Seq(Entry) /\ Len(s.entries) \in Nat /\ d \in 1 .. Len(s.entries)
    <3>1. s.entries \in Seq(Entry)
      BY DEF Searches
    <3> QED
      BY <1>2, <3>1, LenProperties DEF NoEntry
  <2> DEFINE a == s.entries
             b == [a EXCEPT ![d].isDeleted = TRUE]
             e == [a[d] EXCEPT !.isDeleted = TRUE]
  <2>3. n = [s EXCEPT !.entries = b]
    BY <2>1
  <2>4. a[d] \in Entry
    BY <2>2, ElementOfSeq
  <2>5. /\ e \in Entry /\ e.key = a[d].key /\ e.value = a[d].value /\ e.tokens = a[d].tokens
        /\ e.isDeleted = TRUE
    <3> HIDE DEF a
    <3> QED
      BY <2>4 DEF Entry
  <2>6. b = [a EXCEPT ![d] = e]
    OBVIOUS
  <2> HIDE DEF a, b, e, d, n
  <2>7. b \in Seq(Entry) /\ Len(b) = Len(a) /\ DOMAIN a = 1 .. Len(a)
    BY <2>2, <2>5, <2>6, ExceptSeq, LenProperties DEF a
  <2>8. \A id \in 1 .. Len(a) : b[id] = IF id = d THEN e ELSE a[id]
    BY <2>2, <2>6, <2>7 DEF a
  <2>9. /\ n \in Searches /\ n.postings = s.postings /\ n.totalTokens = s.totalTokens
        /\ n.keyToEntry = s.keyToEntry /\ n.entries = b
    <3> DEFINE S == Seq(Entry)
               P == [Token -> Seq(Posting)]
               K == [Key -> Nat]
    <3>1. Searches = [entries : S, postings : P, keyToEntry : K, totalTokens : Nat]
      BY DEF Searches
    <3>2. b \in S
      BY <2>7
    <3> HIDE DEF S, P, K
    <3> QED
      BY <2>3, <3>1, <3>2
  <2>10. Kept(s, n)
    <3>1. \A id \in 1 .. Len(a) : /\ b[id].key = a[id].key
                                  /\ b[id].value = a[id].value
                                  /\ b[id].tokens = a[id].tokens
      BY <2>5, <2>8
    <3> QED
      BY <2>7, <2>9, <3>1 DEF Kept, a
  <2>11. Marked(s, n, k)
    <3> SUFFICES ASSUME NEW id \in 1 .. Len(s.entries)
                 PROVE  n.entries[id].isDeleted <=> s.entries[id].isDeleted \/ id = d
      BY <2>10 DEF Marked, d
    <3>1. CASE id = d
      BY <2>5, <2>8, <2>9, <3>1, Zenon DEF a
    <3>2. CASE id # d
      BY <2>8, <2>9, <3>2, Zenon DEF a
    <3> QED
      BY <3>1, <3>2
  <2> QED
    BY <2>9, <2>11 DEF n
<1> QED
  BY <1>1, <1>2

LEMMA ForgottenIs ==
  ASSUME NEW s \in Searches, NEW k \in Key, s.keyToEntry[k] \in 0 .. Len(s.entries)
  PROVE  /\ Marked(s, Forgotten(s, k), k)
         /\ Forgotten(s, k).keyToEntry = [s.keyToEntry EXCEPT ![k] = NoEntry]
<1> DEFINE m == Tombstoned(s, k)
           n == Forgotten(s, k)
<1>1. Marked(s, m, k) /\ m.keyToEntry = s.keyToEntry
  BY TombstonedIs
<1>2. n = [m EXCEPT !.keyToEntry[k] = NoEntry]
  BY DEF Forgotten
<1> HIDE DEF m, n
<1>3. m \in Searches
  BY <1>1 DEF Marked, Kept
<1>4. /\ n \in Searches /\ n.postings = m.postings /\ n.totalTokens = m.totalTokens
      /\ n.keyToEntry = [s.keyToEntry EXCEPT ![k] = NoEntry] /\ n.entries = m.entries
  <2> DEFINE S == Seq(Entry)
             P == [Token -> Seq(Posting)]
             K == [s.keyToEntry EXCEPT ![k] = NoEntry]
  <2>1. Searches = [entries : S, postings : P, keyToEntry : [Key -> Nat], totalTokens : Nat]
    BY DEF Searches
  <2>2. n = [m EXCEPT !.keyToEntry = K]
    BY <1>1, <1>2
  <2> HIDE DEF S, P
  <2>3. K \in [Key -> Nat]
    BY <1>1, <1>3, <2>1 DEF NoEntry
  <2> HIDE DEF K
  <2>4. n \in Searches /\ n.postings = m.postings /\ n.totalTokens = m.totalTokens
        /\ n.keyToEntry = K /\ n.entries = m.entries
    BY <1>3, <2>1, <2>2, <2>3
  <2> QED
    BY <2>4 DEF K
<1> QED
  BY <1>1, <1>4 DEF Marked, Kept, n

-----------------------------------------------------------------------------
(* Entries and the store *)

(* map2 is map, except that it stores m for key k. *)
Stores(map, map2, k, m) == \A j \in Key : map2[j] = IF j = k THEN m ELSE map[j]

(* No entry of the key is in use. *)
Unused(s, k) == \A id \in 1 .. Len(s.entries) : ~s.entries[id].isDeleted => s.entries[id].key # k

(* The key of a new entry is the one that changes. *)
LEMMA EnteredMatches ==
  ASSUME NEW s \in Searches, NEW k \in Key, NEW v \in Value, NEW tokens \in Seq(Token),
         NEW map, NEW map2, Stores(map, map2, k, {v}),
         EntriesStored(s, map), NoneFor(s, map), Unused(s, k)
  PROVE  LET n == Entered(s, k, v, tokens)
         IN  /\ EntriesStored(n, map2)
             /\ NoneFor(n, map2)
             /\ Found(s, map, Key \ {k}) => Found(n, map2, Key)
<1> DEFINE e == NewEntry(k, v, tokens)
           n == Entered(s, k, v, tokens)
           l == Len(s.entries)
<1>1. Enters(s, n, e)
  BY EnteredIs
<1>2. e.key = k /\ e.value = v /\ ~e.isDeleted
  BY DEF NewEntry
<1>3. /\ s.entries \in Seq(Entry) /\ s.keyToEntry \in [Key -> Nat]
  BY DEF Searches
<1>4. \A id \in 1 .. l : s.entries[id].key \in Key
  <2> SUFFICES ASSUME NEW id \in 1 .. l
               PROVE  s.entries[id].key \in Key
    OBVIOUS
  <2>1. s.entries[id] \in Entry
    BY <1>3, ElementOfSeq
  <2> QED
    BY <2>1 DEF Entry
<1> HIDE DEF n, e
<1>5. /\ l \in Nat /\ Len(n.entries) = l + 1
      /\ \A id \in 1 .. l : n.entries[id] = s.entries[id]
      /\ n.entries[l + 1] = e
      /\ \A j \in Key : n.keyToEntry[j] = IF j = k THEN l + 1 ELSE s.keyToEntry[j]
  BY <1>1, <1>2, <1>3 DEF Enters, Extended
<1> HIDE DEF l
<1>6. \A id \in 1 .. l + 1 : id \in 1 .. l \/ id = l + 1
  BY <1>5
<1>7. EntriesStored(n, map2)
  <2> SUFFICES ASSUME NEW id \in 1 .. l + 1, ~n.entries[id].isDeleted
               PROVE  /\ n.keyToEntry[n.entries[id].key] = id
                      /\ map2[n.entries[id].key] = {n.entries[id].value}
    BY <1>5 DEF EntriesStored
  <2>1. CASE id \in 1 .. l
    <3>1. /\ s.entries[id].key \in Key /\ s.entries[id].key # k
          /\ s.keyToEntry[s.entries[id].key] = id
          /\ map[s.entries[id].key] = {s.entries[id].value}
      BY <1>4, <1>5, <2>1 DEF EntriesStored, Unused, l
    <3> QED
      BY <1>5, <2>1, <3>1 DEF Stores
  <2>2. CASE id = l + 1
    BY <1>2, <1>5, <2>2 DEF Stores
  <2> QED
    BY <1>6, <2>1, <2>2
<1>8. NoneFor(n, map2)
  <2> SUFFICES ASSUME NEW j \in Key, map2[j] = {}
               PROVE  n.keyToEntry[j] = NoEntry
    BY DEF NoneFor
  <2>1. j # k
    BY DEF Stores
  <2>2. map[j] = {}
    BY <2>1 DEF Stores
  <2> QED
    BY <1>5, <2>1, <2>2 DEF NoneFor
<1>9. ASSUME Found(s, map, Key \ {k})
      PROVE  Found(n, map2, Key)
  <2> SUFFICES ASSUME NEW j \in Key, map2[j] # {}
               PROVE  /\ n.keyToEntry[j] \in 1 .. l + 1
                      /\ n.entries[n.keyToEntry[j]].key = j
                      /\ ~n.entries[n.keyToEntry[j]].isDeleted
    BY <1>5 DEF Found
  <2>1. CASE j = k
    BY <1>2, <1>5, <2>1
  <2>2. CASE j # k
    <3>1. map[j] # {}
      BY <2>2 DEF Stores
    <3>2. /\ s.keyToEntry[j] \in 1 .. l
          /\ s.entries[s.keyToEntry[j]].key = j
          /\ ~s.entries[s.keyToEntry[j]].isDeleted
      BY <1>9, <2>2, <3>1 DEF Found, l
    <3>3. n.keyToEntry[j] = s.keyToEntry[j] /\ n.entries[s.keyToEntry[j]] = s.entries[s.keyToEntry[j]]
      BY <1>5, <2>2, <3>2
    <3>4. s.keyToEntry[j] \in 1 .. l + 1
      BY <1>5, <3>2
    <3> QED
      BY <3>2, <3>3, <3>4
  <2> QED
    BY <2>1, <2>2
<1> QED
  BY <1>7, <1>8, <1>9 DEF n

(* n matches map, but for key k, of which no entry is in use. *)
MatchesBut(n, map, k) ==
  /\ Unused(n, k)
  /\ \A id \in 1 .. Len(n.entries) :
       ~n.entries[id].isDeleted => /\ n.entries[id].key \in Key \ {k}
                                   /\ n.keyToEntry[n.entries[id].key] = id
                                   /\ map[n.entries[id].key] = {n.entries[id].value}
  /\ Found(n, map, Key \ {k})

(* A tombstone leaves no entry of the key in use, and the others as they are. *)
LEMMA MarkedMatches ==
  ASSUME NEW s \in Searches, NEW n, NEW k \in Key, Marked(s, n, k), NEW map, Matches(s, map),
         \A j \in Key \ {k} : n.keyToEntry[j] = s.keyToEntry[j]
  PROVE  MatchesBut(n, map, k)
<1> DEFINE l == Len(s.entries)
<1> USE DEF Matches
<1>1. s.entries \in Seq(Entry)
  BY DEF Searches
<1>2. \A id \in 1 .. l : s.entries[id].key \in Key
  <2> SUFFICES ASSUME NEW id \in 1 .. l
               PROVE  s.entries[id].key \in Key
    OBVIOUS
  <2>1. s.entries[id] \in Entry
    BY <1>1, ElementOfSeq
  <2> QED
    BY <2>1 DEF Entry
<1> HIDE DEF l
<1>3. /\ Len(n.entries) = l
      /\ \A id \in 1 .. l : n.entries[id].key = s.entries[id].key
                            /\ n.entries[id].value = s.entries[id].value
  BY DEF Marked, Kept, l
<1>4. \A id \in 1 .. l : ~n.entries[id].isDeleted => ~s.entries[id].isDeleted /\ id # s.keyToEntry[k]
  BY Zenon DEF Marked, l
<1>5. ASSUME NEW id \in 1 .. l, ~n.entries[id].isDeleted
      PROVE  /\ n.entries[id].key \in Key \ {k}
             /\ n.keyToEntry[n.entries[id].key] = id
             /\ map[n.entries[id].key] = {n.entries[id].value}
  <2>1. ~s.entries[id].isDeleted /\ id # s.keyToEntry[k]
    BY <1>4, <1>5, Zenon
  <2>2. /\ s.keyToEntry[s.entries[id].key] = id
        /\ map[s.entries[id].key] = {s.entries[id].value}
    BY <2>1 DEF EntriesStored, l
  <2>3. s.entries[id].key \in Key \ {k}
    BY <1>2, <2>1, <2>2
  <2> QED
    BY <1>3, <2>2, <2>3
<1>6. Found(n, map, Key \ {k})
  <2> SUFFICES ASSUME NEW j \in Key \ {k}, map[j] # {}
               PROVE  /\ n.keyToEntry[j] \in 1 .. l
                      /\ n.entries[n.keyToEntry[j]].key = j
                      /\ ~n.entries[n.keyToEntry[j]].isDeleted
    BY <1>3 DEF Found
  <2> DEFINE d == s.keyToEntry[j]
  <2>1. d \in 1 .. l /\ s.entries[d].key = j /\ ~s.entries[d].isDeleted
    BY DEF Found, l
  <2>2. n.keyToEntry[j] = d
    OBVIOUS
  <2> HIDE DEF d
  <2>3. n.entries[d].key = j
    BY <1>3, <2>1
  <2>4. d # s.keyToEntry[k]
    <3>1. CASE map[k] = {}
      <4>1. s.keyToEntry[k] = 0
        BY <3>1 DEF NoneFor, NoEntry
      <4>2. l \in Nat
        BY <1>1, LenProperties DEF l
      <4> QED
        BY <2>1, <4>1, <4>2
    <3>2. CASE map[k] # {}
      <4>1. s.entries[s.keyToEntry[k]].key = k
        BY <3>2 DEF Found
      <4> QED
        BY <2>1, <4>1
    <3> QED
      BY <3>1, <3>2
  <2>5. ~n.entries[d].isDeleted
    BY <2>1, <2>4, Zenon DEF Marked, l
  <2> QED
    BY <2>1, <2>2, <2>3, <2>5, Zenon
<1>7. Unused(n, k)
  BY <1>3, <1>5 DEF Unused
<1> QED
  BY <1>3, <1>5, <1>6, <1>7 DEF MatchesBut

(* A put where no entry of the key is in use. *)
LEMMA RefilledMatches ==
  ASSUME NEW n \in Searches, NEW k \in Key, NEW v \in Value, NEW map, NEW map2,
         Stores(map, map2, k, {v}), MatchesBut(n, map, k), NoneFor(n, map)
  PROVE  Matches(Inserted(n, k, v), map2)
<1>1. EntriesStored(n, map) /\ Unused(n, k) /\ Found(n, map, Key \ {k})
  BY DEF EntriesStored, MatchesBut
<1>2. Words[v] \in Seq(Token)
  BY WordsType
<1>3. Matches(Entered(n, k, v, Words[v]), map2)
  BY <1>1, <1>2, EnteredMatches DEF Matches
<1> QED
  BY <1>3 DEF Inserted

(* What put() leaves when it has marked the older version of the key, if any. *)
LEMMA TombstonedMatches ==
  ASSUME NEW s \in Searches, NEW k \in Key, NEW map, Matches(s, map),
         s.keyToEntry[k] \in 0 .. Len(s.entries)
  PROVE  LET n == Tombstoned(s, k)
         IN  Kept(s, n) /\ MatchesBut(n, map, k) /\ NoneFor(n, map)
<1> DEFINE n == Tombstoned(s, k)
<1>1. Marked(s, n, k) /\ n.keyToEntry = s.keyToEntry
  BY TombstonedIs
<1> HIDE DEF n
<1>2. MatchesBut(n, map, k)
  <2>1. \A j \in Key \ {k} : n.keyToEntry[j] = s.keyToEntry[j]
    BY <1>1
  <2> QED
    BY <1>1, <2>1, MarkedMatches
<1>3. NoneFor(n, map)
  BY <1>1 DEF Matches, NoneFor
<1> QED
  BY <1>1, <1>2, <1>3 DEF n, Marked

(* A put in place of an older version of the key, or of none. *)
LEMMA ReplacedMatches ==
  ASSUME NEW s \in Searches, NEW k \in Key, NEW v \in Value, NEW map, NEW map2,
         Stores(map, map2, k, {v}), Matches(s, map), s.keyToEntry[k] \in 0 .. Len(s.entries)
  PROVE  Matches(Inserted(Tombstoned(s, k), k, v), map2)
<1> DEFINE n == Tombstoned(s, k)
<1>1. Kept(s, n) /\ MatchesBut(n, map, k) /\ NoneFor(n, map)
  BY TombstonedMatches
<1> HIDE DEF n
<1>2. n \in Searches
  BY <1>1 DEF Kept
<1>3. Matches(Inserted(n, k, v), map2)
  BY <1>1, <1>2, RefilledMatches
<1> QED
  BY <1>3 DEF n

(* A delete. *)
LEMMA ForgottenMatches ==
  ASSUME NEW s \in Searches, NEW k \in Key, NEW map, NEW map2,
         Stores(map, map2, k, {}), Matches(s, map), s.keyToEntry[k] \in 0 .. Len(s.entries)
  PROVE  Matches(Forgotten(s, k), map2)
<1> DEFINE n == Forgotten(s, k)
<1>1. Marked(s, n, k) /\ n.keyToEntry = [s.keyToEntry EXCEPT ![k] = NoEntry]
  BY ForgottenIs
<1>2. s.keyToEntry \in [Key -> Nat]
  BY DEF Searches
<1> HIDE DEF n
<1>3. \A j \in Key : n.keyToEntry[j] = IF j = k THEN NoEntry ELSE s.keyToEntry[j]
  BY <1>1, <1>2
<1>4. MatchesBut(n, map, k)
  <2>1. \A j \in Key \ {k} : n.keyToEntry[j] = s.keyToEntry[j]
    BY <1>3
  <2> QED
    BY <1>1, <2>1, MarkedMatches
<1>5. map2[k] = {} /\ \A j \in Key \ {k} : map2[j] = map[j]
  BY DEF Stores
<1>6. EntriesStored(n, map2)
  BY <1>4, <1>5 DEF EntriesStored, MatchesBut
<1>7. NoneFor(n, map2)
  BY <1>3, <1>5 DEF Matches, NoneFor
<1>8. Found(n, map2, Key)
  BY <1>4, <1>5 DEF Found, MatchesBut
<1> QED
  BY <1>6, <1>7, <1>8 DEF Matches, n

-----------------------------------------------------------------------------
(* Compaction *)

LEMMA EmptyConsistent == Consistent(EmptySearch) /\ Len(EmptySearch.entries) = 0
<1> DEFINE S == Seq(Posting)
           E == Seq(Entry)
<1>1. <<>> \in S /\ <<>> \in E
  OBVIOUS
<1>2. Searches = [entries : E, postings : [Token -> S], keyToEntry : [Key -> Nat], totalTokens : Nat]
  BY DEF Searches
<1>3. EmptySearch \in Searches
  <2> HIDE DEF S, E
  <2> QED
    BY <1>1, <1>2 DEF EmptySearch, NoEntry
<1>4. EmptySearch.entries = <<>> /\ EmptySearch.totalTokens = 0
      /\ \A t \in Token : EmptySearch.postings[t] = <<>>
  BY DEF EmptySearch
<1>5. \A t \in Token : Listed(EmptySearch.postings[t], EmptySearch.entries, t)
  <2>1. Len(<<>>) = 0
    OBVIOUS
  <2>2. Listed(<<>>, <<>>, NoEntry) /\ \A t \in Token : Listed(<<>>, <<>>, t)
    BY <2>1 DEF Listed
  <2> QED
    BY <1>4, <2>2
<1>6. TokensUpTo(<<>>)[0] = 0
  BY <1>1, TokensUpToIs
<1>7. Len(<<>>) = 0
  OBVIOUS
<1> HIDE DEF E, S
<1>8. EmptySearch.totalTokens = TokensUpTo(EmptySearch.entries)[Len(EmptySearch.entries)]
  BY <1>4, <1>6, <1>7
<1> QED
  BY <1>3, <1>4, <1>5, <1>7, <1>8 DEF Consistent

(* recover() keeps nothing of what replay entered but keyToEntry_. *)
LEMMA DroppedIs ==
  ASSUME NEW s \in Searches
  PROVE  /\ Consistent(Dropped(s))
         /\ Len(Dropped(s).entries) = 0
         /\ Dropped(s).keyToEntry = s.keyToEntry
<1> DEFINE e == EmptySearch
           kte == s.keyToEntry
           n == [e EXCEPT !.keyToEntry = kte]
<1>1. e \in Searches /\ Consistent(e) /\ Len(e.entries) = 0
  BY EmptyConsistent DEF Consistent
<1> HIDE DEF e
<1>2. /\ n \in Searches /\ n.keyToEntry = kte /\ n.entries = e.entries
      /\ n.postings = e.postings /\ n.totalTokens = e.totalTokens
  <2> DEFINE S == Seq(Entry)
             P == [Token -> Seq(Posting)]
             K == [Key -> Nat]
  <2>1. Searches = [entries : S, postings : P, keyToEntry : K, totalTokens : Nat] /\ kte \in K
    BY DEF Searches
  <2> HIDE DEF S, P, K, kte
  <2> QED
    BY <1>1, <2>1
<1>3. Dropped(s) = n
  BY DEF Dropped, e
<1> HIDE DEF n
<1>4. Consistent(n)
  BY <1>1, <1>2 DEF Consistent
<1> QED
  BY <1>1, <1>2, <1>3, <1>4

(* keyToEntry_ leads into the list, and nowhere for a key with no value. *)
Leads(s, map) ==
  /\ \A k \in Key : s.keyToEntry[k] \in 0 .. Len(s.entries)
  /\ NoneFor(s, map)

(* Replay of a put. *)
LEMMA InsertedLeads ==
  ASSUME NEW s \in Searches, NEW k \in Key, NEW v \in Value, NEW map, NEW map2,
         Stores(map, map2, k, {v}), Leads(s, map)
  PROVE  Leads(Inserted(s, k, v), map2)
<1> DEFINE n == Inserted(s, k, v)
           l == Len(s.entries)
<1>1. Words[v] \in Seq(Token)
  BY WordsType
<1>2. Enters(s, n, NewEntry(k, v, Words[v]))
  BY <1>1, EnteredIs DEF Inserted
<1>3. /\ n.keyToEntry = [s.keyToEntry EXCEPT ![k] = l + 1]
      /\ Len(n.entries) = l + 1 /\ l \in Nat
  BY <1>2 DEF Enters, Extended, NewEntry
<1>4. s.keyToEntry \in [Key -> Nat]
  BY DEF Searches
<1> HIDE DEF n, l
<1>5. ASSUME NEW j \in Key
      PROVE  /\ n.keyToEntry[j] \in 0 .. Len(n.entries)
             /\ map2[j] = {} => n.keyToEntry[j] = NoEntry
  <2>1. s.keyToEntry[j] \in 0 .. l /\ (map[j] = {} => s.keyToEntry[j] = NoEntry)
    BY DEF Leads, NoneFor, l
  <2>2. map2[j] = IF j = k THEN {v} ELSE map[j]
    BY DEF Stores
  <2>3. CASE j = k
    <3>1. n.keyToEntry[j] = l + 1
      BY <1>3, <1>4, <2>3
    <3>2. l + 1 \in 0 .. l + 1
      BY <1>3
    <3> QED
      BY <1>3, <2>2, <2>3, <3>1, <3>2
  <2>4. CASE j # k
    <3>1. n.keyToEntry[j] = s.keyToEntry[j]
      BY <1>3, <1>4, <2>4
    <3>2. s.keyToEntry[j] \in 0 .. l + 1
      BY <1>3, <2>1
    <3> QED
      BY <1>3, <2>1, <2>2, <2>4, <3>1, <3>2
  <2> QED
    BY <2>3, <2>4
<1> QED
  BY <1>5 DEF Leads, NoneFor, n

(* Replay of a delete. *)
LEMMA ForgottenLeads ==
  ASSUME NEW s \in Searches, NEW k \in Key, NEW map, NEW map2,
         Stores(map, map2, k, {}), Leads(s, map)
  PROVE  Kept(s, Forgotten(s, k)) /\ Leads(Forgotten(s, k), map2)
<1> DEFINE n == Forgotten(s, k)
<1>1. /\ Marked(s, n, k)
      /\ n.keyToEntry = [s.keyToEntry EXCEPT ![k] = NoEntry]
  BY ForgottenIs DEF Leads
<1> HIDE DEF n
<1>2. Kept(s, n) /\ Len(n.entries) = Len(s.entries)
  BY <1>1 DEF Marked, Kept
<1>3. s.keyToEntry \in [Key -> Nat] /\ Len(s.entries) \in Nat
  BY LenProperties DEF Searches
<1>4. ASSUME NEW j \in Key
      PROVE  /\ n.keyToEntry[j] \in 0 .. Len(n.entries)
             /\ map2[j] = {} => n.keyToEntry[j] = NoEntry
  <2>1. s.keyToEntry[j] \in 0 .. Len(s.entries) /\ (map[j] = {} => s.keyToEntry[j] = NoEntry)
    BY DEF Leads, NoneFor
  <2>2. map2[j] = IF j = k THEN {} ELSE map[j]
    BY DEF Stores
  <2> QED
    BY <1>1, <1>2, <1>3, <2>1, <2>2 DEF NoEntry
<1> QED
  BY <1>2, <1>4 DEF Leads, NoneFor, n

(* The index with the keys of D entered, and no others. *)
Reentered(s, map, D) ==
  /\ Consistent(s)
  /\ EntriesStored(s, map)
  /\ NoneFor(s, map)
  /\ Found(s, map, D)
  /\ \A k \in Key \ D : Unused(s, k)

(* One step of the rebuild. *)
LEMMA InsertedReenters ==
  ASSUME NEW s, NEW map, NEW D, Reentered(s, map, D),
         NEW k \in Key \ D, NEW v \in Value, map[k] = {v}
  PROVE  Reentered(Inserted(s, k, v), map, D \cup {k})
<1> DEFINE n == Inserted(s, k, v)
           e == NewEntry(k, v, Words[v])
           l == Len(s.entries)
<1>0. s \in Searches /\ Consistent(s)
  BY DEF Reentered, Consistent
<1>1. Words[v] \in Seq(Token)
  BY WordsType
<1>2. Enters(s, n, e) /\ n = Entered(s, k, v, Words[v])
  BY <1>0, <1>1, EnteredIs DEF Inserted
<1>3. Consistent(n)
  BY <1>0, <1>1, <1>2, EnteredConsistent
<1>4. EntriesStored(n, map) /\ NoneFor(n, map)
  <2>1. Stores(map, map, k, {v})
    BY DEF Stores
  <2>2. EntriesStored(s, map) /\ NoneFor(s, map) /\ Unused(s, k)
    BY DEF Reentered
  <2> QED
    BY <1>0, <1>1, <1>2, <2>1, <2>2, EnteredMatches
<1>5. /\ Len(n.entries) = l + 1 /\ l \in Nat
      /\ \A id \in 1 .. l : n.entries[id] = s.entries[id]
      /\ n.entries[l + 1] = e
      /\ n.keyToEntry = [s.keyToEntry EXCEPT ![k] = l + 1]
  BY <1>2 DEF Enters, Extended, NewEntry
<1>6. e.key = k /\ ~e.isDeleted
  BY DEF NewEntry
<1>7. s.keyToEntry \in [Key -> Nat]
  BY <1>0 DEF Searches
<1> HIDE DEF n, e, l
<1>8. Found(n, map, D \cup {k})
  <2> SUFFICES ASSUME NEW j \in D \cup {k}, map[j] # {}
               PROVE  /\ n.keyToEntry[j] \in 1 .. Len(n.entries)
                      /\ n.entries[n.keyToEntry[j]].key = j
                      /\ ~n.entries[n.keyToEntry[j]].isDeleted
    BY DEF Found
  <2>1. CASE j = k
    <3>1. n.keyToEntry[j] = l + 1 /\ l + 1 \in 1 .. Len(n.entries)
      BY <1>5, <1>7, <2>1
    <3> QED
      BY <1>5, <1>6, <2>1, <3>1
  <2>2. CASE j # k
    <3> DEFINE id == s.keyToEntry[j]
    <3>1. j \in D /\ id \in 1 .. l /\ s.entries[id].key = j /\ ~s.entries[id].isDeleted
      BY <2>2 DEF Reentered, Found, l
    <3>2. n.keyToEntry[j] = id
      BY <1>5, <1>7, <2>2
    <3>3. n.entries[id] = s.entries[id] /\ id \in 1 .. Len(n.entries)
      BY <1>5, <3>1
    <3> HIDE DEF id
    <3> QED
      BY <3>1, <3>2, <3>3
  <2> QED
    BY <2>1, <2>2
<1>9. ASSUME NEW j \in Key \ (D \cup {k})
      PROVE  Unused(n, j)
  <2> SUFFICES ASSUME NEW id \in 1 .. Len(n.entries), ~n.entries[id].isDeleted, n.entries[id].key = j
               PROVE  FALSE
    BY DEF Unused
  <2>1. id \in 1 .. l \/ id = l + 1
    BY <1>5
  <2>2. id # l + 1
    BY <1>5, <1>6
  <2>3. n.entries[id] = s.entries[id] /\ id \in 1 .. l
    BY <1>5, <2>1, <2>2
  <2>4. Unused(s, j)
    BY DEF Reentered
  <2> QED
    BY <2>3, <2>4, Zenon DEF Unused, l
<1> QED
  BY <1>3, <1>4, <1>8, <1>9 DEF Reentered, n

(* compact() builds a consistent index, entry by entry. *)
LEMMA CompactingIs ==
  ASSUME NEW s \in Searches
  PROVE  LET c == Compacting(s)
         IN  /\ c[0] = EmptySearch
             /\ \A n \in 1 .. Len(s.entries) :
                  c[n] = IF s.entries[n].isDeleted THEN c[n - 1]
                         ELSE Entered(c[n - 1], s.entries[n].key, s.entries[n].value,
                                      s.entries[n].tokens)
             /\ \A n \in 0 .. Len(s.entries) : Consistent(c[n])
<1> DEFINE l == Len(s.entries)
           D == 0 .. l
           Enter(c, n) == Entered(c, s.entries[n].key, s.entries[n].value, s.entries[n].tokens)
           Def(f, n) == IF n = 0 THEN EmptySearch
                        ELSE IF s.entries[n].isDeleted THEN f[n - 1]
                        ELSE Enter(f[n - 1], n)
           built == CHOOSE f : f = [n \in D |-> Def(f, n)]
           S == {c \in Searches : Consistent(c)}
           step == [n \in 1 .. l |-> [c \in S |->
                     IF s.entries[n].isDeleted THEN c ELSE Enter(c, n)]]
           first == EmptySearch
<1>0. l \in Nat /\ s.entries \in Seq(Entry)
  BY LenProperties DEF Searches
<1>1. Compacting(s) = built
  BY DEF Compacting
<1>2. \A n \in 1 .. l : s.entries[n] \in Entry
  BY <1>0, ElementOfSeq
<1>3. \A n \in 1 .. l, c \in S : Enter(c, n) \in S
  <2> SUFFICES ASSUME NEW n \in 1 .. l, NEW c \in S
               PROVE  Enter(c, n) \in S
    OBVIOUS
  <2>1. s.entries[n].key \in Key /\ s.entries[n].value \in Value /\ s.entries[n].tokens \in Seq(Token)
    BY <1>2 DEF Entry
  <2>2. Consistent(c)
    OBVIOUS
  <2>3. Consistent(Enter(c, n))
    BY <2>1, <2>2, EnteredConsistent
  <2> HIDE DEF Enter
  <2> QED
    BY <2>3 DEF Consistent
<1> HIDE DEF Enter
<1>4. first \in S
  BY EmptyConsistent DEF Consistent
<1>5. step \in [1 .. l -> [S -> S]]
  <2> HIDE DEF S, l
  <2> QED
    BY <1>3
<1>6. PICK g \in [D -> S] : \A n \in D : g[n] = IF n = 0 THEN first ELSE step[n][g[n - 1]]
  <2>1. Counted(l, S, first, step)
    <3> HIDE DEF l, S, first, step
    <3> QED
      BY <1>0, <1>4, <1>5 DEF Counted
  <2> HIDE DEF l, S, first, step
  <2> QED
    BY <2>1, CountedRecursion
<1>7. g = [n \in D |-> Def(g, n)]
  <2>1. \A n \in D : n # 0 => n \in 1 .. l /\ n - 1 \in D
    BY <1>0
  <2>2. ASSUME NEW n \in D
        PROVE  g[n] = Def(g, n)
    <3>1. CASE n = 0
      BY <1>6, <3>1
    <3>2. CASE n # 0
      <4>1. n \in 1 .. l /\ g[n - 1] \in S /\ g[n] = step[n][g[n - 1]]
        <5> HIDE DEF step, D, S, first
        <5> QED
          BY <1>6, <2>1, <3>2
      <4>2. g[n] = IF s.entries[n].isDeleted THEN g[n - 1] ELSE Enter(g[n - 1], n)
        <5> HIDE DEF D, S, first, l
        <5> QED
          BY <4>1
      <4> QED
        BY <3>2, <4>2
    <3> QED
      BY <3>1, <3>2
  <2> HIDE DEF Def, D
  <2> QED
    BY <1>6, <2>2
<1>8. built = [n \in D |-> Def(built, n)]
  <2> HIDE DEF Def
  <2> QED
    BY <1>7
<1> HIDE DEF built
<1>9. \A n \in D : built[n] = Def(built, n)
  <2> HIDE DEF Def
  <2> QED
    BY <1>8
<1>10. built[0] = EmptySearch
  <2>1. 0 \in D
    BY <1>0
  <2> HIDE DEF D
  <2> QED
    BY <1>9, <2>1
<1>11. \A n \in 1 .. l : built[n] = IF s.entries[n].isDeleted THEN built[n - 1] ELSE Enter(built[n - 1], n)
  <2> SUFFICES ASSUME NEW n \in 1 .. l
               PROVE  built[n] = IF s.entries[n].isDeleted THEN built[n - 1] ELSE Enter(built[n - 1], n)
    OBVIOUS
  <2>1. n \in D /\ n # 0
    BY <1>0
  <2>2. built[n] = Def(built, n)
    <3> HIDE DEF Def, D
    <3> QED
      BY <1>9, <2>1
  <2> QED
    BY <2>1, <2>2
<1> DEFINE T == {n \in D : built[n] \in S}
<1>12. 0 \in T
  BY <1>0, <1>4, <1>10
<1>13. ASSUME NEW n \in 1 .. l, n - 1 \in T
       PROVE  n \in T
  <2>1. n \in D
    BY <1>0
  <2>2. Enter(built[n - 1], n) \in S
    <3> HIDE DEF S
    <3> QED
      BY <1>3, <1>13
  <2>3. built[n] \in S
    <3> HIDE DEF S
    <3> QED
      BY <1>11, <1>13, <2>2
  <2> QED
    BY <2>1, <2>3
<1>14. D \subseteq T
  <2> HIDE DEF T, l
  <2> QED
    BY <1>0, <1>12, <1>13, CountedInduction
<1>15. \A n \in 0 .. l : Consistent(built[n])
  BY <1>14
<1> QED
  BY <1>1, <1>10, <1>11, <1>15 DEF Enter

(* What the first n entries store. *)
InUse(s, n, k) == {i \in 1 .. n : ~s.entries[i].isDeleted /\ s.entries[i].key = k}

UpTo(s, n) == [k \in Key |-> {s.entries[i].value : i \in InUse(s, n, k)}]

(* c has at most the first n entries of s, and all of them only if none is deleted. *)
Shorter(s, c, n) ==
  /\ Len(c.entries) <= n
  /\ Len(c.entries) = n =>
       \A id \in 1 .. n : /\ ~s.entries[id].isDeleted
                          /\ c.entries[id].key = s.entries[id].key
                          /\ c.entries[id].value = s.entries[id].value

Packed(s, c, n) == Consistent(c) /\ Matches(c, UpTo(s, n)) /\ Shorter(s, c, n)

(* One more entry, which is deleted, ... *)
LEMMA PackedDeleted ==
  ASSUME NEW s \in Searches, NEW c, NEW n \in 1 .. Len(s.entries),
         Packed(s, c, n - 1), s.entries[n].isDeleted
  PROVE  Packed(s, c, n)
<1>0. Len(c.entries) \in Nat /\ n \in Nat
  <2>1. c.entries \in Seq(Entry)
    BY DEF Packed, Consistent, Searches
  <2>2. s.entries \in Seq(Entry)
    BY DEF Searches
  <2> QED
    BY <2>1, <2>2, LenProperties
<1>1. UpTo(s, n) = UpTo(s, n - 1)
  <2>1. \A i \in 1 .. n : ~s.entries[i].isDeleted => i \in 1 .. n - 1
    BY <1>0
  <2>2. 1 .. n - 1 \subseteq 1 .. n
    BY <1>0
  <2>3. \A k \in Key : InUse(s, n, k) = InUse(s, n - 1, k)
    BY <2>1, <2>2, Zenon DEF InUse
  <2> QED
    BY <2>3 DEF UpTo
<1>2. Len(c.entries) <= n /\ Len(c.entries) # n
  BY <1>0 DEF Packed, Shorter
<1>3. Shorter(s, c, n)
  BY <1>2 DEF Shorter
<1> QED
  BY <1>1, <1>3 DEF Packed

(* ... or is in use. *)
LEMMA PackedLive ==
  ASSUME NEW s \in Searches, NEW map, EntriesStored(s, map), NEW c, NEW n \in 1 .. Len(s.entries),
         Packed(s, c, n - 1), ~s.entries[n].isDeleted
  PROVE  Packed(s, Entered(c, s.entries[n].key, s.entries[n].value, s.entries[n].tokens), n)
<1> DEFINE k == s.entries[n].key
           v == s.entries[n].value
           tokens == s.entries[n].tokens
           new == Entered(c, k, v, tokens)
           old == UpTo(s, n - 1)
           now == UpTo(s, n)
<1>0. /\ s.entries \in Seq(Entry) /\ c.entries \in Seq(Entry) /\ c \in Searches /\ Consistent(c)
      /\ n \in Nat /\ n - 1 \in Nat /\ Len(c.entries) \in Nat
  <2>1. s.entries \in Seq(Entry) /\ c.entries \in Seq(Entry) /\ c \in Searches /\ Consistent(c)
    BY DEF Packed, Consistent, Searches
  <2> QED
    BY <2>1, LenProperties
<1>1. k \in Key /\ v \in Value /\ tokens \in Seq(Token)
  <2>1. s.entries[n] \in Entry
    BY <1>0, ElementOfSeq
  <2> QED
    BY <2>1 DEF Entry
<1> HIDE DEF new, tokens
<1>2. ASSUME NEW i \in InUse(s, n - 1, k)
      PROVE  FALSE
  <2>1. i \in 1 .. n - 1 /\ ~s.entries[i].isDeleted /\ s.entries[i].key = k
    BY Zenon DEF InUse
  <2>2. i \in 1 .. Len(s.entries) /\ i # n
    <3>1. Len(s.entries) \in Nat
      BY <1>0, LenProperties
    <3> QED
      BY <1>0, <2>1, <3>1
  <2>3. s.keyToEntry[k] = i
    BY <2>1, <2>2, Zenon DEF EntriesStored
  <2>4. s.keyToEntry[k] = n
    BY DEF EntriesStored
  <2> QED
    BY <2>2, <2>3, <2>4
<1>3. \A i \in 1 .. n : i \in 1 .. n - 1 \/ i = n
  BY <1>0
<1>4. n \in 1 .. n /\ 1 .. n - 1 \subseteq 1 .. n
  BY <1>0
<1> HIDE DEF k, v
<1>5. old[k] = {}
  BY <1>1, <1>2 DEF UpTo
<1>6. Stores(old, now, k, {v})
  <2>1. InUse(s, n, k) = {n}
    <3>1. \A i \in InUse(s, n, k) : i = n
      <4> SUFFICES ASSUME NEW i \in InUse(s, n, k), i # n
                   PROVE  FALSE
        OBVIOUS
      <4>1. i \in 1 .. n - 1 /\ ~s.entries[i].isDeleted /\ s.entries[i].key = k
        BY <1>3, Zenon DEF InUse
      <4>2. i \in InUse(s, n - 1, k)
        BY <4>1, Zenon DEF InUse
      <4> QED
        BY <1>2, <4>2
    <3>2. n \in InUse(s, n, k)
      BY <1>4, Zenon DEF InUse, k
    <3> QED
      BY <3>1, <3>2
  <2>2. now[k] = {v}
    BY <1>1, <2>1 DEF UpTo, v
  <2>3. ASSUME NEW j \in Key, j # k
        PROVE  now[j] = old[j]
    <3>1. s.entries[n].key # j
      BY <2>3 DEF k
    <3>2. InUse(s, n, j) = InUse(s, n - 1, j)
      <4>1. ASSUME NEW i \in InUse(s, n, j)
            PROVE  i \in InUse(s, n - 1, j)
        <5>1. i \in 1 .. n /\ ~s.entries[i].isDeleted /\ s.entries[i].key = j
          BY Zenon DEF InUse
        <5>2. i # n
          BY <3>1, <5>1
        <5>3. i \in 1 .. n - 1
          BY <1>3, <5>1, <5>2
        <5> QED
          BY <5>1, <5>3, Zenon DEF InUse
      <4>2. ASSUME NEW i \in InUse(s, n - 1, j)
            PROVE  i \in InUse(s, n, j)
        <5>1. i \in 1 .. n - 1 /\ ~s.entries[i].isDeleted /\ s.entries[i].key = j
          BY Zenon DEF InUse
        <5>2. i \in 1 .. n
          BY <1>4, <5>1
        <5> QED
          BY <5>1, <5>2, Zenon DEF InUse
      <4> QED
        BY <4>1, <4>2
    <3> QED
      BY <3>2 DEF UpTo
  <2> QED
    BY <2>2, <2>3 DEF Stores
<1> HIDE DEF old, now
<1>7. EntriesStored(c, old) /\ NoneFor(c, old) /\ Found(c, old, Key)
  BY DEF Packed, Matches, old
<1>8. Unused(c, k)
  <2> SUFFICES ASSUME NEW id \in 1 .. Len(c.entries), ~c.entries[id].isDeleted, c.entries[id].key = k
               PROVE  FALSE
    BY Zenon DEF Unused
  <2>1. old[c.entries[id].key] = {c.entries[id].value}
    BY <1>7, Zenon DEF EntriesStored
  <2> QED
    BY <1>5, <2>1
<1>9. Matches(new, now)
  <2>1. Found(c, old, Key \ {k})
    BY <1>7 DEF Found
  <2>2. /\ EntriesStored(new, now)
        /\ NoneFor(new, now)
        /\ Found(new, now, Key)
    BY <1>0, <1>1, <1>6, <1>7, <1>8, <2>1, EnteredMatches DEF new
  <2> QED
    BY <2>2 DEF Matches
<1>10. Consistent(new)
  BY <1>0, <1>1, EnteredConsistent DEF new
<1>11. Shorter(s, new, n)
  <2> DEFINE e == NewEntry(k, v, tokens)
  <2>1. Enters(c, new, e) /\ e.key = k /\ e.value = v
    BY <1>0, <1>1, EnteredIs DEF new, NewEntry
  <2> HIDE DEF e
  <2>2. /\ Len(new.entries) = Len(c.entries) + 1
        /\ \A i \in 1 .. Len(c.entries) : new.entries[i] = c.entries[i]
        /\ new.entries[Len(c.entries) + 1] = e
    BY <2>1 DEF Enters, Extended
  <2>3. Len(c.entries) <= n - 1
    BY DEF Packed, Shorter
  <2>4. Len(new.entries) <= n
    BY <1>0, <2>2, <2>3
  <2>5. ASSUME Len(new.entries) = n, NEW id \in 1 .. n
        PROVE  /\ ~s.entries[id].isDeleted
               /\ new.entries[id].key = s.entries[id].key
               /\ new.entries[id].value = s.entries[id].value
    <3>1. Len(c.entries) = n - 1 /\ (n - 1) + 1 = n
      BY <1>0, <2>2, <2>5
    <3>2. CASE id \in 1 .. n - 1
      <4>1. /\ ~s.entries[id].isDeleted
            /\ c.entries[id].key = s.entries[id].key
            /\ c.entries[id].value = s.entries[id].value
        BY <3>1, <3>2, Zenon DEF Packed, Shorter
      <4>2. new.entries[id] = c.entries[id]
        BY <2>2, <3>1, <3>2
      <4> QED
        BY <4>1, <4>2, Zenon
    <3>3. CASE id = n
      <4>1. new.entries[n] = e
        BY <2>2, <3>1
      <4> QED
        BY <2>1, <3>3, <4>1, Zenon DEF k, v
    <3> QED
      BY <1>3, <3>2, <3>3
  <2> QED
    BY <2>4, <2>5 DEF Shorter
<1>12. Packed(s, new, n)
  BY <1>9, <1>10, <1>11 DEF Packed, now
<1> QED
  BY <1>12 DEF new, k, v, tokens

(* The entries that are not deleted hold just what is stored. *)
LEMMA UpToIs ==
  ASSUME NEW s \in Searches, NEW map, Matches(s, map), NEW k \in Key
  PROVE  UpTo(s, Len(s.entries))[k] = map[k]
<1> DEFINE l == Len(s.entries)
<1>0. EntriesStored(s, map)
  BY DEF Matches
<1>1. ASSUME NEW i \in InUse(s, l, k)
      PROVE  s.keyToEntry[k] = i /\ map[k] = {s.entries[i].value}
  <2>1. i \in 1 .. l /\ ~s.entries[i].isDeleted /\ s.entries[i].key = k
    BY Zenon DEF InUse
  <2> QED
    BY <1>0, <2>1, Zenon DEF EntriesStored
<1>2. UpTo(s, l)[k] = {s.entries[i].value : i \in InUse(s, l, k)}
  BY DEF UpTo
<1>3. CASE map[k] = {}
  <2>1. InUse(s, l, k) = {}
    BY <1>1, <1>3
  <2> QED
    BY <1>2, <1>3, <2>1
<1>4. CASE map[k] # {}
  <2> DEFINE d == s.keyToEntry[k]
  <2>1. d \in 1 .. l /\ s.entries[d].key = k /\ ~s.entries[d].isDeleted
    BY <1>4 DEF Matches, Found
  <2>2. d \in InUse(s, l, k)
    BY <2>1, Zenon DEF InUse
  <2>3. InUse(s, l, k) = {d}
    BY <1>1, <2>2
  <2> QED
    BY <1>1, <1>2, <2>2, <2>3
<1> QED
  BY <1>3, <1>4

(***************************************************************************)
(* compact() leaves an index of the same store, in which nothing is        *)
(* deleted unless ids changed.                                             *)
(***************************************************************************)
LEMMA CompactedIs ==
  ASSUME NEW s \in Searches, NEW map, Matches(s, map)
  PROVE  /\ Consistent(Compacted(s))
         /\ Matches(Compacted(s), map)
         /\ Shorter(s, Compacted(s), Len(s.entries))
<1> DEFINE l == Len(s.entries)
           c == Compacting(s)
           T == {n \in 0 .. l : Packed(s, c[n], n)}
<1>0. l \in Nat
  BY LenProperties DEF Searches
<1>1. EntriesStored(s, map)
  BY DEF Matches
<1>2. /\ c[0] = EmptySearch
      /\ \A n \in 1 .. l :
           c[n] = IF s.entries[n].isDeleted THEN c[n - 1]
                  ELSE Entered(c[n - 1], s.entries[n].key, s.entries[n].value, s.entries[n].tokens)
  BY CompactingIs
<1> HIDE DEF c
<1>3. 0 \in T
  <2> DEFINE e == EmptySearch
  <2>1. Consistent(e) /\ Len(e.entries) = 0 /\ \A k \in Key : e.keyToEntry[k] = NoEntry
    BY EmptyConsistent DEF EmptySearch
  <2> HIDE DEF e
  <2>2. \A k \in Key : UpTo(s, 0)[k] = {}
    <3>1. \A k \in Key : InUse(s, 0, k) = {}
      BY DEF InUse
    <3> QED
      BY <3>1 DEF UpTo
  <2>3. Matches(e, UpTo(s, 0))
    BY <2>1, <2>2 DEF Matches, EntriesStored, NoneFor, Found
  <2>4. Shorter(s, e, 0)
    BY <2>1 DEF Shorter
  <2>5. Packed(s, e, 0)
    BY <2>1, <2>3, <2>4 DEF Packed
  <2> QED
    BY <1>0, <1>2, <2>5 DEF e
<1>4. ASSUME NEW n \in 1 .. l, n - 1 \in T
      PROVE  n \in T
  <2>1. Packed(s, c[n - 1], n - 1) /\ n \in 0 .. l
    BY <1>0, <1>4
  <2>2. CASE s.entries[n].isDeleted
    <3>1. c[n] = c[n - 1]
      BY <1>2, <2>2
    <3>2. Packed(s, c[n - 1], n)
      BY <2>1, <2>2, PackedDeleted
    <3> QED
      BY <2>1, <3>1, <3>2
  <2>3. CASE ~s.entries[n].isDeleted
    <3>1. c[n] = Entered(c[n - 1], s.entries[n].key, s.entries[n].value, s.entries[n].tokens)
      BY <1>2, <2>3
    <3>2. Packed(s, Entered(c[n - 1], s.entries[n].key, s.entries[n].value, s.entries[n].tokens), n)
      BY <1>1, <2>1, <2>3, PackedLive
    <3> QED
      BY <2>1, <3>1, <3>2
  <2> QED
    BY <2>2, <2>3
<1>5. 0 .. l \subseteq T
  <2> HIDE DEF T, l
  <2> QED
    BY <1>0, <1>3, <1>4, CountedInduction
<1>6. Packed(s, Compacted(s), l)
  <2>1. l \in 0 .. l
    BY <1>0
  <2>2. Packed(s, c[l], l)
    BY <1>5, <2>1
  <2> QED
    BY <2>2 DEF Compacted, c
<1>7. \A k \in Key : UpTo(s, l)[k] = map[k]
  BY UpToIs
<1>8. Matches(Compacted(s), map)
  <2> DEFINE n == Compacted(s)
             up == UpTo(s, l)
  <2>1. n.entries \in Seq(Entry)
    BY <1>6 DEF Packed, Consistent, Searches
  <2>2. \A id \in 1 .. Len(n.entries) : n.entries[id].key \in Key
    <3> SUFFICES ASSUME NEW id \in 1 .. Len(n.entries)
                 PROVE  n.entries[id].key \in Key
      OBVIOUS
    <3>1. n.entries[id] \in Entry
      <4> HIDE DEF n
      <4> QED
        BY <2>1, ElementOfSeq
    <3> QED
      BY <3>1 DEF Entry
  <2>3. EntriesStored(n, up) /\ NoneFor(n, up) /\ Found(n, up, Key)
    BY <1>6 DEF Packed, Matches
  <2>4. \A k \in Key : up[k] = map[k]
    BY <1>7
  <2> HIDE DEF n, up
  <2>5. EntriesStored(n, map) /\ NoneFor(n, map) /\ Found(n, map, Key)
    BY <2>2, <2>3, <2>4 DEF EntriesStored, NoneFor, Found
  <2> QED
    BY <2>5 DEF Matches, n
<1> QED
  BY <1>6, <1>8 DEF Packed

LEMMA MatchesInRange ==
  ASSUME NEW s \in Searches, NEW map, Matches(s, map), NEW k \in Key
  PROVE  s.keyToEntry[k] \in 0 .. Len(s.entries)
<1>1. Len(s.entries) \in Nat
  BY LenProperties DEF Searches
<1>2. CASE map[k] = {}
  BY <1>1, <1>2 DEF Matches, NoneFor, NoEntry
<1>3. CASE map[k] # {}
  BY <1>1, <1>3 DEF Matches, Found
<1> QED
  BY <1>2, <1>3

LEMMA ChangedContents ==
  ASSUME NEW map \in Contents, NEW k \in Key, NEW m \in {{}} \cup {{v} : v \in Value}
  PROVE  /\ [map EXCEPT ![k] = m] \in Contents
         /\ Stores(map, [map EXCEPT ![k] = m], k, m)
<1> DEFINE S == {{}} \cup {{v} : v \in Value}
<1>1. map \in [Key -> S] /\ m \in S
  BY DEF Contents
<1> HIDE DEF S
<1>2. [map EXCEPT ![k] = m] \in [Key -> S]
  BY <1>1
<1>3. Stores(map, [map EXCEPT ![k] = m], k, m)
  BY <1>1 DEF Stores
<1> QED
  BY <1>2, <1>3 DEF Contents, S

(* What the structures say of each entry and key is that they find what is stored. *)
LEMMA MatchesFinds ==
  ASSUME NEW s \in Searches, NEW map, Matches(s, map)
  PROVE  FindsStored(s, map)
<1> DEFINE entries == s.entries
           kte == s.keyToEntry
           live == {i \in DOMAIN entries : ~entries[i].isDeleted}
           keys == {j \in Key : map[j] # {}}
           left == {<<entries[id].key, {entries[id].value}, id>> : id \in live}
           right == {<<k, map[k], kte[k]>> : k \in keys}
<1>1. Matches(s, map) /\ entries \in Seq(Entry)
  BY DEF Searches
<1>2. DOMAIN entries = 1 .. Len(entries)
  BY <1>1, LenProperties
<1>3. ASSUME NEW id \in live
      PROVE  /\ entries[id].key \in keys
             /\ kte[entries[id].key] = id
             /\ map[entries[id].key] = {entries[id].value}
  <2>1. id \in 1 .. Len(entries) /\ ~entries[id].isDeleted
    BY <1>2, Zenon
  <2>2. kte[entries[id].key] = id /\ map[entries[id].key] = {entries[id].value}
    BY <1>1, <2>1, Zenon DEF Matches, EntriesStored
  <2>3. entries[id] \in Entry
    <3> HIDE DEF entries, live
    <3> QED
      BY <1>1, <2>1, ElementOfSeq
  <2>4. entries[id].key \in Key
    BY <2>3 DEF Entry
  <2> QED
    BY <2>2, <2>4
<1>4. ASSUME NEW k \in keys
      PROVE  kte[k] \in live /\ entries[kte[k]].key = k
  <2>1. /\ kte[k] \in 1 .. Len(entries)
        /\ entries[kte[k]].key = k
        /\ ~entries[kte[k]].isDeleted
    BY <1>1 DEF Matches, Found
  <2> QED
    BY <1>2, <2>1, Zenon
<1>5. left = right
  <2> HIDE DEF entries, kte, live, keys
  <2>1. ASSUME NEW id \in live
        PROVE  <<entries[id].key, {entries[id].value}, id>> \in right
    BY <1>3
  <2>2. ASSUME NEW k \in keys
        PROVE  <<k, map[k], kte[k]>> \in left
    <3> DEFINE id == kte[k]
    <3>1. id \in live /\ entries[id].key = k
      BY <1>4
    <3>2. map[entries[id].key] = {entries[id].value}
      BY <1>3, <3>1
    <3>3. <<k, map[k], kte[k]>> = <<entries[id].key, {entries[id].value}, id>>
      BY <3>1, <3>2
    <3> QED
      BY <3>1, <3>3
  <2> QED
    BY <2>1, <2>2
<1>6. \A k \in Key : map[k] = {} => kte[k] = NoEntry
  BY <1>1 DEF Matches, NoneFor
<1> QED
  BY <1>5, <1>6 DEF FindsStored

(* Consistent, as the postings and the entries show it. *)
LEMMA ConsistentPostings ==
  ASSUME NEW s, Consistent(s)
  PROVE  PostingsMatch(s)
<1> DEFINE entries == s.entries
           With(t) == {d \in DOMAIN entries : t \in Range(entries[d].tokens)}
           Names(t, id) == [entryId |-> id, frequency |-> Frequency(entries[id].tokens, t)]
<1>1. Consistent(s) /\ entries \in Seq(Entry) /\ s.postings \in [Token -> Seq(Posting)]
  BY DEF Consistent, Searches
<1>2. DOMAIN entries = 1 .. Len(entries)
  BY <1>1, LenProperties
<1>3. ASSUME NEW t \in Token
      PROVE  LET list == s.postings[t]
             IN  /\ \A i, j \in DOMAIN list : i < j => list[i].entryId < list[j].entryId
                 /\ Range(list) = {Names(t, id) : id \in With(t)}
  <2> DEFINE list == s.postings[t]
  <2>1. list \in Seq(Posting) /\ Listed(list, entries, t)
    BY <1>1 DEF Consistent
  <2> HIDE DEF entries, list
  <2>2. DOMAIN list = 1 .. Len(list)
    BY <2>1, LenProperties
  <2>3. ASSUME NEW id \in 1 .. Len(entries)
        PROVE  Frequency(entries[id].tokens, t) # 0 <=> t \in Range(entries[id].tokens)
    <3>1. entries[id] \in Entry
      BY <1>1, ElementOfSeq
    <3>2. entries[id].tokens \in Seq(Token)
      BY <3>1 DEF Entry
    <3> QED
      BY <3>2, FrequencyCounts
  <2>4. ASSUME NEW i \in 1 .. Len(list)
        PROVE  list[i] \in {Names(t, id) : id \in With(t)}
    <3> DEFINE id == list[i].entryId
    <3>1. /\ id \in 1 .. Len(entries)
          /\ Frequency(entries[id].tokens, t) # 0
          /\ list[i].frequency = Frequency(entries[id].tokens, t)
      BY <2>1 DEF Listed
    <3>2. list[i] \in Posting
      BY <2>1, ElementOfSeq
    <3>3. list[i] = [entryId |-> id, frequency |-> list[i].frequency]
      BY <3>2 DEF Posting
    <3>4. id \in With(t)
      <4> HIDE DEF id
      <4> QED
        BY <1>2, <2>3, <3>1
    <3>5. list[i] = Names(t, id)
      BY <3>1, <3>3
    <3> HIDE DEF id, Names, With
    <3> QED
      BY <3>4, <3>5
  <2>5. ASSUME NEW id \in With(t)
        PROVE  \E i \in 1 .. Len(list) : list[i] = Names(t, id)
    <3>1. id \in 1 .. Len(entries) /\ Frequency(entries[id].tokens, t) # 0
      BY <1>2, <2>3
    <3>2. PICK i \in 1 .. Len(list) : list[i].entryId = id
      BY <2>1, <3>1 DEF Listed
    <3>3. list[i].frequency = Frequency(entries[id].tokens, t)
      BY <2>1, <3>2 DEF Listed
    <3>4. list[i] \in Posting
      BY <2>1, ElementOfSeq
    <3>5. list[i] = [entryId |-> list[i].entryId, frequency |-> list[i].frequency]
      BY <3>4 DEF Posting
    <3> QED
      BY <3>2, <3>3, <3>5
  <2>6. Range(list) = {Names(t, id) : id \in With(t)}
    <3> HIDE DEF Names, With
    <3> QED
      BY <2>2, <2>4, <2>5 DEF Range
  <2>7. \A i, j \in DOMAIN list : i < j => list[i].entryId < list[j].entryId
    BY <2>1, <2>2 DEF Listed
  <2> QED
    BY <2>6, <2>7 DEF list
<1>4. s.totalTokens = TokensUpTo(s.entries)[Len(s.entries)]
  BY <1>1 DEF Consistent
<1> QED
  BY <1>3, <1>4 DEF PostingsMatch

(* Unless there are fewer entries, each is the one it was. *)
SameIds(s, n) ==
  Len(n.entries) >= Len(s.entries) =>
    \A id \in 1 .. Len(s.entries) :
      /\ n.entries[id].key = s.entries[id].key
      /\ n.entries[id].value = s.entries[id].value
      /\ s.entries[id].isDeleted => n.entries[id].isDeleted

LEMMA CompactedSameIds ==
  ASSUME NEW s \in Searches, NEW n \in Searches, NEW map, Matches(n, map),
         Kept(s, n), \A id \in 1 .. Len(s.entries) : s.entries[id].isDeleted => n.entries[id].isDeleted
  PROVE  SameIds(s, Compacted(n))
<1> DEFINE c == Compacted(n)
<1>1. Shorter(n, c, Len(n.entries)) /\ Consistent(c)
  BY CompactedIs
<1> HIDE DEF c
<1>2. Len(c.entries) \in Nat /\ Len(n.entries) \in Nat /\ Len(n.entries) = Len(s.entries)
  <2>1. c.entries \in Seq(Entry) /\ n.entries \in Seq(Entry) /\ Len(n.entries) = Len(s.entries)
    BY <1>1 DEF Consistent, Searches, Kept
  <2> QED
    BY <2>1, LenProperties
<1>3. ASSUME Len(c.entries) >= Len(s.entries), NEW id \in 1 .. Len(s.entries)
      PROVE  /\ c.entries[id].key = s.entries[id].key
             /\ c.entries[id].value = s.entries[id].value
             /\ s.entries[id].isDeleted => c.entries[id].isDeleted
  <2>1. Len(c.entries) = Len(n.entries)
    BY <1>1, <1>2, <1>3 DEF Shorter
  <2>2. /\ ~n.entries[id].isDeleted
        /\ c.entries[id].key = n.entries[id].key
        /\ c.entries[id].value = n.entries[id].value
    BY <1>1, <1>2, <2>1, Zenon DEF Shorter
  <2>3. ~s.entries[id].isDeleted
    BY <2>2, Zenon
  <2> QED
    BY <2>2, <2>3, Zenon DEF Kept
<1> QED
  BY <1>3 DEF SameIds, c

=============================================================================
