------------------------- MODULE CognexFormats_proofs ------------------------
(***************************************************************************)
(* Proofs about CognexFormats: a log is read up to where it was cut, an    *)
(* offset leads to its record, the tokens of a text are its words, a       *)
(* snapshot gives back what it was written from, the quoted parts of a     *)
(* command line are its arguments, an option of QUERY is read as it is     *)
(* written, and a negative number as a large one.                          *)
(***************************************************************************)
EXTENDS CognexFormats, CognexText_proofs

(* What holds of the empty sequence, and of a sequence with one element more. *)
LEMMA SequenceInduction ==
  ASSUME NEW S, NEW T, <<>> \in T,
         \A s \in Seq(S), e \in S : s \in T => Append(s, e) \in T
  PROVE  Seq(S) \subseteq T
<1> SUFFICES ASSUME NEW seq \in Seq(S)
             PROVE  seq \in T
  OBVIOUS
<1> DEFINE n == Len(seq)
           P == {i \in 0 .. n : SubSeq(seq, 1, i) \in T}
<1>1. n \in Nat
  OBVIOUS
<1>2. 0 \in P
  <2>1. SubSeq(seq, 1, 0) = <<>>
    BY SubSeqEmpty
  <2>2. SubSeq(seq, 1, 0) \in T
    BY <2>1, Zenon
  <2>3. 0 \in 0 .. n
    BY <1>1
  <2> QED
    BY <2>2, <2>3
<1>3. ASSUME NEW i \in 1 .. n, i - 1 \in P
      PROVE  i \in P
  <2> DEFINE s == SubSeq(seq, 1, i - 1)
  <2>1. SubSeq(seq, 1, i) = s \o <<seq[i]>>
    BY SubSeqRecursiveSecond
  <2>2. s \in Seq(S) /\ seq[i] \in S /\ s \in T
    BY <1>3
  <2>3. SubSeq(seq, 1, i) = Append(s, seq[i])
    <3> HIDE DEF s
    <3> QED
      BY <2>1, <2>2, AppendIsConcat
  <2>4. SubSeq(seq, 1, i) \in T
    BY <2>2, <2>3
  <2> QED
    BY <1>1, <2>4
<1>4. n \in P
  <2> HIDE DEF P, n
  <2> QED
    BY <1>1, <1>2, <1>3, CountedInduction
<1> QED
  BY <1>4, SubSeqFull, ZenonT(60)

(* The sequences that have been put together when i of them have been. *)
Flattened(g, seqs, S) ==
  /\ g \in [0 .. Len(seqs) -> Seq(S)]
  /\ g[0] = <<>>
  /\ \A i \in 1 .. Len(seqs) : g[i] = g[i - 1] \o seqs[i]
  /\ FlattenSeq(seqs) = g[Len(seqs)]

LEMMA FlattenIs ==
  ASSUME NEW S, NEW seqs \in Seq(Seq(S))
  PROVE  \E g : Flattened(g, seqs, S)
<1> DEFINE n == Len(seqs)
           U == Seq(S)
           Def(f, i) == IF i = 1 THEN seqs[i] ELSE f[i - 1] \o seqs[i]
           flatten == CHOOSE f : f = [i \in 1 .. n |-> Def(f, i)]
           step == [i \in 1 .. n |-> [s \in U |-> s \o seqs[i]]]
           first == <<>>
<1>0. n \in Nat /\ first \in U /\ seqs \in [1 .. n -> U]
  OBVIOUS
<1>1. \A s, t \in U : s \o t \in U
  BY ConcatProperties
<1>2. \A s \in U : <<>> \o s = s
  BY ConcatEmptySeq
<1>3. FlattenSeq(seqs) = IF n = 0 THEN <<>> ELSE flatten[n]
  <2>1. n = 0 => seqs = <<>>
    OBVIOUS
  <2> QED
    BY <2>1 DEF FlattenSeq
<1> HIDE DEF U, n
<1>4. Counted(n, U, first, step)
  BY <1>0, <1>1 DEF Counted
<1>5. PICK g \in [0 .. n -> U] :
        \A i \in 0 .. n : g[i] = IF i = 0 THEN first ELSE step[i][g[i - 1]]
  <2> HIDE DEF step, first
  <2> QED
    BY <1>4, CountedRecursion
<1>6. g[0] = <<>>
  <2> HIDE DEF step
  <2>1. 0 \in 0 .. n
    BY <1>0
  <2> QED
    BY <1>5, <2>1
<1>7. ASSUME NEW i \in 1 .. n
      PROVE  g[i] = g[i - 1] \o seqs[i]
  <2>1. i \in 0 .. n /\ i # 0 /\ i - 1 \in 0 .. n
    BY <1>0
  <2>2. g[i] = step[i][g[i - 1]] /\ g[i - 1] \in U
    BY <1>5, <2>1
  <2> QED
    BY <2>2
<1>8. FlattenSeq(seqs) = g[n]
  <2>1. CASE n = 0
    BY <1>3, <1>6, <2>1
  <2>2. CASE n # 0
    <3> DEFINE h == [i \in 1 .. n |-> g[i]]
    <3>1. ASSUME NEW i \in 1 .. n
          PROVE  h[i] = Def(h, i)
      <4>1. CASE i = 1
        <5>1. g[i] = g[0] \o seqs[i] /\ seqs[i] \in U
          BY <1>0, <1>7, <4>1
        <5> QED
          BY <1>2, <1>6, <4>1, <5>1
      <4>2. CASE i # 1
        <5>1. i - 1 \in 1 .. n
          BY <1>0, <4>2
        <5> QED
          BY <1>7, <4>2, <5>1
      <4> QED
        BY <4>1, <4>2
    <3>2. h = [i \in 1 .. n |-> Def(h, i)]
      BY <3>1
    <3> HIDE DEF Def
    <3>3. flatten = [i \in 1 .. n |-> Def(flatten, i)]
      <4> HIDE DEF h
      <4> QED
        BY <3>2
    <3> HIDE DEF flatten
    <3>4. \A i \in 1 .. n : flatten[i] = Def(flatten, i)
      BY <3>3
    <3> DEFINE D == 1 .. n
               rank == [i \in D |-> i]
               T == {i \in D : flatten[i] = h[i]}
    <3>5. ASSUME NEW i \in D, \A j \in D : rank[j] < rank[i] => j \in T
          PROVE  i \in T
      <4>1. CASE i = 1
        BY <3>1, <3>4, <4>1 DEF Def
      <4>2. CASE i # 1
        <5>1. i - 1 \in D /\ rank[i - 1] < rank[i]
          BY <1>0, <4>2
        <5>2. flatten[i - 1] = h[i - 1]
          <6> HIDE DEF D, rank, h
          <6> QED
            BY <3>5, <5>1
        <5> QED
          BY <3>1, <3>4, <4>2, <5>2 DEF Def
      <4> QED
        BY <4>1, <4>2
    <3>6. n \in Nat /\ rank \in [D -> 0 .. n]
      BY <1>0
    <3>7. D \subseteq T
      <4> HIDE DEF D, rank, T
      <4> QED
        BY <3>5, <3>6, RankInduction, SMTT(60)
    <3>8. n \in D
      BY <1>0, <2>2
    <3> QED
      BY <1>3, <2>2, <3>7, <3>8
  <2> QED
    BY <2>1, <2>2
<1>9. Flattened(g, seqs, S)
  <2> HIDE DEF step, first
  <2> QED
    BY <1>5, <1>6, <1>7, <1>8 DEF Flattened, n, U
<1> QED
  BY <1>9

LEMMA FlattenAppend ==
  ASSUME NEW S, NEW seqs \in Seq(Seq(S)), NEW s \in Seq(S)
  PROVE  /\ FlattenSeq(seqs) \in Seq(S)
         /\ FlattenSeq(Append(seqs, s)) = FlattenSeq(seqs) \o s
<1> DEFINE n == Len(seqs)
           longer == Append(seqs, s)
<1>1. /\ n \in Nat /\ longer \in Seq(Seq(S)) /\ Len(longer) = n + 1
      /\ \A i \in 1 .. n : longer[i] = seqs[i]
      /\ longer[n + 1] = s
  BY AppendLog
<1> HIDE DEF longer
<1>2. PICK g : Flattened(g, seqs, S)
  BY FlattenIs
<1>3. PICK h : Flattened(h, longer, S)
  BY <1>1, FlattenIs
<1> DEFINE T == {i \in 0 .. n : h[i] = g[i]}
<1>4. 0 \in T
  BY <1>1, <1>2, <1>3 DEF Flattened
<1>5. ASSUME NEW i \in 1 .. n, i - 1 \in T
      PROVE  i \in T
  <2>1. i \in 1 .. Len(longer) /\ i \in 0 .. n
    BY <1>1
  <2>2. h[i] = h[i - 1] \o longer[i] /\ g[i] = g[i - 1] \o seqs[i]
    BY <1>2, <1>3, <2>1 DEF Flattened
  <2> QED
    BY <1>1, <1>5, <2>1, <2>2
<1>6. 0 .. n \subseteq T
  <2> HIDE DEF T, n
  <2> QED
    BY <1>1, <1>4, <1>5, CountedInduction
<1>7. h[n] = g[n] /\ n \in 0 .. n
  BY <1>1, <1>6
<1>8. h[n + 1] = h[n] \o s
  <2>1. n + 1 \in 1 .. Len(longer) /\ (n + 1) - 1 = n
    BY <1>1
  <2> QED
    BY <1>1, <1>3, <2>1 DEF Flattened
<1>9. FlattenSeq(longer) = h[n + 1] /\ FlattenSeq(seqs) = g[n]
  BY <1>1, <1>2, <1>3 DEF Flattened
<1>10. g[n] \in Seq(S)
  <2> DEFINE U == Seq(S)
  <2>1. g \in [0 .. n -> U]
    BY <1>2 DEF Flattened
  <2> HIDE DEF U, n
  <2> QED
    BY <1>7, <2>1 DEF U
<1> QED
  BY <1>7, <1>8, <1>9, <1>10 DEF longer

-----------------------------------------------------------------------------
(* Bytes *)

(* Text and size fields. *)
PlainByte == Symbol \cup Range(Digits)

(* No bytes have the checksum of others, or text for a checksum. *)
Ideal(Byte) ==
  /\ PlainByte \subseteq Byte
  /\ Crc(<<>>) = "0"
  /\ \A s \in Seq(Byte) : Crc(s) \in Byte /\ (s # <<>> => Crc(s) \notin PlainByte)
  /\ \A s, t \in Seq(Byte) : Crc(s) = Crc(t) => s = t

LEMMA DigitsAre ==
  /\ Digits[1] = "0"
  /\ \A d \in 0 .. 9 : /\ Digits[d + 1] \in Range(Digits)
                       /\ Digit(Digits[d + 1]) = d
                       /\ Digits[d + 1] = "0" => d = 0
  /\ \A c \in Range(Digits) : Digit(c) \in 0 .. 9 /\ Digits[Digit(c) + 1] = c
<1>1. DOMAIN Digits = 1 .. 10
  BY DEF Digits
<1>2. \A d \in 0 .. 9 : Digits[d + 1] \in Range(Digits)
  BY <1>1 DEF Range
<1>3. \A d, e \in 0 .. 9 : Digits[d + 1] = Digits[e + 1] => d = e
  <2>1. ASSUME NEW d \in 0 .. 9, NEW e \in 0 .. 9, Digits[d + 1] = Digits[e + 1]
        PROVE  d = e
    <3>1. \/ d = 0 \/ d = 1 \/ d = 2 \/ d = 3 \/ d = 4
          \/ d = 5 \/ d = 6 \/ d = 7 \/ d = 8 \/ d = 9
      OBVIOUS
    <3>2. \/ e = 0 \/ e = 1 \/ e = 2 \/ e = 3 \/ e = 4
          \/ e = 5 \/ e = 6 \/ e = 7 \/ e = 8 \/ e = 9
      OBVIOUS
    <3> QED
      BY <2>1, <3>1, <3>2 DEF Digits
  <2> QED
    BY <2>1
<1>4. \A d \in 0 .. 9 : Digit(Digits[d + 1]) = d
  BY <1>3 DEF Digit
<1>5. Digits[1] = "0"
  BY DEF Digits
<1>6. \A d \in 0 .. 9 : Digits[d + 1] = "0" => d = 0
  BY <1>3, <1>5
<1>7. ASSUME NEW c \in Range(Digits)
      PROVE  Digit(c) \in 0 .. 9 /\ Digits[Digit(c) + 1] = c
  <2>1. PICK i \in 1 .. 10 : c = Digits[i]
    BY <1>1 DEF Range
  <2>2. i - 1 \in 0 .. 9 /\ (i - 1) + 1 = i
    OBVIOUS
  <2> QED
    BY <1>4, <2>1, <2>2
<1> QED
  BY <1>2, <1>4, <1>5, <1>6, <1>7

(* A size field holds a size below 100. *)
LEMMA SizeFieldIs ==
  ASSUME NEW n \in 0 .. 99
  PROVE  /\ SizeField(n)[1] \in Range(Digits) /\ SizeField(n)[2] \in Range(Digits)
         /\ Digit(SizeField(n)[1]) + 10 * Digit(SizeField(n)[2]) = n
         /\ SizeField(n)[1] = "0" /\ SizeField(n)[2] = "0" => n = 0
         /\ Len(SizeField(n)) = 2
         /\ SizeField(n) \in Seq(Range(Digits))
<1> DEFINE low == n % 10   high == (n \div 10) % 10
<1>1. low \in 0 .. 9 /\ high \in 0 .. 9 /\ low + 10 * high = n
  OBVIOUS
<1>2. SizeField(n) = <<Digits[low + 1], Digits[high + 1]>>
  BY DEF SizeField
<1> HIDE DEF low, high
<1>3. SizeField(n)[1] = Digits[low + 1] /\ SizeField(n)[2] = Digits[high + 1]
  BY <1>2
<1>4. SizeField(n)[1] \in Range(Digits) /\ SizeField(n)[2] \in Range(Digits)
  BY <1>1, <1>3, DigitsAre
<1>5. Digit(SizeField(n)[1]) = low /\ Digit(SizeField(n)[2]) = high
  BY <1>1, <1>3, DigitsAre
<1>6. ASSUME SizeField(n)[1] = "0", SizeField(n)[2] = "0"
      PROVE  n = 0
  <2>1. low = 0 /\ high = 0
    BY <1>1, <1>3, <1>6, DigitsAre
  <2> QED
    BY <1>1, <2>1
<1>7. Len(SizeField(n)) = 2 /\ SizeField(n) \in Seq(Range(Digits))
  BY <1>2, <1>3, <1>4
<1> QED
  BY <1>1, <1>4, <1>5, <1>6, <1>7

(* A byte that is read as a digit of a size. *)
ByteValue(c) == IF c \in Range(Digits) THEN Digit(c) ELSE 9

LEMMA ByteValueIs ==
  ASSUME NEW c
  PROVE  /\ ByteValue(c) \in 0 .. 9
         /\ ByteValue(c) = 0 => c = "0"
         /\ ByteValue("0") = 0
<1>1. c \in Range(Digits) => Digit(c) \in 0 .. 9 /\ Digits[Digit(c) + 1] = c
  BY DigitsAre
<1>2. "0" \in Range(Digits) /\ Digit("0") = 0
  BY DigitsAre, 0 \in 0 .. 9, 0 + 1 = 1
<1>3. Digits[1] = "0"
  BY DigitsAre
<1> QED
  BY <1>1, <1>2, <1>3 DEF ByteValue

LEMMA SizeAtIs ==
  ASSUME NEW file, NEW pos
  PROVE  /\ SizeAt(file, pos) = ByteValue(file[pos]) + 10 * ByteValue(file[pos + 1])
         /\ SizeAt(file, pos) \in 0 .. 99
         /\ SizeAt(file, pos) = 0 => file[pos] = "0" /\ file[pos + 1] = "0"
<1>1. SizeAt(file, pos) = ByteValue(file[pos]) + 10 * ByteValue(file[pos + 1])
  BY DEF SizeAt, ByteValue
<1>2. /\ ByteValue(file[pos]) \in 0 .. 9
      /\ ByteValue(file[pos + 1]) \in 0 .. 9
      /\ ByteValue(file[pos]) = 0 => file[pos] = "0"
      /\ ByteValue(file[pos + 1]) = 0 => file[pos + 1] = "0"
  BY ByteValueIs
<1> QED
  BY <1>1, <1>2

(* Where a size was written, it is read. *)
LEMMA SizeRead ==
  ASSUME NEW file, NEW pos, NEW n \in 0 .. 99,
         file[pos] = SizeField(n)[1], file[pos + 1] = SizeField(n)[2]
  PROVE  SizeAt(file, pos) = n
<1>1. SizeAt(file, pos) = ByteValue(file[pos]) + 10 * ByteValue(file[pos + 1])
  BY SizeAtIs
<1>2. /\ file[pos] \in Range(Digits) /\ file[pos + 1] \in Range(Digits)
      /\ Digit(file[pos]) + 10 * Digit(file[pos + 1]) = n
  BY SizeFieldIs
<1> QED
  BY <1>1, <1>2 DEF ByteValue

(* What stands where the record at pos would be. *)
Held(file, pos) == SubSeq(file, pos + 2, pos + SizeAt(file, pos) + 1)

LEMMA HeldIs ==
  ASSUME NEW Byte, NEW file \in Seq(Byte), NEW pos \in Nat \ {0},
         pos + SizeAt(file, pos) + 2 <= Len(file)
  PROVE  /\ Held(file, pos) \in Seq(Byte)
         /\ Len(Held(file, pos)) = SizeAt(file, pos)
         /\ \A i \in 1 .. SizeAt(file, pos) : Held(file, pos)[i] = file[pos + 1 + i]
<1> DEFINE n == SizeAt(file, pos)
           m == pos + 2
           e == pos + n + 1
           L == Len(file)
<1>1. n \in 0 .. 99 /\ L \in Nat /\ pos + n + 2 <= L
  BY SizeAtIs
<1> HIDE DEF n, L
<1>2. /\ m \in Int /\ e \in Int
      /\ e - m + 1 = n /\ (IF m <= e THEN e - m + 1 ELSE 0) = n
      /\ \A i \in 1 .. n : m + i - 1 = pos + 1 + i
  BY <1>1
<1>6. \A i \in m .. e : file[i] \in Byte
  <2>1. \A i \in m .. e : i \in 1 .. L
    BY <1>1
  <2> HIDE DEF m, e
  <2> QED
    BY <2>1 DEF L
<1>3. Held(file, pos) = SubSeq(file, m, e)
  BY DEF Held, n
<1> HIDE DEF m, e
<1>4. /\ SubSeq(file, m, e) \in Seq(Byte)
      /\ Len(SubSeq(file, m, e)) = IF m <= e THEN e - m + 1 ELSE 0
      /\ \A i \in 1 .. e - m + 1 : SubSeq(file, m, e)[i] = file[m + i - 1]
  BY <1>2, <1>6, SubSeqProperties
<1>5. Len(SubSeq(file, m, e)) = n
  BY <1>1, <1>2, <1>4
<1> QED
  BY <1>2, <1>3, <1>4, <1>5 DEF n

LEMMA RecordAtIs ==
  ASSUME NEW Byte, NEW file \in Seq(Byte), NEW pos \in Nat \ {0}
  PROVE  RecordAt(file, pos) =
           IF /\ pos + SizeAt(file, pos) + 2 <= Len(file)
              /\ file[pos + SizeAt(file, pos) + 2] = Crc(Held(file, pos))
             THEN {Held(file, pos)} ELSE {}
<1> DEFINE n == SizeAt(file, pos)
           q == Held(file, pos)
           L == Len(file)
           Fits == pos + n + 2 <= L
<1>1. n \in 0 .. 99 /\ L \in Nat
  BY SizeAtIs
<1>2. RecordAt(file, pos) =
        {r \in ReadAll(file, pos + 2, n) :
           /\ ReadAll(file, pos, 2) # {}
           /\ ReadAll(file, pos + 2 + Len(r), 1) = {<<Crc(r)>>}}
  BY DEF RecordAt
<1>6. n = SizeAt(file, pos) /\ L = Len(file) /\ q = Held(file, pos)
  OBVIOUS
<1> HIDE DEF n, L
<1>3. ReadAll(file, pos + 2, n) = IF (pos + 2) + n - 1 > L THEN {} ELSE {q}
  <2>1. (pos + 2) + n - 1 = pos + n + 1
    BY <1>1
  <2> QED
    BY <1>6, <2>1 DEF ReadAll, Held, L
<1>4. CASE Fits
  <2>1. ReadAll(file, pos, 2) # {}
    <3>1. ~(pos + 2 - 1 > L)
      BY <1>1, <1>4
    <3> QED
      BY <3>1 DEF ReadAll, L
  <2>2. ReadAll(file, pos + 2, n) = {q}
    <3>1. ~((pos + 2) + n - 1 > L)
      BY <1>1, <1>4
    <3> QED
      BY <1>3, <3>1
  <2>3. Len(q) = n
    BY <1>4, <1>6, HeldIs
  <2>4. ReadAll(file, pos + 2 + n, 1) = {<<file[pos + n + 2]>>}
    <3> DEFINE p == pos + 2 + n
    <3>1. p + 1 - 1 = p /\ p = pos + n + 2 /\ p \in 1 .. L /\ ~(p > L)
      BY <1>1, <1>4
    <3>2. SubSeq(file, p, p) = <<file[p]>>
      <4> DEFINE s == SubSeq(file, p, p)
      <4>1. p \in Int /\ p - p + 1 = 1 /\ p + 1 - 1 = p /\ p <= p
        BY <3>1
      <4>4. \A i \in p .. p : file[i] \in Byte
        <5>1. \A i \in p .. p : i = p
          BY <3>1
        <5>2. file[p] \in Byte
          <6> HIDE DEF p
          <6> QED
            BY <3>1 DEF L
        <5> HIDE DEF p
        <5> QED
          BY <5>1, <5>2
      <4> HIDE DEF p
      <4>2. s \in Seq(Byte) /\ Len(s) = 1 /\ s[1] = file[p]
        BY <4>1, <4>4, SubSeqProperties
      <4> HIDE DEF s
      <4>3. s = <<s[1]>>
        BY <4>2
      <4> QED
        BY <4>2, <4>3 DEF s
    <3> HIDE DEF p
    <3>3. ReadAll(file, p, 1) = {SubSeq(file, p, p)}
      BY <3>1 DEF ReadAll, L
    <3> QED
      BY <3>1, <3>2, <3>3 DEF p
  <2> DEFINE c == file[pos + n + 2]
             d == Crc(q)
  <2>5. RecordAt(file, pos) = {r \in {q} : {<<c>>} = {<<Crc(r)>>}}
    <3>1. RecordAt(file, pos) =
            {r \in {q} : ReadAll(file, pos + 2 + Len(r), 1) = {<<Crc(r)>>}}
      BY <1>2, <2>1, <2>2
    <3> HIDE DEF q, n, c
    <3> QED
      BY <2>3, <2>4, <3>1 DEF c
  <2>6. {<<c>>} = {<<d>>} <=> c = d
    <3> HIDE DEF c, d
    <3>1. <<c>> = <<d>> <=> c = d
      OBVIOUS
    <3> QED
      BY <3>1
  <2>7. RecordAt(file, pos) = IF c = d THEN {q} ELSE {}
    <3> HIDE DEF c, q
    <3> QED
      BY <2>5, <2>6
  <2> HIDE DEF q
  <2> QED
    BY <1>4, <1>6, <2>7 DEF q
<1>5. CASE ~Fits
  <2>1. ASSUME ReadAll(file, pos + 2, n) # {}
        PROVE  ReadAll(file, pos + 2 + Len(q), 1) = {}
    <3>1. ~((pos + 2) + n - 1 > L) /\ pos + n + 1 = L
      BY <1>1, <1>3, <1>5, <2>1
    <3>2. Len(q) = n
      <4> DEFINE m == pos + 2   e == pos + n + 1
      <4>1. m \in Int /\ e \in Int /\ (IF m <= e THEN e - m + 1 ELSE 0) = n
            /\ \A i \in m .. e : i \in 1 .. L
        BY <1>1, <3>1
      <4>2. q = SubSeq(file, m, e)
        BY <1>6 DEF Held
      <4>3. \A i \in m .. e : file[i] \in Byte
        <5> HIDE DEF m, e
        <5> QED
          BY <4>1 DEF L
      <4> HIDE DEF q, n, m, e
      <4> QED
        BY <4>1, <4>2, <4>3, SubSeqProperties
    <3>3. (pos + 2 + n) + 1 - 1 > L
      BY <1>1, <3>1
    <3> HIDE DEF q
    <3> QED
      BY <3>2, <3>3 DEF ReadAll, L
  <2>2. {<<Crc(q)>>} # {}
    OBVIOUS
  <2>3. RecordAt(file, pos) = {}
    <3>1. ReadAll(file, pos + 2, n) \subseteq {q}
      BY <1>3
    <3> HIDE DEF n, q
    <3> QED
      BY <1>2, <2>1, <2>2, <3>1
  <2> QED
    BY <1>5, <1>6, <2>3
<1> QED
  BY <1>4, <1>5

(* What a frame has at its places. *)
Framed(frame, r) ==
  /\ Len(frame) = Len(r) + 3
  /\ frame[1] = SizeField(Len(r))[1] /\ frame[2] = SizeField(Len(r))[2]
  /\ \A i \in 1 .. Len(r) : frame[2 + i] = r[i]
  /\ frame[Len(r) + 3] = Crc(r)

LEMMA ShortLength ==
  ASSUME NEW S, NEW s \in Seq(S), Len(s) <= 99
  PROVE  Len(s) \in Nat /\ Len(s) \in 0 .. 99
<1> DEFINE n == Len(s)
<1>1. n \in Nat
  BY LenProperties
<1>2. n <= 99
  OBVIOUS
<1> HIDE DEF n
<1>3. n \in 0 .. 99
  BY <1>1, <1>2
<1> QED
  BY <1>1, <1>3 DEF n

LEMMA LogFrameIs ==
  ASSUME NEW Byte, Ideal(Byte), NEW r \in Seq(Byte), Len(r) <= 99
  PROVE  LogFrame(r) \in Seq(Byte) /\ Framed(LogFrame(r), r)
<1> DEFINE n == Len(r)
           a == SizeField(n)
           c == <<Crc(r)>>
           U == Seq(Byte)
<1>1. n \in Nat /\ n \in 0 .. 99
  BY ShortLength
<1>2. a \in U /\ Len(a) = 2
  <2>1. a \in Seq(Range(Digits)) /\ Len(a) = 2
    <3> HIDE DEF n
    <3> QED
      BY <1>1, SizeFieldIs
  <2>2. Range(Digits) \subseteq Byte
    BY DEF Ideal, PlainByte
  <2> HIDE DEF a
  <2> QED
    BY <2>1, <2>2, SeqMonotonic
<1>3. c \in U /\ Len(c) = 1 /\ c[1] = Crc(r)
  <2>1. Crc(r) \in Byte
    BY DEF Ideal
  <2> DEFINE d == Crc(r)
  <2> HIDE DEF d
  <2>2. <<d>> \in Seq(Byte) /\ Len(<<d>>) = 1 /\ <<d>>[1] = d
    BY <2>1 DEF d
  <2> QED
    BY <2>2 DEF d
<1>4. LogFrame(r) = (a \o r) \o c
  BY DEF LogFrame
<1> HIDE DEF a, c, U
<1>5. /\ a \o r \in U /\ Len(a \o r) = 2 + n
      /\ \A i \in 1 .. 2 + n : (a \o r)[i] = IF i <= 2 THEN a[i] ELSE r[i - 2]
  <2>1. a \in Seq(Byte) /\ r \in Seq(Byte)
    BY <1>2 DEF U
  <2>2. /\ a \o r \in Seq(Byte) /\ Len(a \o r) = Len(a) + Len(r)
        /\ \A i \in 1 .. Len(a) + Len(r) :
             (a \o r)[i] = IF i <= Len(a) THEN a[i] ELSE r[i - Len(a)]
    BY <2>1, ConcatProperties
  <2> QED
    BY <1>2, <2>2, Zenon DEF U
<1> DEFINE b == a \o r
<1> HIDE DEF b
<1>6. /\ b \o c \in U /\ Len(b \o c) = (2 + n) + 1
      /\ \A i \in 1 .. (2 + n) + 1 : (b \o c)[i] = IF i <= 2 + n THEN b[i] ELSE c[i - (2 + n)]
  <2>0. Len(b) = 2 + n /\ Len(c) = 1
    BY <1>3, <1>5 DEF b
  <2>1. b \in Seq(Byte) /\ c \in Seq(Byte)
    BY <1>3, <1>5 DEF U, b
  <2>2. /\ b \o c \in Seq(Byte) /\ Len(b \o c) = Len(b) + Len(c)
        /\ \A i \in 1 .. Len(b) + Len(c) :
             (b \o c)[i] = IF i <= Len(b) THEN b[i] ELSE c[i - Len(b)]
    BY <2>1, ConcatProperties
  <2> DEFINE m == 2 + n
  <2>3. /\ b \o c \in Seq(Byte) /\ Len(b \o c) = m + 1
        /\ \A i \in 1 .. m + 1 : (b \o c)[i] = IF i <= m THEN b[i] ELSE c[i - m]
    <3>1. Len(b) = m /\ Len(c) = 1
      BY <2>0
    <3> HIDE DEF m
    <3> QED
      BY <2>2, <3>1
  <2> QED
    BY <2>3 DEF U
<1> DEFINE f == b \o c
<1> HIDE DEF f, n
<1>7. f \in U /\ Len(f) = n + 3 /\ \A i \in 1 .. n + 3 : f[i] = IF i <= 2 + n THEN b[i] ELSE c[i - (2 + n)]
  BY <1>1, <1>6 DEF f
<1>8. \A i \in 1 .. 2 + n : b[i] = IF i <= 2 THEN a[i] ELSE r[i - 2]
  BY <1>5 DEF b
<1>9. f[1] = a[1] /\ f[2] = a[2]
  BY <1>1, <1>7, <1>8
<1>10. ASSUME NEW i \in 1 .. n
       PROVE  f[2 + i] = r[i]
  <2>1. 2 + i \in 1 .. n + 3 /\ 2 + i \in 1 .. 2 + n /\ 2 + i <= 2 + n /\ ~(2 + i <= 2) /\ (2 + i) - 2 = i
    BY <1>1
  <2> QED
    BY <1>7, <1>8, <2>1
<1>11. f[n + 3] = c[1]
  <2>1. n + 3 \in 1 .. n + 3 /\ ~(n + 3 <= 2 + n) /\ (n + 3) - (2 + n) = 1
    BY <1>1
  <2> QED
    BY <1>7, <2>1
<1> QED
  BY <1>3, <1>4, <1>7, <1>9, <1>10, <1>11 DEF Framed, f, b, a, n, U

(* A part stands in a file behind its first p bytes. *)
StandsAt(file, p, part) ==
  /\ p + Len(part) <= Len(file)
  /\ \A i \in 1 .. Len(part) : file[p + i] = part[i]

LEMMA PartsStand ==
  ASSUME NEW Byte, NEW a \in Seq(Byte), NEW b \in Seq(Byte), NEW file, NEW p \in Nat,
         StandsAt(file, p, a \o b), Len(file) \in Nat
  PROVE  StandsAt(file, p, a) /\ StandsAt(file, p + Len(a), b)
<1> DEFINE m == Len(a)  n == Len(b)  s == a \o b  L == Len(file)
<1>1. m \in Nat /\ n \in Nat /\ L \in Nat
  OBVIOUS
<1>2. /\ Len(s) = m + n
      /\ \A i \in 1 .. m + n : s[i] = IF i <= m THEN a[i] ELSE b[i - m]
  BY ConcatProperties
<1>3. p + (m + n) <= L /\ \A i \in 1 .. m + n : file[p + i] = s[i]
  BY <1>2 DEF StandsAt
<1> HIDE DEF s, m, n, L
<1>4. ASSUME NEW i \in 1 .. m
      PROVE  file[p + i] = a[i]
  <2>1. i \in 1 .. m + n /\ i <= m
    BY <1>1
  <2> QED
    BY <1>2, <1>3, <2>1
<1>5. ASSUME NEW i \in 1 .. n
      PROVE  file[(p + m) + i] = b[i]
  <2>1. m + i \in 1 .. m + n /\ ~(m + i <= m) /\ (m + i) - m = i /\ (p + m) + i = p + (m + i)
    BY <1>1
  <2> QED
    BY <1>2, <1>3, <2>1
<1>6. p + m <= L /\ (p + m) + n <= L
  BY <1>1, <1>3
<1> QED
  BY <1>4, <1>5, <1>6 DEF StandsAt, m, n, L

LEMMA WholeStands ==
  ASSUME NEW Byte, NEW a \in Seq(Byte), NEW b \in Seq(Byte)
  PROVE  StandsAt(a, 0, a) /\ StandsAt(a \o b, 0, a \o b)
<1>1. ASSUME NEW s \in Seq(Byte)
      PROVE  StandsAt(s, 0, s)
  <2>1. Len(s) \in Nat
    OBVIOUS
  <2> QED
    BY <2>1 DEF StandsAt
<1>2. a \o b \in Seq(Byte)
  BY ConcatProperties
<1> QED
  BY <1>1, <1>2

(* A frame that stands somewhere is read there. *)
LEMMA ReadFrame ==
  ASSUME NEW Byte, Ideal(Byte), NEW file \in Seq(Byte), NEW p \in Nat,
         NEW r \in Seq(Byte), Len(r) <= 99, StandsAt(file, p, LogFrame(r))
  PROVE  RecordAt(file, p + 1) = {r}
<1> DEFINE n == Len(r)  L == Len(file)  f == LogFrame(r)
<1>1. n \in 0 .. 99 /\ L \in Nat /\ p + 1 \in Nat \ {0}
  <2>1. n \in 0 .. 99
    BY ShortLength
  <2> QED
    BY <2>1
<1>2. Framed(f, r)
  BY LogFrameIs
<1>3. p + (n + 3) <= L /\ \A i \in 1 .. n + 3 : file[p + i] = f[i]
  BY <1>2 DEF StandsAt, Framed
<1>4. /\ f[1] = SizeField(n)[1] /\ f[2] = SizeField(n)[2]
      /\ \A i \in 1 .. n : f[2 + i] = r[i]
      /\ f[n + 3] = Crc(r)
  BY <1>2 DEF Framed
<1> HIDE DEF f, n, L
<1>5. SizeAt(file, p + 1) = n
  <2>1. 1 \in 1 .. n + 3 /\ 2 \in 1 .. n + 3 /\ (p + 1) + 1 = p + 2
    BY <1>1
  <2>2. file[p + 1] = SizeField(n)[1] /\ file[(p + 1) + 1] = SizeField(n)[2]
    BY <1>3, <1>4, <2>1
  <2> QED
    BY <1>1, <2>2, SizeRead
<1>6. /\ Held(file, p + 1) \in Seq(Byte)
      /\ Len(Held(file, p + 1)) = n
      /\ \A i \in 1 .. n : Held(file, p + 1)[i] = file[(p + 1) + 1 + i]
  <2>1. (p + 1) + n + 2 <= L
    BY <1>1, <1>3
  <2> QED
    BY <1>1, <1>5, <2>1, HeldIs DEF L
<1>7. Held(file, p + 1) = r
  <2>1. ASSUME NEW i \in 1 .. n
        PROVE  file[(p + 1) + 1 + i] = r[i]
    <3>1. 2 + i \in 1 .. n + 3 /\ p + (2 + i) = (p + 1) + 1 + i
      BY <1>1
    <3> QED
      BY <1>3, <1>4, <3>1
  <2> DEFINE h == Held(file, p + 1)
  <2> HIDE DEF h
  <2>2. h \in Seq(Byte) /\ Len(h) = Len(r) /\ \A i \in 1 .. Len(h) : h[i] = r[i]
    BY <1>6, <2>1 DEF h, n
  <2> QED
    BY <2>2, SeqEqual DEF h
<1>8. (p + 1) + n + 2 <= L /\ file[(p + 1) + n + 2] = Crc(r)
  <2>1. n + 3 \in 1 .. n + 3 /\ p + (n + 3) = (p + 1) + n + 2
    BY <1>1
  <2> QED
    BY <1>3, <1>4, <2>1
<1> QED
  BY <1>1, <1>5, <1>7, <1>8, RecordAtIs DEF L

(* What replay finds from each place of a file on. *)
Reads(g, file, Byte) ==
  /\ g \in [1 .. Len(file) + 1 -> Seq(Seq(Byte))]
  /\ Replay(file) = g[1]
  /\ \A pos \in 1 .. Len(file) + 1 : RecordAt(file, pos) = {} => g[pos] = <<>>
  /\ \A pos \in 1 .. Len(file) + 1, r \in Seq(Byte) :
       RecordAt(file, pos) = {r} => /\ pos + Len(r) + 3 \in 1 .. Len(file) + 1
                                    /\ g[pos] = <<r>> \o g[pos + Len(r) + 3]

(* A record that is read ends within the file. *)
LEMMA RecordEnds ==
  ASSUME NEW Byte, NEW file \in Seq(Byte), NEW pos \in 1 .. Len(file) + 1
  PROVE  \/ RecordAt(file, pos) = {}
         \/ \E r \in Seq(Byte) :
              /\ RecordAt(file, pos) = {r}
              /\ Len(r) \in 0 .. 99 /\ Len(LogFrame(r)) = Len(r) + 3
              /\ pos + Len(r) + 3 \in 1 .. Len(file) + 1
<1> DEFINE n == SizeAt(file, pos)  L == Len(file)  r == Held(file, pos)
<1>1. n \in 0 .. 99 /\ L \in Nat
  BY SizeAtIs
<1>2. pos \in 1 .. L + 1
  OBVIOUS
<1> HIDE DEF n, L, r
<1>3. pos \in Nat \ {0}
  BY <1>1, <1>2
<1>4. CASE RecordAt(file, pos) # {}
  <2>1. pos + n + 2 <= L /\ RecordAt(file, pos) = {r}
    BY <1>3, <1>4, RecordAtIs DEF n, L, r
  <2>2. r \in Seq(Byte) /\ Len(r) = n
    BY <1>3, <2>1, HeldIs DEF n, L, r
  <2>3. Len(LogFrame(r)) = n + 3
    <3>1. /\ SizeField(n) \in Seq(Range(Digits)) /\ Len(SizeField(n)) = 2
      BY <1>1, SizeFieldIs
    <3> DEFINE A == Byte \cup Range(Digits) \cup {Crc(r)}
               a == SizeField(n)
               c == <<Crc(r)>>
    <3>2. a \in Seq(A) /\ r \in Seq(A)
      BY <2>2, <3>1, SeqMonotonic
    <3>3. c \in Seq(A) /\ Len(c) = 1
      <4>1. Crc(r) \in A
        OBVIOUS
      <4> HIDE DEF A
      <4> QED
        BY <4>1
    <3> HIDE DEF A, a, c
    <3>4. a \o r \in Seq(A) /\ Len(a \o r) = Len(a) + Len(r)
      BY <3>2, ConcatProperties
    <3>5. Len((a \o r) \o c) = Len(a \o r) + Len(c)
      BY <3>3, <3>4, ConcatProperties
    <3>6. LogFrame(r) = (a \o r) \o c
      BY <2>2 DEF LogFrame, a, c
    <3>7. Len(a) = 2
      BY <3>1 DEF a
    <3> QED
      BY <1>1, <2>2, <3>3, <3>4, <3>5, <3>6, <3>7
  <2>4. pos + n + 3 \in 1 .. L + 1
    BY <1>1, <1>3, <2>1
  <2> QED
    BY <1>1, <2>1, <2>2, <2>3, <2>4 DEF L
<1> QED
  BY <1>4

LEMMA ReplayIs ==
  ASSUME NEW Byte, NEW file \in Seq(Byte)
  PROVE  \E g : Reads(g, file, Byte)
<1> DEFINE L == Len(file)
           D == 1 .. L + 1
           R == Seq(Byte)
           S == Seq(R)
           Rec(pos) == CHOOSE r \in RecordAt(file, pos) : TRUE
           Def(f, pos) == IF RecordAt(file, pos) = {} THEN <<>>
                          ELSE <<Rec(pos)>> \o f[pos + Len(LogFrame(Rec(pos)))]
           found == CHOOSE f : f = [pos \in D |-> Def(f, pos)]
           Stop == {pos \in D : RecordAt(file, pos) = {}}
           before == [pos \in D |-> IF pos \in Stop THEN pos
                                    ELSE pos + Len(LogFrame(Rec(pos)))]
           rank == [pos \in D |-> (L + 1) - pos]
           base == [pos \in D |-> <<>>]
           step == [pos \in D |-> [s \in S |-> IF pos \in Stop THEN s ELSE <<Rec(pos)>> \o s]]
<1>1. Replay(file) = found[1]
  BY DEF Replay
<1>2. L \in Nat
  OBVIOUS
<1>3. ASSUME NEW pos \in D, RecordAt(file, pos) # {}
      PROVE  /\ RecordAt(file, pos) = {Rec(pos)} /\ Rec(pos) \in R
             /\ Len(Rec(pos)) \in Nat
             /\ pos + Len(LogFrame(Rec(pos))) = pos + Len(Rec(pos)) + 3
             /\ pos + Len(Rec(pos)) + 3 \in D
  <2>1. PICK r \in R : /\ RecordAt(file, pos) = {r}
                       /\ Len(r) \in 0 .. 99 /\ Len(LogFrame(r)) = Len(r) + 3
                       /\ pos + Len(r) + 3 \in D
    BY <1>3, RecordEnds
  <2>2. Rec(pos) = r
    BY <2>1
  <2> HIDE DEF Rec, R
  <2>3. pos \in Nat /\ Len(r) \in Nat
    BY <1>2, <2>1
  <2>4. pos + (Len(r) + 3) = pos + Len(r) + 3
    BY <2>3
  <2> QED
    BY <2>1, <2>2, <2>3, <2>4
<1>4. \A s \in S, r \in R : <<r>> \o s \in S
  <2>1. \A r \in R : <<r>> \in S
    <3> HIDE DEF R
    <3> QED
      OBVIOUS
  <2> QED
    BY <2>1, ConcatProperties
<1> HIDE DEF Rec, R, L
<1>5. Recursive(D, S, L, rank, Stop, base, before, step)
  <2>1. rank \in [D -> 0 .. L] /\ base \in [D -> S]
    BY <1>2
  <2>2. before \in [D -> D]
    <3>1. \A pos \in D : pos \notin Stop => pos + Len(LogFrame(Rec(pos))) \in D
      BY <1>3
    <3> HIDE DEF D, Stop
    <3> QED
      BY <3>1
  <2>3. step \in [D -> [S -> S]]
    <3>1. \A pos \in D : pos \notin Stop => Rec(pos) \in R
      BY <1>3
    <3> HIDE DEF D, Stop, S
    <3> QED
      BY <1>4, <3>1
  <2>4. ASSUME NEW pos \in D, pos \notin Stop
        PROVE  rank[before[pos]] < rank[pos]
    <3>1. before[pos] = pos + Len(Rec(pos)) + 3 /\ before[pos] \in D /\ Len(Rec(pos)) \in Nat
      BY <1>3, <2>4
    <3>2. rank[pos] = (L + 1) - pos /\ rank[before[pos]] = (L + 1) - before[pos]
      BY <3>1
    <3>3. pos \in Nat
      BY <1>2
    <3> HIDE DEF before, rank, Stop, D
    <3> QED
      BY <1>2, <3>1, <3>2, <3>3
  <2> HIDE DEF D, S, rank, Stop, base, before, step
  <2> QED
    BY <1>2, <2>1, <2>2, <2>3, <2>4 DEF Recursive
<1>6. PICK g \in [D -> S] : \A d \in D : g[d] = IF d \in Stop THEN base[d] ELSE step[d][g[before[d]]]
  <2> HIDE DEF D, S, rank, Stop, base, before, step
  <2> QED
    BY <1>5, Recursion
<1>7. ASSUME NEW pos \in D
      PROVE  /\ pos \in Stop => g[pos] = <<>>
             /\ pos \notin Stop => /\ before[pos] \in D
                                   /\ g[pos] = <<Rec(pos)>> \o g[before[pos]]
  <2>1. before[pos] \in D
    BY <1>3
  <2>2. g[before[pos]] \in S
    <3> HIDE DEF D, S, before
    <3> QED
      BY <2>1
  <2>3. g[pos] = IF pos \in Stop THEN base[pos] ELSE step[pos][g[before[pos]]]
    BY <1>6
  <2> HIDE DEF Stop, before, D, S
  <2> QED
    BY <2>1, <2>2, <2>3
<1>8. ASSUME NEW pos \in D
      PROVE  g[pos] = Def(g, pos)
  <2>1. CASE pos \in Stop
    BY <1>7, <2>1
  <2>2. CASE pos \notin Stop
    <3>1. before[pos] = pos + Len(LogFrame(Rec(pos))) /\ RecordAt(file, pos) # {}
      BY <2>2
    <3> HIDE DEF before, Stop, D
    <3> QED
      BY <1>7, <2>2, <3>1
  <2> QED
    BY <2>1, <2>2
<1>9. g = [pos \in D |-> Def(g, pos)]
  <2> HIDE DEF Def, D, S
  <2> QED
    BY <1>6, <1>8
<1> HIDE DEF Def
<1>10. found = [pos \in D |-> Def(found, pos)]
  BY <1>9
<1> HIDE DEF found
<1> DEFINE T == {pos \in D : found[pos] = g[pos]}
<1>11. ASSUME NEW pos \in D, \A c \in D : rank[c] < rank[pos] => c \in T
       PROVE  pos \in T
  <2>1. found[pos] = Def(found, pos) /\ g[pos] = Def(g, pos)
    BY <1>8, <1>10
  <2>2. CASE pos \in Stop
    BY <2>1, <2>2 DEF Def
  <2>3. CASE pos \notin Stop
    <3>1. before[pos] \in D /\ rank[before[pos]] < rank[pos]
      <4> HIDE DEF D, S, rank, Stop, base, before, step
      <4> QED
        BY <1>5, <1>7, <2>3 DEF Recursive
    <3>2. found[before[pos]] = g[before[pos]]
      <4> HIDE DEF D, rank, before
      <4> QED
        BY <1>11, <3>1
    <3>3. before[pos] = pos + Len(LogFrame(Rec(pos)))
      BY <2>3
    <3> HIDE DEF before, D
    <3>4. Def(found, pos) = Def(g, pos)
      BY <3>2, <3>3 DEF Def
    <3> QED
      BY <2>1, <3>4
  <2> QED
    BY <2>2, <2>3
<1>12. D \subseteq T
  <2>1. L \in Nat /\ rank \in [D -> 0 .. L]
    BY <1>2
  <2>2. \A d \in D : (\A c \in D : rank[c] < rank[d] => c \in T) => d \in T
    <3> HIDE DEF D, T, rank, S, Stop, before, base, step
    <3> QED
      BY <1>11
  <2> HIDE DEF D, T, rank, S, Stop, before, base, step
  <2> QED
    BY <2>1, <2>2, RankInduction, SMTT(60)
<1>13. Replay(file) = g[1]
  <2>1. 1 \in D
    BY <1>2
  <2> QED
    BY <1>1, <1>12, <2>1
<1>14. ASSUME NEW pos \in D, NEW r \in R, RecordAt(file, pos) = {r}
       PROVE  pos + Len(r) + 3 \in D /\ g[pos] = <<r>> \o g[pos + Len(r) + 3]
  <2>1. RecordAt(file, pos) # {} /\ pos \notin Stop
    BY <1>14
  <2>2. /\ Rec(pos) = r /\ before[pos] = pos + Len(LogFrame(Rec(pos)))
        /\ pos + Len(LogFrame(Rec(pos))) = pos + Len(Rec(pos)) + 3
        /\ pos + Len(Rec(pos)) + 3 \in D
    <3>1. /\ RecordAt(file, pos) = {Rec(pos)}
          /\ pos + Len(LogFrame(Rec(pos))) = pos + Len(Rec(pos)) + 3
          /\ pos + Len(Rec(pos)) + 3 \in D
      BY <1>3, <2>1
    <3>2. before[pos] = pos + Len(LogFrame(Rec(pos)))
      BY <2>1
    <3> HIDE DEF before, D
    <3> QED
      BY <1>14, <3>1, <3>2
  <2> HIDE DEF before, D, Stop
  <2> QED
    BY <1>7, <2>1, <2>2
<1>15. \A pos \in D : RecordAt(file, pos) = {} => g[pos] = <<>>
  BY <1>7
<1>16. Reads(g, file, Byte)
  BY <1>6, <1>13, <1>14, <1>15 DEF Reads, R, L
<1> QED
  BY <1>16

(* Records as texts, the empty one among them, and the records that are logged. *)
Short  == {r \in Seq(Symbol) : Len(r) <= 99}
Logged == Short \ {<<>>}

LEMMA ShortIs ==
  ASSUME NEW Byte, Ideal(Byte), NEW r \in Short
  PROVE  /\ r \in Seq(Byte) /\ Len(r) \in 0 .. 99 /\ Len(r) <= 99
         /\ LogFrame(r) \in Seq(Byte) /\ Framed(LogFrame(r), r)
         /\ Len(LogFrame(r)) = Len(r) + 3
         /\ \A i \in 1 .. Len(r) : r[i] \in PlainByte
<1>1. r \in Seq(Symbol) /\ Len(r) <= 99
  BY DEF Short
<1>2. Symbol \subseteq Byte /\ Symbol \subseteq PlainByte
  BY DEF Ideal, PlainByte
<1>3. r \in Seq(Byte)
  BY <1>1, <1>2, SeqMonotonic
<1>4. Len(r) \in 0 .. 99
  BY <1>1, ShortLength
<1>5. LogFrame(r) \in Seq(Byte) /\ Framed(LogFrame(r), r)
  BY <1>1, <1>3, LogFrameIs
<1>6. \A i \in 1 .. Len(r) : r[i] \in Symbol
  BY <1>1
<1>7. Len(LogFrame(r)) = Len(r) + 3
  BY <1>5 DEF Framed
<1>8. \A i \in 1 .. Len(r) : r[i] \in PlainByte
  BY <1>2, <1>6
<1> QED
  BY <1>1, <1>3, <1>4, <1>5, <1>7, <1>8

LEMMA ShortExists == <<>> \in Short
<1>1. <<>> \in Seq(Symbol) /\ Len(<<>>) = 0
  OBVIOUS
<1> QED
  BY <1>1 DEF Short

(* A log grows by a frame for each record. *)
LEMMA LogFileAppend ==
  ASSUME NEW Byte, Ideal(Byte), NEW rs \in Seq(Short), NEW r \in Short
  PROVE  /\ LogFile(rs) \in Seq(Byte)
         /\ LogFile(Append(rs, r)) = LogFile(rs) \o LogFrame(r)
<1> DEFINE n == Len(rs)
           frames == [i \in 1 .. n |-> LogFrame(rs[i])]
           longer == Append(rs, r)
           f == LogFrame(r)
           U == Seq(Byte)
<1>1. /\ n \in Nat /\ longer \in Seq(Short) /\ Len(longer) = n + 1
      /\ \A i \in 1 .. n : longer[i] = rs[i]
      /\ longer[n + 1] = r
  BY AppendLog
<1>2. DOMAIN longer = 1 .. n + 1 /\ DOMAIN rs = 1 .. n
  <2> HIDE DEF longer
  <2>1. DOMAIN longer = 1 .. Len(longer) /\ DOMAIN rs = 1 .. Len(rs)
    BY <1>1, LenProperties
  <2> QED
    BY <1>1, <2>1
<1>3. \A i \in 1 .. n : LogFrame(rs[i]) \in U
  <2>1. \A i \in 1 .. n : rs[i] \in Short
    OBVIOUS
  <2> HIDE DEF n, U
  <2> QED
    BY <2>1, ShortIs DEF U
<1>4. f \in U
  BY ShortIs
<1> HIDE DEF longer, n, U, f
<1>5. frames \in Seq(U) /\ Len(frames) = n
  <2>1. frames \in [1 .. n -> U]
    BY <1>3
  <2> HIDE DEF frames
  <2> QED
    BY <1>1, <2>1
<1>6. [i \in 1 .. n + 1 |-> LogFrame(longer[i])] = Append(frames, f)
  <2> DEFINE more == Append(frames, f)
             s == [i \in 1 .. n + 1 |-> LogFrame(longer[i])]
  <2>1. /\ more \in Seq(U) /\ Len(more) = n + 1
        /\ \A i \in 1 .. n : more[i] = frames[i]
        /\ more[n + 1] = f
    <3> HIDE DEF frames
    <3> QED
      BY <1>4, <1>5, AppendLog
  <2>2. \A i \in 1 .. n : more[i] = LogFrame(rs[i])
    BY <2>1
  <2> HIDE DEF more
  <2>3. more \in [1 .. n + 1 -> U]
    BY <2>1
  <2>4. ASSUME NEW i \in 1 .. n + 1
        PROVE  more[i] = s[i]
    <3>1. CASE i = n + 1
      BY <1>1, <2>1, <3>1 DEF f
    <3>2. CASE i # n + 1
      <4>1. i \in 1 .. n
        BY <1>1, <3>2
      <4> QED
        BY <1>1, <2>2, <4>1
    <3> QED
      BY <3>1, <3>2
  <2>5. more = [i \in 1 .. n + 1 |-> more[i]]
    BY <2>3
  <2>6. more = s
    BY <2>4, <2>5
  <2> QED
    BY <2>6 DEF more
<1>7. LogFile(longer) = FlattenSeq([i \in 1 .. n + 1 |-> LogFrame(longer[i])])
  BY <1>2 DEF LogFile
<1>8. LogFile(rs) = FlattenSeq(frames)
  BY <1>2 DEF LogFile
<1>9. LogFile(rs) \in U /\ LogFile(longer) = LogFile(rs) \o f
  <2> HIDE DEF frames
  <2>1. FlattenSeq(frames) \in Seq(Byte) /\ FlattenSeq(Append(frames, f)) = FlattenSeq(frames) \o f
    BY <1>4, <1>5, FlattenAppend DEF U
  <2> QED
    BY <1>6, <1>7, <1>8, <2>1 DEF U
<1> QED
  BY <1>9 DEF longer, f, U

LEMMA LogFileEmpty == LogFile(<<>>) = <<>>
<1>1. DOMAIN <<>> = {} /\ Len(<<>>) = 0
  OBVIOUS
<1>2. LogFile(<<>>) = FlattenSeq([i \in {} |-> LogFrame(<<>>[i])])
  BY <1>1 DEF LogFile
<1>3. [i \in {} |-> LogFrame(<<>>[i])] = <<>>
  BY <1>1
<1>4. FlattenSeq(<<>>) = <<>>
  BY <1>1 DEF FlattenSeq
<1> QED
  BY <1>2, <1>3, <1>4

(* The log of two lists of records is the log of one, then of the other. *)
LEMMA LogFileJoins ==
  ASSUME NEW Byte, Ideal(Byte), NEW a \in Seq(Short)
  PROVE  \A b \in Seq(Short) : LogFile(a \o b) = LogFile(a) \o LogFile(b)
<1> DEFINE T == {b \in Seq(Short) : LogFile(a \o b) = LogFile(a) \o LogFile(b)}
<1>1. <<>> \in T
  <2>1. a \o <<>> = a
    BY ConcatEmptySeq
  <2>2. LogFile(a) \in Seq(Byte) /\ LogFile(<<>>) = <<>>
    BY LogFileAppend, LogFileEmpty, ShortExists
  <2>3. LogFile(a) \o <<>> = LogFile(a)
    BY <2>2, ConcatEmptySeq
  <2> QED
    BY <2>1, <2>2, <2>3
<1>2. ASSUME NEW b \in Seq(Short), NEW r \in Short, b \in T
      PROVE  Append(b, r) \in T
  <2>1. a \o b \in Seq(Short)
    BY ConcatProperties
  <2> DEFINE ab == a \o b
             br == Append(b, r)
  <2>2. br \in Seq(Short)
    BY AppendProperties
  <2>3. a \o br = Append(ab, r)
    <3>1. br = b \o <<r>>
      BY AppendIsConcat
    <3>2. <<r>> \in Seq(Short)
      OBVIOUS
    <3>3. a \o (b \o <<r>>) = (a \o b) \o <<r>>
      BY <3>2, ConcatAssociative
    <3>4. Append(ab, r) = ab \o <<r>>
      BY <2>1, AppendIsConcat
    <3> QED
      BY <3>1, <3>3, <3>4
  <2> HIDE DEF ab, br
  <2>4. /\ LogFile(Append(ab, r)) = LogFile(ab) \o LogFrame(r)
        /\ LogFile(br) = LogFile(b) \o LogFrame(r)
        /\ LogFile(a) \in Seq(Byte) /\ LogFile(b) \in Seq(Byte)
    BY <2>1, LogFileAppend DEF ab, br
  <2>5. LogFile(ab) = LogFile(a) \o LogFile(b)
    BY <1>2 DEF ab
  <2>6. LogFrame(r) \in Seq(Byte)
    BY ShortIs
  <2>7. (LogFile(a) \o LogFile(b)) \o LogFrame(r) = LogFile(a) \o (LogFile(b) \o LogFrame(r))
    BY <2>4, <2>6, ConcatAssociative
  <2>8. LogFile(a \o br) = LogFile(a) \o LogFile(br)
    BY <2>3, <2>4, <2>5, <2>7
  <2> QED
    BY <2>2, <2>8 DEF br
<1>3. Seq(Short) \subseteq T
  <2> HIDE DEF T
  <2> QED
    BY <1>1, <1>2, SequenceInduction
<1> QED
  BY <1>3

(* An element between two sequences belongs to either of them. *)
LEMMA Between ==
  ASSUME NEW S, NEW a \in Seq(S), NEW x \in S, NEW b \in Seq(S)
  PROVE  a \o (<<x>> \o b) = (a \o <<x>>) \o b
<1>1. <<x>> \in Seq(S)
  OBVIOUS
<1> DEFINE c == <<x>>
<1> HIDE DEF c
<1>2. (a \o c) \o b = a \o (c \o b)
  BY <1>1, ConcatAssociative DEF c
<1> QED
  BY <1>2 DEF c

(* Whole frames are read one after the other. *)
LEMMA FramesRead ==
  ASSUME NEW Byte, Ideal(Byte), NEW file \in Seq(Byte), NEW g, Reads(g, file, Byte),
         NEW p \in Nat
  PROVE  \A rs \in Seq(Short) : StandsAt(file, p, LogFile(rs)) =>
           /\ p + Len(LogFile(rs)) \in 0 .. Len(file)
           /\ g[p + 1] = rs \o g[p + Len(LogFile(rs)) + 1]
<1> DEFINE L == Len(file)
           Good(rs) == StandsAt(file, p, LogFile(rs)) =>
             /\ p + Len(LogFile(rs)) \in 0 .. L
             /\ g[p + 1] = rs \o g[p + Len(LogFile(rs)) + 1]
           T == {rs \in Seq(Short) : Good(rs)}
<1>1. L \in Nat
  OBVIOUS
<1> DEFINE S == Seq(Seq(Byte))
<1>2. /\ g \in [1 .. L + 1 -> S]
      /\ \A pos \in 1 .. L + 1, r \in Seq(Byte) :
           RecordAt(file, pos) = {r} => /\ pos + Len(r) + 3 \in 1 .. L + 1
                                        /\ g[pos] = <<r>> \o g[pos + Len(r) + 3]
  BY DEF Reads
<1> HIDE DEF L
<1>3. ASSUME NEW n \in Nat, p + n <= L
      PROVE  p + n \in 0 .. L /\ p + n + 1 \in 1 .. L + 1 /\ g[p + n + 1] \in S
  <2>1. p + n \in 0 .. L /\ p + n + 1 \in 1 .. L + 1
    BY <1>1, <1>3
  <2> HIDE DEF S
  <2> QED
    BY <1>2, <2>1
<1>4. Seq(Short) \subseteq S
  <2>1. Short \subseteq Seq(Byte)
    BY ShortIs
  <2> QED
    BY <2>1, SeqMonotonic
<1>5. <<>> \in T
  <2>1. <<>> \in Seq(Short) /\ Len(<<>>) = 0
    OBVIOUS
  <2>2. ASSUME p <= L
        PROVE  /\ p \in 0 .. L
               /\ g[p + 1] = <<>> \o g[p + 1]
    <3>1. p \in 0 .. L /\ p + 1 \in 1 .. L + 1
      BY <1>1, <2>2
    <3>2. g[p + 1] \in S
      <4> HIDE DEF S
      <4> QED
        BY <1>2, <3>1
    <3>3. <<>> \o g[p + 1] = g[p + 1]
      BY <3>2, ConcatEmptySeq
    <3> HIDE DEF S
    <3> QED
      BY <3>1, <3>3
  <2>4. p + Len(<<>>) = p
    BY <2>1
  <2>3. Good(<<>>)
    BY <2>2, <2>4, LogFileEmpty DEF StandsAt, L
  <2> HIDE DEF Good
  <2> QED
    BY <2>1, <2>3
<1>6. ASSUME NEW rs \in Seq(Short), NEW r \in Short, rs \in T
      PROVE  Append(rs, r) \in T
  <2> DEFINE a == LogFile(rs)
             f == LogFrame(r)
             more == Append(rs, r)
             n == Len(a)
  <2>1. a \in Seq(Byte) /\ LogFile(more) = a \o f
    BY LogFileAppend
  <2>2. f \in Seq(Byte) /\ Len(f) = Len(r) + 3 /\ r \in Seq(Byte)
        /\ Len(r) \in 0 .. 99 /\ Len(r) <= 99
    BY ShortIs
  <2>3. more \in Seq(Short) /\ more = rs \o <<r>>
    BY AppendProperties, AppendIsConcat
  <2>4. n \in Nat
    BY <2>1
  <2>5. Len(a \o f) = n + (Len(r) + 3)
    <3>1. Len(a \o f) = Len(a) + Len(f)
      <4> HIDE DEF a, f
      <4> QED
        BY <2>1, <2>2, ConcatProperties
    <3> HIDE DEF a, f
    <3> QED
      BY <2>2, <3>1 DEF n
  <2>6. ASSUME StandsAt(file, p, a \o f)
        PROVE  /\ p + Len(a \o f) \in 0 .. L
               /\ g[p + 1] = more \o g[p + Len(a \o f) + 1]
    <3>1. StandsAt(file, p, a) /\ StandsAt(file, p + n, f)
      <4> HIDE DEF a, f
      <4> QED
        BY <1>1, <2>1, <2>2, <2>6, PartsStand DEF n, L
    <3>2. p + n <= L
      BY <3>1 DEF StandsAt, L
    <3>3. p + n \in Nat
      BY <2>4
    <3>4. RecordAt(file, p + n + 1) = {r}
      <4> HIDE DEF n
      <4> QED
        BY <2>2, <3>1, <3>3, ReadFrame
    <3> DEFINE q == p + n + 1
               e == p + Len(a \o f) + 1
    <3>5. q + Len(r) + 3 = e
      <4> HIDE DEF a, f, n
      <4> QED
        BY <2>2, <2>4, <2>5
    <3>6. q \in 1 .. L + 1 /\ g[q] \in S
      <4> HIDE DEF a, n, S
      <4> QED
        BY <1>3, <2>4, <3>2
    <3> HIDE DEF q, e, S
    <3>7. e \in 1 .. L + 1 /\ g[q] = <<r>> \o g[e]
      BY <1>2, <2>2, <3>4, <3>5, <3>6 DEF q
    <3>8. g[p + 1] = rs \o g[q]
      <4> HIDE DEF a
      <4>1. g[p + 1] = rs \o g[p + Len(a) + 1]
        BY <1>6, <3>1 DEF a
      <4> QED
        BY <4>1 DEF q, n
    <3>9. g[e] \in S
      BY <1>2, <3>7
    <3>10. rs \o (<<r>> \o g[e]) = (rs \o <<r>>) \o g[e]
      <4> DEFINE U == Seq(Byte)
      <4>1. r \in U /\ rs \in Seq(U) /\ g[e] \in Seq(U)
        BY <1>4, <2>2, <3>9 DEF S
      <4> HIDE DEF U
      <4> DEFINE rest == g[e]
      <4>2. rest \in Seq(U)
        BY <4>1
      <4> HIDE DEF rest
      <4>3. rs \o (<<r>> \o rest) = (rs \o <<r>>) \o rest
        BY <4>1, <4>2, Between
      <4> QED
        BY <4>3 DEF rest
    <3>11. g[p + 1] = more \o g[e]
      BY <2>3, <3>7, <3>8, <3>10
    <3>12. p + Len(a \o f) \in 0 .. L
      <4> DEFINE k == Len(a \o f)
      <4>1. k \in Nat
        <5> HIDE DEF a, f, n
        <5> QED
          BY <2>2, <2>4, <2>5
      <4> HIDE DEF k
      <4>2. e = p + k + 1
        BY DEF e, k
      <4> QED
        BY <1>1, <3>7, <4>1, <4>2 DEF k
    <3> QED
      BY <3>11, <3>12 DEF e
  <2>7. Good(more)
    <3> HIDE DEF a, f, more, n
    <3> QED
      BY <2>1, <2>6
  <2> HIDE DEF Good, more
  <2> QED
    BY <2>3, <2>7 DEF more
<1>7. Seq(Short) \subseteq T
  <2> HIDE DEF T
  <2> QED
    BY <1>5, <1>6, SequenceInduction
<1> QED
  BY <1>7 DEF L

(* Of a frame only the last byte is a checksum, and only an empty record has size zero. *)
LEMMA FrameBytes ==
  ASSUME NEW Byte, Ideal(Byte), NEW r \in Short
  PROVE  /\ \A i \in 1 .. Len(r) + 2 : LogFrame(r)[i] \in PlainByte
         /\ LogFrame(r)[Len(r) + 3] = Crc(r)
         /\ LogFrame(r)[1] = "0" /\ LogFrame(r)[2] = "0" => r = <<>>
<1> DEFINE n == Len(r)  f == LogFrame(r)
<1>1. /\ n \in 0 .. 99 /\ f[1] = SizeField(n)[1] /\ f[2] = SizeField(n)[2]
      /\ \A i \in 1 .. n : f[2 + i] = r[i] /\ r[i] \in PlainByte
      /\ f[n + 3] = Crc(r)
  BY ShortIs DEF Framed
<1>2. r \in Seq(Symbol)
  BY DEF Short
<1>3. n = 0 => r = <<>>
  BY <1>2, EmptySeq
<1> HIDE DEF n, f
<1>4. /\ f[1] \in PlainByte /\ f[2] \in PlainByte
      /\ f[1] = "0" /\ f[2] = "0" => n = 0
  BY <1>1, SizeFieldIs DEF PlainByte
<1>5. ASSUME NEW i \in 1 .. n + 2
      PROVE  f[i] \in PlainByte
  <2>1. i = 1 \/ i = 2 \/ (i - 2 \in 1 .. n /\ 2 + (i - 2) = i)
    BY <1>1
  <2> QED
    BY <1>1, <1>4, <2>1
<1> QED
  BY <1>1, <1>3, <1>4, <1>5 DEF n, f

(* A checksum in a log: of a record that stands before it, the first or a later one. *)
IsChecksum(c, x) == \E q \in Logged : c = Crc(q) /\ (x = Len(q) + 3 \/ x >= Len(q) + 7)

IsLog(log) ==
  /\ log # <<>> => Len(log) >= 4 /\ ~(log[1] = "0" /\ log[2] = "0")
  /\ \A x \in 1 .. Len(log) : log[x] \in PlainByte \/ IsChecksum(log[x], x)

LEMMA LoggedIs ==
  /\ Logged \subseteq Short /\ Seq(Logged) \subseteq Seq(Short)
  /\ \A r \in Logged : Len(r) \in 1 .. 99
<1>1. Logged \subseteq Short
  BY DEF Logged
<1>2. ASSUME NEW r \in Logged
      PROVE  Len(r) \in 1 .. 99
  <2> DEFINE n == Len(r)
  <2>1. r \in Seq(Symbol) /\ n <= 99 /\ r # <<>>
    BY DEF Logged, Short
  <2>2. n \in Nat \ {0}
    BY <2>1, EmptySeq
  <2> HIDE DEF n
  <2>3. n \in 1 .. 99
    BY <2>1, <2>2
  <2> QED
    BY <2>3 DEF n
<1> QED
  BY <1>1, <1>2, SeqMonotonic

(* One frame more. *)
LEMMA LogGrows ==
  ASSUME NEW Byte, Ideal(Byte), NEW a \in Seq(Byte), IsLog(a), NEW r \in Logged
  PROVE  IsLog(a \o LogFrame(r))
<1> DEFINE n == Len(r)  f == LogFrame(r)  m == Len(a)  s == a \o f
<1>1. /\ n \in 1 .. 99 /\ r \in Short /\ r # <<>> /\ f \in Seq(Byte) /\ Len(f) = n + 3
      /\ \A i \in 1 .. n + 2 : f[i] \in PlainByte
      /\ f[n + 3] = Crc(r)
      /\ ~(f[1] = "0" /\ f[2] = "0")
  BY LoggedIs, ShortIs, FrameBytes DEF Logged
<1>2. m \in Nat /\ (m = 0 => a = <<>>)
  BY EmptySeq
<1>3. /\ s \in Seq(Byte) /\ Len(s) = m + (n + 3)
      /\ \A i \in 1 .. m + (n + 3) : s[i] = IF i <= m THEN a[i] ELSE f[i - m]
  <2> HIDE DEF f
  <2>1. /\ a \o f \in Seq(Byte) /\ Len(a \o f) = Len(a) + Len(f)
        /\ \A i \in 1 .. Len(a) + Len(f) :
             (a \o f)[i] = IF i <= Len(a) THEN a[i] ELSE f[i - Len(a)]
    BY <1>1, ConcatProperties
  <2> QED
    BY <1>1, <2>1, Zenon
<1>4. /\ a # <<>> => m >= 4 /\ ~(a[1] = "0" /\ a[2] = "0")
      /\ \A x \in 1 .. m : a[x] \in PlainByte \/ IsChecksum(a[x], x)
  BY DEF IsLog
<1>5. n = Len(r)
  OBVIOUS
<1> HIDE DEF s, m, n, f
<1>6. m + (n + 3) >= 4 /\ ~(s[1] = "0" /\ s[2] = "0")
  <2>1. CASE m = 0
    <3>1. 1 \in 1 .. m + (n + 3) /\ 2 \in 1 .. m + (n + 3) /\ 1 - m = 1 /\ 2 - m = 2
          /\ ~(1 <= m) /\ ~(2 <= m)
      BY <1>1, <2>1
    <3>2. s[1] = f[1] /\ s[2] = f[2]
      BY <1>3, <3>1
    <3> QED
      BY <1>1, <2>1, <3>2
  <2>2. CASE m # 0
    <3>0. a # <<>>
      BY <2>2 DEF m
    <3>1. m >= 4
      BY <1>4, <3>0
    <3>2. 1 \in 1 .. m + (n + 3) /\ 2 \in 1 .. m + (n + 3) /\ 1 <= m /\ 2 <= m
          /\ m + (n + 3) >= 4
      BY <1>1, <1>2, <3>1
    <3>3. s[1] = a[1] /\ s[2] = a[2]
      BY <1>3, <3>2
    <3> QED
      BY <1>4, <3>0, <3>2, <3>3
  <2> QED
    BY <2>1, <2>2
<1>7. ASSUME NEW x \in 1 .. m + (n + 3)
      PROVE  s[x] \in PlainByte \/ IsChecksum(s[x], x)
  <2>1. CASE x <= m
    <3>1. x \in 1 .. m
      BY <1>2, <2>1
    <3> QED
      BY <1>3, <1>4, <2>1, <3>1
  <2>2. CASE ~(x <= m)
    <3>1. x - m \in 1 .. n + 2 \/ (x - m = n + 3 /\ x = m + n + 3)
      BY <1>1, <1>2, <2>2
    <3>2. s[x] = f[x - m]
      BY <1>3, <2>2
    <3>3. CASE x - m = n + 3
      <4>1. s[x] = Crc(r)
        BY <1>1, <3>2, <3>3
      <4>2. x = n + 3 \/ x >= n + 7
        <5>1. CASE m = 0
          BY <1>1, <3>3, <5>1
        <5>2. CASE m # 0
          <6>1. a # <<>>
            BY <5>2 DEF m
          <6>2. m >= 4
            BY <1>4, <6>1
          <6> QED
            BY <1>1, <1>2, <3>3, <6>2
        <5> QED
          BY <5>1, <5>2
      <4> QED
        BY <1>5, <4>1, <4>2 DEF IsChecksum
    <3>4. CASE x - m \in 1 .. n + 2
      BY <1>1, <3>2, <3>4
    <3> QED
      BY <3>1, <3>3, <3>4
  <2> QED
    BY <2>1, <2>2
<1>8. Len(s) = m + (n + 3)
  BY <1>3
<1>9. IsLog(s)
  BY <1>6, <1>7, <1>8 DEF IsLog
<1> QED
  BY <1>9 DEF s, f

LEMMA LogsAre ==
  ASSUME NEW Byte, Ideal(Byte)
  PROVE  \A rs \in Seq(Logged) : LogFile(rs) \in Seq(Byte) /\ IsLog(LogFile(rs))
<1> DEFINE T == {rs \in Seq(Logged) : LogFile(rs) \in Seq(Byte) /\ IsLog(LogFile(rs))}
<1>1. <<>> \in T
  <2>1. <<>> \in Seq(Byte) /\ <<>> \in Seq(Logged) /\ Len(<<>>) = 0
    OBVIOUS
  <2>2. IsLog(<<>>)
    BY <2>1 DEF IsLog
  <2> QED
    BY <2>1, <2>2, LogFileEmpty
<1>2. ASSUME NEW rs \in Seq(Logged), NEW r \in Logged, rs \in T
      PROVE  Append(rs, r) \in T
  <2>1. rs \in Seq(Short) /\ r \in Short
    BY LoggedIs
  <2>2. LogFile(Append(rs, r)) = LogFile(rs) \o LogFrame(r)
    BY <2>1, LogFileAppend
  <2>3. LogFrame(r) \in Seq(Byte) /\ LogFile(rs) \in Seq(Byte)
    BY <1>2, <2>1, ShortIs
  <2>4. Append(rs, r) \in Seq(Logged)
    BY AppendProperties
  <2>5. IsLog(LogFile(rs) \o LogFrame(r)) /\ LogFile(rs) \o LogFrame(r) \in Seq(Byte)
    BY <1>2, <2>3, LogGrows, ConcatProperties
  <2> QED
    BY <2>2, <2>4, <2>5
<1>3. Seq(Logged) \subseteq T
  <2> HIDE DEF T
  <2> QED
    BY <1>1, <1>2, SequenceInduction
<1> QED
  BY <1>3

(* Behind the first b bytes of a file: t bytes of the frame of r, then a log. *)
Torn(file, b, r, t, log) ==
  /\ t \in 0 .. Len(r) + 2
  /\ Len(file) = (b + t) + Len(log)
  /\ \A i \in 1 .. t : file[b + i] = LogFrame(r)[i]
  /\ \A i \in 1 .. Len(log) : file[(b + t) + i] = log[i]

(* A record of n bytes is read, whatever they are. *)
ReadsAs(file, pos, n) ==
  /\ n = SizeAt(file, pos)
  /\ pos + n + 2 <= Len(file)
  /\ file[pos + n + 2] = Crc(Held(file, pos))

(* A record that is read there, and is not empty, ends where one of the log ends. *)
LEMMA EndsInLog ==
  ASSUME NEW Byte, Ideal(Byte), NEW file \in Seq(Byte), NEW log \in Seq(Byte), IsLog(log),
         NEW r \in Short, NEW b \in Nat, NEW t \in Nat, Torn(file, b, r, t, log),
         NEW pos \in Nat, pos > b, NEW n, n # 0, ReadsAs(file, pos, n)
  PROVE  pos + n + 2 = (b + t) + n + 3 \/ pos + n + 2 >= (b + t) + n + 7
<1> DEFINE q == Held(file, pos)  m == Len(log)  L == Len(file)  l == Len(r)
           e == pos + n + 2
           x == e - (b + t)
<1>1. n \in 1 .. 99 /\ m \in Nat /\ pos \in Nat \ {0}
  <2>1. n \in 0 .. 99
    BY SizeAtIs DEF ReadsAs
  <2> QED
    BY <2>1
<1>2. l \in 0 .. 99 /\ t \in 0 .. l + 2
  BY ShortIs DEF Torn
<1>3. /\ L = (b + t) + m
      /\ \A i \in 1 .. t : file[b + i] = LogFrame(r)[i]
      /\ \A i \in 1 .. m : file[(b + t) + i] = log[i]
  BY DEF Torn
<1>4. q \in Seq(Byte) /\ Len(q) = n
  BY <1>1, HeldIs DEF ReadsAs
<1>5. q # <<>>
  BY <1>1, <1>4
<1>6. Crc(q) \notin PlainByte /\ file[e] = Crc(q) /\ e <= L
  BY <1>4, <1>5 DEF Ideal, ReadsAs
<1>7. \A i \in 1 .. l + 2 : LogFrame(r)[i] \in PlainByte
  BY FrameBytes
<1>8. \A i \in 1 .. m : log[i] \in PlainByte \/ IsChecksum(log[i], i)
  BY DEF IsLog
<1> HIDE DEF q, m, L, l
<1>9. ~(e <= b + t)
  <2> SUFFICES ASSUME e <= b + t
               PROVE  FALSE
    OBVIOUS
  <2>1. e - b \in 1 .. t /\ e - b \in 1 .. l + 2 /\ b + (e - b) = e
    BY <1>1, <1>2
  <2>2. file[e] = LogFrame(r)[e - b]
    BY <1>3, <2>1
  <2> QED
    BY <1>6, <1>7, <2>1, <2>2
<1>10. x \in 1 .. m /\ (b + t) + x = e
  BY <1>1, <1>2, <1>3, <1>6, <1>9
<1> HIDE DEF e
<1>11. log[x] = Crc(q)
  BY <1>3, <1>6, <1>10
<1>12. IsChecksum(Crc(q), x)
  BY <1>6, <1>8, <1>10, <1>11
<1>13. PICK p \in Logged : Crc(q) = Crc(p) /\ (x = Len(p) + 3 \/ x >= Len(p) + 7)
  BY <1>12 DEF IsChecksum
<1>14. p \in Seq(Byte)
  BY LoggedIs, ShortIs
<1>15. p = q
  BY <1>4, <1>13, <1>14 DEF Ideal
<1>16. x = n + 3 \/ x >= n + 7
  BY <1>4, <1>13, <1>15
<1> QED
  BY <1>1, <1>2, <1>10, <1>16 DEF e

(* Nothing is read at the torn frame but an empty record out of two zeros. *)
LEMMA TornRead ==
  ASSUME NEW Byte, Ideal(Byte), NEW file \in Seq(Byte), NEW log \in Seq(Byte), IsLog(log),
         NEW r \in Short, NEW b \in Nat, NEW t \in Nat \ {0}, Torn(file, b, r, t, log),
         RecordAt(file, b + 1) # {}
  PROVE  r = <<>> /\ t = 2 /\ RecordAt(file, b + 1) = {<<>>} /\ log # <<>>
<1> DEFINE m == Len(log)  L == Len(file)  l == Len(r)  pos == b + 1
           n == SizeAt(file, pos)  q == Held(file, pos)
<1>1. n \in 0 .. 99 /\ m \in Nat /\ pos \in Nat \ {0} /\ (m = 0 => log = <<>>)
  BY SizeAtIs, EmptySeq
<1>2. l \in 0 .. 99 /\ t \in 1 .. l + 2
  <2>1. l \in 0 .. 99 /\ t \in 0 .. l + 2
    BY ShortIs DEF Torn
  <2> QED
    BY <2>1
<1>3. /\ L = (b + t) + m
      /\ \A i \in 1 .. t : file[b + i] = LogFrame(r)[i]
      /\ \A i \in 1 .. m : file[(b + t) + i] = log[i]
  BY DEF Torn
<1>4. pos + n + 2 <= L /\ file[pos + n + 2] = Crc(q) /\ RecordAt(file, b + 1) = {q}
  BY <1>1, RecordAtIs
<1>5. n = 0
  <2> SUFFICES ASSUME n # 0
               PROVE  FALSE
    OBVIOUS
  <2>1. pos + n + 2 = (b + t) + n + 3 \/ pos + n + 2 >= (b + t) + n + 7
    <3> HIDE DEF m, L, l
    <3>1. pos > b /\ pos \in Nat /\ t \in Nat /\ ReadsAs(file, pos, n)
      BY <1>4 DEF L, ReadsAs
    <3> HIDE DEF pos
    <3> QED
      BY <1>4, <3>1, EndsInLog DEF L
  <2> HIDE DEF m, L, l, n
  <2> QED
    BY <1>1, <1>2, <2>1
<1>6. file[pos] = "0" /\ file[pos + 1] = "0"
  BY <1>5, SizeAtIs
<1>7. q \in Seq(Byte) /\ Len(q) = 0
  BY <1>1, <1>4, <1>5, HeldIs
<1>8. q = <<>>
  BY <1>7, EmptySeq
<1>9. file[pos + 2] = "0"
  <2>1. pos + n + 2 = pos + 2
    BY <1>5
  <2> QED
    BY <1>4, <1>8, <2>1 DEF Ideal
<1>10. log # <<>> => m >= 4 /\ ~(log[1] = "0" /\ log[2] = "0")
  BY DEF IsLog
<1>11. LogFrame(r)[1] = "0" /\ LogFrame(r)[2] = "0" => r = <<>>
  BY FrameBytes
<1>12. l = Len(r) /\ (r = <<>> => l = 0)
  BY EmptySeq
<1> HIDE DEF m, L, l, n, q
<1>13. t # 1
  <2> SUFFICES ASSUME t = 1
               PROVE  FALSE
    OBVIOUS
  <2>1. L >= pos + 2
    BY <1>1, <1>4, <1>5
  <2>2. m # 0
    BY <1>1, <1>3, <2>1
  <2>3. m >= 4
    BY <1>10, <2>2 DEF m
  <2>4. 1 \in 1 .. m /\ 2 \in 1 .. m /\ (b + t) + 1 = pos + 1 /\ (b + t) + 2 = pos + 2
    BY <1>1, <2>3
  <2>5. log[1] = "0" /\ log[2] = "0"
    BY <1>3, <1>6, <1>9, <2>4
  <2> QED
    BY <1>10, <2>2, <2>5 DEF m
<1>14. r = <<>> /\ l = 0
  <2>1. 1 \in 1 .. t /\ 2 \in 1 .. t /\ b + 1 = pos /\ b + 2 = pos + 1
    BY <1>2, <1>13
  <2>2. LogFrame(r)[1] = "0" /\ LogFrame(r)[2] = "0"
    BY <1>3, <1>6, <2>1
  <2> QED
    BY <1>11, <1>12, <2>2
<1>15. t = 2
  BY <1>2, <1>13, <1>14
<1>16. m # 0
  BY <1>1, <1>3, <1>4, <1>5, <1>15
<1>17. log # <<>>
  BY <1>16 DEF m
<1> QED
  BY <1>4, <1>8, <1>14, <1>15, <1>17

(* Nor behind that empty record, which took its checksum from the log. *)
LEMMA TornReadAgain ==
  ASSUME NEW Byte, Ideal(Byte), NEW file \in Seq(Byte), NEW log \in Seq(Byte), IsLog(log),
         NEW b \in Nat, Torn(file, b, <<>>, 2, log), RecordAt(file, b + 1) = {<<>>}
  PROVE  RecordAt(file, b + 4) = {}
<1> SUFFICES ASSUME RecordAt(file, b + 4) # {}
             PROVE  FALSE
  OBVIOUS
<1> DEFINE m == Len(log)  L == Len(file)  pos == b + 4
           n == SizeAt(file, pos)  q == Held(file, pos)
<1>1. n \in 0 .. 99 /\ m \in Nat /\ pos \in Nat \ {0}
  BY SizeAtIs
<1>2. <<>> \in Short /\ Len(<<>>) = 0
  BY ShortExists
<1>3. L = (b + 2) + m /\ \A i \in 1 .. m : file[(b + 2) + i] = log[i]
  BY DEF Torn
<1>4. pos + n + 2 <= L /\ file[pos + n + 2] = Crc(q)
  BY <1>1, RecordAtIs
<1>5. n = 0
  <2> SUFFICES ASSUME n # 0
               PROVE  FALSE
    OBVIOUS
  <2>1. pos + n + 2 = (b + 2) + n + 3 \/ pos + n + 2 >= (b + 2) + n + 7
    <3> HIDE DEF m, L
    <3>1. pos > b /\ pos \in Nat /\ ReadsAs(file, pos, n)
      BY <1>4 DEF L, ReadsAs
    <3> HIDE DEF pos
    <3> QED
      BY <1>2, <1>4, <3>1, EndsInLog DEF L
  <2> HIDE DEF m, L, n
  <2> QED
    BY <1>1, <2>1
<1>6. file[pos] = "0"
  BY <1>5, SizeAtIs
<1>7. log # <<>> => ~(log[1] = "0" /\ log[2] = "0")
  BY DEF IsLog
<1>8. file[b + 3] = "0"
  <2> DEFINE p == b + 1  k == SizeAt(file, p)  h == Held(file, p)
  <2>1. p \in Nat \ {0}
    OBVIOUS
  <2>2. p + k + 2 <= L /\ file[p + k + 2] = Crc(h) /\ {h} = {<<>>}
    BY <2>1, RecordAtIs
  <2>3. Len(h) = k /\ h = <<>>
    BY <2>1, <2>2, HeldIs
  <2>4. k = 0
    BY <1>2, <2>3
  <2>5. p + k + 2 = b + 3
    BY <2>4
  <2> QED
    BY <2>2, <2>3, <2>5 DEF Ideal
<1>9. m = Len(log) /\ (log = <<>> => m = 0)
  BY EmptySeq
<1> HIDE DEF m, L, n, q
<1>10. m >= 4
  BY <1>1, <1>3, <1>4, <1>5
<1>11. 1 \in 1 .. m /\ 2 \in 1 .. m /\ (b + 2) + 1 = b + 3 /\ (b + 2) + 2 = pos
  BY <1>1, <1>10
<1>12. log[1] = "0" /\ log[2] = "0"
  BY <1>3, <1>6, <1>8, <1>11
<1>13. log # <<>>
  BY <1>9, <1>10
<1> QED
  BY <1>7, <1>12, <1>13

(* Replay of a file that begins with whole frames. *)
LEMMA ReplayBehind ==
  ASSUME NEW Byte, Ideal(Byte), NEW file \in Seq(Byte), NEW g, Reads(g, file, Byte),
         NEW rs \in Seq(Short), StandsAt(file, 0, LogFile(rs))
  PROVE  /\ Len(LogFile(rs)) \in 0 .. Len(file)
         /\ Replay(file) = rs \o g[Len(LogFile(rs)) + 1]
<1> DEFINE n == Len(LogFile(rs))
<1>1. n \in Nat
  <2>1. LogFile(rs) \in Seq(Byte)
    BY LogFileAppend, ShortExists
  <2> QED
    BY <2>1
<1>2. 0 + n \in 0 .. Len(file) /\ g[0 + 1] = rs \o g[0 + n + 1]
  BY FramesRead
<1>3. 0 + n = n /\ 0 + 1 = 1
  BY <1>1
<1>4. Replay(file) = g[1]
  BY DEF Reads
<1> HIDE DEF n
<1>5. n \in 0 .. Len(file) /\ Replay(file) = rs \o g[n + 1]
  BY <1>2, <1>3, <1>4
<1> QED
  BY <1>5 DEF n

LEMMA ShortLists ==
  ASSUME NEW Byte, Ideal(Byte), NEW rs \in Seq(Short)
  PROVE  rs \in Seq(Seq(Byte)) /\ LogFile(rs) \in Seq(Byte) /\ rs \o <<>> = rs
<1>1. Short \subseteq Seq(Byte)
  BY ShortIs
<1>2. LogFile(rs) \in Seq(Byte)
  BY LogFileAppend, ShortExists
<1> QED
  BY <1>1, <1>2, SeqMonotonic, ConcatEmptySeq

(* Whole frames alone give back their records. *)
LEMMA ReplayWhole ==
  ASSUME NEW Byte, Ideal(Byte), NEW rs \in Seq(Short)
  PROVE  Replay(LogFile(rs)) = rs
<1> DEFINE file == LogFile(rs)
           L == Len(file)
<1>1. file \in Seq(Byte) /\ L \in Nat /\ rs \o <<>> = rs
  <2>1. file \in Seq(Byte) /\ rs \o <<>> = rs
    BY ShortLists
  <2> HIDE DEF file
  <2> QED
    BY <2>1
<1>2. PICK g : Reads(g, file, Byte)
  <2> HIDE DEF file
  <2> QED
    BY <1>1, ReplayIs
<1>3. StandsAt(file, 0, file)
  <2> HIDE DEF file
  <2> QED
    BY <1>1, WholeStands
<1>4. Replay(file) = rs \o g[L + 1]
  BY <1>1, <1>2, <1>3, ReplayBehind
<1>5. RecordAt(file, L + 1) = {}
  <2> DEFINE n == SizeAt(file, L + 1)
  <2>1. n \in 0 .. 99 /\ L + 1 \in Nat \ {0}
    BY <1>1, SizeAtIs
  <2>2. ~(L + 1 + n + 2 <= L)
    <3> HIDE DEF n, L
    <3> QED
      BY <1>1, <2>1
  <2> HIDE DEF file
  <2> QED
    BY <1>1, <2>1, <2>2, RecordAtIs
<1>6. g[L + 1] = <<>>
  <2>1. L + 1 \in 1 .. L + 1
    <3> HIDE DEF L
    <3> QED
      BY <1>1
  <2> HIDE DEF file
  <2> QED
    BY <1>2, <1>5, <2>1 DEF Reads
<1> QED
  BY <1>1, <1>4, <1>6

(* A file that was cut inside a frame, and appended to. *)
TornFile(kept, r, t, log) == (LogFile(kept) \o SubSeq(LogFrame(r), 1, t)) \o log

LEMMA TornFileIs ==
  ASSUME NEW Byte, Ideal(Byte), NEW kept \in Seq(Short), NEW r \in Short,
         NEW t \in Nat, t <= Len(r) + 2, NEW log \in Seq(Byte)
  PROVE  /\ TornFile(kept, r, t, log) \in Seq(Byte)
         /\ StandsAt(TornFile(kept, r, t, log), 0, LogFile(kept))
         /\ Torn(TornFile(kept, r, t, log), Len(LogFile(kept)), r, t, log)
<1> DEFINE k == LogFile(kept)
           f == LogFrame(r)
           s == SubSeq(f, 1, t)
           x == k \o s
           file == x \o log
           b == Len(k)
           l == Len(r)
<1>1. k \in Seq(Byte) /\ f \in Seq(Byte) /\ l \in 0 .. 99 /\ Len(f) = l + 3
  BY ShortLists, ShortIs
<1>2. t \in 0 .. l + 2 /\ \A i \in 1 .. t : i \in 1 .. l + 3
  <2>1. t \in Nat /\ t <= l + 2
    OBVIOUS
  <2> HIDE DEF l
  <2> QED
    BY <1>1, <2>1
<1>3. /\ s \in Seq(Byte) /\ Len(s) = t
      /\ \A i \in 1 .. t : s[i] = f[i]
  <2>1. \A i \in 1 .. l + 3 : f[i] \in Byte
    <3> HIDE DEF f
    <3> QED
      BY <1>1
  <2>2. \A i \in 1 .. t : f[i] \in Byte
    <3> HIDE DEF f, l
    <3> QED
      BY <1>2, <2>1
  <2>3. t - 1 + 1 = t /\ (IF 1 <= t THEN t - 1 + 1 ELSE 0) = t /\ t \in Int
        /\ \A i \in 1 .. t : 1 + i - 1 = i
    OBVIOUS
  <2> HIDE DEF f
  <2>4. /\ SubSeq(f, 1, t) \in Seq(Byte)
        /\ Len(SubSeq(f, 1, t)) = IF 1 <= t THEN t - 1 + 1 ELSE 0
        /\ \A i \in 1 .. t - 1 + 1 : SubSeq(f, 1, t)[i] = f[1 + i - 1]
    BY <2>2, <2>3, SubSeqProperties
  <2> QED
    BY <2>3, <2>4
<1> HIDE DEF k, s, f
<1>4. x \in Seq(Byte) /\ Len(x) = Len(k) + Len(s)
  BY <1>1, <1>3, ConcatProperties
<1> HIDE DEF x
<1>5. file \in Seq(Byte) /\ Len(file) = Len(x) + Len(log)
  BY <1>4, ConcatProperties
<1>6. StandsAt(file, 0, file)
  BY <1>4, WholeStands
<1>7. Len(file) \in Nat /\ b \in Nat
  BY <1>1, <1>5
<1>8. StandsAt(file, 0, x) /\ StandsAt(file, 0 + Len(x), log)
  <2>1. 0 \in Nat
    OBVIOUS
  <2> HIDE DEF file
  <2>2. StandsAt(file, 0, x \o log)
    BY <1>6 DEF file
  <2> QED
    BY <1>4, <1>7, <2>1, <2>2, PartsStand
<1>9. StandsAt(file, 0, k) /\ StandsAt(file, 0 + Len(k), s)
  <2>1. 0 \in Nat
    OBVIOUS
  <2> HIDE DEF file
  <2>2. StandsAt(file, 0, k \o s)
    BY <1>8 DEF x
  <2> QED
    BY <1>1, <1>3, <1>7, <2>1, <2>2, PartsStand
<1> HIDE DEF file, b, l
<1>10. 0 + Len(x) = b + t /\ 0 + Len(k) = b /\ Len(x) = b + t
  <2>1. Len(x) = b + t
    BY <1>3, <1>4 DEF b
  <2>2. Len(k) = b
    BY DEF b
  <2> QED
    BY <1>7, <2>1, <2>2
<1>11. Torn(file, b, r, t, log)
  <2>1. t \in 0 .. Len(r) + 2
    BY <1>2 DEF l
  <2>2. Len(file) = (b + t) + Len(log)
    BY <1>5, <1>10
  <2>3. \A i \in 1 .. t : file[b + i] = s[i]
    BY <1>3, <1>9, <1>10 DEF StandsAt
  <2>4. \A i \in 1 .. Len(log) : file[(b + t) + i] = log[i]
    BY <1>8, <1>10 DEF StandsAt
  <2> QED
    BY <1>3, <2>1, <2>2, <2>3, <2>4 DEF Torn, f
<1> QED
  BY <1>5, <1>9, <1>11 DEF TornFile, file, x, s, f, k, b

LEMMA ReplayTorn ==
  ASSUME NEW Byte, Ideal(Byte), NEW kept \in Seq(Short), NEW r \in Short,
         NEW t \in Nat \ {0}, t <= Len(r) + 2, NEW log \in Seq(Byte), IsLog(log)
  PROVE  \/ Replay(TornFile(kept, r, t, log)) = kept
         \/ r = <<>> /\ Replay(TornFile(kept, r, t, log)) = Append(kept, <<>>)
<1> DEFINE file == TornFile(kept, r, t, log)
           b == Len(LogFile(kept))
           L == Len(file)
<1>1. file \in Seq(Byte) /\ StandsAt(file, 0, LogFile(kept)) /\ Torn(file, b, r, t, log)
  BY TornFileIs
<1> HIDE DEF file
<1>2. PICK g : Reads(g, file, Byte)
  BY <1>1, ReplayIs
<1>3. b \in 0 .. L /\ Replay(file) = kept \o g[b + 1] /\ L \in Nat
  BY <1>1, <1>2, ReplayBehind
<1>4. kept \o <<>> = kept
  BY ShortLists
<1>5. b + 1 \in 1 .. L + 1 /\ b \in Nat
  <2> HIDE DEF b, L
  <2> QED
    BY <1>3
<1>6. CASE RecordAt(file, b + 1) = {}
  <2>1. g[b + 1] = <<>>
    <3> HIDE DEF b
    <3> QED
      BY <1>2, <1>5, <1>6 DEF Reads
  <2> QED
    BY <1>3, <1>4, <2>1 DEF file
<1>7. CASE RecordAt(file, b + 1) # {}
  <2>1. r = <<>> /\ t = 2 /\ RecordAt(file, b + 1) = {<<>>}
    <3> HIDE DEF b
    <3> QED
      BY <1>1, <1>5, <1>7, TornRead
  <2>2. RecordAt(file, b + 4) = {}
    <3> HIDE DEF b
    <3> QED
      BY <1>1, <1>5, <2>1, TornReadAgain
  <2>3. <<>> \in Seq(Byte) /\ Len(<<>>) = 0
    OBVIOUS
  <2>4. (b + 1) + Len(<<>>) + 3 = b + 4
    <3> HIDE DEF b
    <3> QED
      BY <1>5, <2>3
  <2>5. (b + 1) + Len(<<>>) + 3 \in 1 .. L + 1
        /\ g[b + 1] = <<<<>>>> \o g[(b + 1) + Len(<<>>) + 3]
    <3> HIDE DEF b
    <3> QED
      BY <1>2, <1>5, <2>1, <2>3 DEF Reads
  <2>6. g[b + 4] = <<>>
    <3> HIDE DEF b
    <3>1. b + 4 \in 1 .. Len(file) + 1
      BY <2>4, <2>5 DEF L
    <3> QED
      BY <1>2, <2>2, <3>1 DEF Reads
  <2>7. g[b + 1] = <<<<>>>> \o <<>>
    BY <2>4, <2>5, <2>6
  <2>8. <<<<>>>> \o <<>> = <<<<>>>>
    <3>1. <<<<>>>> \in Seq(Short)
      BY ShortExists
    <3> QED
      BY <3>1, ShortLists
  <2>9. kept \o <<<<>>>> = Append(kept, <<>>)
    BY ShortExists, AppendIsConcat
  <2> QED
    BY <1>3, <2>1, <2>7, <2>8, <2>9 DEF file
<1> QED
  BY <1>6, <1>7

(* A function that recurs as the steps say stays among the values. *)
LEMMA Recurs ==
  ASSUME NEW D, NEW S, NEW N, NEW rank, NEW Stop, NEW base, NEW before, NEW step,
         Recursive(D, S, N, rank, Stop, base, before, step), NEW f,
         \A d \in D : /\ d \in Stop => f[d] = base[d]
                      /\ d \notin Stop /\ f[before[d]] \in S => f[d] = step[d][f[before[d]]]
  PROVE  \A d \in D : /\ f[d] \in S
                      /\ d \notin Stop => /\ before[d] \in D
                                          /\ f[d] = step[d][f[before[d]]]
<1> DEFINE T == {d \in D : f[d] \in S}
<1>1. /\ N \in Nat /\ rank \in [D -> 0 .. N]
      /\ base \in [D -> S] /\ before \in [D -> D] /\ step \in [D -> [S -> S]]
      /\ \A d \in D : d \notin Stop => rank[before[d]] < rank[d]
  BY DEF Recursive
<1>2. ASSUME NEW d \in D, \A c \in D : rank[c] < rank[d] => c \in T
      PROVE  d \in T
  <2>1. CASE d \in Stop
    BY <1>1, <2>1
  <2>2. CASE d \notin Stop
    <3>1. before[d] \in D /\ rank[before[d]] < rank[d]
      BY <1>1, <2>2
    <3>2. f[before[d]] \in S
      BY <1>2, <3>1
    <3>3. f[d] = step[d][f[before[d]]] /\ step[d] \in [S -> S]
      BY <1>1, <2>2, <3>2
    <3> QED
      BY <3>2, <3>3
  <2> QED
    BY <2>1, <2>2
<1>3. D \subseteq T
  <2>1. \A d \in D : (\A c \in D : rank[c] < rank[d] => c \in T) => d \in T
    <3> HIDE DEF T
    <3> QED
      BY <1>2
  <2>2. N \in Nat /\ rank \in [D -> 0 .. N]
    BY <1>1
  <2> HIDE DEF T
  <2> QED
    BY <2>1, <2>2, RankInduction
<1> QED
  BY <1>1, <1>3

LEMMA CountedRecurs ==
  ASSUME NEW n, NEW S, NEW first, NEW step, Counted(n, S, first, step), NEW f,
         f[0] = first,
         \A i \in 1 .. n : f[i - 1] \in S => f[i] = step[i][f[i - 1]]
  PROVE  /\ \A i \in 0 .. n : f[i] \in S
         /\ \A i \in 1 .. n : f[i - 1] \in S /\ f[i] = step[i][f[i - 1]]
<1> DEFINE T == {i \in 0 .. n : f[i] \in S}
<1>1. n \in Nat /\ first \in S /\ step \in [1 .. n -> [S -> S]]
  BY DEF Counted
<1>2. 0 \in T
  BY <1>1
<1>3. ASSUME NEW i \in 1 .. n, i - 1 \in T
      PROVE  i \in T
  <2>1. f[i] = step[i][f[i - 1]] /\ step[i] \in [S -> S] /\ f[i - 1] \in S
    BY <1>1, <1>3
  <2>2. i \in 0 .. n
    BY <1>1
  <2> QED
    BY <2>1, <2>2
<1>4. 0 .. n \subseteq T
  <2> HIDE DEF T
  <2> QED
    BY <1>1, <1>2, <1>3, CountedInduction
<1>5. \A i \in 1 .. n : i - 1 \in 0 .. n
  BY <1>1
<1> QED
  BY <1>4, <1>5

(* What is kept of a sequence, one element after the other. *)
Kept(g, e, seq) ==
  /\ g[0] = <<>>
  /\ \A i \in 1 .. Len(seq) :
       g[i] = IF seq[i] = e THEN g[i - 1] ELSE Append(g[i - 1], seq[i])
  /\ Skipping(e, seq) = g[Len(seq)]

LEMMA SkippingIs ==
  ASSUME NEW S, NEW e, NEW seq \in Seq(S)
  PROVE  \E g : Kept(g, e, seq) /\ \A i \in 0 .. Len(seq) : g[i] \in Seq(S \ {e})
<1> DEFINE n == Len(seq)
           U == Seq(S \ {e})
           Def(f, i) == IF i = 0 THEN <<>>
                        ELSE IF seq[i] = e THEN f[i - 1] ELSE Append(f[i - 1], seq[i])
           upTo == CHOOSE f : f = [i \in 0 .. n |-> Def(f, i)]
           step == [i \in 1 .. n |-> [s \in U |-> IF seq[i] = e THEN s
                                                  ELSE Append(s, seq[i])]]
           first == <<>>
<1>1. n \in Nat /\ first \in U /\ \A i \in 1 .. n : seq[i] \in S
  OBVIOUS
<1>2. Skipping(e, seq) = upTo[n]
  BY DEF Skipping
<1>3. \A s \in U, t \in S : t # e => Append(s, t) \in U
  BY AppendProperties
<1> HIDE DEF U, n
<1>4. Counted(n, U, first, step)
  BY <1>1, <1>3 DEF Counted
<1>5. PICK h \in [0 .. n -> U] :
        \A i \in 0 .. n : h[i] = IF i = 0 THEN first ELSE step[i][h[i - 1]]
  <2> HIDE DEF step, first
  <2> QED
    BY <1>4, CountedRecursion
<1>6. ASSUME NEW f, NEW i \in 1 .. n, f[i - 1] \in U
      PROVE  Def(f, i) = step[i][f[i - 1]]
  <2>1. i # 0
    BY <1>1
  <2> QED
    BY <1>6, <2>1
<1>7. \A i \in 0 .. n : i = 0 \/ (i \in 1 .. n /\ i - 1 \in 0 .. n)
  BY <1>1
<1>8. h = [i \in 0 .. n |-> Def(h, i)]
  <2>1. ASSUME NEW i \in 0 .. n
        PROVE  h[i] = Def(h, i)
    <3>1. CASE i = 0
      BY <1>5, <3>1
    <3>2. CASE i # 0
      <4>1. i \in 1 .. n /\ h[i - 1] \in U /\ h[i] = step[i][h[i - 1]]
        <5> HIDE DEF step
        <5> QED
          BY <1>5, <1>7, <3>2
      <4> QED
        BY <1>6, <4>1
    <3> QED
      BY <3>1, <3>2
  <2> HIDE DEF Def
  <2> QED
    BY <1>5, <2>1
<1> HIDE DEF Def, step
<1>9. upTo = [i \in 0 .. n |-> Def(upTo, i)]
  <2> HIDE DEF U
  <2> QED
    BY <1>8
<1> HIDE DEF upTo
<1>10. upTo[0] = first
  BY <1>1, <1>9 DEF Def
<1>11. \A i \in 1 .. n : upTo[i] = Def(upTo, i)
  <2>1. \A i \in 0 .. n : upTo[i] = Def(upTo, i)
    <3> DEFINE D == 0 .. n
    <3> HIDE DEF D
    <3>1. upTo = [i \in D |-> Def(upTo, i)]
      BY <1>9 DEF D
    <3>2. \A i \in D : upTo[i] = Def(upTo, i)
      BY <3>1
    <3> QED
      BY <3>2 DEF D
  <2>2. \A i \in 1 .. n : i \in 0 .. n
    BY <1>1
  <2> QED
    BY <2>1, <2>2, Zenon
<1>12. /\ \A i \in 0 .. n : upTo[i] \in U
       /\ \A i \in 1 .. n : upTo[i - 1] \in U /\ upTo[i] = step[i][upTo[i - 1]]
  <2>1. \A i \in 1 .. n : upTo[i - 1] \in U => upTo[i] = step[i][upTo[i - 1]]
    BY <1>6, <1>11
  <2> HIDE DEF first
  <2> QED
    BY <1>4, <1>10, <2>1, CountedRecurs
<1>13. \A i \in 1 .. n : i # 0
  BY <1>1
<1> QED
  BY <1>2, <1>10, <1>11, <1>12, <1>13 DEF Kept, Def, n, U

LEMMA SkippingType ==
  ASSUME NEW S, NEW seq \in Seq(S), NEW e
  PROVE  Skipping(e, seq) \in Seq(S \ {e})
<1> DEFINE n == Len(seq)
<1>1. PICK g : Kept(g, e, seq) /\ \A i \in 0 .. n : g[i] \in Seq(S \ {e})
  BY SkippingIs
<1>2. n \in Nat
  OBVIOUS
<1> HIDE DEF n
<1>3. n \in 0 .. n
  BY <1>2
<1> QED
  BY <1>1, <1>3 DEF Kept, n

LEMMA SkippingAppend ==
  ASSUME NEW S, NEW seq \in Seq(S), NEW t \in S, NEW e
  PROVE  /\ t = e => Skipping(e, Append(seq, t)) = Skipping(e, seq)
         /\ t # e => Skipping(e, Append(seq, t)) = Append(Skipping(e, seq), t)
<1> DEFINE n == Len(seq)
           longer == Append(seq, t)
<1>1. /\ n \in Nat /\ longer \in Seq(S) /\ Len(longer) = n + 1
      /\ \A i \in 1 .. n : longer[i] = seq[i]
      /\ longer[n + 1] = t
  BY AppendLog
<1> HIDE DEF longer
<1>2. PICK g : Kept(g, e, seq) /\ \A i \in 0 .. n : g[i] \in Seq(S \ {e})
  BY SkippingIs
<1>3. PICK h : Kept(h, e, longer)
  BY <1>1, SkippingIs
<1> DEFINE T == {i \in 0 .. n : h[i] = g[i]}
<1>4. 0 \in T
  BY <1>1, <1>2, <1>3 DEF Kept
<1>5. ASSUME NEW i \in 1 .. n, i - 1 \in T
      PROVE  i \in T
  <2>1. i \in 1 .. Len(longer) /\ i \in 0 .. n
    BY <1>1
  <2>2. /\ h[i] = IF longer[i] = e THEN h[i - 1] ELSE Append(h[i - 1], longer[i])
        /\ g[i] = IF seq[i] = e THEN g[i - 1] ELSE Append(g[i - 1], seq[i])
    BY <1>2, <1>3, <2>1 DEF Kept
  <2> QED
    BY <1>1, <1>5, <2>1, <2>2
<1>6. 0 .. n \subseteq T
  <2> HIDE DEF T, n
  <2> QED
    BY <1>1, <1>4, <1>5, CountedInduction
<1>7. h[n] = g[n] /\ n \in 0 .. n
  BY <1>1, <1>6
<1>8. h[n + 1] = IF t = e THEN h[n] ELSE Append(h[n], t)
  <2>1. n + 1 \in 1 .. Len(longer) /\ (n + 1) - 1 = n
    BY <1>1
  <2> QED
    BY <1>1, <1>3, <2>1 DEF Kept
<1>9. Skipping(e, longer) = h[n + 1] /\ Skipping(e, seq) = g[n]
  BY <1>1, <1>2, <1>3 DEF Kept
<1> QED
  BY <1>2, <1>7, <1>8, <1>9 DEF longer

LEMMA SkippingNone == \A e : Skipping(e, <<>>) = <<>>
<1> TAKE e
<1>1. <<>> \in Seq({}) /\ Len(<<>>) = 0
  OBVIOUS
<1>2. PICK g : Kept(g, e, <<>>)
  BY <1>1, SkippingIs
<1> QED
  BY <1>1, <1>2 DEF Kept

LEMMA NonEmptyAppend ==
  ASSUME NEW S, NEW texts \in Seq(S), NEW t \in S
  PROVE  /\ NonEmpty(texts) \in Seq(S \ {<<>>})
         /\ NonEmpty(Append(texts, t)) =
              IF t = <<>> THEN NonEmpty(texts) ELSE Append(NonEmpty(texts), t)
<1> DEFINE e == <<>>
<1> HIDE DEF e
<1>1. /\ t = e => Skipping(e, Append(texts, t)) = Skipping(e, texts)
      /\ t # e => Skipping(e, Append(texts, t)) = Append(Skipping(e, texts), t)
  BY SkippingAppend
<1>2. Skipping(e, texts) \in Seq(S \ {e})
  BY SkippingType
<1> QED
  BY <1>1, <1>2 DEF NonEmpty, e

LEMMA NonEmptyOfNone == NonEmpty(<<>>) = <<>>
BY SkippingNone DEF NonEmpty

LEMMA LoggedAppend ==
  ASSUME NEW rs \in Seq(Short), NEW r \in Logged
  PROVE  NonEmpty(Append(rs, r)) = Append(NonEmpty(rs), r)
<1>1. r \in Short /\ r # <<>>
  BY DEF Logged
<1> QED
  BY <1>1, NonEmptyAppend

(* Empty records between others are all that goes. *)
LEMMA NonEmptyJoins ==
  ASSUME NEW a \in Seq(Logged), NEW es \in Seq({<<>>})
  PROVE  /\ a \o es \in Seq(Short) /\ NonEmpty(a \o es) = a
         /\ \A b \in Seq(Logged) : NonEmpty((a \o es) \o b) = a \o b
<1>0. {<<>>} \subseteq Short /\ Logged \subseteq Short /\ Seq({<<>>}) \subseteq Seq(Short)
      /\ Seq(Logged) \subseteq Seq(Short)
  <2>1. {<<>>} \subseteq Short
    BY ShortExists
  <2> QED
    BY <2>1, SeqMonotonic, LoggedIs
<1> DEFINE A == {s \in Seq(Logged) : NonEmpty(s) = s}
<1>1. <<>> \in A
  <2>1. <<>> \in Seq(Logged)
    OBVIOUS
  <2> QED
    BY <2>1, NonEmptyOfNone
<1>2. ASSUME NEW s \in Seq(Logged), NEW r \in Logged, s \in A
      PROVE  Append(s, r) \in A
  <2>1. Append(s, r) \in Seq(Logged)
    BY AppendProperties
  <2>2. NonEmpty(Append(s, r)) = Append(s, r)
    BY <1>0, <1>2, LoggedAppend
  <2> QED
    BY <2>1, <2>2
<1>3. Seq(Logged) \subseteq A
  <2> HIDE DEF A
  <2> QED
    BY <1>1, <1>2, SequenceInduction
<1> DEFINE E == {s \in Seq({<<>>}) : NonEmpty(a \o s) = a}
<1>4. <<>> \in E
  <2>1. <<>> \in Seq({<<>>}) /\ a \o <<>> = a
    BY ConcatEmptySeq
  <2> QED
    BY <1>3, <2>1
<1>5. ASSUME NEW s \in Seq({<<>>}), NEW e \in {<<>>}, s \in E
      PROVE  Append(s, e) \in E
  <2>1. Append(s, e) \in Seq({<<>>})
    BY AppendProperties
  <2>2. a \o s \in Seq(Short) /\ e \in Short
    BY <1>0, ConcatProperties
  <2>3. a \o Append(s, e) = Append(a \o s, e)
    <3>1. a \in Seq(Short) /\ s \in Seq(Short) /\ <<e>> \in Seq(Short)
      BY <1>0
    <3>2. a \o (s \o <<e>>) = (a \o s) \o <<e>>
      BY <3>1, ConcatAssociative
    <3> QED
      BY <2>2, <3>1, <3>2, <1>0, AppendIsConcat
  <2>4. NonEmpty(Append(a \o s, e)) = NonEmpty(a \o s)
    BY <2>2, NonEmptyAppend
  <2>5. NonEmpty(a \o Append(s, e)) = a
    BY <1>5, <2>3, <2>4
  <2> QED
    BY <2>1, <2>5
<1>6. Seq({<<>>}) \subseteq E
  <2> HIDE DEF E
  <2> QED
    BY <1>4, <1>5, SequenceInduction
<1>7. a \o es \in Seq(Short) /\ NonEmpty(a \o es) = a
  BY <1>0, <1>6, ConcatProperties
<1> DEFINE c == a \o es
           B == {s \in Seq(Logged) : NonEmpty(c \o s) = a \o s}
<1>8. <<>> \in B
  <2>1. <<>> \in Seq(Logged) /\ a \o <<>> = a /\ c \o <<>> = c
    BY <1>7, ConcatEmptySeq
  <2> QED
    BY <1>7, <2>1
<1> HIDE DEF c
<1>9. ASSUME NEW s \in Seq(Logged), NEW r \in Logged, s \in B
      PROVE  Append(s, r) \in B
  <2>1. Append(s, r) \in Seq(Logged)
    BY AppendProperties
  <2>2. c \in Seq(Short) /\ s \in Seq(Short) /\ a \in Seq(Short) /\ r \in Short
    BY <1>0, <1>7 DEF c
  <2>3. <<r>> \in Seq(Short) /\ c \o s \in Seq(Short) /\ a \o s \in Seq(Short)
    BY <2>2, ConcatProperties
  <2>4. c \o (s \o <<r>>) = (c \o s) \o <<r>> /\ a \o (s \o <<r>>) = (a \o s) \o <<r>>
    BY <2>2, <2>3, ConcatAssociative
  <2>5. Append(s, r) = s \o <<r>> /\ Append(c \o s, r) = (c \o s) \o <<r>>
        /\ Append(a \o s, r) = (a \o s) \o <<r>>
    BY <2>2, <2>3, AppendIsConcat
  <2>6. NonEmpty(Append(c \o s, r)) = Append(NonEmpty(c \o s), r)
    BY <2>3, LoggedAppend
  <2>7. NonEmpty(c \o Append(s, r)) = a \o Append(s, r)
    BY <1>9, <2>4, <2>5, <2>6
  <2> QED
    BY <2>1, <2>7
<1>10. Seq(Logged) \subseteq B
  <2> HIDE DEF B
  <2> QED
    BY <1>8, <1>9, SequenceInduction
<1> QED
  BY <1>7, <1>10 DEF c

-----------------------------------------------------------------------------
(* Zeros *)

Zeros(m) == [i \in 1 .. m |-> "0"]

LEMMA ZerosAre ==
  ASSUME NEW m \in Nat, NEW s \in Seq({"0"}), Len(s) = m
  PROVE  s = Zeros(m)
<1>1. s = [i \in 1 .. m |-> s[i]] /\ \A i \in 1 .. m : s[i] = "0"
  OBVIOUS
<1> QED
  BY <1>1 DEF Zeros

LEMMA EmptyFrame ==
  ASSUME NEW Byte, Ideal(Byte)
  PROVE  LogFrame(<<>>) = <<"0", "0", "0">>
<1>1. SizeField(0) = <<"0", "0">>
  BY DEF SizeField, Digits
<1>2. Len(<<>>) = 0
  OBVIOUS
<1>3. LogFrame(<<>>) = (<<"0", "0">> \o <<>>) \o <<"0">>
  BY <1>1, <1>2 DEF LogFrame, Ideal
<1>4. <<"0", "0">> \o <<>> = <<"0", "0">>
  OBVIOUS
<1>5. <<"0", "0">> \o <<"0">> = <<"0", "0", "0">>
  <2> DEFINE a == <<"0", "0">>  c == <<"0">>  z == <<"0", "0", "0">>
  <2>1. a \in Seq({"0"}) /\ c \in Seq({"0"}) /\ z \in Seq({"0"})
        /\ Len(a) = 2 /\ Len(c) = 1 /\ Len(z) = 3
    OBVIOUS
  <2> HIDE DEF a, c, z
  <2>2. a \o c \in Seq({"0"}) /\ Len(a \o c) = Len(a) + Len(c)
    BY <2>1, ConcatProperties
  <2>3. a \o c \in Seq({"0"}) /\ Len(a \o c) = 3
    BY <2>1, <2>2
  <2>4. a \o c = Zeros(3) /\ z = Zeros(3)
    BY <2>1, <2>3, ZerosAre
  <2> QED
    BY <2>4 DEF a, c, z
<1> QED
  BY <1>3, <1>4, <1>5

LEMMA EmptyRecords ==
  ASSUME NEW Byte, Ideal(Byte)
  PROVE  \A es \in Seq({<<>>}) : /\ LogFile(es) \in Seq({"0"})
                                 /\ Len(LogFile(es)) = 3 * Len(es)
<1> DEFINE T == {es \in Seq({<<>>}) : /\ LogFile(es) \in Seq({"0"})
                                      /\ Len(LogFile(es)) = 3 * Len(es)}
<1>1. <<>> \in T
  <2>1. <<>> \in Seq({<<>>}) /\ <<>> \in Seq({"0"}) /\ Len(<<>>) = 0 /\ 3 * 0 = 0
    OBVIOUS
  <2> QED
    BY <2>1, LogFileEmpty
<1>2. ASSUME NEW es \in Seq({<<>>}), NEW e \in {<<>>}, es \in T
      PROVE  Append(es, e) \in T
  <2> DEFINE more == Append(es, e)  k == Len(es)  a == LogFile(es)
  <2>1. more \in Seq({<<>>}) /\ Len(more) = k + 1 /\ k \in Nat
    BY AppendProperties
  <2>2. es \in Seq(Short) /\ e \in Short /\ e = <<>>
    BY ShortExists, SeqMonotonic
  <2>3. LogFile(more) = a \o <<"0", "0", "0">>
    BY <2>2, LogFileAppend, EmptyFrame
  <2>4. a \in Seq({"0"}) /\ Len(a) = 3 * k
    BY <1>2
  <2> HIDE DEF a
  <2>5. a \o <<"0", "0", "0">> \in Seq({"0"})
        /\ Len(a \o <<"0", "0", "0">>) = Len(a) + 3
    <3> DEFINE z == <<"0", "0", "0">>
    <3>1. z \in Seq({"0"}) /\ Len(z) = 3
      OBVIOUS
    <3> HIDE DEF z
    <3>2. a \o z \in Seq({"0"}) /\ Len(a \o z) = Len(a) + Len(z)
      BY <2>4, <3>1, ConcatProperties
    <3> QED
      BY <3>1, <3>2 DEF z
  <2> HIDE DEF more, k
  <2>6. Len(a) + 3 = 3 * (k + 1)
    BY <2>1, <2>4
  <2>7. LogFile(more) \in Seq({"0"}) /\ Len(LogFile(more)) = 3 * Len(more)
    BY <2>1, <2>3, <2>5, <2>6
  <2> QED
    BY <2>1, <2>7 DEF more
<1>3. Seq({<<>>}) \subseteq T
  <2> HIDE DEF T
  <2> QED
    BY <1>1, <1>2, SequenceInduction
<1> QED
  BY <1>3

(* Zeros are empty records, and what is left of one. *)
LEMMA ZerosAreRecords ==
  ASSUME NEW Byte, Ideal(Byte), NEW m \in Nat
  PROVE  \E es \in Seq({<<>>}) :
           /\ Zeros(m) = LogFile(es) \o SubSeq(LogFrame(<<>>), 1, m % 3)
           /\ m % 3 = 0 => Zeros(m) = LogFile(es)
<1> DEFINE k == m \div 3  t == m % 3
           es == [i \in 1 .. k |-> <<>>]
           a == LogFile(es)
           z == <<"0", "0", "0">>
           s == SubSeq(z, 1, t)
<1>1. k \in Nat /\ t \in 0 .. 2 /\ m = 3 * k + t
  OBVIOUS
<1> HIDE DEF k, t
<1>2. es \in Seq({<<>>}) /\ Len(es) = k
  BY <1>1
<1> HIDE DEF es
<1>3. a \in Seq({"0"}) /\ Len(a) = 3 * k
  BY <1>2, EmptyRecords
<1>4. s \in Seq({"0"}) /\ Len(s) = t
  <2>1. \A i \in 1 .. t : z[i] \in {"0"}
    <3>1. \A i \in 1 .. t : i \in 1 .. 3
      BY <1>1
    <3> QED
      BY <3>1
  <2>2. 1 \in Int /\ t \in Int /\ (IF 1 <= t THEN t - 1 + 1 ELSE 0) = t
    BY <1>1
  <2> HIDE DEF z
  <2> QED
    BY <2>1, <2>2, SubSeqProperties
<1> HIDE DEF a, s
<1>5. a \o s \in Seq({"0"}) /\ Len(a \o s) = Len(a) + Len(s)
  BY <1>3, <1>4, ConcatProperties
<1>6. Len(a \o s) = m
  BY <1>1, <1>3, <1>4, <1>5
<1>7. Zeros(m) = a \o s
  BY <1>5, <1>6, ZerosAre
<1>8. t = 0 => Zeros(m) = a
  <2>1. t = 0 => Len(a) = m
    BY <1>1, <1>3
  <2> QED
    BY <1>3, <2>1, ZerosAre
<1>9. s = SubSeq(LogFrame(<<>>), 1, m % 3)
  BY EmptyFrame DEF s, t
<1> QED
  BY <1>2, <1>7, <1>8, <1>9 DEF a, t

LEMMA PrefixIs ==
  ASSUME NEW S, NEW s \in Seq(S), NEW c \in Nat, c <= Len(s)
  PROVE  /\ SubSeq(s, 1, c) \in Seq(S) /\ Len(SubSeq(s, 1, c)) = c
         /\ \A i \in 1 .. c : SubSeq(s, 1, c)[i] = s[i]
<1> DEFINE n == Len(s)
<1>1. n \in Nat /\ c <= n /\ \A i \in 1 .. n : s[i] \in S
  OBVIOUS
<1> HIDE DEF n
<1>2. \A i \in 1 .. c : i \in 1 .. n
  BY <1>1
<1>3. \A i \in 1 .. c : s[i] \in S
  BY <1>1, <1>2
<1>4. 1 \in Int /\ c \in Int /\ c - 1 + 1 = c /\ (IF 1 <= c THEN c - 1 + 1 ELSE 0) = c
      /\ \A i \in 1 .. c : 1 + i - 1 = i
  OBVIOUS
<1>5. /\ SubSeq(s, 1, c) \in Seq(S)
      /\ Len(SubSeq(s, 1, c)) = IF 1 <= c THEN c - 1 + 1 ELSE 0
      /\ \A i \in 1 .. c - 1 + 1 : SubSeq(s, 1, c)[i] = s[1 + i - 1]
  BY <1>3, <1>4, SubSeqProperties
<1> QED
  BY <1>4, <1>5

(* A cut in the second of two sequences. *)
LEMMA CutJoined ==
  ASSUME NEW S, NEW s \in Seq(S), NEW u \in Seq(S), NEW d \in Nat, d <= Len(u)
  PROVE  /\ Len(s) + d <= Len(s \o u)
         /\ SubSeq(s \o u, 1, Len(s) + d) = s \o SubSeq(u, 1, d)
<1> DEFINE m == Len(s)  n == Len(u)  v == SubSeq(u, 1, d)
           x == SubSeq(s \o u, 1, m + d)  y == s \o v
<1>1. m \in Nat /\ n \in Nat /\ d <= n
  OBVIOUS
<1>2. v \in Seq(S) /\ Len(v) = d /\ \A i \in 1 .. d : v[i] = u[i]
  BY PrefixIs
<1>3. /\ s \o u \in Seq(S) /\ Len(s \o u) = Len(s) + Len(u)
      /\ \A i \in 1 .. Len(s) + Len(u) :
           (s \o u)[i] = IF i <= Len(s) THEN s[i] ELSE u[i - Len(s)]
  BY ConcatProperties
<1> HIDE DEF v
<1>4. /\ y \in Seq(S) /\ Len(y) = Len(s) + Len(v)
      /\ \A i \in 1 .. Len(s) + Len(v) :
           y[i] = IF i <= Len(s) THEN s[i] ELSE v[i - Len(s)]
  BY <1>2, ConcatProperties
<1> DEFINE w == s \o u
<1>5. w \in Seq(S) /\ Len(w) = m + n
      /\ \A i \in 1 .. m + n : w[i] = IF i <= m THEN s[i] ELSE u[i - m]
  BY <1>3, Zenon
<1>6. y \in Seq(S) /\ Len(y) = m + d
      /\ \A i \in 1 .. m + d : y[i] = IF i <= m THEN s[i] ELSE v[i - m]
  BY <1>2, <1>4, Zenon
<1> HIDE DEF w, y, m, n
<1>7. m + d \in Nat /\ m + d <= Len(w) /\ m + d <= m + n
  BY <1>1, <1>5
<1>8. x \in Seq(S) /\ Len(x) = m + d /\ \A i \in 1 .. m + d : x[i] = w[i]
  BY <1>5, <1>7, PrefixIs DEF w
<1> HIDE DEF x
<1>9. ASSUME NEW i \in 1 .. m + d
      PROVE  x[i] = y[i]
  <2>1. i \in 1 .. m + n
    BY <1>1, <1>7
  <2>2. CASE i <= m
    BY <1>5, <1>6, <1>8, <2>1, <2>2
  <2>3. CASE ~(i <= m)
    <3>1. i - m \in 1 .. d
      BY <1>1, <2>3
    <3> QED
      BY <1>2, <1>5, <1>6, <1>8, <2>1, <2>3, <3>1
  <2> QED
    BY <2>2, <2>3
<1>10. x = y
  BY <1>6, <1>8, <1>9, SeqEqual
<1> QED
  BY <1>7, <1>10 DEF x, y, v, w, m

LEMMA ThreeParts ==
  ASSUME NEW S, NEW a \in Seq(S), NEW b \in Seq(S), NEW c \in Seq(S)
  PROVE  /\ (a \o b) \o c = a \o (b \o c) /\ b \o c \in Seq(S)
         /\ Len(a \o b) = Len(a) + Len(b) /\ Len(b \o c) = Len(b) + Len(c)
         /\ Len(c) \in Nat
<1>1. (a \o b) \o c = a \o (b \o c)
  BY ConcatAssociative
<1>2. Len(a \o b) = Len(a) + Len(b)
  BY ConcatProperties
<1>3. b \o c \in Seq(S) /\ Len(b \o c) = Len(b) + Len(c)
  BY ConcatProperties
<1> QED
  BY <1>1, <1>2, <1>3

(* What is left of a log that was cut: the records that fit, or these and part of a frame. *)
LEMMA CutIs ==
  ASSUME NEW Byte, Ideal(Byte), NEW rs \in Seq(Logged), NEW cut \in 0 .. Len(LogFile(rs))
  PROVE  /\ Fitting(rs, cut) \in Seq(Logged)
         /\ \/ SubSeq(LogFile(rs), 1, cut) = LogFile(Fitting(rs, cut))
            \/ \E r \in Logged, t \in Nat \ {0} :
                 /\ t <= Len(r) + 2
                 /\ SubSeq(LogFile(rs), 1, cut) =
                      LogFile(Fitting(rs, cut)) \o SubSeq(LogFrame(r), 1, t)
<1> DEFINE n == Len(rs)
           Size(i) == Len(LogFile(SubSeq(rs, 1, i)))
           S == {i \in 0 .. n : Size(i) <= cut}
           m == Max(S)
           kept == SubSeq(rs, 1, m)
           log == LogFile(rs)
<1>1. n \in Nat /\ rs \in Seq(Short) /\ log \in Seq(Byte)
  <2>1. rs \in Seq(Short)
    BY LoggedIs
  <2> QED
    BY <2>1, ShortLists
<1>0. cut \in Nat /\ cut <= Len(log) /\ Len(log) \in Nat
  <2>1. Len(log) \in Nat
    BY <1>1
  <2> QED
    BY <2>1
<1>2. \A i \in 0 .. n : SubSeq(rs, 1, i) \in Seq(Logged) /\ SubSeq(rs, 1, i) \in Seq(Short)
  <2>1. \A i \in 0 .. n : i \in Nat /\ i <= Len(rs)
    BY <1>1
  <2> HIDE DEF n
  <2> QED
    BY <2>1, PrefixIs, LoggedIs
<1>3. 0 \in S
  <2>1. SubSeq(rs, 1, 0) = <<>>
    BY SubSeqEmpty
  <2>2. Len(<<>>) = 0
    OBVIOUS
  <2>3. Size(0) = 0
    BY <2>1, <2>2, LogFileEmpty
  <2>4. Size(0) <= cut
    BY <1>0, <2>3
  <2>5. 0 \in 0 .. n
    BY <1>1
  <2> HIDE DEF Size, n
  <2> QED
    BY <2>4, <2>5
<1>4. m \in S /\ \A j \in S : j <= m
  <2>1. S \in SUBSET (0 .. n)
    OBVIOUS
  <2> HIDE DEF S, n
  <2>2. PICK i \in S : \A j \in S : j <= i
    BY <1>1, <1>3, <2>1, NatMax
  <2>3. \A j \in S : i >= j
    BY <1>1, <2>1, <2>2
  <2>4. m \in S /\ \A j \in S : m >= j
    BY <2>3 DEF Max
  <2> HIDE DEF m
  <2> QED
    BY <1>1, <2>1, <2>4
<1>5. Fitting(rs, cut) = kept
  BY DEF Fitting
<1>6. m \in 0 .. n /\ Size(m) <= cut
  BY <1>4
<1>12. \A i \in 0 .. n : Size(i) <= cut => i \in S
  OBVIOUS
<1> HIDE DEF m
<1>7. kept \in Seq(Logged) /\ kept \in Seq(Short)
  BY <1>2, <1>6
<1> HIDE DEF log
<1>8. CASE m = n
  <2>1. kept = rs
    BY <1>8, SubSeqFull
  <2>2. cut = Len(log)
    <3>1. Len(log) <= cut
      BY <1>6, <2>1 DEF log
    <3> QED
      BY <1>0, <3>1
  <2>3. SubSeq(log, 1, cut) = log
    BY <1>1, <2>2, SubSeqFull
  <2> QED
    BY <1>5, <1>7, <2>1, <2>3 DEF log
<1>9. CASE m # n
  <2> DEFINE r == rs[m + 1]
             K == LogFile(kept)
             f == LogFrame(r)
             rest == LogFile(SubSeq(rs, m + 2, n))
             b == Len(K)
             d == cut - b
  <2>1. m + 1 \in 1 .. n /\ m + 1 \in 0 .. n /\ ~(m + 1 <= m) /\ m + 1 - 1 = m /\ m \in Nat
        /\ m + 2 \in 1 .. n + 1 /\ 1 \in 1 .. n + 1 /\ m + 1 \in 0 .. n /\ n \in m + 1 .. n
        /\ (m + 1) + 1 = m + 2 /\ 1 - 1 = 0 /\ 1 \in 1 .. n /\ m + 1 \in 1 .. n
    BY <1>1, <1>6, <1>9
  <2>2. r \in Logged /\ r \in Short
    BY <2>1, LoggedIs
  <2>3. SubSeq(rs, 1, m + 1) = Append(kept, r)
    <3>1. SubSeq(rs, 1, m + 1) = SubSeq(rs, 1, (m + 1) - 1) \o <<rs[m + 1]>>
      BY <2>1, SubSeqRecursiveSecond
    <3>2. Append(kept, r) = kept \o <<r>>
      BY <1>7, <2>2, AppendIsConcat
    <3> QED
      BY <2>1, <3>1, <3>2
  <2>4. LogFile(SubSeq(rs, 1, m + 1)) = K \o f
    BY <1>7, <2>2, <2>3, LogFileAppend
  <2>5. SubSeq(rs, m + 2, n) \in Seq(Short)
    <3>1. \A i \in m + 2 .. n : i \in 1 .. n
      BY <1>1, <2>1
    <3>2. \A i \in 1 .. n : rs[i] \in Short
      BY <1>1
    <3>3. m + 2 \in Int /\ n \in Int
      BY <1>1, <2>1, SMTT(60)
    <3> HIDE DEF n
    <3> QED
      BY <3>1, <3>2, <3>3, SubSeqProperties
  <2>6. rs = SubSeq(rs, 1, m + 1) \o SubSeq(rs, m + 2, n)
    <3>1. SubSeq(rs, 1, m + 1) \o SubSeq(rs, (m + 1) + 1, n) = SubSeq(rs, 1, n)
      BY <2>1, ConcatAdjacentSubSeq
    <3>2. SubSeq(rs, 1, n) = rs
      BY SubSeqFull
    <3> QED
      BY <2>1, <3>1, <3>2
  <2>7. K \in Seq(Byte) /\ f \in Seq(Byte) /\ rest \in Seq(Byte) /\ Len(f) = Len(r) + 3
    BY <1>7, <2>2, <2>5, ShortLists, ShortIs
  <2>8. log = (K \o f) \o rest
    <3>1. LogFile(SubSeq(rs, 1, m + 1) \o SubSeq(rs, m + 2, n)) =
            LogFile(SubSeq(rs, 1, m + 1)) \o rest
      BY <1>2, <2>1, <2>5, LogFileJoins
    <3> QED
      BY <2>4, <2>6, <3>1 DEF log
  <2>9. log = K \o (f \o rest)
    <3> HIDE DEF K, f, rest
    <3>1. (K \o f) \o rest = K \o (f \o rest)
      BY <2>7, ThreeParts, SMTT(60)
    <3> QED
      BY <2>8, <3>1
  <2>10. ~(Len(K \o f) <= cut)
    <3>1. ~(m + 1 \in S)
      BY <1>4, <2>1
    <3>2. ~(Size(m + 1) <= cut)
      BY <1>12, <2>1, <3>1
    <3> QED
      BY <2>4, <3>2
  <2>11. Len(K \o f) = Len(K) + Len(f) /\ Len(f \o rest) = Len(f) + Len(rest)
         /\ f \o rest \in Seq(Byte) /\ Len(rest) \in Nat
    <3> HIDE DEF K, f, rest
    <3>0. K \in Seq(Byte) /\ f \in Seq(Byte) /\ rest \in Seq(Byte)
      BY <2>7
    <3>1. Len(K \o f) = Len(K) + Len(f) /\ Len(f \o rest) = Len(f) + Len(rest)
      BY <3>0, ThreeParts
    <3>2. f \o rest \in Seq(Byte)
      BY <3>0, ThreeParts
    <3>3. Len(rest) \in Nat
      BY <3>0
    <3> QED
      BY <3>1, <3>2, <3>3
  <2>12. Len(K) <= cut
    BY <1>6
  <2>13. b \in Nat /\ Len(r) \in 0 .. 99
    BY <2>2, <2>7, ShortIs
  <2>14. d \in Nat /\ d <= Len(r) + 2 /\ d <= Len(f) /\ d <= Len(f \o rest) /\ b + d = cut
    <3> DEFINE l == Len(r)  e == Len(f)  x == Len(f \o rest)  y == Len(rest)  z == Len(K \o f)
    <3>1. /\ e = l + 3 /\ x = e + y /\ z = b + e /\ ~(z <= cut) /\ b <= cut
          /\ y \in Nat /\ b \in Nat /\ l \in 0 .. 99 /\ cut \in Nat
      BY <1>0, <2>7, <2>10, <2>11, <2>12, <2>13, Zenon
    <3> HIDE DEF l, e, x, y, z, b
    <3>2. d \in Nat /\ d <= l + 2 /\ d <= e /\ d <= x /\ b + d = cut
      BY <3>1
    <3> QED
      BY <3>2 DEF l, e, x
  <2> HIDE DEF d
  <2>15. SubSeq(log, 1, cut) = K \o SubSeq(f \o rest, 1, d)
    <3> DEFINE u == f \o rest
    <3>1. u \in Seq(Byte) /\ d <= Len(u)
      BY <2>11, <2>14
    <3> HIDE DEF u, K
    <3>2. SubSeq(K \o u, 1, Len(K) + d) = K \o SubSeq(u, 1, d)
      BY <2>7, <2>14, <3>1, CutJoined
    <3> QED
      BY <2>9, <2>14, <3>2 DEF u
  <2>16. CASE d = 0
    <3>1. SubSeq(f \o rest, 1, d) = <<>>
      BY <2>16, SubSeqEmpty
    <3>2. K \o <<>> = K
      BY <2>7, ConcatEmptySeq
    <3> QED
      BY <1>5, <1>7, <2>15, <3>1, <3>2 DEF log
  <2>17. CASE d # 0
    <3>1. d \in Nat \ {0} /\ d \in 1 .. Len(f) /\ 1 \in 1 .. Len(f)
      <4> DEFINE e == Len(f)
      <4>1. d <= e /\ e = Len(r) + 3 /\ Len(r) \in 0 .. 99
        BY <2>7, <2>13, <2>14
      <4>2. e \in Nat
        BY <4>1
      <4> HIDE DEF e
      <4> QED
        BY <2>14, <2>17, <4>1, <4>2 DEF e
    <3>2. SubSeq(f \o rest, 1, d) = SubSeq(f, 1, d)
      <4> HIDE DEF f, rest
      <4> QED
        BY <2>7, <3>1, SubSeqOfConcat1
    <3>3. SubSeq(log, 1, cut) = K \o SubSeq(f, 1, d) /\ d <= Len(r) + 2
      BY <2>14, <2>15, <3>2
    <3>4. SubSeq(LogFile(rs), 1, cut) = LogFile(Fitting(rs, cut)) \o SubSeq(LogFrame(r), 1, d)
      BY <1>5, <3>3 DEF log
    <3> HIDE DEF r, kept
    <3> QED
      BY <1>5, <1>7, <2>2, <3>1, <3>3, <3>4
  <2> QED
    BY <2>16, <2>17
<1> QED
  BY <1>8, <1>9

(* The lines of a text from each place on, all of them in P. *)
LinesFrom(g, content, P) ==
  /\ g \in [1 .. Len(content) + 1 -> Seq(P)]
  /\ Lines(content) = g[1]
  /\ \A pos \in 1 .. Len(content) + 1 :
       LET end == Find(content, NL, pos)
       IN  /\ end = NPos => g[pos] = <<>>
           /\ end # NPos => g[pos] = <<SubSeq(content, pos, end - 1)>> \o g[end + 1]

LEMMA LinesAre ==
  ASSUME NEW C, NEW content \in Seq(C), NEW P,
         \A pos \in 1 .. Len(content), end \in 1 .. Len(content) :
           IsFirst(content, NL, pos, end) => SubSeq(content, pos, end - 1) \in P
  PROVE  \E g : LinesFrom(g, content, P)
<1> DEFINE L == Len(content)
           D == 1 .. L + 1
           S == Seq(P)
           End(pos) == Find(content, NL, pos)
           Piece(pos) == SubSeq(content, pos, End(pos) - 1)
           Def(f, pos) == IF End(pos) = NPos THEN <<>> ELSE <<Piece(pos)>> \o f[End(pos) + 1]
           found == CHOOSE f : f = [pos \in D |-> Def(f, pos)]
           Stop == {pos \in D : End(pos) = NPos}
           before == [pos \in D |-> IF pos \in Stop THEN pos ELSE End(pos) + 1]
           rank == [pos \in D |-> (L + 1) - pos]
           base == [pos \in D |-> <<>>]
           step == [pos \in D |-> [s \in S |-> IF pos \in Stop THEN s ELSE <<Piece(pos)>> \o s]]
<1>1. Lines(content) = found[1]
  BY DEF Lines
<1>2. L \in Nat
  OBVIOUS
<1>3. ASSUME NEW pos \in D
      PROVE  \/ End(pos) = NPos
             \/ /\ End(pos) # NPos /\ End(pos) \in 1 .. L /\ pos <= End(pos)
                /\ Piece(pos) \in P /\ End(pos) + 1 \in D
  <2>1. pos \in Nat \ {0}
    BY <1>2
  <2>2. End(pos) = NPos \/ (End(pos) \in pos .. L /\ IsFirst(content, NL, pos, End(pos)))
    BY <2>1, FirstIn DEF IsFirst
  <2> HIDE DEF End, L
  <2>3. CASE End(pos) # NPos
    <3>1. /\ End(pos) \in 1 .. L /\ pos \in 1 .. L /\ pos <= End(pos) /\ End(pos) + 1 \in D
      BY <1>2, <2>1, <2>2, <2>3
    <3>2. IsFirst(content, NL, pos, End(pos))
      BY <2>2, <2>3
    <3> HIDE DEF D
    <3> QED
      BY <2>3, <3>1, <3>2 DEF L
  <2> QED
    BY <2>3
<1>4. \A s \in S, r \in P : <<r>> \o s \in S
  <2>1. \A r \in P : <<r>> \in S
    OBVIOUS
  <2> QED
    BY <2>1, ConcatProperties
<1>5. <<>> \in S
  OBVIOUS
<1> HIDE DEF L, S, End, Piece
<1>6. Recursive(D, S, L, rank, Stop, base, before, step)
  <2>1. rank \in [D -> 0 .. L] /\ base \in [D -> S]
    BY <1>2, <1>5
  <2>2. before \in [D -> D]
    <3>1. \A pos \in D : pos \notin Stop => End(pos) + 1 \in D
      BY <1>3
    <3> HIDE DEF D, Stop
    <3> QED
      BY <3>1
  <2>3. step \in [D -> [S -> S]]
    <3>1. \A pos \in D : pos \notin Stop => Piece(pos) \in P
      BY <1>3
    <3> HIDE DEF D, Stop
    <3> QED
      BY <1>4, <3>1
  <2>4. ASSUME NEW pos \in D, pos \notin Stop
        PROVE  rank[before[pos]] < rank[pos]
    <3>1. before[pos] = End(pos) + 1 /\ before[pos] \in D /\ pos <= End(pos) /\ End(pos) \in Nat
      BY <1>3, <2>4
    <3>2. rank[pos] = (L + 1) - pos /\ rank[before[pos]] = (L + 1) - before[pos]
      BY <3>1
    <3>3. pos \in Nat
      BY <1>2
    <3> HIDE DEF before, rank, Stop, D
    <3> QED
      BY <1>2, <3>1, <3>2, <3>3
  <2> HIDE DEF D, rank, Stop, base, before, step
  <2> QED
    BY <1>2, <2>1, <2>2, <2>3, <2>4 DEF Recursive
<1>7. ASSUME NEW f, NEW pos \in D
      PROVE  /\ pos \in Stop => Def(f, pos) = base[pos]
             /\ pos \notin Stop /\ f[before[pos]] \in S => Def(f, pos) = step[pos][f[before[pos]]]
  <2>1. CASE pos \in Stop
    BY <2>1
  <2>2. CASE pos \notin Stop
    <3>1. End(pos) # NPos /\ before[pos] = End(pos) + 1
      BY <2>2
    <3> HIDE DEF D, before, Stop
    <3> QED
      BY <2>2, <3>1
  <2> QED
    BY <2>1, <2>2
<1>8. PICK h \in [D -> S] : \A d \in D : h[d] = IF d \in Stop THEN base[d] ELSE step[d][h[before[d]]]
  <2> HIDE DEF D, rank, Stop, base, before, step
  <2> QED
    BY <1>6, Recursion
<1>9. before \in [D -> D]
  <2> HIDE DEF D, rank, Stop, base, before, step
  <2> QED
    BY <1>6 DEF Recursive
<1> HIDE DEF Def, D, rank, Stop, base, before, step
<1>10. h = [pos \in D |-> Def(h, pos)]
  <2>1. \A pos \in D : h[pos] = Def(h, pos)
    BY <1>7, <1>8, <1>9
  <2> QED
    BY <1>8, <2>1
<1>11. found = [pos \in D |-> Def(found, pos)]
  BY <1>10
<1> HIDE DEF found
<1>12. \A pos \in D : found[pos] = Def(found, pos)
  BY <1>11
<1>13. \A pos \in D : found[pos] \in S
  <2>1. \A pos \in D :
          /\ pos \in Stop => found[pos] = base[pos]
          /\ pos \notin Stop /\ found[before[pos]] \in S =>
               found[pos] = step[pos][found[before[pos]]]
    BY <1>7, <1>12
  <2> QED
    BY <1>6, <2>1, Recurs
<1>14. found \in [D -> S]
  BY <1>11, <1>13
<1>15. ASSUME NEW pos \in D
       PROVE  /\ End(pos) = NPos => found[pos] = <<>>
              /\ End(pos) # NPos => found[pos] = <<Piece(pos)>> \o found[End(pos) + 1]
  BY <1>12 DEF Def
<1> QED
  BY <1>1, <1>14, <1>15 DEF LinesFrom, D, S, End, Piece, L

(* The records among what is typed. *)
LEMMA RecordsAre ==
  ASSUME text \in Text, Len(text) <= 99
  PROVE  Records \in Seq(Logged)
<1> DEFINE L == Len(text)
<1>1. L \in Nat /\ L <= 99
  BY DEF Text
<1>2. ASSUME NEW pos \in 1 .. L, NEW end \in 1 .. L, pos <= end
      PROVE  SubSeq(text, pos, end - 1) \in Short
  <2> DEFINE e == end - 1  s == SubSeq(text, pos, e)
  <2> HIDE DEF L
  <2>1. pos \in Int /\ e \in Int /\ \A i \in pos .. e : i \in 1 .. L
    BY <1>1, <1>2
  <2>2. (IF pos <= e THEN e - pos + 1 ELSE 0) <= 99
    BY <1>1, <1>2
  <2>3. \A i \in 1 .. L : text[i] \in Symbol
    BY DEF L, Text
  <2> HIDE DEF e
  <2>4. s \in Seq(Symbol) /\ Len(s) = IF pos <= e THEN e - pos + 1 ELSE 0
    BY <2>1, <2>3, SubSeqProperties
  <2>5. Len(s) <= 99
    BY <2>2, <2>4
  <2> QED
    BY <2>4, <2>5 DEF Short, e
<1>3. PICK g : LinesFrom(g, text, Short)
  <2>1. ASSUME NEW pos \in 1 .. L, NEW end \in 1 .. L, IsFirst(text, NL, pos, end)
        PROVE  SubSeq(text, pos, end - 1) \in Short
    <3>1. pos <= end
      BY <1>1, <2>1 DEF IsFirst
    <3> QED
      BY <1>2, <3>1
  <2> QED
    BY <2>1, LinesAre DEF Text
<1>4. Lines(text) \in Seq(Short)
  <2>1. 1 \in 1 .. L + 1
    BY <1>1
  <2> DEFINE S == Seq(Short)
  <2>2. g \in [1 .. L + 1 -> S] /\ Lines(text) = g[1]
    BY <1>3 DEF LinesFrom
  <2> HIDE DEF S, L
  <2>3. Lines(text) \in S
    BY <2>1, <2>2
  <2> QED
    BY <2>3 DEF S
<1>5. PICK t \in Short : TRUE
  BY ShortExists
<1>6. NonEmpty(Lines(text)) \in Seq(Short \ {<<>>})
  BY <1>4, <1>5, NonEmptyAppend
<1> QED
  BY <1>6 DEF Records, Logged

(* A log that was cut, and a log behind it. *)
ReadToTheCut(before, later, cut) ==
  LET kept == Fitting(before, cut)
      file == SubSeq(LogFile(before), 1, cut)
  IN  /\ Replay(file) = kept
      /\ Replay(file \o LogFile(later)) =
           IF file = LogFile(kept) THEN kept \o later ELSE kept

LEMMA CutIsRead ==
  ASSUME NEW Byte, Ideal(Byte), NEW before \in Seq(Logged), NEW later \in Seq(Logged),
         NEW cut \in 0 .. Len(LogFile(before))
  PROVE  ReadToTheCut(before, later, cut)
<1> DEFINE kept == Fitting(before, cut)
           file == SubSeq(LogFile(before), 1, cut)
<1>0. kept = Fitting(before, cut) /\ file = SubSeq(LogFile(before), 1, cut)
  OBVIOUS
<1>9. kept \in Seq(Logged)
  BY CutIs
<1> HIDE DEF kept, file
<1> SUFFICES /\ Replay(file) = kept
             /\ Replay(file \o LogFile(later)) =
                  IF file = LogFile(kept) THEN kept \o later ELSE kept
  BY DEF ReadToTheCut, kept, file
<1>1. kept \in Seq(Logged) /\ kept \in Seq(Short) /\ later \in Seq(Short)
  BY <1>9, LoggedIs
<1>2. LogFile(kept) \in Seq(Byte) /\ LogFile(later) \in Seq(Byte) /\ IsLog(LogFile(later))
  BY <1>1, LogsAre
<1>3. <<>> \in Seq(Byte) /\ IsLog(<<>>)
  <2>1. <<>> \in Seq(Logged)
    OBVIOUS
  <2> QED
    BY <2>1, LogsAre, LogFileEmpty
<1>4. CASE file = LogFile(kept)
  <2>1. Replay(LogFile(kept)) = kept
    BY <1>1, ReplayWhole
  <2>2. LogFile(kept) \o LogFile(later) = LogFile(kept \o later)
    BY <1>1, LogFileJoins
  <2>3. kept \o later \in Seq(Short)
    BY <1>1, ConcatProperties
  <2>4. Replay(LogFile(kept \o later)) = kept \o later
    BY <2>3, ReplayWhole
  <2> QED
    BY <1>4, <2>1, <2>2, <2>4
<1>5. CASE file # LogFile(kept)
  <2>0. \/ SubSeq(LogFile(before), 1, cut) = LogFile(Fitting(before, cut))
        \/ \E r \in Logged, t \in Nat \ {0} :
             /\ t <= Len(r) + 2
             /\ SubSeq(LogFile(before), 1, cut) =
                  LogFile(Fitting(before, cut)) \o SubSeq(LogFrame(r), 1, t)
    BY CutIs
  <2>1. PICK r \in Logged, t \in Nat \ {0} :
          t <= Len(r) + 2 /\ file = LogFile(kept) \o SubSeq(LogFrame(r), 1, t)
    BY <1>0, <1>5, <2>0, Zenon
  <2>2. r \in Short /\ r # <<>> /\ t \in Nat
    BY LoggedIs DEF Logged
  <2>3. ASSUME NEW log \in Seq(Byte), IsLog(log)
        PROVE  Replay(file \o log) = kept
    <3>1. file \o log = TornFile(kept, r, t, log)
      BY <2>1 DEF TornFile
    <3>2. Replay(TornFile(kept, r, t, log)) = kept
      BY <1>1, <2>1, <2>2, <2>3, ReplayTorn
    <3> QED
      BY <3>1, <3>2
  <2>4. file \o <<>> = file
    <3>1. SubSeq(LogFrame(r), 1, t) \in Seq(Byte)
      <4> DEFINE f == LogFrame(r)  l == Len(r)  n == Len(f)
      <4>1. f \in Seq(Byte) /\ n = l + 3 /\ l \in 0 .. 99 /\ t <= l + 2
        BY <2>1, <2>2, ShortIs
      <4> HIDE DEF f, l
      <4>2. n \in Nat
        BY <4>1
      <4> HIDE DEF n
      <4>3. t <= n
        BY <2>2, <4>1, <4>2
      <4> QED
        BY <2>2, <4>1, <4>3, PrefixIs DEF n, f
    <3>2. file \in Seq(Byte)
      <4> DEFINE a == LogFile(kept)  s == SubSeq(LogFrame(r), 1, t)
      <4>1. a \in Seq(Byte) /\ s \in Seq(Byte) /\ file = a \o s
        BY <1>2, <2>1, <3>1
      <4> HIDE DEF a, s
      <4>2. a \o s \in Seq(Byte)
        BY <4>1, ConcatProperties
      <4> QED
        BY <4>1, <4>2
    <3> QED
      BY <3>2, ConcatEmptySeq
  <2>5. Replay(file \o <<>>) = kept /\ Replay(file \o LogFile(later)) = kept
    BY <1>2, <1>3, <2>3
  <2> QED
    BY <1>5, <2>4, <2>5
<1> QED
  BY <1>4, <1>5

(* Zeros behind a log, and a log behind them. *)
LEMMA ZerosAreRead ==
  ASSUME NEW Byte, Ideal(Byte), NEW before \in Seq(Logged), NEW later \in Seq(Logged),
         NEW m \in Nat
  PROVE  NonEmpty(Replay((LogFile(before) \o Zeros(m)) \o LogFile(later))) =
           IF m % 3 = 0 THEN before \o later ELSE before
<1> DEFINE t == m % 3  f == LogFrame(<<>>)  A == LogFile(later)  B == LogFile(before)
<1>1. PICK es \in Seq({<<>>}) : /\ Zeros(m) = LogFile(es) \o SubSeq(f, 1, t)
                                /\ t = 0 => Zeros(m) = LogFile(es)
  BY ZerosAreRecords
<1>2. t \in 0 .. 2 /\ t \in Nat
  OBVIOUS
<1> HIDE DEF t
<1>3. before \in Seq(Short) /\ later \in Seq(Short) /\ es \in Seq(Short) /\ <<>> \in Short
  <2>1. {<<>>} \subseteq Short
    BY ShortExists
  <2> QED
    BY <2>1, SeqMonotonic, LoggedIs
<1>4. before \o es \in Seq(Short) /\ NonEmpty(before \o es) = before
      /\ NonEmpty((before \o es) \o later) = before \o later
  BY NonEmptyJoins
<1>5. B \o LogFile(es) = LogFile(before \o es)
  BY <1>3, LogFileJoins
<1>6. CASE t = 0
  <2>1. LogFile(before \o es) \o A = LogFile((before \o es) \o later)
    BY <1>3, <1>4, LogFileJoins
  <2>2. (before \o es) \o later \in Seq(Short)
    BY <1>3, <1>4, ConcatProperties
  <2>3. Replay(LogFile((before \o es) \o later)) = (before \o es) \o later
    BY <2>2, ReplayWhole
  <2>4. (B \o Zeros(m)) \o A = LogFile((before \o es) \o later)
    BY <1>1, <1>5, <1>6, <2>1
  <2> QED
    BY <1>4, <1>6, <2>3, <2>4 DEF t
<1>7. CASE t # 0
  <2> DEFINE s == SubSeq(f, 1, t)
  <2>1. A \in Seq(Byte) /\ IsLog(A) /\ B \in Seq(Byte) /\ LogFile(es) \in Seq(Byte)
    BY <1>3, LogsAre, ShortLists
  <2>2. f \in Seq(Byte) /\ Len(f) = Len(<<>>) + 3 /\ Len(<<>>) = 0
    BY <1>3, ShortIs
  <2>3. s \in Seq(Byte)
    <3>1. t <= Len(f)
      <4> DEFINE n == Len(f)
      <4>1. n = 0 + 3
        BY <2>2
      <4> HIDE DEF n
      <4>2. t <= n
        BY <1>2, <4>1
      <4> QED
        BY <4>2 DEF n
    <3> HIDE DEF f
    <3> QED
      BY <1>2, <2>2, <3>1, PrefixIs
  <2>4. B \o (LogFile(es) \o s) = (B \o LogFile(es)) \o s
    <3> DEFINE E == LogFile(es)
    <3>1. B \in Seq(Byte) /\ E \in Seq(Byte) /\ s \in Seq(Byte)
      BY <2>1, <2>3
    <3> HIDE DEF E, B, s
    <3>2. (B \o E) \o s = B \o (E \o s)
      BY <3>1, ThreeParts
    <3> QED
      BY <3>2 DEF E
  <2>5. (B \o Zeros(m)) \o A = TornFile(before \o es, <<>>, t, A)
    BY <1>1, <1>5, <2>4 DEF TornFile
  <2>6. t \in Nat \ {0} /\ t <= Len(<<>>) + 2
    BY <1>2, <1>7, <2>2
  <2> DEFINE x == TornFile(before \o es, <<>>, t, A)
  <2>7. Replay(x) = before \o es \/ Replay(x) = Append(before \o es, <<>>)
    <3> HIDE DEF A
    <3> QED
      BY <1>3, <1>4, <2>1, <2>6, ReplayTorn, ZenonT(60)
  <2>8. NonEmpty(Append(before \o es, <<>>)) = NonEmpty(before \o es)
    BY <1>3, <1>4, NonEmptyAppend
  <2>9. NonEmpty(Replay(x)) = before
    <3> HIDE DEF x
    <3> QED
      BY <1>4, <2>7, <2>8
  <2> QED
    BY <1>7, <2>5, <2>9 DEF t
<1> QED
  BY <1>6, <1>7

(* What has been typed. *)
Typed == input \in Inputs /\ text \in Text /\ Len(text) <= input.length

LEMMA TypedAlways == Spec => []Typed
<1>1. Init => Typed
  <2>1. <<>> \in Text /\ Len(<<>>) = 0
    BY DEF Text
  <2>2. \A i \in Inputs : 0 <= i.length
    BY InputAssumption
  <2> QED
    BY <2>1, <2>2 DEF Init, Typed
<1>2. ASSUME Typed, [Next]_vars
      PROVE  Typed'
  <2>1. CASE UNCHANGED vars
    BY <1>2, <2>1 DEF Typed, vars
  <2>2. CASE Next
    <3>1. PICK c \in input.symbols : Type(c)
      BY <2>2 DEF Next
    <3> DEFINE n == Len(text)  l == input.length
    <3>2. n < l /\ text' = Append(text, c) /\ input' = input /\ c \in Symbol
          /\ l \in 0 .. 99
      BY <1>2, <3>1, InputAssumption DEF Type, Typed
    <3>3. text' \in Text /\ Len(text') = n + 1 /\ n \in Nat
      BY <1>2, <3>2, AppendProperties DEF Typed, Text
    <3> HIDE DEF n, l
    <3>4. n + 1 <= l
      BY <3>2, <3>3
    <3> QED
      BY <1>2, <3>2, <3>3, <3>4 DEF Typed, l
  <2> QED
    BY <1>2, <2>1, <2>2
<1> QED
  BY <1>1, <1>2, PTL DEF Spec

LEMMA RecordsTyped ==
  ASSUME Typed
  PROVE  /\ Records \in Seq(Logged) /\ Len(Records) \in Nat
         /\ \A n \in 0 .. Len(Records) :
              /\ SubSeq(Records, 1, n) \in Seq(Logged)
              /\ SubSeq(Records, n + 1, Len(Records)) \in Seq(Logged)
<1>1. text \in Text /\ Len(text) <= 99
  <2>1. input.length \in 0 .. 99 /\ Len(text) <= input.length /\ text \in Text
    BY InputAssumption DEF Typed
  <2> DEFINE l == input.length  n == Len(text)
  <2>2. n \in Nat
    BY <2>1 DEF Text
  <2>3. l \in 0 .. 99 /\ n <= l
    BY <2>1
  <2> HIDE DEF l, n
  <2>4. n <= 99
    BY <2>2, <2>3
  <2> QED
    BY <2>1, <2>4 DEF n
<1> DEFINE rs == Records  L == Len(rs)
<1>2. rs \in Seq(Logged)
  BY <1>1, RecordsAre
<1> HIDE DEF rs
<1>3. L \in Nat /\ \A i \in 1 .. L : rs[i] \in Logged
  BY <1>2
<1>4. ASSUME NEW n \in 0 .. L
      PROVE  SubSeq(rs, 1, n) \in Seq(Logged) /\ SubSeq(rs, n + 1, L) \in Seq(Logged)
  <2>1. 1 \in Int /\ n \in Int /\ n + 1 \in Int /\ L \in Int
        /\ (\A i \in 1 .. n : i \in 1 .. L) /\ (\A i \in n + 1 .. L : i \in 1 .. L)
    BY <1>3
  <2> HIDE DEF L
  <2>2. (\A i \in 1 .. n : rs[i] \in Logged) /\ (\A i \in n + 1 .. L : rs[i] \in Logged)
    BY <1>3, <2>1
  <2> QED
    BY <2>1, <2>2, SubSeqProperties
<1> QED
  BY <1>2, <1>3, <1>4 DEF rs, L

(***************************************************************************)
(* Whatever is logged, and wherever the log is cut, replay gives back the  *)
(* records before the cut, and those appended later as the property says   *)
(* (wal.tpp:13-33).                                                        *)
(***************************************************************************)
THEOREM LogRead ==
  ASSUME NEW Byte, Ideal(Byte)
  PROVE  Spec => []LogIsReadUpToTheCut
<1>1. ASSUME Typed
      PROVE  LogIsReadUpToTheCut
  <2> SUFFICES ASSUME NEW n \in 0 .. Len(Records)
               PROVE  LET before == SubSeq(Records, 1, n)
                          later  == SubSeq(Records, n + 1, Len(Records))
                          Found(file) == NonEmpty(Replay(file))
                          zeros(m)    == [i \in 1 .. m |-> "0"]
                      IN  /\ \A cut \in 0 .. Len(LogFile(before)) :
                               LET kept == Fitting(before, cut)
                                   file == SubSeq(LogFile(before), 1, cut)
                               IN  /\ Replay(file) = kept
                                   /\ Replay(file \o LogFile(later)) =
                                        IF file = LogFile(kept) THEN kept \o later ELSE kept
                          /\ \A m \in 0 .. 7 :
                               Found(LogFile(before) \o zeros(m) \o LogFile(later)) =
                                 IF m % 3 = 0 THEN before \o later ELSE before
    BY DEF LogIsReadUpToTheCut
  <2> DEFINE before == SubSeq(Records, 1, n)
             later  == SubSeq(Records, n + 1, Len(Records))
  <2>1. before \in Seq(Logged) /\ later \in Seq(Logged)
    BY <1>1, RecordsTyped
  <2> HIDE DEF before, later
  <2>2. ASSUME NEW cut \in 0 .. Len(LogFile(before))
        PROVE  ReadToTheCut(before, later, cut)
    BY <2>1, CutIsRead
  <2>3. ASSUME NEW m \in 0 .. 7
        PROVE  NonEmpty(Replay((LogFile(before) \o [i \in 1 .. m |-> "0"]) \o LogFile(later))) =
                 IF m % 3 = 0 THEN before \o later ELSE before
    <3>1. m \in Nat
      OBVIOUS
    <3> QED
      BY <2>1, <3>1, ZerosAreRead DEF Zeros
  <2> QED
    BY <2>2, <2>3 DEF before, later, ReadToTheCut
<1> QED
  BY <1>1, TypedAlways, PTL

(* What stands somewhere is found there. *)
LEMMA StandsIs ==
  ASSUME NEW S, NEW file \in Seq(S), NEW part \in Seq(S), NEW p \in Nat,
         StandsAt(file, p, part)
  PROVE  SubSeq(file, p + 1, p + Len(part)) = part
<1> DEFINE n == Len(part)  e == p + n  m == p + 1  s == SubSeq(file, m, e)  L == Len(file)
<1>1. n \in Nat /\ L \in Nat /\ e <= L /\ \A i \in 1 .. n : file[p + i] = part[i]
  BY DEF StandsAt
<1>2. \A i \in 1 .. L : file[i] \in S
  OBVIOUS
<1> HIDE DEF n, L
<1>3. m \in Int /\ e \in Int /\ (IF m <= e THEN e - m + 1 ELSE 0) = n /\ e - m + 1 = n
      /\ (\A i \in 1 .. n : m + i - 1 = p + i) /\ \A i \in m .. e : i \in 1 .. L
  BY <1>1
<1> HIDE DEF e, m
<1>4. \A i \in m .. e : file[i] \in S
  BY <1>2, <1>3
<1>5. /\ SubSeq(file, m, e) \in Seq(S)
      /\ Len(SubSeq(file, m, e)) = IF m <= e THEN e - m + 1 ELSE 0
      /\ \A i \in 1 .. e - m + 1 : SubSeq(file, m, e)[i] = file[m + i - 1]
  BY <1>3, <1>4, SubSeqProperties
<1>6. s \in Seq(S) /\ Len(s) = Len(part) /\ \A i \in 1 .. Len(s) : s[i] = part[i]
  BY <1>1, <1>3, <1>5 DEF n
<1> HIDE DEF s
<1>7. s = part
  BY <1>6, SeqEqual
<1> QED
  BY <1>7 DEF s, m, e, n

(* A part of a file, by its places. *)
LEMMA PartIs ==
  ASSUME NEW S, NEW file \in Seq(S), NEW m \in Nat \ {0}, NEW e \in Nat,
         m <= e + 1, e <= Len(file)
  PROVE  /\ SubSeq(file, m, e) \in Seq(S)
         /\ Len(SubSeq(file, m, e)) = e + 1 - m
         /\ \A i \in 1 .. e + 1 - m : SubSeq(file, m, e)[i] = file[m + i - 1]
<1> DEFINE L == Len(file)
<1>1. L \in Nat /\ e <= L /\ \A i \in 1 .. L : file[i] \in S
  OBVIOUS
<1> HIDE DEF L
<1>2. m \in Int /\ e \in Int /\ (IF m <= e THEN e - m + 1 ELSE 0) = e + 1 - m
      /\ e - m + 1 = e + 1 - m /\ \A i \in m .. e : i \in 1 .. L
  BY <1>1
<1>3. \A i \in m .. e : file[i] \in S
  BY <1>1, <1>2
<1>4. /\ SubSeq(file, m, e) \in Seq(S)
      /\ Len(SubSeq(file, m, e)) = IF m <= e THEN e - m + 1 ELSE 0
      /\ \A i \in 1 .. e - m + 1 : SubSeq(file, m, e)[i] = file[m + i - 1]
  BY <1>2, <1>3, SubSeqProperties
<1> QED
  BY <1>2, <1>4

(* Where the checksum of the value at pos would be. *)
ValueEnd(file, pos) == pos + 4 + SizeAt(file, pos + 2)

(* A value is read. *)
HasValue(file, pos, keySize) ==
  /\ ValueEnd(file, pos) <= Len(file)
  /\ SizeAt(file, pos) = keySize
  /\ file[ValueEnd(file, pos)] = Crc(SubSeq(file, pos, ValueEnd(file, pos) - 1))

LEMMA ValueAtIs ==
  ASSUME NEW Byte, NEW file \in Seq(Byte), NEW pos \in Nat \ {0}, NEW keySize
  PROVE  ValueAt(file, pos, keySize) =
           IF HasValue(file, pos, keySize)
             THEN {SubSeq(file, pos + 4, ValueEnd(file, pos) - 1)} ELSE {}
<1> DEFINE n == SizeAt(file, pos + 2)
           L == Len(file)
           e == ValueEnd(file, pos)
           p == pos + 4
           h == SubSeq(file, pos, pos + 3)
           v == SubSeq(file, p, e - 1)
           w == SubSeq(file, pos, e - 1)
           Checked(r) == ReadAll(file, p + Len(r), 1) = {<<Crc(h \o r)>>}
<1>1. n \in 0 .. 99 /\ L \in Nat
  BY SizeAtIs
<1>2. e = p + n
  BY DEF ValueEnd
<1> HIDE DEF n, L, e
<1>3. /\ pos + 4 - 1 = pos + 3 /\ p + n - 1 = e - 1 /\ e \in Nat /\ e - 1 \in Nat
      /\ e - 1 >= pos + 3 /\ pos + 3 \in Nat /\ p \in Nat \ {0} /\ (pos + 3) + 1 = p
  BY <1>1, <1>2
<1>4. ReadAll(file, pos, 4) = IF pos + 3 > L THEN {} ELSE {h}
  BY <1>3 DEF ReadAll, L
<1>5. ReadAll(file, p, n) = IF e - 1 > L THEN {} ELSE {v}
  BY <1>3 DEF ReadAll, L
<1>6. ValueAt(file, pos, keySize) =
        UNION {{r \in ReadAll(file, p, n) :
                  ReadAll(file, p + Len(r), 1) = {<<Crc(header \o r)>>}} :
               header \in {x \in ReadAll(file, pos, 4) : SizeAt(x, 1) = keySize}}
  BY DEF ValueAt, n
<1> HIDE DEF h, v
<1>7. ASSUME e - 1 <= L
      PROVE  /\ h \in Seq(Byte) /\ v \in Seq(Byte) /\ Len(v) = n /\ h \o v = w
             /\ SizeAt(h, 1) = SizeAt(file, pos)
             /\ p + Len(v) = e
  <2>1. pos + 3 <= L /\ pos <= pos + 3 + 1 /\ p <= (e - 1) + 1 /\ pos + 3 + 1 - pos = 4
        /\ (e - 1) + 1 - p = n
    BY <1>1, <1>2, <1>3, <1>7
  <2>2. /\ h \in Seq(Byte) /\ Len(h) = 4
        /\ \A i \in 1 .. 4 : h[i] = file[pos + i - 1]
    BY <1>3, <2>1, PartIs DEF h, L
  <2>3. v \in Seq(Byte) /\ Len(v) = n
    <3>1. v \in Seq(Byte) /\ Len(v) = (e - 1) + 1 - p
      <4> HIDE DEF p
      <4> QED
        BY <1>3, <1>7, <2>1, PartIs DEF v, L
    <3> QED
      BY <2>1, <3>1
  <2>4. h[1] = file[pos] /\ h[2] = file[pos + 1]
    <3>1. 1 \in 1 .. 4 /\ 2 \in 1 .. 4 /\ pos + 1 - 1 = pos /\ pos + 2 - 1 = pos + 1
      OBVIOUS
    <3> QED
      BY <2>2, <3>1
  <2>5. SizeAt(h, 1) = SizeAt(file, pos)
    <3>1. 1 + 1 = 2
      OBVIOUS
    <3> QED
      BY <2>4, <3>1, SizeAtIs
  <2>6. h \o v = w
    <3>1. pos \in 1 .. L + 1 /\ pos + 3 \in pos - 1 .. L /\ e - 1 \in pos + 3 .. L
      BY <1>1, <1>3, <1>7, <2>1
    <3>2. SubSeq(file, pos, pos + 3) \o SubSeq(file, (pos + 3) + 1, e - 1) = SubSeq(file, pos, e - 1)
      BY <3>1, ConcatAdjacentSubSeq DEF L
    <3> QED
      BY <1>3, <3>2 DEF h, v
  <2>7. p + Len(v) = e
    BY <1>2, <2>3
  <2> HIDE DEF w, p
  <2> QED
    BY <2>2, <2>3, <2>5, <2>6, <2>7
<1>8. CASE e - 1 > L
  <2>1. ReadAll(file, p, n) = {}
    BY <1>5, <1>8
  <2>2. ~(e <= L)
    BY <1>1, <1>3, <1>8
  <2>3. ValueAt(file, pos, keySize) = {}
    BY <1>6, <2>1
  <2> QED
    BY <2>2, <2>3 DEF HasValue, e, L
<1>9. CASE ~(e - 1 > L)
  <2>0. e - 1 <= L /\ ~(pos + 3 > L)
    BY <1>1, <1>3, <1>9
  <2>1. ReadAll(file, p, n) = {v} /\ ReadAll(file, pos, 4) = {h}
    BY <1>4, <1>5, <1>9, <2>0
  <2>2. /\ v \in Seq(Byte) /\ h \o v = w /\ SizeAt(h, 1) = SizeAt(file, pos)
        /\ p + Len(v) = e
    BY <1>7, <2>0
  <2> DEFINE d == Crc(w)
  <2>3. ReadAll(file, p + Len(v), 1) = IF e > L THEN {} ELSE {<<file[e]>>}
    <3>1. e + 1 - 1 = e
      BY <1>3
    <3>2. ReadAll(file, p + Len(v), 1) = IF e > L THEN {} ELSE {SubSeq(file, e, e)}
      <4> HIDE DEF p
      <4> QED
        BY <2>2, <3>1 DEF ReadAll, L
    <3>3. ASSUME e <= L
          PROVE  SubSeq(file, e, e) = <<file[e]>>
      <4> DEFINE s == SubSeq(file, e, e)
      <4>1. e \in Nat \ {0} /\ e <= e + 1 /\ e + 1 - e = 1
        BY <1>1, <1>2
      <4>2. s \in Seq(Byte) /\ Len(s) = 1 /\ s[1] = file[e]
        <5>1. s \in Seq(Byte) /\ Len(s) = e + 1 - e
              /\ \A i \in 1 .. e + 1 - e : s[i] = file[e + i - 1]
          BY <3>3, <4>1, PartIs DEF L
        <5> HIDE DEF s
        <5>2. 1 \in 1 .. e + 1 - e /\ e + 1 - 1 = e
          BY <4>1
        <5> QED
          BY <4>1, <5>1, <5>2
      <4> HIDE DEF s
      <4>3. s = <<s[1]>>
        BY <4>2
      <4> QED
        BY <4>2, <4>3 DEF s
    <3>4. e > L \/ e <= L
      BY <1>1, <1>3
    <3> QED
      BY <3>2, <3>3, <3>4
  <2>4. ~(e > L) <=> e <= L
    BY <1>1, <1>3
  <2>5. ValueAt(file, pos, keySize) =
          IF SizeAt(h, 1) = keySize /\ ReadAll(file, p + Len(v), 1) = {<<Crc(h \o v)>>}
            THEN {v} ELSE {}
    <3> DEFINE A == {r \in {v} : ReadAll(file, p + Len(r), 1) = {<<Crc(h \o r)>>}}
    <3>1. CASE SizeAt(h, 1) = keySize
      <4>1. {x \in ReadAll(file, pos, 4) : SizeAt(x, 1) = keySize} = {h}
        BY <2>1, <3>1
      <4>2. ValueAt(file, pos, keySize) =
              UNION {{r \in {v} : ReadAll(file, p + Len(r), 1) = {<<Crc(header \o r)>>}} :
                       header \in {h}}
        BY <1>6, <2>1, <4>1
      <4>3. ValueAt(file, pos, keySize) = A
        BY <4>2
      <4>4. A = IF ReadAll(file, p + Len(v), 1) = {<<Crc(h \o v)>>} THEN {v} ELSE {}
        OBVIOUS
      <4> QED
        BY <3>1, <4>3, <4>4
    <3>2. CASE SizeAt(h, 1) # keySize
      <4>1. {x \in ReadAll(file, pos, 4) : SizeAt(x, 1) = keySize} = {}
        BY <2>1, <3>2
      <4> QED
        BY <1>6, <3>2, <4>1
    <3> QED
      BY <3>1, <3>2
  <2> HIDE DEF d
  <2>6. ReadAll(file, p + Len(v), 1) = {<<Crc(h \o v)>>} <=> e <= L /\ file[e] = d
    <3>1. Crc(h \o v) = d
      BY <2>2 DEF d
    <3> DEFINE c == file[e]
    <3> HIDE DEF c
    <3>2. {<<c>>} = {<<d>>} <=> c = d
      <4>1. <<c>> = <<d>> <=> c = d
        OBVIOUS
      <4> QED
        BY <4>1
    <3>3. {} # {<<d>>}
      OBVIOUS
    <3> QED
      BY <2>3, <2>4, <3>1, <3>2, <3>3 DEF c
  <2>7. HasValue(file, pos, keySize) <=> e <= L /\ SizeAt(file, pos) = keySize /\ file[e] = d
    BY DEF HasValue, e, L, d
  <2>8. v = SubSeq(file, pos + 4, ValueEnd(file, pos) - 1)
    BY DEF v, e
  <2> QED
    BY <2>2, <2>5, <2>6, <2>7, <2>8
<1> QED
  BY <1>8, <1>9

(* What the checksum of a value is of. *)
Covered(keySize, v) == Header(keySize, v) \o v

(* The places of a value frame f, with b covered by its checksum. *)
ValueFramed(f, b, keySize, v) ==
  /\ Len(b) = Len(v) + 4 /\ b # <<>>
  /\ \A i \in 1 .. Len(v) + 4 : b[i] \in PlainByte
  /\ b[1] = SizeField(keySize)[1] /\ b[2] = SizeField(keySize)[2]
  /\ b[3] = SizeField(Len(v))[1] /\ b[4] = SizeField(Len(v))[2]
  /\ f = b \o <<Crc(b)>>
  /\ Len(f) = Len(v) + 5
  /\ \A i \in 1 .. Len(v) + 4 : f[i] = b[i]
  /\ f[Len(v) + 5] = Crc(b)

LEMMA HeaderIs ==
  ASSUME NEW keySize \in 0 .. 99, NEW v, Len(v) \in 0 .. 99
  PROVE  /\ Header(keySize, v) \in Seq(PlainByte) /\ Len(Header(keySize, v)) = 4
         /\ Header(keySize, v)[1] = SizeField(keySize)[1]
         /\ Header(keySize, v)[2] = SizeField(keySize)[2]
         /\ Header(keySize, v)[3] = SizeField(Len(v))[1]
         /\ Header(keySize, v)[4] = SizeField(Len(v))[2]
<1> DEFINE a == SizeField(keySize)  c == SizeField(Len(v))  h == a \o c
<1>1. Header(keySize, v) = h
  BY DEF Header
<1>2. a \in Seq(Range(Digits)) /\ Len(a) = 2 /\ c \in Seq(Range(Digits)) /\ Len(c) = 2
  BY SizeFieldIs
<1> HIDE DEF a, c
<1>3. /\ h \in Seq(Range(Digits)) /\ Len(h) = Len(a) + Len(c)
      /\ \A i \in 1 .. Len(a) + Len(c) : h[i] = IF i <= Len(a) THEN a[i] ELSE c[i - Len(a)]
  BY <1>2, ConcatProperties
<1> HIDE DEF h
<1>4. Len(h) = 4 /\ \A i \in 1 .. 4 : h[i] = IF i <= 2 THEN a[i] ELSE c[i - 2]
  BY <1>2, <1>3
<1>5. h[1] = a[1] /\ h[2] = a[2] /\ h[3] = c[1] /\ h[4] = c[2]
  BY <1>4
<1>6. h \in Seq(PlainByte)
  <2>1. Range(Digits) \subseteq PlainByte
    BY DEF PlainByte
  <2> QED
    BY <1>3, <2>1, SeqMonotonic
<1> QED
  BY <1>1, <1>4, <1>5, <1>6 DEF a, c

LEMMA ValueFrameIs ==
  ASSUME NEW Byte, Ideal(Byte), NEW keySize \in 0 .. 99, NEW v \in Short
  PROVE  /\ Covered(keySize, v) \in Seq(Byte) /\ ValueFrame(keySize, v) \in Seq(Byte)
         /\ ValueFramed(ValueFrame(keySize, v), Covered(keySize, v), keySize, v)
<1> DEFINE n == Len(v)  h == Header(keySize, v)  b == h \o v  d == Crc(b)  f == b \o <<d>>
<1>1. n \in 0 .. 99 /\ v \in Seq(PlainByte)
  <2>1. v \in Seq(Symbol)
    BY DEF Short
  <2>2. Symbol \subseteq PlainByte
    BY DEF PlainByte
  <2>3. v \in Seq(PlainByte)
    BY <2>1, <2>2, SeqMonotonic, Zenon
  <2> QED
    BY <2>3, ShortIs
<1>2. /\ h \in Seq(PlainByte) /\ Len(h) = 4
      /\ h[1] = SizeField(keySize)[1] /\ h[2] = SizeField(keySize)[2]
      /\ h[3] = SizeField(n)[1] /\ h[4] = SizeField(n)[2]
  <2>1. keySize \in 0 .. 99 /\ Len(v) \in 0 .. 99
    BY <1>1
  <2> QED
    BY <2>1, HeaderIs
<1> HIDE DEF h
<1>3. /\ b \in Seq(PlainByte) /\ Len(b) = Len(h) + Len(v)
      /\ \A i \in 1 .. Len(h) + Len(v) : b[i] = IF i <= Len(h) THEN h[i] ELSE v[i - Len(h)]
  BY <1>1, <1>2, ConcatProperties
<1>4. PlainByte \subseteq Byte
  BY DEF Ideal
<1> HIDE DEF b, n
<1>5. Len(b) = n + 4 /\ b[1] = h[1] /\ b[2] = h[2] /\ b[3] = h[3] /\ b[4] = h[4]
  <2>1. Len(b) = 4 + n /\ \A i \in 1 .. 4 + n : b[i] = IF i <= 4 THEN h[i] ELSE v[i - 4]
    BY <1>2, <1>3, Zenon DEF n
  <2>2. 1 \in 1 .. 4 + n /\ 2 \in 1 .. 4 + n /\ 3 \in 1 .. 4 + n /\ 4 \in 1 .. 4 + n
        /\ 4 + n = n + 4
    BY <1>1
  <2> QED
    BY <2>1, <2>2
<1>6. \A i \in 1 .. n + 4 : b[i] \in PlainByte
  <2>1. \A i \in 1 .. Len(b) : b[i] \in PlainByte
    BY <1>3
  <2> QED
    BY <1>5, <2>1
<1>7. b \in Seq(Byte) /\ b # <<>>
  <2>1. b \in Seq(Byte)
    BY <1>3, <1>4, SeqMonotonic
  <2>2. Len(b) # 0
    BY <1>1, <1>5
  <2>3. Len(<<>>) = 0
    OBVIOUS
  <2> QED
    BY <2>1, <2>2, <2>3
<1>8. d \in Byte
  BY <1>7 DEF Ideal
<1> HIDE DEF d
<1>9. <<d>> \in Seq(Byte) /\ Len(<<d>>) = 1 /\ <<d>>[1] = d
  BY <1>8
<1> DEFINE c == <<d>>
<1> HIDE DEF c
<1>10. c \in Seq(Byte) /\ Len(c) = 1 /\ c[1] = d
  BY <1>9 DEF c
<1>11. /\ b \o c \in Seq(Byte) /\ Len(b \o c) = Len(b) + Len(c)
       /\ \A i \in 1 .. Len(b) + Len(c) :
            (b \o c)[i] = IF i <= Len(b) THEN b[i] ELSE c[i - Len(b)]
  BY <1>7, <1>10, ConcatProperties
<1> DEFINE g == b \o c
<1>12. g \in Seq(Byte) /\ Len(g) = (n + 4) + 1
       /\ \A i \in 1 .. (n + 4) + 1 : g[i] = IF i <= n + 4 THEN b[i] ELSE c[i - (n + 4)]
  BY <1>5, <1>10, <1>11, Zenon
<1> HIDE DEF g
<1>13. (\A i \in 1 .. n + 4 : g[i] = b[i]) /\ g[n + 5] = d /\ Len(g) = n + 5
  <2>1. (n + 4) + 1 = n + 5 /\ n + 5 \in 1 .. (n + 4) + 1 /\ ~(n + 5 <= n + 4)
        /\ (n + 5) - (n + 4) = 1
        /\ \A i \in 1 .. n + 4 : i \in 1 .. (n + 4) + 1 /\ i <= n + 4
    BY <1>1
  <2> QED
    BY <1>10, <1>12, <2>1
<1>14. Covered(keySize, v) = b /\ ValueFrame(keySize, v) = b \o <<Crc(b)>> /\ g = b \o <<Crc(b)>>
  BY DEF Covered, ValueFrame, b, h, g, c, d
<1>15. d = Crc(b)
  BY DEF d
<1>16. ValueFramed(g, b, keySize, v)
  BY <1>2, <1>5, <1>6, <1>7, <1>13, <1>14, <1>15 DEF ValueFramed, n
<1> QED
  BY <1>7, <1>12, <1>14, <1>16

(* A value that stands somewhere is read there, for its key size. *)
LEMMA ReadValue ==
  ASSUME NEW Byte, Ideal(Byte), NEW file \in Seq(Byte), NEW p \in Nat,
         NEW k \in 0 .. 99, NEW v \in Short, StandsAt(file, p, ValueFrame(k, v)), NEW keySize
  PROVE  ValueAt(file, p + 1, keySize) = IF keySize = k THEN {v} ELSE {}
<1> DEFINE n == Len(v)  L == Len(file)  f == ValueFrame(k, v)  b == Covered(k, v)
           pos == p + 1  h == Header(k, v)
<1>1. n \in 0 .. 99 /\ L \in Nat /\ pos \in Nat \ {0} /\ v \in Seq(Byte)
  BY ShortIs
<1>2. b \in Seq(Byte) /\ f \in Seq(Byte) /\ ValueFramed(f, b, k, v)
  BY ValueFrameIs
<1>3. h \in Seq(Byte) /\ Len(h) = 4 /\ b = h \o v
  <2>1. h \in Seq(PlainByte) /\ Len(h) = 4
    BY <1>1, HeaderIs
  <2>2. PlainByte \subseteq Byte
    BY DEF Ideal
  <2>3. b = h \o v
    BY DEF Covered
  <2> HIDE DEF h, b
  <2> QED
    BY <2>1, <2>2, <2>3, SeqMonotonic
<1>4. /\ Len(b) = n + 4
      /\ b[1] = SizeField(k)[1] /\ b[2] = SizeField(k)[2]
      /\ b[3] = SizeField(n)[1] /\ b[4] = SizeField(n)[2]
      /\ Len(f) = n + 5 /\ (\A i \in 1 .. n + 4 : f[i] = b[i]) /\ f[n + 5] = Crc(b)
      /\ f = b \o <<Crc(b)>>
  BY <1>2 DEF ValueFramed
<1>5. StandsAt(file, p, f)
  OBVIOUS
<1> HIDE DEF f, b, h
<1>6. <<Crc(b)>> \in Seq(Byte)
  <2>1. Crc(b) \in Byte
    BY <1>2 DEF Ideal
  <2> DEFINE d == Crc(b)
  <2> HIDE DEF d
  <2>2. <<d>> \in Seq(Byte)
    BY <2>1 DEF d
  <2> QED
    BY <2>2 DEF d
<1>7. StandsAt(file, p, b)
  <2> DEFINE c == <<Crc(b)>>
  <2>1. c \in Seq(Byte) /\ StandsAt(file, p, b \o c)
    BY <1>4, <1>5, <1>6
  <2> HIDE DEF c
  <2> QED
    BY <1>1, <1>2, <2>1, PartsStand
<1>8. StandsAt(file, p + 4, v)
  <2>1. StandsAt(file, p, h \o v)
    BY <1>3, <1>7
  <2>2. StandsAt(file, p + Len(h), v)
    BY <1>1, <1>3, <2>1, PartsStand
  <2> QED
    BY <1>3, <2>2
<1>9. p + (n + 5) <= L /\ \A i \in 1 .. n + 5 : file[p + i] = f[i]
  BY <1>4, <1>5 DEF StandsAt
<1> HIDE DEF n, L
<1>10. 1 \in 1 .. n + 4 /\ 2 \in 1 .. n + 4 /\ 3 \in 1 .. n + 4 /\ 4 \in 1 .. n + 4
       /\ (\A i \in 1 .. n + 4 : i \in 1 .. n + 5) /\ n + 5 \in 1 .. n + 5
       /\ pos + 1 = p + 2 /\ pos + 2 = p + 3 /\ (p + 3) + 1 = p + 4
       /\ pos + 4 + n = p + (n + 5) /\ pos + 4 + n <= L
       /\ pos + 4 + n - 1 = p + (n + 4) /\ pos + 4 = (p + 4) + 1 /\ p + (n + 4) = (p + 4) + n
  BY <1>1, <1>9
<1>11. \A i \in 1 .. n + 4 : file[p + i] = b[i]
  BY <1>4, <1>9, <1>10
<1>12. SizeAt(file, pos) = k
  <2>1. file[pos] = SizeField(k)[1] /\ file[pos + 1] = SizeField(k)[2]
    BY <1>4, <1>10, <1>11
  <2> QED
    BY <2>1, SizeRead, ZenonT(60)
<1>13. SizeAt(file, pos + 2) = n
  <2>1. file[p + 3] = SizeField(n)[1] /\ file[(p + 3) + 1] = SizeField(n)[2]
    BY <1>4, <1>10, <1>11
  <2>2. SizeAt(file, p + 3) = n
    BY <1>1, <2>1, SizeRead
  <2> QED
    BY <1>10, <2>2
<1> DEFINE e == ValueEnd(file, pos)
<1>14. e = p + (n + 5) /\ e - 1 = p + (n + 4)
  <2>1. e = pos + 4 + n
    BY <1>13 DEF ValueEnd
  <2>2. pos + 4 + n = p + (n + 5) /\ pos + 4 + n - 1 = p + (n + 4)
    BY <1>10
  <2> HIDE DEF e, pos
  <2> QED
    BY <1>1, <2>1, <2>2
<1> HIDE DEF e
<1>15. SubSeq(file, pos, e - 1) = b
  <2>1. SubSeq(file, p + 1, p + Len(b)) = b
    BY <1>2, <1>7, StandsIs
  <2> QED
    BY <1>4, <1>14, <2>1
<1>16. SubSeq(file, pos + 4, e - 1) = v
  <2>1. p + 4 \in Nat
    OBVIOUS
  <2>2. SubSeq(file, (p + 4) + 1, (p + 4) + n) = v
    BY <1>1, <1>8, <2>1, StandsIs DEF n
  <2> QED
    BY <1>10, <1>14, <2>2
<1>17. e <= L /\ file[e] = Crc(b)
  BY <1>4, <1>9, <1>10, <1>14
<1>18. HasValue(file, pos, keySize) <=> keySize = k
  BY <1>12, <1>15, <1>17 DEF HasValue, e, L
<1>19. ValueAt(file, pos, keySize) =
         IF HasValue(file, pos, keySize) THEN {SubSeq(file, pos + 4, e - 1)} ELSE {}
  BY <1>1, ValueAtIs DEF e
<1> QED
  BY <1>16, <1>18, <1>19

(* The frame of v1 up to a cut, and the frame of v2. *)
ValueFile(v1, v2, cut) == SubSeq(ValueFrame(1, v1), 1, cut) \o ValueFrame(2, v2)

TwoValues(file, v1, v2, cut) ==
  /\ Len(file) = cut + (Len(v2) + 5)
  /\ \A i \in 1 .. cut : file[i] = ValueFrame(1, v1)[i]
  /\ \A i \in 1 .. Len(v2) + 5 : file[cut + i] = ValueFrame(2, v2)[i]

LEMMA ValueFileIs ==
  ASSUME NEW Byte, Ideal(Byte), NEW v1 \in Short, NEW v2 \in Short,
         NEW cut \in 0 .. Len(v1) + 5
  PROVE  /\ ValueFile(v1, v2, cut) \in Seq(Byte)
         /\ TwoValues(ValueFile(v1, v2, cut), v1, v2, cut)
<1> DEFINE n1 == Len(v1)  n2 == Len(v2)  f1 == ValueFrame(1, v1)  f2 == ValueFrame(2, v2)
           s == SubSeq(f1, 1, cut)  file == s \o f2
<1>1. n1 \in 0 .. 99 /\ n2 \in 0 .. 99
  BY ShortIs
<1>2. f1 \in Seq(Byte) /\ f2 \in Seq(Byte) /\ Len(f1) = n1 + 5 /\ Len(f2) = n2 + 5
  <2>1. 1 \in 0 .. 99 /\ 2 \in 0 .. 99
    OBVIOUS
  <2>2. f1 \in Seq(Byte) /\ ValueFramed(f1, Covered(1, v1), 1, v1)
    BY <2>1, ValueFrameIs
  <2>3. f2 \in Seq(Byte) /\ ValueFramed(f2, Covered(2, v2), 2, v2)
    BY <2>1, ValueFrameIs
  <2> HIDE DEF f1, f2
  <2> QED
    BY <2>2, <2>3 DEF ValueFramed
<1>3. cut \in 0 .. n1 + 5
  OBVIOUS
<1> HIDE DEF n1, f1, f2
<1>4. cut \in Nat /\ cut <= Len(f1)
  BY <1>1, <1>2, <1>3
<1>5. s \in Seq(Byte) /\ Len(s) = cut /\ \A i \in 1 .. cut : s[i] = f1[i]
  BY <1>2, <1>4, PrefixIs
<1> HIDE DEF s
<1>6. /\ file \in Seq(Byte) /\ Len(file) = Len(s) + Len(f2)
      /\ \A i \in 1 .. Len(s) + Len(f2) : file[i] = IF i <= Len(s) THEN s[i] ELSE f2[i - Len(s)]
  BY <1>2, <1>5, ConcatProperties
<1> HIDE DEF file, n2
<1>7. Len(file) = cut + (n2 + 5)
      /\ \A i \in 1 .. cut + (n2 + 5) : file[i] = IF i <= cut THEN s[i] ELSE f2[i - cut]
  BY <1>2, <1>5, <1>6, Zenon
<1>8. ASSUME NEW i \in 1 .. cut
      PROVE  file[i] = f1[i]
  <2>1. i \in 1 .. cut + (n2 + 5) /\ i <= cut
    BY <1>1, <1>4
  <2> QED
    BY <1>5, <1>7, <2>1
<1>9. ASSUME NEW i \in 1 .. n2 + 5
      PROVE  file[cut + i] = f2[i]
  <2>1. cut + i \in 1 .. cut + (n2 + 5) /\ ~(cut + i <= cut) /\ (cut + i) - cut = i
    BY <1>1, <1>4
  <2> QED
    BY <1>7, <2>1
<1>10. TwoValues(file, v1, v2, cut)
  BY <1>7, <1>8, <1>9 DEF TwoValues, f1, f2, n2
<1> QED
  BY <1>6, <1>10 DEF ValueFile, file, s, f1, f2

(* Nothing else is read. *)
LEMMA NoOtherValue ==
  ASSUME NEW Byte, Ideal(Byte), NEW v1 \in Short, NEW v2 \in Short,
         NEW cut \in 0 .. Len(v1) + 5, NEW file \in Seq(Byte), TwoValues(file, v1, v2, cut),
         NEW pos \in Nat \ {0}, NEW keySize, HasValue(file, pos, keySize)
  PROVE  pos = cut + 1 \/ (pos = 1 /\ cut = Len(v1) + 5)
<1> DEFINE n1 == Len(v1)  n2 == Len(v2)  f1 == ValueFrame(1, v1)  f2 == ValueFrame(2, v2)
           b1 == Covered(1, v1)  b2 == Covered(2, v2)  L == Len(file)
           n == SizeAt(file, pos + 2)
           e == ValueEnd(file, pos)
           last == e - 1
           w == SubSeq(file, pos, last)
<1>1. n1 \in 0 .. 99 /\ n2 \in 0 .. 99 /\ n \in 0 .. 99 /\ L \in Nat
  BY ShortIs, SizeAtIs
<1>2. /\ b1 \in Seq(Byte) /\ b2 \in Seq(Byte)
      /\ ValueFramed(f1, b1, 1, v1) /\ ValueFramed(f2, b2, 2, v2)
  <2>1. 1 \in 0 .. 99 /\ 2 \in 0 .. 99
    OBVIOUS
  <2>2. b1 \in Seq(Byte) /\ ValueFramed(f1, b1, 1, v1)
    BY <2>1, ValueFrameIs
  <2>3. b2 \in Seq(Byte) /\ ValueFramed(f2, b2, 2, v2)
    BY <2>1, ValueFrameIs
  <2> QED
    BY <2>2, <2>3
<1>3. /\ L = cut + (n2 + 5)
      /\ \A i \in 1 .. cut : file[i] = f1[i]
      /\ \A i \in 1 .. n2 + 5 : file[cut + i] = f2[i]
  BY DEF TwoValues
<1>4. e <= L /\ file[e] = Crc(w)
  BY DEF HasValue
<1>5. e = pos + 4 + n
  BY DEF ValueEnd
<1>6. cut \in 0 .. n1 + 5
  OBVIOUS
<1> HIDE DEF n1, n2, f1, f2, b1, b2, L, n, e
<1>7. /\ Len(b1) = n1 + 4 /\ (\A i \in 1 .. n1 + 4 : f1[i] \in PlainByte) /\ f1[n1 + 5] = Crc(b1)
      /\ Len(b2) = n2 + 4 /\ (\A i \in 1 .. n2 + 4 : f2[i] \in PlainByte) /\ f2[n2 + 5] = Crc(b2)
  BY <1>2 DEF ValueFramed, n1, n2
<1>8. cut \in Nat /\ e \in Nat /\ last \in Nat /\ pos <= last + 1 /\ last <= L
      /\ last + 1 - pos = e - pos /\ e - pos >= 4
  BY <1>1, <1>4, <1>5, <1>6
<1> HIDE DEF last
<1>9. w \in Seq(Byte) /\ Len(w) = e - pos
  <2>1. w \in Seq(Byte) /\ Len(w) = last + 1 - pos
    BY <1>8, PartIs DEF L
  <2> QED
    BY <1>8, <2>1
<1> HIDE DEF w
<1>10. w # <<>>
  <2>1. Len(w) # 0
    BY <1>8, <1>9
  <2>2. Len(<<>>) = 0
    OBVIOUS
  <2> QED
    BY <2>1, <2>2
<1>11. file[e] \notin PlainByte
  BY <1>4, <1>9, <1>10 DEF Ideal
<1>12. CASE e <= cut
  <2>1. file[e] = f1[e] /\ e \in 1 .. n1 + 5
    BY <1>1, <1>3, <1>5, <1>6, <1>8, <1>12
  <2>2. ~(e \in 1 .. n1 + 4)
    BY <1>7, <1>11, <2>1
  <2>3. e = n1 + 5 /\ cut = n1 + 5
    BY <1>1, <1>6, <1>8, <1>12, <2>1, <2>2
  <2>4. Crc(w) = Crc(b1)
    BY <1>4, <1>7, <2>1, <2>3
  <2>5. w = b1
    BY <1>2, <1>9, <2>4 DEF Ideal
  <2>6. e - pos = n1 + 4
    BY <1>7, <1>9, <2>5
  <2>7. pos = 1
    BY <1>1, <1>8, <2>3, <2>6
  <2> QED
    BY <2>3, <2>7 DEF n1
<1>13. CASE ~(e <= cut)
  <2> DEFINE i == e - cut
  <2>1. i \in 1 .. n2 + 5 /\ cut + i = e
    BY <1>1, <1>3, <1>4, <1>8, <1>13
  <2>2. file[e] = f2[i]
    BY <1>3, <2>1
  <2>3. ~(i \in 1 .. n2 + 4)
    BY <1>7, <1>11, <2>2
  <2>4. i = n2 + 5
    BY <1>1, <2>1, <2>3
  <2>5. Crc(w) = Crc(b2)
    BY <1>4, <1>7, <2>2, <2>4
  <2>6. w = b2
    BY <1>2, <1>9, <2>5 DEF Ideal
  <2>7. e - pos = n2 + 4
    BY <1>7, <1>9, <2>6
  <2>8. pos = cut + 1
    BY <1>1, <1>8, <2>1, <2>4, <2>7
  <2> QED
    BY <2>8
<1> QED
  BY <1>12, <1>13

LEMMA ValuesAre ==
  ASSUME NEW Byte, Ideal(Byte), NEW v1 \in Short, NEW v2 \in Short,
         NEW cut \in 0 .. Len(ValueFrame(1, v1)), NEW pos \in Nat \ {0}, NEW keySize
  PROVE  ValueAt(ValueFile(v1, v2, cut), pos, keySize) =
           IF pos = cut + 1 /\ keySize = 2 THEN {v2}
           ELSE IF pos = 1 /\ cut = Len(ValueFrame(1, v1)) /\ keySize = 1 THEN {v1}
           ELSE {}
<1> DEFINE n1 == Len(v1)  n2 == Len(v2)  f1 == ValueFrame(1, v1)  f2 == ValueFrame(2, v2)
           file == ValueFile(v1, v2, cut)
<1>1. n1 \in 0 .. 99 /\ n2 \in 0 .. 99 /\ 1 \in 0 .. 99 /\ 2 \in 0 .. 99
  BY ShortIs
<1>2. Len(f1) = n1 + 5 /\ Len(f2) = n2 + 5
  <2>1. ValueFramed(f1, Covered(1, v1), 1, v1)
    BY <1>1, ValueFrameIs
  <2>2. ValueFramed(f2, Covered(2, v2), 2, v2)
    BY <1>1, ValueFrameIs
  <2> HIDE DEF f1, f2
  <2> QED
    BY <2>1, <2>2 DEF ValueFramed
<1>3. cut \in 0 .. n1 + 5 /\ cut \in Nat
  <2> HIDE DEF n1
  <2>1. cut \in 0 .. n1 + 5
    BY <1>2
  <2> QED
    BY <1>1, <2>1
<1>4. file \in Seq(Byte) /\ TwoValues(file, v1, v2, cut)
  BY <1>3, ValueFileIs
<1> HIDE DEF file
<1>5. /\ Len(file) = cut + (n2 + 5)
      /\ \A i \in 1 .. cut : file[i] = f1[i]
      /\ \A i \in 1 .. n2 + 5 : file[cut + i] = f2[i]
  BY <1>4 DEF TwoValues
<1>6. n1 = Len(v1)
  OBVIOUS
<1> HIDE DEF f1, f2, n1, n2
<1>7. StandsAt(file, cut, f2)
  <2>1. cut + Len(f2) <= Len(file)
    <3>1. cut + (n2 + 5) <= cut + (n2 + 5)
      BY <1>1, <1>3
    <3> QED
      BY <1>2, <1>5, <3>1
  <2> QED
    BY <1>2, <1>5, <2>1 DEF StandsAt
<1>8. ASSUME cut = n1 + 5
      PROVE  StandsAt(file, 0, f1)
  <2>1. 0 + Len(f1) <= Len(file)
    <3>1. 0 + (n1 + 5) <= cut + (n2 + 5)
      BY <1>1, <1>8
    <3> QED
      BY <1>2, <1>5, <3>1
  <2>2. \A i \in 1 .. cut : 0 + i = i
    OBVIOUS
  <2> QED
    BY <1>2, <1>5, <1>8, <2>1, <2>2 DEF StandsAt
<1>9. CASE pos = cut + 1
  <2>1. ValueAt(file, cut + 1, keySize) = IF keySize = 2 THEN {v2} ELSE {}
    BY <1>1, <1>3, <1>4, <1>7, ReadValue DEF f2
  <2>2. ~(pos = 1 /\ cut = n1 + 5)
    BY <1>1, <1>3, <1>9
  <2> QED
    BY <1>2, <1>9, <2>1, <2>2 DEF file, f1
<1>10. CASE pos # cut + 1 /\ pos = 1 /\ cut = n1 + 5
  <2>1. 0 \in Nat /\ 0 + 1 = 1
    OBVIOUS
  <2>2. ValueAt(file, 0 + 1, keySize) = IF keySize = 1 THEN {v1} ELSE {}
    BY <1>1, <1>4, <1>8, <1>10, <2>1, ReadValue, ZenonT(60) DEF f1
  <2> QED
    BY <1>2, <1>10, <2>1, <2>2 DEF file, f1
<1>11. CASE pos # cut + 1 /\ ~(pos = 1 /\ cut = n1 + 5)
  <2>1. ~HasValue(file, pos, keySize)
    BY <1>3, <1>4, <1>6, <1>11, NoOtherValue
  <2>2. ValueAt(file, pos, keySize) = {}
    BY <1>4, <2>1, ValueAtIs
  <2> QED
    BY <1>2, <1>11, <2>2 DEF file, f1
<1> QED
  BY <1>9, <1>10, <1>11

(***************************************************************************)
(* Whatever is stored, only the two offsets at which a record was written  *)
(* read as a value, and only with the key size it was written with         *)
(* (storage_engine.cpp:45-124).                                            *)
(***************************************************************************)
THEOREM OffsetsLead ==
  ASSUME NEW Byte, Ideal(Byte)
  PROVE  Spec => []OffsetsLeadToRecords
<1>1. ASSUME Typed
      PROVE  OffsetsLeadToRecords
  <2> SUFFICES ASSUME NEW n \in 1 .. Len(Records),
                      NEW cut \in 0 .. Len(ValueFrame(1, Records[n])),
                      NEW pos \in 1 .. Len(ValueFile(Records[n], Records[Len(Records)], cut)),
                      NEW keySize \in {1, 2}
               PROVE  ValueAt(ValueFile(Records[n], Records[Len(Records)], cut), pos, keySize) =
                        IF pos = cut + 1 /\ keySize = 2 THEN {Records[Len(Records)]}
                        ELSE IF pos = 1 /\ cut = Len(ValueFrame(1, Records[n])) /\ keySize = 1
                          THEN {Records[n]}
                        ELSE {}
    BY DEF OffsetsLeadToRecords, ValueFile
  <2> DEFINE rs == Records  last == Len(rs)
  <2>1. rs \in Seq(Logged) /\ last \in Nat
    BY <1>1, RecordsTyped
  <2>2. last \in 1 .. Len(rs) /\ n \in 1 .. Len(rs)
    <3> HIDE DEF rs
    <3> QED
      BY <2>1 DEF rs
  <2>3. rs[n] \in Short /\ rs[last] \in Short
    <3> HIDE DEF rs, last
    <3> QED
      BY <2>1, <2>2, LoggedIs
  <2>4. pos \in Nat \ {0}
    OBVIOUS
  <2> QED
    BY <2>3, <2>4, ValuesAre
<1> QED
  BY <1>1, TypedAlways, PTL

-----------------------------------------------------------------------------
(* Words *)

(* What split_terms() holds: the words that are complete, and one that is not. *)
Black == Symbol \ White
Words == [terms : Seq(Seq(Black)), current : Seq(Black)]

SplitNext(s, c) ==
  IF c \notin White THEN [s EXCEPT !.current = Append(@, c)]
  ELSE IF s.current = <<>> THEN s
  ELSE [terms |-> Append(s.terms, s.current), current |-> <<>>]

NoWords == [terms |-> <<>>, current |-> <<>>]

(* g[i] is what it holds after i symbols of a text. *)
SplitsBy(g, words) ==
  /\ g[0] = NoWords
  /\ \A i \in 1 .. Len(words) : g[i] = SplitNext(g[i - 1], words[i])
  /\ SplitTerms(words) = SplitNext(g[Len(words)], SP).terms

LEMMA SplitNextType ==
  ASSUME NEW s \in Words, NEW c \in Symbol
  PROVE  SplitNext(s, c) \in Words
<1>1. s.terms \in Seq(Seq(Black)) /\ s.current \in Seq(Black) /\ <<>> \in Seq(Black)
  BY DEF Words
<1>2. c \notin White => Append(s.current, c) \in Seq(Black)
  <2>1. c \notin White => c \in Black
    BY DEF Black
  <2> QED
    BY <1>1, <2>1, AppendProperties
<1>3. Append(s.terms, s.current) \in Seq(Seq(Black))
  BY <1>1, AppendProperties
<1> QED
  BY <1>1, <1>2, <1>3 DEF Words, SplitNext

LEMMA SplitIs ==
  ASSUME NEW words \in Text
  PROVE  \E g : SplitsBy(g, words) /\ \A i \in 0 .. Len(words) : g[i] \in Words
<1> DEFINE n == Len(words)
           Def(f, i) == IF i = 0 THEN NoWords ELSE SplitNext(f[i - 1], words[i])
           state == CHOOSE f : f = [i \in 0 .. n |-> Def(f, i)]
           step == [i \in 1 .. n |-> [s \in Words |-> SplitNext(s, words[i])]]
<1>1. n \in Nat /\ \A i \in 1 .. n : words[i] \in Symbol
  BY DEF Text
<1>2. NoWords \in Words
  BY DEF NoWords, Words
<1>3. SplitTerms(words) = SplitNext(state[n], SP).terms
  BY DEF SplitTerms, SplitNext, NoWords
<1> HIDE DEF n
<1>4. Counted(n, Words, NoWords, step)
  BY <1>1, <1>2, SplitNextType DEF Counted
<1>5. PICK h \in [0 .. n -> Words] :
        \A i \in 0 .. n : h[i] = IF i = 0 THEN NoWords ELSE step[i][h[i - 1]]
  <2> HIDE DEF step
  <2> QED
    BY <1>4, CountedRecursion
<1>6. ASSUME NEW f, NEW i \in 1 .. n, f[i - 1] \in Words
      PROVE  Def(f, i) = step[i][f[i - 1]]
  <2>1. i # 0
    BY <1>1
  <2> QED
    BY <1>6, <2>1
<1>7. \A i \in 0 .. n : i = 0 \/ (i \in 1 .. n /\ i - 1 \in 0 .. n)
  BY <1>1
<1>8. h = [i \in 0 .. n |-> Def(h, i)]
  <2>1. ASSUME NEW i \in 0 .. n
        PROVE  h[i] = Def(h, i)
    <3>1. CASE i = 0
      BY <1>5, <3>1
    <3>2. CASE i # 0
      <4>1. i \in 1 .. n /\ h[i - 1] \in Words /\ h[i] = step[i][h[i - 1]]
        <5> HIDE DEF step
        <5> QED
          BY <1>5, <1>7, <3>2
      <4> QED
        BY <1>6, <4>1
    <3> QED
      BY <3>1, <3>2
  <2> HIDE DEF Def
  <2> QED
    BY <1>5, <2>1
<1> HIDE DEF Def, step
<1>9. state = [i \in 0 .. n |-> Def(state, i)]
  BY <1>8
<1> HIDE DEF state
<1>10. \A i \in 0 .. n : state[i] = Def(state, i)
  <2> DEFINE D == 0 .. n
  <2> HIDE DEF D
  <2>1. state = [i \in D |-> Def(state, i)]
    BY <1>9 DEF D
  <2>2. \A i \in D : state[i] = Def(state, i)
    BY <2>1
  <2> QED
    BY <2>2 DEF D
<1>11. state[0] = NoWords
  BY <1>1, <1>10 DEF Def
<1>12. \A i \in 1 .. n : state[i] = Def(state, i) /\ i # 0
  BY <1>1, <1>10
<1>13. \A i \in 0 .. n : state[i] \in Words
  <2>1. \A i \in 1 .. n : state[i - 1] \in Words => state[i] = step[i][state[i - 1]]
    BY <1>6, <1>12
  <2> QED
    BY <1>4, <1>11, <2>1, CountedRecurs
<1>14. \A i \in 1 .. n : state[i] = SplitNext(state[i - 1], words[i])
  BY <1>12 DEF Def
<1> QED
  BY <1>3, <1>11, <1>13, <1>14 DEF SplitsBy, n

(* Words that are cut at the same white space wherever it stands. *)
LEMMA SplitAtWhite ==
  ASSUME NEW a \in Text, NEW c \in Symbol \cap White, NEW b \in Text
  PROVE  SplitTerms(Append(a, c) \o b) = SplitTerms(a) \o SplitTerms(b)
<1> DEFINE n == Len(a)
           l == Len(b)
           x == Append(a, c) \o b
           A == SplitTerms(a)
           Behind(s) == [terms |-> A \o s.terms, current |-> s.current]
<1>1. n \in Nat /\ l \in Nat
  BY DEF Text
<1>2. /\ x \in Text /\ Len(x) = (n + 1) + l
      /\ \A i \in 1 .. n : x[i] = a[i]
      /\ x[n + 1] = c
      /\ \A j \in 1 .. l : x[(n + 1) + j] = b[j]
  <2> DEFINE ac == Append(a, c)
  <2>1. ac \in Seq(Symbol) /\ Len(ac) = n + 1 /\ ac[n + 1] = c
        /\ \A i \in 1 .. n : ac[i] = a[i]
    BY AppendLog DEF Text
  <2> HIDE DEF ac
  <2>2. /\ ac \o b \in Seq(Symbol) /\ Len(ac \o b) = Len(ac) + Len(b)
        /\ \A i \in 1 .. Len(ac) : (ac \o b)[i] = ac[i]
        /\ \A i \in 1 .. Len(b) : (ac \o b)[i + Len(ac)] = b[i]
    BY <2>1, Concat DEF Text
  <2>3. x = ac \o b
    BY DEF ac
  <2> HIDE DEF x
  <2>4. /\ x \in Seq(Symbol) /\ Len(x) = (n + 1) + l
        /\ \A i \in 1 .. n + 1 : x[i] = ac[i]
        /\ \A i \in 1 .. l : x[i + (n + 1)] = b[i]
    BY <2>1, <2>2, <2>3, Zenon
  <2> HIDE DEF n, l
  <2>5. n + 1 \in 1 .. n + 1 /\ \A i \in 1 .. n : i \in 1 .. n + 1
    BY <1>1
  <2>6. \A j \in 1 .. l : (n + 1) + j = j + (n + 1)
    BY <1>1
  <2> QED
    BY <2>1, <2>4, <2>5, <2>6 DEF Text
<1>3. PICK f : SplitsBy(f, a) /\ \A i \in 0 .. n : f[i] \in Words
  BY SplitIs
<1>4. PICK h : SplitsBy(h, b) /\ \A i \in 0 .. l : h[i] \in Words
  BY SplitIs
<1> HIDE DEF x
<1>5. PICK g : SplitsBy(g, x)
  BY <1>2, SplitIs
<1> HIDE DEF n, l
<1>6. /\ f[0] = NoWords /\ A = SplitNext(f[n], SP).terms
      /\ \A i \in 1 .. n : f[i] = SplitNext(f[i - 1], a[i])
  BY <1>3 DEF SplitsBy, n
<1>7. /\ h[0] = NoWords /\ SplitTerms(b) = SplitNext(h[l], SP).terms
      /\ \A i \in 1 .. l : h[i] = SplitNext(h[i - 1], b[i])
  BY <1>4 DEF SplitsBy, l
<1> HIDE DEF A
<1>8. /\ g[0] = NoWords /\ SplitTerms(x) = SplitNext(g[(n + 1) + l], SP).terms
      /\ \A i \in 1 .. (n + 1) + l : g[i] = SplitNext(g[i - 1], x[i])
  BY <1>2, <1>5, Zenon DEF SplitsBy
<1>9. g[n] = f[n]
  <2> DEFINE T == {i \in 0 .. n : g[i] = f[i]}
  <2>1. 0 \in T
    BY <1>1, <1>6, <1>8
  <2>2. ASSUME NEW i \in 1 .. n, i - 1 \in T
        PROVE  i \in T
    <3>1. i \in 0 .. n /\ i \in 1 .. (n + 1) + l
      BY <1>1
    <3> QED
      BY <1>2, <1>6, <1>8, <2>2, <3>1
  <2>3. 0 .. n \subseteq T
    <3> HIDE DEF T
    <3> QED
      BY <1>1, <2>1, <2>2, CountedInduction
  <2> QED
    BY <1>1, <2>3
<1>10. A \in Seq(Seq(Black)) /\ g[n + 1] = [terms |-> A, current |-> <<>>]
  <2>1. f[n] \in Words
    BY <1>1, <1>3
  <2>2. n + 1 \in 1 .. (n + 1) + l /\ (n + 1) - 1 = n
    BY <1>1
  <2>3. g[n + 1] = SplitNext(f[n], c)
    BY <1>2, <1>8, <1>9, <2>2
  <2>4. c \in White /\ SP \in White
    BY DEF White
  <2>5. SplitNext(f[n], c) = SplitNext(f[n], SP)
    BY <2>4 DEF SplitNext
  <2>6. SplitNext(f[n], SP).current = <<>>
    BY <2>1, <2>4 DEF SplitNext, Words
  <2>7. SplitNext(f[n], SP) \in Words
    BY <2>1, Symbols, SplitNextType
  <2> DEFINE z == SplitNext(f[n], SP)
  <2>8. z \in Words /\ z.current = <<>> /\ A = z.terms /\ g[n + 1] = z
    BY <1>6, <2>3, <2>5, <2>6, <2>7
  <2> HIDE DEF z
  <2> QED
    BY <2>8 DEF Words
<1>11. ASSUME NEW s \in Words, NEW d
       PROVE  SplitNext(Behind(s), d) = Behind(SplitNext(s, d))
  <2>1. s.terms \in Seq(Seq(Black)) /\ s.current \in Seq(Black)
        /\ s = [terms |-> s.terms, current |-> s.current]
    BY DEF Words
  <2>2. A \o Append(s.terms, s.current) = Append(A \o s.terms, s.current)
    <3> DEFINE t == s.terms  u == s.current  U == Seq(Black)
    <3>1. t \in Seq(U) /\ u \in U /\ A \in Seq(U)
      BY <1>10, <2>1
    <3> HIDE DEF t, u, U
    <3>2. <<u>> \in Seq(U) /\ A \o t \in Seq(U)
      BY <3>1, ConcatProperties
    <3>3. A \o (t \o <<u>>) = (A \o t) \o <<u>>
      BY <3>1, <3>2, ConcatAssociative
    <3>4. Append(t, u) = t \o <<u>> /\ Append(A \o t, u) = (A \o t) \o <<u>>
      BY <3>1, <3>2, AppendIsConcat
    <3>5. A \o Append(t, u) = Append(A \o t, u)
      BY <3>3, <3>4
    <3> QED
      BY <3>5 DEF t, u
  <2> DEFINE t == s.terms  u == s.current
  <2>3. s = [terms |-> t, current |-> u] /\ A \o Append(t, u) = Append(A \o t, u)
    BY <2>1, <2>2
  <2> HIDE DEF t, u
  <2>4. Behind(s) = [terms |-> A \o t, current |-> u]
    BY <2>3
  <2>5. CASE d \notin White
    BY <2>3, <2>4, <2>5 DEF SplitNext
  <2>6. CASE d \in White /\ u = <<>>
    BY <2>3, <2>4, <2>6 DEF SplitNext
  <2>7. CASE d \in White /\ u # <<>>
    BY <2>3, <2>4, <2>7 DEF SplitNext
  <2> QED
    BY <2>5, <2>6, <2>7
<1>12. g[(n + 1) + l] = Behind(h[l])
  <2> DEFINE T == {j \in 0 .. l : g[(n + 1) + j] = Behind(h[j])}
  <2>1. 0 \in T
    <3>1. A \o <<>> = A
      BY <1>10, ConcatEmptySeq
    <3>2. Behind(NoWords) = [terms |-> A, current |-> <<>>]
      BY <3>1 DEF NoWords
    <3>3. (n + 1) + 0 = n + 1 /\ 0 \in 0 .. l
      BY <1>1
    <3> HIDE DEF Behind
    <3> QED
      BY <1>7, <1>10, <3>2, <3>3
  <2>2. ASSUME NEW j \in 1 .. l, j - 1 \in T
        PROVE  j \in T
    <3>1. /\ j \in 0 .. l /\ (n + 1) + j \in 1 .. (n + 1) + l
          /\ ((n + 1) + j) - 1 = (n + 1) + (j - 1) /\ j - 1 \in 0 .. l
      BY <1>1
    <3> HIDE DEF Behind
    <3>2. g[(n + 1) + j] = SplitNext(Behind(h[j - 1]), b[j])
      BY <1>2, <1>8, <2>2, <3>1
    <3>3. h[j - 1] \in Words
      BY <1>4, <3>1 DEF l
    <3> QED
      BY <1>7, <1>11, <3>1, <3>2, <3>3
  <2>3. 0 .. l \subseteq T
    <3> HIDE DEF T
    <3> QED
      BY <1>1, <2>1, <2>2, CountedInduction
  <2> HIDE DEF Behind
  <2> QED
    BY <1>1, <2>3
<1>13. SplitTerms(x) = Behind(SplitNext(h[l], SP)).terms
  <2>1. h[l] \in Words
    BY <1>1, <1>4 DEF l
  <2> HIDE DEF Behind
  <2> QED
    BY <1>8, <1>11, <1>12, <2>1
<1> QED
  BY <1>7, <1>13 DEF A, x

(* White space is no word. *)
LEMMA SplitOfWhite ==
  ASSUME NEW b \in Seq(Symbol \cap White)
  PROVE  SplitTerms(b) = <<>>
<1> DEFINE n == Len(b)
<1>1. n \in Nat /\ b \in Text /\ \A i \in 1 .. n : b[i] \in White
  BY SeqMonotonic DEF Text
<1>2. PICK g : SplitsBy(g, b)
  BY <1>1, SplitIs
<1> DEFINE T == {i \in 0 .. n : g[i] = NoWords}
<1>3. \A c \in White : SplitNext(NoWords, c) = NoWords
  BY DEF SplitNext, NoWords
<1>4. 0 \in T
  BY <1>1, <1>2 DEF SplitsBy
<1>5. ASSUME NEW i \in 1 .. n, i - 1 \in T
      PROVE  i \in T
  <2>1. i \in 0 .. n
    BY <1>1
  <2> QED
    BY <1>1, <1>2, <1>3, <1>5, <2>1 DEF SplitsBy
<1>6. n \in T
  <2> HIDE DEF T, n
  <2>1. 0 .. n \subseteq T
    BY <1>1, <1>4, <1>5, CountedInduction
  <2> QED
    BY <1>1, <2>1
<1>7. SP \in White
  BY DEF White
<1> QED
  BY <1>2, <1>3, <1>6, <1>7 DEF SplitsBy, NoWords

(* A word without white space is one word. *)
LEMMA SplitOfBlack ==
  ASSUME NEW b \in Seq(Black), b # <<>>
  PROVE  SplitTerms(b) = <<b>>
<1> DEFINE n == Len(b)
<1>1. n \in Nat /\ b \in Text /\ \A i \in 1 .. n : b[i] \notin White /\ b[i] \in Black
  BY SeqMonotonic DEF Text, Black
<1>2. PICK g : SplitsBy(g, b)
  BY <1>1, SplitIs
<1> DEFINE Upto(i) == [terms |-> <<>>, current |-> SubSeq(b, 1, i)]
           T == {i \in 0 .. n : g[i] = Upto(i)}
<1>4. 0 \in T
  <2>1. SubSeq(b, 1, 0) = <<>>
    BY SubSeqEmpty
  <2> QED
    BY <1>1, <1>2, <2>1 DEF SplitsBy, NoWords
<1>5. ASSUME NEW i \in 1 .. n, i - 1 \in T
      PROVE  i \in T
  <2>1. i \in 0 .. n
    BY <1>1
  <2>2. g[i] = SplitNext(Upto(i - 1), b[i])
    BY <1>2, <1>5 DEF SplitsBy
  <2> DEFINE s == SubSeq(b, 1, i - 1)
  <2>3. SubSeq(b, 1, i) = s \o <<b[i]>>
    BY SubSeqRecursiveSecond
  <2>4. s \in Seq(Black)
    BY <1>1, SubSeqProperties
  <2> HIDE DEF s
  <2>5. SubSeq(b, 1, i) = Append(s, b[i])
    BY <1>1, <2>3, <2>4, AppendIsConcat
  <2>6. g[i] = [terms |-> <<>>, current |-> Append(s, b[i])]
    BY <1>1, <2>2 DEF SplitNext, s
  <2> QED
    BY <2>1, <2>5, <2>6
<1>6. n \in T
  <2> HIDE DEF T, n
  <2>1. 0 .. n \subseteq T
    BY <1>1, <1>4, <1>5, CountedInduction
  <2> QED
    BY <1>1, <2>1
<1>7. SP \in White
  BY DEF White
<1>8. g[n] = [terms |-> <<>>, current |-> b]
  BY <1>6, SubSeqFull
<1>9. SplitTerms(b) = Append(<<>>, b)
  BY <1>2, <1>7, <1>8 DEF SplitsBy, SplitNext
<1>10. Append(<<>>, b) = <<b>>
  OBVIOUS
<1> QED
  BY <1>9, <1>10

LEMMA SplitTermsType ==
  ASSUME NEW b \in Text
  PROVE  SplitTerms(b) \in Seq(Seq(Black))
<1>1. PICK g : SplitsBy(g, b) /\ \A i \in 0 .. Len(b) : g[i] \in Words
  BY SplitIs
<1>2. Len(b) \in 0 .. Len(b)
  <2>1. Len(b) \in Nat
    BY DEF Text
  <2> QED
    BY <2>1
<1>3. SplitNext(g[Len(b)], SP) \in Words
  BY <1>1, <1>2, Symbols, SplitNextType
<1> QED
  BY <1>1, <1>3 DEF SplitsBy, Words

(* White space around a text is no part of its words. *)
LEMMA SplitTrimmed ==
  ASSUME NEW pre \in Seq(Symbol \cap White), NEW b \in Text, NEW post \in Seq(Symbol \cap White)
  PROVE  /\ SplitTerms(pre \o b) = SplitTerms(b)
         /\ SplitTerms(b \o post) = SplitTerms(b)
<1>1. pre \in Text /\ post \in Text
  BY SeqMonotonic DEF Text
<1>2. SplitTerms(b) \in Seq(Seq(Black))
  BY SplitTermsType
<1>3. SplitTerms(pre \o b) = SplitTerms(b)
  <2>1. CASE pre = <<>>
    <3>1. <<>> \o b = b
      BY ConcatEmptySeq DEF Text
    <3> QED
      BY <2>1, <3>1
  <2>2. CASE pre # <<>>
    <3> DEFINE n == Len(pre)
               s == SubSeq(pre, 1, n - 1)
               c == pre[n]
    <3>1. n \in Nat \ {0}
      BY <2>2
    <3>2. c \in Symbol \cap White
      BY <3>1
    <3>3. s \in Seq(Symbol \cap White)
      <4>1. 1 \in Int /\ n - 1 \in Int /\ \A i \in 1 .. n - 1 : i \in 1 .. n
        BY <3>1
      <4>2. \A i \in 1 .. n - 1 : pre[i] \in Symbol \cap White
        BY <4>1, SMTT(60)
      <4> HIDE DEF n
      <4> QED
        BY <4>1, <4>2, SubSeqProperties
    <3>4. pre = s \o <<c>>
      <4>1. n \in 1 .. n /\ 1 \in 1 .. n + 1 /\ 1 \in 1 .. n
        BY <3>1
      <4>2. SubSeq(pre, 1, n) = SubSeq(pre, 1, n - 1) \o <<pre[n]>>
        <5>1. 1 \in 1 .. Len(pre) + 1 /\ n \in 1 .. Len(pre)
          BY <4>1
        <5> HIDE DEF n
        <5> QED
          BY <4>1, <5>1, SubSeqRecursiveSecond
      <4>3. SubSeq(pre, 1, n) = pre
        BY SubSeqFull
      <4> QED
        BY <4>2, <4>3
    <3> HIDE DEF n, s, c
    <3>5. pre = Append(s, c)
      BY <3>2, <3>3, <3>4, AppendIsConcat
    <3>6. s \in Text
      BY <3>3, SeqMonotonic DEF Text
    <3>7. SplitTerms(pre \o b) = SplitTerms(s) \o SplitTerms(b)
      BY <3>2, <3>5, <3>6, SplitAtWhite
    <3>8. SplitTerms(s) = <<>>
      BY <3>3, SplitOfWhite
    <3> QED
      BY <1>2, <3>7, <3>8, ConcatEmptySeq
  <2> QED
    BY <2>1, <2>2
<1>4. SplitTerms(b \o post) = SplitTerms(b)
  <2>1. CASE post = <<>>
    <3>1. b \o <<>> = b
      BY ConcatEmptySeq DEF Text
    <3> QED
      BY <2>1, <3>1
  <2>2. CASE post # <<>>
    <3> DEFINE c == Head(post)  s == Tail(post)
    <3>1. c \in Symbol \cap White /\ s \in Seq(Symbol \cap White) /\ post = <<c>> \o s
      BY <2>2, HeadTailProperties
    <3> HIDE DEF c, s
    <3>2. s \in Text /\ <<c>> \in Text /\ c \in Symbol
      <4>1. s \in Text
        BY <3>1, SeqMonotonic DEF Text
      <4>2. c \in Symbol
        BY <3>1
      <4> QED
        BY <4>1, <4>2, Singleton
    <3>3. b \o post = (b \o <<c>>) \o s
      <4> DEFINE d == <<c>>
      <4> HIDE DEF d
      <4>1. b \o (d \o s) = (b \o d) \o s
        BY <3>2, ConcatAssociative DEF Text, d
      <4> QED
        BY <3>1, <4>1 DEF d
    <3>4. b \o <<c>> = Append(b, c)
      BY <3>2, AppendIsConcat DEF Text
    <3>5. SplitTerms(b \o post) = SplitTerms(b) \o SplitTerms(s)
      <4>1. c \in Symbol \cap White /\ s \in Text
        BY <3>1, <3>2
      <4>2. SplitTerms(Append(b, c) \o s) = SplitTerms(b) \o SplitTerms(s)
        BY <4>1, SplitAtWhite
      <4>3. b \o post = Append(b, c) \o s
        BY <3>3, <3>4
      <4> QED
        BY <4>2, <4>3
    <3>6. SplitTerms(s) = <<>>
      BY <3>1, SplitOfWhite
    <3> QED
      BY <1>2, <3>5, <3>6, ConcatEmptySeq
  <2> QED
    BY <2>1, <2>2
<1> QED
  BY <1>3, <1>4

(* What the tokenizer takes for a token. *)
Token == {t \in Text : /\ t # <<>>
                       /\ SP \notin Range(t)
                       /\ t[1] \notin White
                       /\ t[Len(t)] \notin White}

(* clean_token() leaves the words of a word as they are. *)
LEMMA CleanedIs ==
  ASSUME NEW word \in Text, SP \notin Range(word)
  PROVE  /\ SplitTerms(Cleaned(word)) = SplitTerms(word)
         /\ Cleaned(word) = <<>> \/ Cleaned(word) \in Token
<1> DEFINE L == Len(word)
           black == {i \in DOMAIN word : word[i] \notin White}
<1>0. L \in Nat /\ DOMAIN word = 1 .. L /\ \A i \in 1 .. L : word[i] \in Symbol
  BY LenProperties DEF Text
<1>1. CASE black = {}
  <2>1. Cleaned(word) = <<>>
    BY <1>1 DEF Cleaned
  <2>2. \A i \in 1 .. L : word[i] \in Symbol \cap White
    BY <1>0, <1>1
  <2>3. word \in Seq(Symbol \cap White)
    BY <2>2 DEF Text
  <2>4. <<>> \in Seq(Symbol \cap White)
    OBVIOUS
  <2> QED
    BY <2>1, <2>3, <2>4, SplitOfWhite
<1>2. CASE black # {}
  <2>1. black \in SUBSET Nat /\ black \in SUBSET (0 .. L)
    BY <1>0
  <2> DEFINE a == Min(black)
             b == Max(black)
  <2>2. Cleaned(word) = SubSeq(word, a, b)
    BY <1>2 DEF Cleaned
  <2>3. a \in black /\ \A j \in black : a <= j
    <3>1. \E i \in black : \A j \in black : i <= j
      <4> HIDE DEF black
      <4> QED
        BY <1>2, <2>1, NatMin
    <3> HIDE DEF black
    <3> QED
      BY <3>1 DEF Min
  <2>4. b \in black /\ \A j \in black : b >= j
    <3>1. \E i \in black : \A j \in black : j <= i
      <4> HIDE DEF black, L
      <4> QED
        BY <1>0, <1>2, <2>1, NatMax
    <3>2. \E i \in black : \A j \in black : i >= j
      BY <3>1, <2>1
    <3> HIDE DEF black
    <3> QED
      BY <3>2 DEF Max
  <2> HIDE DEF a, b
  <2>5. a \in 1 .. L /\ b \in 1 .. L /\ a <= b
        /\ word[a] \notin White /\ word[b] \notin White
    BY <1>0, <2>3, <2>4
  <2>6. \A i \in 1 .. L : i < a \/ b < i => word[i] \in White
    <3>1. ASSUME NEW i \in 1 .. L, i < a \/ b < i, word[i] \notin White
          PROVE  FALSE
      <4>1. i \in black
        BY <1>0, <3>1
      <4>2. a <= i /\ b >= i
        BY <2>3, <2>4, <4>1
      <4> HIDE DEF black, L
      <4> QED
        BY <1>0, <2>5, <3>1, <4>2
    <3> QED
      BY <3>1
  <2> HIDE DEF black
  <2> DEFINE pre == SubSeq(word, 1, a - 1)
             mid == SubSeq(word, a, b)
             post == SubSeq(word, b + 1, L)
  <2>7. pre \in Seq(Symbol \cap White) /\ post \in Seq(Symbol \cap White)
    <3>1. /\ \A i \in 1 .. a - 1 : i \in 1 .. L /\ i < a
          /\ \A i \in b + 1 .. L : i \in 1 .. L /\ b < i
          /\ 1 \in Int /\ a - 1 \in Int /\ b + 1 \in Int /\ L \in Int
      BY <1>0, <2>5
    <3> HIDE DEF L
    <3>2. /\ \A i \in 1 .. a - 1 : word[i] \in Symbol \cap White
          /\ \A i \in b + 1 .. L : word[i] \in Symbol \cap White
      BY <1>0, <2>6, <3>1
    <3> QED
      BY <3>1, <3>2, SubSeqProperties
  <2>8. /\ mid \in Text /\ Len(mid) = b - a + 1
        /\ \A i \in 1 .. b - a + 1 : mid[i] = word[a + i - 1]
    <3>1. \A i \in a .. b : i \in 1 .. L
      BY <1>0, <2>5
    <3>2. a \in Int /\ b \in Int /\ a <= b
      BY <2>5
    <3> HIDE DEF L
    <3>3. \A i \in a .. b : word[i] \in Symbol
      BY <1>0, <3>1, Zenon
    <3> QED
      BY <3>2, <3>3, SubSeqProperties DEF Text
  <2>9. word = (pre \o mid) \o post
    <3>1. /\ 1 \in 1 .. L + 1 /\ a - 1 \in 1 - 1 .. L /\ b \in a - 1 .. L /\ b \in 1 - 1 .. L
          /\ L \in b .. L /\ (a - 1) + 1 = a
      BY <1>0, <2>5
    <3>2. SubSeq(word, 1, a - 1) \o SubSeq(word, (a - 1) + 1, b) = SubSeq(word, 1, b)
      BY <3>1, ConcatAdjacentSubSeq DEF Text
    <3>3. SubSeq(word, 1, b) \o SubSeq(word, b + 1, L) = SubSeq(word, 1, L)
      BY <3>1, ConcatAdjacentSubSeq DEF Text
    <3>4. SubSeq(word, 1, L) = word
      BY SubSeqFull DEF Text
    <3> QED
      BY <3>1, <3>2, <3>3, <3>4
  <2> HIDE DEF pre, mid, post
  <2>10. SplitTerms(mid) = SplitTerms(word)
    <3>1. pre \o mid \in Text
      <4>1. pre \in Text
        BY <2>7, SeqMonotonic DEF Text
      <4> QED
        BY <2>8, <4>1, ConcatProperties DEF Text
    <3>2. SplitTerms((pre \o mid) \o post) = SplitTerms(pre \o mid)
      BY <2>7, <3>1, SplitTrimmed
    <3>3. SplitTerms(pre \o mid) = SplitTerms(mid)
      BY <2>7, <2>8, SplitTrimmed
    <3> QED
      BY <2>9, <3>2, <3>3
  <2>11. mid \in Token
    <3> DEFINE n == b - a + 1
    <3>1. n \in Nat \ {0} /\ 1 \in 1 .. n /\ n \in 1 .. n /\ a + 1 - 1 = a /\ a + n - 1 = b
          /\ \A i \in 1 .. n : a + i - 1 \in 1 .. L
      BY <1>0, <2>5
    <3>2. mid[1] = word[a] /\ mid[n] = word[b] /\ mid # <<>> /\ Len(mid) = n
      BY <2>8, <3>1
    <3>3. SP \notin Range(mid)
      <4>1. DOMAIN mid = 1 .. n
        BY <2>8, LenProperties DEF Text
      <4> HIDE DEF n, L
      <4>2. ASSUME NEW i \in 1 .. n, mid[i] = SP
            PROVE  FALSE
        <5>1. mid[i] = word[a + i - 1] /\ a + i - 1 \in DOMAIN word
          BY <1>0, <2>8, <3>1 DEF n
        <5> QED
          BY <4>2, <5>1 DEF Range
      <4> QED
        BY <4>1, <4>2 DEF Range
    <3> HIDE DEF n
    <3> QED
      BY <2>5, <2>8, <3>2, <3>3 DEF Token
  <2> QED
    BY <2>2, <2>10, <2>11 DEF mid
<1> QED
  BY <1>1, <1>2

(* Where the word ends that begins at i. *)
WordEnd(x, i) == IF Find(x, SP, i) = NPos THEN Len(x) + 1 ELSE Find(x, SP, i)

LEMMA WordIs ==
  ASSUME NEW x \in Text, NEW i \in 1 .. Len(x)
  PROVE  /\ WordEnd(x, i) \in i .. Len(x) + 1
         /\ WordEnd(x, i) <= Len(x) => x[WordEnd(x, i)] = SP
         /\ SubSeq(x, i, WordEnd(x, i) - 1) \in Text
         /\ SP \notin Range(SubSeq(x, i, WordEnd(x, i) - 1))
<1> DEFINE L == Len(x)  p == Find(x, SP, i)  e == WordEnd(x, i)  word == SubSeq(x, i, e - 1)
<1>1. L \in Nat /\ i \in Nat \ {0} /\ i <= L /\ \A j \in 1 .. L : x[j] \in Symbol
  BY DEF Text
<1>2. \/ p = NPos /\ \A j \in i .. L : x[j] # SP
      \/ /\ p \in i .. L /\ x[p] = SP
         /\ \A j \in i .. (p - 1) : x[j] # SP
  BY <1>1, FindFirst
<1>3. e = IF p = NPos THEN L + 1 ELSE p
  BY DEF WordEnd
<1> HIDE DEF p, e, L
<1>4. e \in i .. L + 1 /\ (e <= L => x[e] = SP) /\ \A j \in i .. e - 1 : x[j] # SP
  <2>1. CASE p = NPos /\ \A j \in i .. L : x[j] # SP
    BY <1>1, <1>3, <2>1
  <2>2. CASE p \in i .. L /\ x[p] = SP /\ \A j \in i .. (p - 1) : x[j] # SP
    BY <1>1, <1>3, <2>2 DEF NPos
  <2> QED
    BY <1>2, <2>1, <2>2
<1>5. /\ \A j \in i .. e - 1 : j \in 1 .. L
      /\ e - 1 \in Int /\ i \in Int
  BY <1>1, <1>4
<1>6. \A j \in i .. e - 1 : x[j] \in Symbol \ {SP}
  BY <1>1, <1>4, <1>5
<1>7. word \in Seq(Symbol \ {SP})
  BY <1>5, <1>6, SubSeqProperties
<1> HIDE DEF word
<1>8. word \in Text /\ SP \notin Range(word)
  <2>1. word \in Text
    BY <1>7, SeqMonotonic DEF Text
  <2>2. \A j \in DOMAIN word : word[j] \in Symbol \ {SP}
    BY <1>7
  <2> QED
    BY <2>1, <2>2 DEF Range
<1> QED
  BY <1>4, <1>8 DEF e, word, L

Taken(x, i) ==
  LET token == Cleaned(SubSeq(x, i, WordEnd(x, i) - 1))
  IN  IF token = <<>> THEN <<>> ELSE <<token>>

(* The tokens of a text from each place on. *)
TokensFrom(g, x) ==
  /\ g \in [1 .. Len(x) + 2 -> Seq(Token)]
  /\ Tokens(x) = g[1]
  /\ \A i \in 1 .. Len(x) + 2 :
       /\ i > Len(x) => g[i] = <<>>
       /\ i <= Len(x) /\ x[i] = SP => g[i] = g[i + 1]
       /\ i <= Len(x) /\ x[i] # SP => g[i] = Taken(x, i) \o g[WordEnd(x, i) + 1]

LEMMA TokensAre ==
  ASSUME NEW x \in Text
  PROVE  \E g : TokensFrom(g, x)
<1> DEFINE L == Len(x)
           D == 1 .. L + 2
           S == Seq(Token)
           m == L + 2
           Def(f, i) == IF i > L THEN <<>>
                        ELSE IF x[i] = SP THEN f[i + 1]
                        ELSE Taken(x, i) \o f[WordEnd(x, i) + 1]
           found == CHOOSE f : f = [i \in D |-> Def(f, i)]
           Stop == {i \in D : i > L}
           before == [i \in D |-> IF i \in Stop THEN i
                                  ELSE IF x[i] = SP THEN i + 1 ELSE WordEnd(x, i) + 1]
           rank == [i \in D |-> m - i]
           base == [i \in D |-> <<>>]
           step == [i \in D |-> [s \in S |-> IF i \in Stop \/ x[i] = SP THEN s ELSE Taken(x, i) \o s]]
<1>1. Tokens(x) = found[1]
  BY DEF Tokens, Taken, WordEnd
<1>2. L \in Nat
  BY DEF Text
<1>3. ASSUME NEW i \in D
      PROVE  /\ i \in Nat
             /\ i \in Stop \/ /\ i \in 1 .. L /\ ~(i > L) /\ i <= L
                              /\ Taken(x, i) \in S
                              /\ WordEnd(x, i) + 1 \in D /\ i < WordEnd(x, i) + 1
                              /\ i + 1 \in D
  <2>1. i \in Stop \/ (i \in 1 .. L /\ ~(i > L) /\ i <= L)
    BY <1>2
  <2>2. ASSUME i \in 1 .. L
        PROVE  Taken(x, i) \in S /\ WordEnd(x, i) + 1 \in D /\ i < WordEnd(x, i) + 1 /\ i + 1 \in D
    <3> DEFINE e == WordEnd(x, i)  word == SubSeq(x, i, e - 1)
    <3>1. e \in i .. L + 1 /\ word \in Text /\ SP \notin Range(word)
      BY <2>2, WordIs
    <3>2. Taken(x, i) = IF Cleaned(word) = <<>> THEN <<>> ELSE <<Cleaned(word)>>
      BY DEF Taken
    <3> HIDE DEF e, word
    <3>3. Cleaned(word) = <<>> \/ Cleaned(word) \in Token
      BY <3>1, CleanedIs
    <3>4. \A t \in Token : <<t>> \in S
      OBVIOUS
    <3>5. <<>> \in S
      OBVIOUS
    <3>6. Taken(x, i) \in S
      BY <3>2, <3>3, <3>4, <3>5
    <3> HIDE DEF L, S
    <3>7. e + 1 \in D /\ i < e + 1 /\ i + 1 \in D
      BY <1>2, <2>2, <3>1
    <3> QED
      BY <3>6, <3>7 DEF e
  <2> QED
    BY <1>2, <2>1, <2>2
<1>4. \A a, b \in S : a \o b \in S
  BY ConcatProperties
<1>5. <<>> \in S
  OBVIOUS
<1> HIDE DEF S, L
<1>6. Recursive(D, S, m, rank, Stop, base, before, step)
  <2>1. m \in Nat /\ rank \in [D -> 0 .. m] /\ base \in [D -> S]
    BY <1>2, <1>5
  <2>2. before \in [D -> D]
    <3> HIDE DEF D, Stop
    <3> QED
      BY <1>3
  <2>3. step \in [D -> [S -> S]]
    <3> HIDE DEF D, Stop
    <3> QED
      BY <1>3, <1>4
  <2>4. ASSUME NEW i \in D, i \notin Stop
        PROVE  rank[before[i]] < rank[i]
    <3>1. /\ before[i] = IF x[i] = SP THEN i + 1 ELSE WordEnd(x, i) + 1
          /\ i + 1 \in D /\ WordEnd(x, i) + 1 \in D /\ i < WordEnd(x, i) + 1 /\ i \in Nat
      BY <1>3, <2>4
    <3> DEFINE c == before[i]
    <3>2. c \in D /\ i < c /\ c \in Nat
      <4>1. i < i + 1
        BY <3>1
      <4> HIDE DEF D, before
      <4> QED
        BY <1>3, <3>1, <4>1
    <3> HIDE DEF c
    <3>3. rank[c] = m - c /\ rank[i] = m - i
      BY <3>2
    <3> HIDE DEF rank, D
    <3>4. rank[c] < rank[i]
      BY <2>1, <3>1, <3>2, <3>3
    <3> QED
      BY <3>4 DEF c
  <2> HIDE DEF D, rank, Stop, base, before, step, m
  <2> QED
    BY <2>1, <2>2, <2>3, <2>4 DEF Recursive
<1>7. ASSUME NEW f, NEW i \in D
      PROVE  /\ i \in Stop => Def(f, i) = base[i]
             /\ i \notin Stop /\ f[before[i]] \in S => Def(f, i) = step[i][f[before[i]]]
  <2>1. CASE i \in Stop
    BY <2>1
  <2>2. CASE i \notin Stop
    <3>1. ~(i > L) /\ before[i] = IF x[i] = SP THEN i + 1 ELSE WordEnd(x, i) + 1
      BY <1>3, <2>2
    <3> HIDE DEF D, before, Stop
    <3> QED
      BY <2>2, <3>1
  <2> QED
    BY <2>1, <2>2
<1>8. PICK h \in [D -> S] : \A d \in D : h[d] = IF d \in Stop THEN base[d] ELSE step[d][h[before[d]]]
  <2> HIDE DEF D, rank, Stop, base, before, step, m
  <2> QED
    BY <1>6, Recursion
<1>9. before \in [D -> D]
  <2> HIDE DEF D, rank, Stop, base, before, step, m
  <2> QED
    BY <1>6 DEF Recursive
<1>10. \A i \in D : (i > L <=> i \in Stop) /\ (i <= L <=> i \notin Stop)
  <2>1. \A i \in D : i \in Nat
    BY <1>3
  <2> HIDE DEF D
  <2> QED
    BY <1>2, <2>1
<1> HIDE DEF Def, D, rank, Stop, base, before, step, m
<1>11. h = [i \in D |-> Def(h, i)]
  <2>1. \A i \in D : h[i] = Def(h, i)
    BY <1>7, <1>8, <1>9
  <2> QED
    BY <1>8, <2>1
<1>12. found = [i \in D |-> Def(found, i)]
  BY <1>11
<1> HIDE DEF found
<1>13. \A i \in D : found[i] = Def(found, i)
  BY <1>12
<1>14. \A i \in D : found[i] \in S
  <2>1. \A i \in D :
          /\ i \in Stop => found[i] = base[i]
          /\ i \notin Stop /\ found[before[i]] \in S =>
               found[i] = step[i][found[before[i]]]
    BY <1>7, <1>13
  <2> QED
    BY <1>6, <2>1, Recurs
<1>15. found \in [D -> S]
  BY <1>12, <1>14
<1>16. ASSUME NEW i \in D
       PROVE  /\ i > L => found[i] = <<>>
              /\ i <= L /\ x[i] = SP => found[i] = found[i + 1]
              /\ i <= L /\ x[i] # SP => found[i] = Taken(x, i) \o found[WordEnd(x, i) + 1]
  <2>1. i <= L => ~(i > L)
    BY <1>10
  <2> QED
    BY <1>13, <2>1 DEF Def
<1> QED
  BY <1>1, <1>15, <1>16 DEF TokensFrom, D, S, L

(* Sequences of sequences that are put together. *)
LEMMA FlattenJoins ==
  ASSUME NEW S, NEW a \in Seq(Seq(S))
  PROVE  \A b \in Seq(Seq(S)) : FlattenSeq(a \o b) = FlattenSeq(a) \o FlattenSeq(b)
<1> DEFINE U == Seq(S)
           T == {b \in Seq(U) : FlattenSeq(a \o b) = FlattenSeq(a) \o FlattenSeq(b)}
<1>0. <<>> \in Seq(U) /\ <<>> \in U
  OBVIOUS
<1>1. FlattenSeq(a) \in U /\ \A b \in Seq(U) : FlattenSeq(b) \in U
  BY <1>0, FlattenAppend
<1>2. \A b \in Seq(U), s \in U : FlattenSeq(Append(b, s)) = FlattenSeq(b) \o s
  BY FlattenAppend
<1>3. \A s, t, u \in U : (s \o t) \o u = s \o (t \o u)
  BY ConcatAssociative
<1>4. \A s \in U : s \o <<>> = s
  BY ConcatEmptySeq
<1>5. \A b \in Seq(U) : a \o b \in Seq(U)
  BY ConcatProperties
<1>6. \A b \in Seq(U), s \in U :
        Append(b, s) \in Seq(U) /\ a \o Append(b, s) = Append(a \o b, s)
  <2>1. ASSUME NEW b \in Seq(U), NEW s \in U
        PROVE  Append(b, s) \in Seq(U) /\ a \o Append(b, s) = Append(a \o b, s)
    <3> DEFINE c == <<s>>
    <3>1. a \in Seq(U) /\ c \in Seq(U) /\ Append(b, s) = b \o c /\ Append(a \o b, s) = (a \o b) \o c
      <4>1. a \in Seq(U) /\ c \in Seq(U)
        OBVIOUS
      <4>2. Append(b, s) = b \o c /\ Append(a \o b, s) = (a \o b) \o c
        BY <1>5, AppendIsConcat
      <4> QED
        BY <4>1, <4>2
    <3> HIDE DEF U, c
    <3>2. (a \o b) \o c = a \o (b \o c) /\ b \o c \in Seq(U)
      BY <3>1, ConcatAssociative, ConcatProperties
    <3> QED
      BY <3>1, <3>2
  <2> QED
    BY <2>1
<1>7. <<>> \in T
  <2>1. a \o <<>> = a /\ FlattenSeq(<<>>) = <<>>
    <3>1. a \o <<>> = a
      BY ConcatEmptySeq
    <3>2. FlattenSeq(<<>>) = <<>>
      BY DEF FlattenSeq
    <3> QED
      BY <3>1, <3>2
  <2> HIDE DEF U
  <2> QED
    BY <1>0, <1>1, <1>4, <2>1
<1> HIDE DEF U
<1>8. ASSUME NEW b \in Seq(U), NEW s \in U, b \in T
      PROVE  Append(b, s) \in T
  <2>1. FlattenSeq(a \o Append(b, s)) = FlattenSeq(a \o b) \o s
    BY <1>2, <1>5, <1>6
  <2>2. FlattenSeq(a \o b) = FlattenSeq(a) \o FlattenSeq(b)
    BY <1>8
  <2>3. (FlattenSeq(a) \o FlattenSeq(b)) \o s = FlattenSeq(a) \o (FlattenSeq(b) \o s)
    BY <1>1, <1>3
  <2> QED
    BY <1>2, <1>6, <2>1, <2>2, <2>3
<1>9. Seq(U) \subseteq T
  <2> HIDE DEF T
  <2> QED
    BY <1>7, <1>8, SequenceInduction
<1> QED
  BY <1>9 DEF U

LEMMA FlattenHolds ==
  ASSUME NEW S
  PROVE  \A seqs \in Seq(Seq(S)) : \A i \in DOMAIN seqs : Range(seqs[i]) \subseteq Range(FlattenSeq(seqs))
<1> DEFINE U == Seq(S)
           T == {seqs \in Seq(U) :
                   \A i \in DOMAIN seqs : Range(seqs[i]) \subseteq Range(FlattenSeq(seqs))}
<1>1. <<>> \in T
  OBVIOUS
<1>2. ASSUME NEW seqs \in Seq(U), NEW s \in U, seqs \in T
      PROVE  Append(seqs, s) \in T
  <2> DEFINE n == Len(seqs)  longer == Append(seqs, s)
  <2>1. /\ n \in Nat /\ longer \in Seq(U) /\ Len(longer) = n + 1
        /\ \A i \in 1 .. n : longer[i] = seqs[i]
        /\ longer[n + 1] = s /\ DOMAIN seqs = 1 .. n /\ DOMAIN longer = 1 .. Len(longer)
    BY AppendLog
  <2>2. FlattenSeq(seqs) \in Seq(S) /\ FlattenSeq(longer) = FlattenSeq(seqs) \o s
    BY FlattenAppend
  <2> DEFINE f == FlattenSeq(seqs)
  <2> HIDE DEF longer, f
  <2>3. \A t, u \in U : Range(t) \subseteq Range(t \o u) /\ Range(u) \subseteq Range(t \o u)
    <3>1. ASSUME NEW t \in U, NEW u \in U
          PROVE  Range(t) \subseteq Range(t \o u) /\ Range(u) \subseteq Range(t \o u)
      <4> DEFINE k == Len(t)  l == Len(u)
      <4>1. /\ t \o u \in Seq(S) /\ Len(t \o u) = k + l /\ k \in Nat /\ l \in Nat
            /\ DOMAIN t = 1 .. k /\ DOMAIN u = 1 .. l /\ DOMAIN (t \o u) = 1 .. k + l
        <5>1. t \o u \in Seq(S) /\ Len(t \o u) = k + l
          BY ConcatProperties
        <5>2. k \in Nat /\ l \in Nat /\ DOMAIN t = 1 .. k /\ DOMAIN u = 1 .. l
          OBVIOUS
        <5>3. DOMAIN (t \o u) = 1 .. Len(t \o u)
          BY <5>1, LenProperties
        <5> QED
          BY <5>1, <5>2, <5>3
      <4>2. /\ \A i \in 1 .. k : (t \o u)[i] = t[i]
            /\ \A i \in 1 .. l : (t \o u)[k + i] = u[i]
        OBVIOUS
      <4> HIDE DEF k, l
      <4>3. \A i \in 1 .. k : i \in 1 .. k + l
        BY <4>1
      <4>4. \A i \in 1 .. l : k + i \in 1 .. k + l
        BY <4>1
      <4> DEFINE v == t \o u
      <4> HIDE DEF v
      <4>5. /\ \A i \in DOMAIN t : i \in DOMAIN v /\ v[i] = t[i]
            /\ \A i \in DOMAIN u : k + i \in DOMAIN v /\ v[k + i] = u[i]
        BY <4>1, <4>2, <4>3, <4>4 DEF v
      <4>6. Range(t) \subseteq Range(v) /\ Range(u) \subseteq Range(v)
        BY <4>5 DEF Range
      <4> QED
        BY <4>6 DEF v
    <3> QED
      BY <3>1
  <2>4. Range(f) \subseteq Range(FlattenSeq(longer)) /\ Range(s) \subseteq Range(FlattenSeq(longer))
    BY <2>2, <2>3 DEF f
  <2>5. \A i \in 1 .. n : Range(longer[i]) \subseteq Range(f)
    <3>1. \A i \in 1 .. n : Range(seqs[i]) \subseteq Range(f)
      BY <1>2, <2>1 DEF f
    <3> HIDE DEF n
    <3> QED
      BY <2>1, <3>1
  <2>6. \A i \in 1 .. n + 1 : i \in 1 .. n \/ i = n + 1
    BY <2>1
  <2>7. \A i \in DOMAIN longer : Range(longer[i]) \subseteq Range(FlattenSeq(longer))
    <3> HIDE DEF n
    <3> QED
      BY <2>1, <2>4, <2>5, <2>6
  <2> QED
    BY <2>1, <2>7 DEF longer
<1>3. Seq(U) \subseteq T
  <2> HIDE DEF T, U
  <2> QED
    BY <1>1, <1>2, SequenceInduction
<1> QED
  BY <1>3

(* The words of each token. *)
SplitAll(tokens) == [i \in DOMAIN tokens |-> SplitTerms(tokens[i])]

LEMMA SplitAllIs ==
  /\ SplitAll(<<>>) = <<>>
  /\ \A ts \in Seq(Token) : SplitAll(ts) \in Seq(Seq(Seq(Black)))
  /\ \A t \in Token, ts \in Seq(Token) :
       SplitAll(<<t>> \o ts) = <<SplitTerms(t)>> \o SplitAll(ts)
<1> DEFINE W == Seq(Seq(Black))
<1>1. \A t \in Token : SplitTerms(t) \in W
  BY SplitTermsType DEF Token
<1>2. SplitAll(<<>>) = <<>>
  BY DEF SplitAll
<1> HIDE DEF W
<1>3. ASSUME NEW ts \in Seq(Token)
      PROVE  /\ SplitAll(ts) \in Seq(W) /\ Len(SplitAll(ts)) = Len(ts)
             /\ \A i \in 1 .. Len(ts) : SplitAll(ts)[i] = SplitTerms(ts[i])
  <2> DEFINE n == Len(ts)
  <2>1. n \in Nat /\ DOMAIN ts = 1 .. n /\ \A i \in 1 .. n : ts[i] \in Token
    OBVIOUS
  <2> HIDE DEF n
  <2>2. SplitAll(ts) = [i \in 1 .. n |-> SplitTerms(ts[i])]
    BY <2>1 DEF SplitAll
  <2>3. SplitAll(ts) \in Seq(W) /\ Len(SplitAll(ts)) = n
    BY <1>1, <2>1, <2>2
  <2>4. \A i \in 1 .. n : SplitAll(ts)[i] = SplitTerms(ts[i])
    BY <2>2
  <2> QED
    BY <2>3, <2>4 DEF n
<1>4. ASSUME NEW t \in Token, NEW ts \in Seq(Token)
      PROVE  SplitAll(<<t>> \o ts) = <<SplitTerms(t)>> \o SplitAll(ts)
  <2> DEFINE one == <<t>>
             n == Len(ts)
             all == one \o ts
             b == SplitAll(ts)
             first == <<SplitTerms(t)>>
             c == first \o b
  <2>1. one \in Seq(Token) /\ Len(one) = 1 /\ one[1] = t /\ n \in Nat
    OBVIOUS
  <2>2. first \in Seq(W) /\ Len(first) = 1 /\ first[1] = SplitTerms(t)
    BY <1>1
  <2>3. b \in Seq(W) /\ Len(b) = n /\ \A i \in 1 .. n : b[i] = SplitTerms(ts[i])
    BY <1>3
  <2> HIDE DEF one, first, b
  <2>4. all \in Seq(Token) /\ Len(all) = Len(one) + Len(ts)
        /\ \A i \in 1 .. Len(one) + Len(ts) : all[i] = IF i <= Len(one) THEN one[i] ELSE ts[i - Len(one)]
    BY <2>1, ConcatProperties
  <2>5. c \in Seq(W) /\ Len(c) = Len(first) + Len(b)
        /\ \A i \in 1 .. Len(first) + Len(b) : c[i] = IF i <= Len(first) THEN first[i] ELSE b[i - Len(first)]
    <3>1. first \in Seq(W) /\ b \in Seq(W)
      BY <2>2, <2>3
    <3> QED
      BY <3>1, ConcatProperties
  <2> HIDE DEF all, c, n
  <2>6. all \in Seq(Token) /\ Len(all) = 1 + n
        /\ \A i \in 1 .. 1 + n : all[i] = IF i <= 1 THEN one[i] ELSE ts[i - 1]
    BY <2>1, <2>4, Zenon DEF n
  <2>7. c \in Seq(W) /\ Len(c) = 1 + n
        /\ \A i \in 1 .. 1 + n : c[i] = IF i <= 1 THEN first[i] ELSE b[i - 1]
    BY <2>2, <2>3, <2>5, Zenon
  <2>8. /\ SplitAll(all) \in Seq(W) /\ Len(SplitAll(all)) = 1 + n
        /\ \A i \in 1 .. 1 + n : SplitAll(all)[i] = SplitTerms(all[i])
    BY <1>3, <2>6, Zenon
  <2>9. ASSUME NEW i \in 1 .. 1 + n
        PROVE  SplitAll(all)[i] = c[i]
    <3>1. CASE i = 1
      <4>1. i <= 1
        BY <3>1
      <4> QED
        BY <2>1, <2>2, <2>6, <2>7, <2>8, <3>1, <4>1
    <3>2. CASE i # 1
      <4>1. ~(i <= 1) /\ i - 1 \in 1 .. n
        BY <2>1, <3>2
      <4> QED
        BY <2>3, <2>6, <2>7, <2>8, <4>1
    <3> QED
      BY <3>1, <3>2
  <2>10. SplitAll(all) = c
    BY <2>7, <2>8, <2>9, SeqEqual
  <2> QED
    BY <2>10 DEF all, c, one, first, b
<1> QED
  BY <1>2, <1>3, <1>4 DEF W

(* A text falls apart at any of its symbols. *)
LEMMA CutAt ==
  ASSUME NEW x \in Text, NEW i \in 1 .. Len(x), NEW e \in i .. Len(x)
  PROVE  /\ SubSeq(x, i, e - 1) \in Text /\ SubSeq(x, e + 1, Len(x)) \in Text
         /\ SubSeq(x, i, Len(x)) = Append(SubSeq(x, i, e - 1), x[e]) \o SubSeq(x, e + 1, Len(x))
<1> DEFINE L == Len(x)
<1>1. L \in Nat /\ i \in Nat \ {0} /\ e \in Nat \ {0} /\ i <= e /\ e <= L
      /\ \A j \in 1 .. L : x[j] \in Symbol
  BY DEF Text
<1>2. i \in 1 .. L + 1 /\ e \in i .. L /\ L \in e .. L /\ e \in i - 1 .. L /\ e \in 1 .. L
      /\ e - 1 \in 0 .. L /\ L \in 0 .. L /\ e + 1 \in Nat \ {0} /\ x[e] \in Symbol
  BY <1>1
<1>3. SubSeq(x, i, e - 1) \in Text /\ SubSeq(x, e + 1, L) \in Text
  BY <1>1, <1>2, SubText
<1>4. SubSeq(x, i, e) \o SubSeq(x, e + 1, L) = SubSeq(x, i, L)
  BY <1>2, ConcatAdjacentSubSeq DEF Text
<1>5. SubSeq(x, i, e) = SubSeq(x, i, e - 1) \o <<x[e]>>
  BY <1>2, SubSeqRecursiveSecond DEF Text
<1>6. Append(SubSeq(x, i, e - 1), x[e]) = SubSeq(x, i, e - 1) \o <<x[e]>>
  BY <1>2, <1>3, AppendIsConcat DEF Text
<1> QED
  BY <1>3, <1>4, <1>5, <1>6

(* From each place on, the tokens split into the words of the text. *)
LEMMA TokensSplit ==
  ASSUME NEW x \in Text, NEW g, TokensFrom(g, x)
  PROVE  FlattenSeq(SplitAll(Tokens(x))) = SplitTerms(x)
<1> DEFINE L == Len(x)
           D == 1 .. L + 2
           Good(i) == FlattenSeq(SplitAll(g[i])) = SplitTerms(SubSeq(x, i, L))
           T == {i \in D : Good(i)}
           rank == [i \in D |-> (L + 2) - i]
           S == Seq(Token)
           W == Seq(Seq(Black))
<1>1. L \in Nat
  BY DEF Text
<1>2. /\ g \in [D -> S] /\ Tokens(x) = g[1]
      /\ \A i \in D :
           /\ i > L => g[i] = <<>>
           /\ i <= L /\ x[i] = SP => g[i] = g[i + 1]
           /\ i <= L /\ x[i] # SP => g[i] = Taken(x, i) \o g[WordEnd(x, i) + 1]
  BY DEF TokensFrom
<1>3. <<>> \in Text /\ SplitTerms(<<>>) = <<>>
  <2>1. <<>> \in Seq(Symbol \cap White)
    OBVIOUS
  <2>2. SplitTerms(<<>>) = <<>>
    BY <2>1, SplitOfWhite
  <2>3. <<>> \in Text
    BY DEF Text
  <2> QED
    BY <2>2, <2>3
<1>4. FlattenSeq(<<>>) = <<>>
  BY DEF FlattenSeq
<1>5. \A s \in W : <<>> \o s = s /\ s \o <<>> = s
  BY ConcatEmptySeq
<1>6. \A t \in Token, ts \in S :
        /\ FlattenSeq(SplitAll(ts)) \in W
        /\ FlattenSeq(SplitAll(<<t>> \o ts)) = SplitTerms(t) \o FlattenSeq(SplitAll(ts))
  <2>1. ASSUME NEW t \in Token, NEW ts \in S
        PROVE  /\ FlattenSeq(SplitAll(ts)) \in W
               /\ FlattenSeq(SplitAll(<<t>> \o ts)) = SplitTerms(t) \o FlattenSeq(SplitAll(ts))
    <3> DEFINE all == SplitAll(ts)  w == SplitTerms(t)  one == <<w>>
    <3>1. all \in Seq(W) /\ SplitAll(<<t>> \o ts) = one \o all
      BY SplitAllIs
    <3>2. w \in W
      BY SplitTermsType DEF Token
    <3> HIDE DEF all, w
    <3>3. one \in Seq(W) /\ FlattenSeq(one) = w
      <4>1. one = Append(<<>>, w) /\ <<>> \in Seq(W)
        OBVIOUS
      <4>2. FlattenSeq(Append(<<>>, w)) = FlattenSeq(<<>>) \o w
        BY <3>2, <4>1, FlattenAppend
      <4>3. one \in Seq(W)
        BY <3>2
      <4> HIDE DEF W, one
      <4> QED
        BY <1>4, <1>5, <3>2, <4>1, <4>2, <4>3
    <3>4. FlattenSeq(all) \in W
      BY <3>1, <3>2, FlattenAppend
    <3> HIDE DEF one
    <3>5. FlattenSeq(one \o all) = FlattenSeq(one) \o FlattenSeq(all)
      BY <3>1, <3>3, FlattenJoins
    <3> QED
      BY <3>1, <3>3, <3>4, <3>5 DEF all, w
  <2> QED
    BY <2>1
<1>7. \A b \in Text : SplitTerms(b) \in W
  BY SplitTermsType
<1> HIDE DEF S, W
<1>8. ASSUME NEW i \in D, \A j \in D : rank[j] < rank[i] => j \in T
      PROVE  i \in T
  <2>1. CASE i > L
    <3>1. SubSeq(x, i, L) = <<>>
      BY <1>1, <2>1, SubSeqEmpty
    <3>2. g[i] = <<>>
      BY <1>2, <2>1
    <3>3. Good(i)
      BY <1>3, <1>4, <3>1, <3>2, SplitAllIs
    <3> HIDE DEF Good
    <3> QED
      BY <3>3
  <2>2. CASE i <= L
    <3>1. i \in 1 .. L /\ i + 1 \in D /\ rank[i + 1] < rank[i]
      BY <1>1, <2>2
    <3>2. CASE x[i] = SP
      <4>1. Good(i + 1)
        <5> HIDE DEF Good, rank, D
        <5> QED
          BY <1>8, <3>1
      <4>2. i \in i .. L
        BY <3>1
      <4> DEFINE b == SubSeq(x, i + 1, L)
      <4>3. /\ b \in Text
            /\ SubSeq(x, i, L) = Append(SubSeq(x, i, i - 1), SP) \o b
        BY <3>1, <3>2, <4>2, CutAt
      <4>4. SubSeq(x, i, i - 1) = <<>>
        BY <3>1, SubSeqEmpty
      <4>5. SP \in Symbol \cap White
        BY Symbols DEF White
      <4> HIDE DEF b
      <4>6. SplitTerms(SubSeq(x, i, L)) = SplitTerms(<<>>) \o SplitTerms(b)
        <5>1. SplitTerms(Append(<<>>, SP) \o b) = SplitTerms(<<>>) \o SplitTerms(b)
          BY <1>3, <4>3, <4>5, SplitAtWhite
        <5> QED
          BY <4>3, <4>4, <5>1
      <4>7. SplitTerms(SubSeq(x, i, L)) = SplitTerms(b)
        BY <1>3, <1>5, <1>7, <4>3, <4>6
      <4>8. g[i] = g[i + 1]
        BY <1>2, <2>2, <3>2
      <4>9. Good(i)
        BY <4>1, <4>7, <4>8 DEF b
      <4> HIDE DEF Good
      <4> QED
        BY <4>9
    <3>3. CASE x[i] # SP
      <4> DEFINE e == WordEnd(x, i)
                 word == SubSeq(x, i, e - 1)
                 token == Cleaned(word)
                 rest == g[e + 1]
                 b == SubSeq(x, e + 1, L)
      <4>1. /\ e \in i .. L + 1 /\ (e <= L => x[e] = SP)
            /\ word \in Text /\ SP \notin Range(word)
        BY <3>1, WordIs
      <4>2. g[i] = (IF token = <<>> THEN <<>> ELSE <<token>>) \o rest
        BY <1>2, <2>2, <3>3 DEF Taken
      <4>3. e + 1 \in D /\ rank[e + 1] < rank[i] /\ e \in Nat
        <5> HIDE DEF e
        <5> QED
          BY <1>1, <3>1, <4>1
      <4>4. Good(e + 1) /\ rest \in S
        <5> HIDE DEF Good, rank, D, e
        <5> QED
          BY <1>2, <1>8, <4>3
      <4> HIDE DEF word, e, token, rest
      <4>5. /\ SplitTerms(token) = SplitTerms(word)
            /\ token = <<>> \/ token \in Token
        BY <4>1, CleanedIs DEF token
      <4>6. FlattenSeq(SplitAll(g[i])) = SplitTerms(word) \o FlattenSeq(SplitAll(rest))
        <5>1. CASE token = <<>>
          <6>1. g[i] = rest
            <7>1. <<>> \o rest = rest
              BY <4>4, ConcatEmptySeq DEF S
            <7> QED
              BY <4>2, <5>1, <7>1
          <6>2. SplitTerms(word) = <<>>
            BY <1>3, <4>5, <5>1
          <6>3. FlattenSeq(SplitAll(rest)) \in W
            <7>1. SplitAll(rest) \in Seq(W) /\ <<>> \in W
              BY <4>4, SplitAllIs DEF S, W
            <7> QED
              BY <7>1, FlattenAppend DEF W
          <6> QED
            BY <1>5, <6>1, <6>2, <6>3
        <5>2. CASE token # <<>>
          BY <1>6, <4>2, <4>4, <4>5, <5>2
        <5> QED
          BY <5>1, <5>2
      <4>7. FlattenSeq(SplitAll(g[i])) = SplitTerms(word) \o SplitTerms(b)
        BY <4>4, <4>6 DEF rest
      <4>8. SplitTerms(SubSeq(x, i, L)) = SplitTerms(word) \o SplitTerms(b)
        <5>1. CASE e <= L
          <6>1. e \in i .. L
            BY <1>1, <4>1, <4>3, <5>1
          <6>2. b \in Text /\ SubSeq(x, i, L) = Append(word, x[e]) \o b
            BY <3>1, <6>1, CutAt DEF word
          <6>3. SP \in Symbol \cap White
            BY Symbols DEF White
          <6> HIDE DEF b
          <6>4. SplitTerms(Append(word, SP) \o b) = SplitTerms(word) \o SplitTerms(b)
            BY <4>1, <6>2, <6>3, SplitAtWhite
          <6> QED
            BY <4>1, <5>1, <6>2, <6>4
        <5>2. CASE ~(e <= L)
          <6>1. e = L + 1 /\ e - 1 = L /\ e + 1 > L
            BY <1>1, <4>1, <4>3, <5>2
          <6>2. b = <<>>
            BY <1>1, <4>3, <6>1, SubSeqEmpty
          <6>3. word = SubSeq(x, i, L)
            BY <6>1 DEF word
          <6> HIDE DEF b
          <6>4. SplitTerms(word) \o <<>> = SplitTerms(word)
            BY <1>5, <1>7, <4>1
          <6> QED
            BY <1>3, <6>2, <6>3, <6>4
        <5> QED
          BY <5>1, <5>2
      <4>9. Good(i)
        BY <4>7, <4>8
      <4> HIDE DEF Good
      <4> QED
        BY <4>9
    <3> QED
      BY <3>2, <3>3
  <2>3. i > L \/ i <= L
    BY <1>1
  <2> QED
    BY <2>1, <2>2, <2>3
<1>9. D \subseteq T
  <2>1. L + 2 \in Nat /\ rank \in [D -> 0 .. L + 2]
    BY <1>1
  <2> DEFINE m == L + 2
  <2> HIDE DEF D, T, rank, m
  <2>2. m \in Nat /\ rank \in [D -> 0 .. m]
    BY <2>1 DEF m
  <2> QED
    BY <1>8, <2>2, RankInduction
<1>10. 1 \in D
  BY <1>1
<1>11. Good(1)
  <2> HIDE DEF D, Good
  <2> QED
    BY <1>9, <1>10
<1>12. SubSeq(x, 1, L) = x
  BY SubSeqFull DEF Text
<1> QED
  BY <1>2, <1>11, <1>12

(***************************************************************************)
(* Whatever is typed, the tokens of a value and the words that QUERY cuts  *)
(* a text into agree as WordsAreFound says: tokenize_and_update() loses    *)
(* and invents no word, and split_terms() finds the tokens without white   *)
(* space inside, and only those.                                           *)
(***************************************************************************)
THEOREM TokensAreWords == Spec => []WordsAreFound
<1>1. ASSUME text \in Text
      PROVE  WordsAreFound
  <2> DEFINE tokens == Tokens(text)
             terms == SplitTerms(text)
             W == Seq(Black)
  <2>1. PICK g : TokensFrom(g, text)
    BY <1>1, TokensAre
  <2>2. tokens \in Seq(Token)
    <3> DEFINE S == Seq(Token)  D == 1 .. Len(text) + 2
    <3>1. g \in [D -> S] /\ tokens = g[1]
      BY <2>1 DEF TokensFrom
    <3>2. 1 \in D
      <4>1. Len(text) \in Nat
        BY <1>1 DEF Text
      <4> QED
        BY <4>1
    <3> HIDE DEF S, D
    <3>3. tokens \in S
      BY <3>1, <3>2
    <3> QED
      BY <3>3 DEF S
  <2>3. FlattenSeq(SplitAll(tokens)) = terms
    BY <1>1, <2>1, TokensSplit
  <2>4. terms \in Seq(W)
    BY <1>1, SplitTermsType
  <2>5. SplitAll(tokens) \in Seq(Seq(W)) /\ DOMAIN SplitAll(tokens) = DOMAIN tokens
    <3>1. SplitAll(tokens) \in Seq(Seq(W))
      BY <2>2, SplitAllIs
    <3>2. DOMAIN SplitAll(tokens) = DOMAIN tokens
      BY DEF SplitAll
    <3> QED
      BY <3>1, <3>2
  <2>6. TAB \in White /\ SP \in White /\ White = {SP, TAB}
    BY DEF White
  <2>7. ASSUME NEW i \in DOMAIN tokens
        PROVE  LET token == tokens[i]
               IN  /\ SP \notin Range(token)
                   /\ token # <<>>
                   /\ {Head(token), token[Len(token)]} \cap White = {}
                   /\ TAB \notin Range(token) <=> token \in Range(terms)
    <3> DEFINE t == tokens[i]
    <3>1. t \in Token
      BY <2>2
    <3>2. t \in Text /\ t # <<>> /\ SP \notin Range(t) /\ t[1] \notin White /\ t[Len(t)] \notin White
      BY <3>1 DEF Token
    <3>3. Head(t) = t[1]
      BY <3>2, HeadTailProperties DEF Text
    <3>4. ASSUME TAB \notin Range(t)
          PROVE  t \in Range(terms)
      <4>1. t \in W
        <5> HIDE DEF t
        <5> DEFINE n == Len(t)
        <5>1. n \in Nat /\ DOMAIN t = 1 .. n /\ \A j \in 1 .. n : t[j] \in Symbol
          BY <3>2 DEF Text
        <5> HIDE DEF n
        <5>2. \A j \in 1 .. n : t[j] \in Range(t)
          BY <5>1 DEF Range
        <5>3. \A j \in 1 .. n : t[j] \in Black
          BY <2>6, <3>2, <3>4, <5>1, <5>2 DEF Black
        <5>4. t \in [1 .. n -> Black]
          <6>1. t = [j \in 1 .. n |-> t[j]]
            BY <3>2, <5>1 DEF Text
          <6> QED
            BY <5>3, <6>1
        <5> QED
          BY <5>1, <5>4
      <4>2. SplitAll(tokens)[i] = <<t>>
        <5>1. SplitTerms(t) = <<t>>
          BY <3>2, <4>1, SplitOfBlack
        <5> QED
          BY <5>1 DEF SplitAll
      <4>3. Range(SplitAll(tokens)[i]) \subseteq Range(terms)
        <5> DEFINE all == SplitAll(tokens)
        <5>1. all \in Seq(Seq(W)) /\ i \in DOMAIN all /\ FlattenSeq(all) = terms
          BY <2>3, <2>5
        <5> HIDE DEF all, terms, W
        <5> QED
          BY <5>1, FlattenHolds DEF all
      <4>4. t \in Range(<<t>>)
        <5> HIDE DEF t
        <5>1. 1 \in DOMAIN <<t>> /\ <<t>>[1] = t
          OBVIOUS
        <5> QED
          BY <5>1 DEF Range
      <4> HIDE DEF t, terms
      <4> QED
        BY <4>2, <4>3, <4>4
    <3>5. ASSUME t \in Range(terms)
          PROVE  TAB \notin Range(t)
      <4>1. t \in W
        <5> HIDE DEF terms, t
        <5>1. PICK j \in DOMAIN terms : t = terms[j]
          BY <3>5 DEF Range
        <5> HIDE DEF W
        <5> QED
          BY <2>4, <5>1
      <4> HIDE DEF t
      <4>2. \A j \in DOMAIN t : t[j] \in Black
        BY <4>1
      <4> QED
        BY <2>6, <4>2 DEF Range, Black
    <3> HIDE DEF t, terms, tokens
    <3> QED
      BY <3>2, <3>3, <3>4, <3>5 DEF t
  <2> HIDE DEF W
  <2> QED
    BY <2>3, <2>7 DEF WordsAreFound, SplitAll
<1>2. Typed => WordsAreFound
  BY <1>1 DEF Typed
<1> QED
  BY <1>2, TypedAlways, PTL

-----------------------------------------------------------------------------
(* Numbers *)

Digital == Range(Digits)

LEMMA DigitsArePlain == Digital \cap {SP, TAB, "-", "+", "=", ",", NL} = {}
<1>1. DOMAIN Digits = 1 .. 10
  BY DEF Digits
<1>2. ASSUME NEW i \in 1 .. 10
      PROVE  Digits[i] \notin {SP, TAB, "-", "+", "=", ",", NL}
  <2>1. \/ i = 1 \/ i = 2 \/ i = 3 \/ i = 4 \/ i = 5
        \/ i = 6 \/ i = 7 \/ i = 8 \/ i = 9 \/ i = 10
    OBVIOUS
  <2>2. \/ Digits[i] = "0" \/ Digits[i] = "1" \/ Digits[i] = "2" \/ Digits[i] = "3"
        \/ Digits[i] = "4" \/ Digits[i] = "5" \/ Digits[i] = "6" \/ Digits[i] = "7"
        \/ Digits[i] = "8" \/ Digits[i] = "9"
    BY <2>1 DEF Digits
  <2> DEFINE c == Digits[i]
  <2> HIDE DEF c
  <2>3. c \notin {SP, TAB, "-", "+", "=", ",", NL}
    BY <2>2 DEF c, SP, TAB, NL
  <2> QED
    BY <2>3 DEF c
<1> QED
  BY <1>1, <1>2 DEF Digital, Range

(* g[i] is the number that the first i digits stand for. *)
CountsUp(g, ds) ==
  /\ g[0] = 0
  /\ \A i \in 1 .. Len(ds) : g[i] = 10 * g[i - 1] + Digit(ds[i])
  /\ Number(ds) = g[Len(ds)]

LEMMA NumberIs ==
  ASSUME NEW ds \in Seq(Digital)
  PROVE  \E g : CountsUp(g, ds) /\ \A i \in 0 .. Len(ds) : g[i] \in Nat
<1> DEFINE n == Len(ds)
           Def(f, i) == IF i = 0 THEN 0 ELSE 10 * f[i - 1] + Digit(ds[i])
           upTo == CHOOSE f : f = [i \in 0 .. n |-> Def(f, i)]
           step == [i \in 1 .. n |-> [s \in Nat |-> 10 * s + Digit(ds[i])]]
<1>1. n \in Nat /\ \A i \in 1 .. n : Digit(ds[i]) \in Nat
  <2>1. \A i \in 1 .. n : ds[i] \in Digital
    OBVIOUS
  <2>2. \A c \in Digital : Digit(c) \in 0 .. 9
    BY DigitsAre DEF Digital
  <2> QED
    BY <2>1, <2>2
<1>3. Number(ds) = upTo[n]
  BY DEF Number
<1> HIDE DEF n
<1>4. Counted(n, Nat, 0, step)
  BY <1>1 DEF Counted
<1>5. PICK h \in [0 .. n -> Nat] :
        \A i \in 0 .. n : h[i] = IF i = 0 THEN 0 ELSE step[i][h[i - 1]]
  <2> HIDE DEF step
  <2> QED
    BY <1>4, CountedRecursion
<1>6. ASSUME NEW f, NEW i \in 1 .. n, f[i - 1] \in Nat
      PROVE  Def(f, i) = step[i][f[i - 1]]
  <2>1. i # 0
    BY <1>1
  <2> QED
    BY <1>6, <2>1
<1>7. \A i \in 0 .. n : i = 0 \/ (i \in 1 .. n /\ i - 1 \in 0 .. n)
  BY <1>1
<1>8. h = [i \in 0 .. n |-> Def(h, i)]
  <2>1. ASSUME NEW i \in 0 .. n
        PROVE  h[i] = Def(h, i)
    <3>1. CASE i = 0
      BY <1>5, <3>1
    <3>2. CASE i # 0
      <4>1. i \in 1 .. n /\ h[i - 1] \in Nat /\ h[i] = step[i][h[i - 1]]
        <5> HIDE DEF step
        <5> QED
          BY <1>5, <1>7, <3>2
      <4> QED
        BY <1>6, <4>1
    <3> QED
      BY <3>1, <3>2
  <2> HIDE DEF Def
  <2> QED
    BY <1>5, <2>1
<1> HIDE DEF Def, step
<1>9. upTo = [i \in 0 .. n |-> Def(upTo, i)]
  BY <1>8
<1> HIDE DEF upTo
<1>10. \A i \in 0 .. n : upTo[i] = Def(upTo, i)
  <2> DEFINE D == 0 .. n
  <2> HIDE DEF D
  <2>1. upTo = [i \in D |-> Def(upTo, i)]
    BY <1>9 DEF D
  <2>2. \A i \in D : upTo[i] = Def(upTo, i)
    BY <2>1
  <2> QED
    BY <2>2 DEF D
<1>11. upTo[0] = 0
  BY <1>1, <1>10 DEF Def
<1>12. \A i \in 1 .. n : upTo[i] = Def(upTo, i) /\ i # 0
  BY <1>1, <1>10
<1>13. \A i \in 0 .. n : upTo[i] \in Nat
  <2>1. \A i \in 1 .. n : upTo[i - 1] \in Nat => upTo[i] = step[i][upTo[i - 1]]
    BY <1>6, <1>12
  <2> QED
    BY <1>4, <1>11, <2>1, CountedRecurs
<1>14. \A i \in 1 .. n : upTo[i] = 10 * upTo[i - 1] + Digit(ds[i])
  BY <1>12 DEF Def
<1> QED
  BY <1>3, <1>11, <1>13, <1>14 DEF CountsUp, n

LEMMA NumberAppend ==
  ASSUME NEW ds \in Seq(Digital), NEW d \in Digital
  PROVE  /\ Number(ds) \in Nat
         /\ Number(Append(ds, d)) = 10 * Number(ds) + Digit(d)
<1> DEFINE n == Len(ds)
           longer == Append(ds, d)
<1>1. /\ n \in Nat /\ longer \in Seq(Digital) /\ Len(longer) = n + 1
      /\ \A i \in 1 .. n : longer[i] = ds[i]
      /\ longer[n + 1] = d
  BY AppendLog
<1> HIDE DEF longer
<1>2. PICK g : CountsUp(g, ds) /\ \A i \in 0 .. n : g[i] \in Nat
  BY NumberIs
<1>3. PICK h : CountsUp(h, longer)
  BY <1>1, NumberIs
<1> DEFINE T == {i \in 0 .. n : h[i] = g[i]}
<1>4. 0 \in T
  BY <1>1, <1>2, <1>3 DEF CountsUp
<1>5. ASSUME NEW i \in 1 .. n, i - 1 \in T
      PROVE  i \in T
  <2>1. i \in 1 .. Len(longer) /\ i \in 0 .. n
    BY <1>1
  <2>2. /\ h[i] = 10 * h[i - 1] + Digit(longer[i])
        /\ g[i] = 10 * g[i - 1] + Digit(ds[i])
    BY <1>2, <1>3, <2>1 DEF CountsUp
  <2> QED
    BY <1>1, <1>5, <2>1, <2>2
<1>6. 0 .. n \subseteq T
  <2> HIDE DEF T, n
  <2> QED
    BY <1>1, <1>4, <1>5, CountedInduction
<1>7. h[n] = g[n] /\ n \in 0 .. n
  BY <1>1, <1>6
<1>8. h[n + 1] = 10 * h[n] + Digit(d)
  <2>1. n + 1 \in 1 .. Len(longer) /\ (n + 1) - 1 = n
    BY <1>1
  <2> QED
    BY <1>1, <1>3, <2>1 DEF CountsUp
<1>9. Number(longer) = h[n + 1] /\ Number(ds) = g[n]
  BY <1>1, <1>2, <1>3 DEF CountsUp
<1> QED
  BY <1>2, <1>7, <1>8, <1>9 DEF longer

(* The decimal digits of a number stand for it. *)
LEMMA DecimalIs ==
  ASSUME NEW n \in Nat
  PROVE  /\ Decimal(n) \in Seq(Digital) /\ Decimal(n) # <<>>
         /\ Number(Decimal(n)) = n
<1> DEFINE D == 0 .. n
           S == Seq(Digital)
           LastDigit(m) == Digits[(m % 10) + 1]
           Def(f, m) == IF m < 10 THEN <<Digits[m + 1]>> ELSE Append(f[m \div 10], LastDigit(m))
           digits == CHOOSE f : f = [m \in D |-> Def(f, m)]
           Stop == {m \in D : m < 10}
           before == [m \in D |-> m \div 10]
           rank == [m \in D |-> m]
           base == [m \in D |-> IF m < 10 THEN <<Digits[m + 1]>> ELSE <<>>]
           step == [m \in D |-> [s \in S |-> Append(s, LastDigit(m))]]
<1>1. Decimal(n) = digits[n]
  BY DEF Decimal
<1>2. \A m \in Nat : /\ m \div 10 \in Nat /\ m \div 10 <= m /\ m % 10 \in 0 .. 9
                     /\ 10 * (m \div 10) + (m % 10) = m
                     /\ ~(m < 10) => m \div 10 < m
  OBVIOUS
<1>3. \A d \in 0 .. 9 : Digits[d + 1] \in Digital /\ Digit(Digits[d + 1]) = d
  BY DigitsAre DEF Digital
<1>4. \A m \in D : LastDigit(m) \in Digital /\ Digit(LastDigit(m)) = m % 10
  BY <1>2, <1>3
<1>5. \A m \in D : m < 10 => <<Digits[m + 1]>> \in S
  <2>1. \A m \in D : m < 10 => Digits[m + 1] \in Digital
    BY <1>3
  <2>2. \A c \in Digital : <<c>> \in S
    OBVIOUS
  <2> QED
    BY <2>1, <2>2
<1>6. \A s \in S, c \in Digital : Append(s, c) \in S
  BY AppendProperties
<1>7. <<>> \in S
  OBVIOUS
<1> HIDE DEF S, LastDigit
<1>8. Recursive(D, S, n, rank, Stop, base, before, step)
  <2>1. rank \in [D -> 0 .. n] /\ base \in [D -> S]
    BY <1>5, <1>7
  <2>2. before \in [D -> D]
    <3>1. \A m \in D : m \div 10 \in D
      BY <1>2
    <3> QED
      BY <3>1
  <2>3. step \in [D -> [S -> S]]
    BY <1>4, <1>6
  <2>4. \A m \in D : m \notin Stop => rank[before[m]] < rank[m]
    BY <1>2
  <2> HIDE DEF D, rank, Stop, base, before, step
  <2> QED
    BY <2>1, <2>2, <2>3, <2>4 DEF Recursive
<1>9. ASSUME NEW f, NEW m \in D
      PROVE  /\ m \in Stop => Def(f, m) = base[m]
             /\ m \notin Stop /\ f[before[m]] \in S => Def(f, m) = step[m][f[before[m]]]
  <2>1. CASE m \in Stop
    BY <2>1
  <2>2. CASE m \notin Stop
    <3>1. ~(m < 10) /\ before[m] = m \div 10
      BY <2>2
    <3> HIDE DEF D, before, Stop
    <3> QED
      BY <2>2, <3>1
  <2> QED
    BY <2>1, <2>2
<1>10. PICK h \in [D -> S] : \A d \in D : h[d] = IF d \in Stop THEN base[d] ELSE step[d][h[before[d]]]
  <2> HIDE DEF D, rank, Stop, base, before, step
  <2> QED
    BY <1>8, Recursion
<1>11. before \in [D -> D]
  <2> HIDE DEF D, rank, Stop, base, before, step
  <2> QED
    BY <1>8 DEF Recursive
<1>12. \A m \in D : m \div 10 \in D /\ m \in Nat
  BY <1>2
<1> HIDE DEF Def, D, rank, Stop, base, before, step
<1>13. h = [m \in D |-> Def(h, m)]
  <2>1. \A m \in D : h[m] = Def(h, m)
    BY <1>9, <1>10, <1>11
  <2> QED
    BY <1>10, <2>1
<1>14. digits = [m \in D |-> Def(digits, m)]
  BY <1>13
<1> HIDE DEF digits
<1>15. \A m \in D : digits[m] = Def(digits, m)
  BY <1>14
<1>16. \A m \in D : digits[m] \in S
  <2>1. \A d \in D :
          /\ d \in Stop => digits[d] = base[d]
          /\ d \notin Stop /\ digits[before[d]] \in S =>
               digits[d] = step[d][digits[before[d]]]
    BY <1>9, <1>15
  <2> QED
    BY <1>8, <2>1, Recurs
<1>17. Number(<<>>) = 0
  <2>1. <<>> \in Seq(Digital) /\ Len(<<>>) = 0
    OBVIOUS
  <2>2. PICK g : CountsUp(g, <<>>)
    BY <2>1, NumberIs
  <2> QED
    BY <2>1, <2>2 DEF CountsUp
<1> DEFINE T == {m \in D : digits[m] # <<>> /\ Number(digits[m]) = m}
<1>18. ASSUME NEW m \in D, \A c \in D : rank[c] < rank[m] => c \in T
       PROVE  m \in T
  <2>1. CASE m < 10
    <3>1. digits[m] = <<Digits[m + 1]>>
      BY <1>15, <2>1 DEF Def
    <3>2. m \in 0 .. 9
      BY <1>12, <2>1
    <3> DEFINE c == Digits[m + 1]
    <3>3. c \in Digital /\ Digit(c) = m
      BY <1>3, <3>2
    <3> HIDE DEF c
    <3>4. <<c>> = Append(<<>>, c) /\ <<>> \in Seq(Digital) /\ <<c>> # <<>>
      OBVIOUS
    <3>5. Number(Append(<<>>, c)) = 10 * Number(<<>>) + Digit(c)
      BY <3>3, <3>4, NumberAppend
    <3>6. Number(<<c>>) = m
      BY <1>12, <1>17, <3>3, <3>4, <3>5
    <3> QED
      BY <3>1, <3>4, <3>6 DEF c
  <2>2. CASE ~(m < 10)
    <3> DEFINE k == m \div 10  s == digits[k]
    <3>1. /\ k \in D /\ k < m /\ rank[k] < rank[m] /\ m \in Nat
          /\ 10 * k + (m % 10) = m
      BY <1>2, <1>12, <2>2 DEF rank
    <3> HIDE DEF k
    <3>2. s \in Seq(Digital) /\ Number(s) = k
      BY <1>16, <1>18, <3>1 DEF S
    <3>3. digits[m] = Append(s, LastDigit(m))
      BY <1>15, <2>2 DEF Def, k
    <3>4. LastDigit(m) \in Digital /\ Digit(LastDigit(m)) = m % 10
      BY <1>4 DEF D
    <3> HIDE DEF s
    <3>5. Number(Append(s, LastDigit(m))) = 10 * Number(s) + Digit(LastDigit(m))
      BY <3>2, <3>4, NumberAppend
    <3>6. Number(digits[m]) = m
      BY <3>1, <3>2, <3>3, <3>4, <3>5
    <3>7. Append(s, LastDigit(m)) # <<>>
      BY <3>2, <3>4, AppendProperties
    <3> QED
      BY <3>3, <3>6, <3>7
  <2> QED
    BY <2>1, <2>2
<1>19. D \subseteq T
  <2>1. n \in Nat /\ rank \in [D -> 0 .. n]
    BY <1>8 DEF Recursive
  <2> HIDE DEF T
  <2> QED
    BY <1>18, <2>1, RankInduction
<1>20. n \in D
  BY DEF D
<1> QED
  BY <1>1, <1>16, <1>19, <1>20 DEF S

(* A text that begins with a symbol outside S loses nothing, and one within S everything. *)
LEMMA WithoutIs ==
  ASSUME NEW C, NEW s \in Seq(C), NEW S
  PROVE  /\ s # <<>> /\ s[1] \notin S => Without(S, s) = s
         /\ Range(s) \subseteq S => Without(S, s) = <<>>
<1> DEFINE n == Len(s)
           others == {i \in DOMAIN s : s[i] \notin S}
<1>1. n \in Nat /\ DOMAIN s = 1 .. n
  OBVIOUS
<1>2. ASSUME s # <<>>, s[1] \notin S
      PROVE  Without(S, s) = s
  <2>1. n # 0 /\ 1 \in others
    BY <1>1, <1>2
  <2>2. \A i \in others : 1 <= i
    BY <1>1
  <2> DEFINE a == Min(others)
  <2>3. Without(S, s) = SubSeq(s, a, n)
    BY <2>1 DEF Without
  <2>4. others \subseteq Nat
    BY <1>1
  <2> HIDE DEF others
  <2>5. a \in others /\ \A j \in others : a <= j
    <3>1. \E i \in others : \A j \in others : i <= j
      BY <2>1, <2>2
    <3> QED
      BY <3>1 DEF Min
  <2>6. a = 1
    <3> HIDE DEF a
    <3>1. a <= 1 /\ 1 <= a /\ a \in Nat
      BY <2>1, <2>2, <2>4, <2>5
    <3> QED
      BY <3>1
  <2>7. SubSeq(s, 1, n) = s
    BY SubSeqFull
  <2> QED
    BY <2>3, <2>6, <2>7
<1>3. ASSUME Range(s) \subseteq S
      PROVE  Without(S, s) = <<>>
  <2>1. others = {}
    BY <1>3 DEF Range
  <2> QED
    BY <2>1 DEF Without
<1> QED
  BY <1>2, <1>3

(* std::stoul() on a text of digits. *)
LEMMA StoulIs ==
  ASSUME NEW ds \in Seq(Digital), ds # <<>>, Number(ds) < SizeModulus
  PROVE  Stoul(ds) = {Number(ds)}
<1> DEFINE n == Len(ds)
<1>1. n \in Nat \ {0} /\ ds[1] \in Digital /\ Head(ds) = ds[1]
  <2>1. n \in Nat \ {0}
    OBVIOUS
  <2>2. 1 \in 1 .. n
    BY <2>1
  <2>3. ds[1] \in Digital
    BY <2>2
  <2>4. Head(ds) = ds[1]
    BY HeadTailProperties
  <2> QED
    BY <2>1, <2>3, <2>4
<1>2. Head(ds) \notin White /\ Head(ds) # "-" /\ Head(ds) # "+"
  BY <1>1, DigitsArePlain DEF White
<1>3. Without(White, ds) = ds
  BY <1>1, <1>2, WithoutIs
<1>4. Without(Range(Digits), ds) = <<>>
  <2>1. Range(ds) \subseteq Digital
    <3>1. \A i \in DOMAIN ds : ds[i] \in Digital
      OBVIOUS
    <3> QED
      BY <3>1 DEF Range
  <2> QED
    BY <2>1, WithoutIs DEF Digital
<1>5. Len(<<>>) = 0 /\ n - 0 = n
  BY <1>1
<1>6. SubSeq(ds, 1, n - Len(<<>>)) = ds
  BY <1>5, SubSeqFull
<1>7. Number(ds) \in Nat /\ ~(Number(ds) >= SizeModulus)
  <2>1. Number(ds) \in Nat
    BY NumberAppend, DigitsAre DEF Digital
  <2> DEFINE k == Number(ds)
  <2> HIDE DEF k
  <2>2. k \in Nat /\ k < SizeModulus
    BY <2>1 DEF k
  <2>3. ~(k >= SizeModulus)
    BY <2>2, SizeAssumption
  <2> QED
    BY <2>2, <2>3 DEF k
<1>8. Signed("+", Number(ds)) = Number(ds)
  BY DEF Signed
<1> QED
  BY <1>2, <1>3, <1>4, <1>6, <1>7, <1>8 DEF Stoul

(***************************************************************************)
(* A number that write_snapshot_atomic() writes with std::to_string() is   *)
(* the number that load_snapshot() reads with std::stoul().                *)
(***************************************************************************)
THEOREM NumbersAreRead ==
  ASSUME NEW n \in Nat, n < SizeModulus
  PROVE  Stoul(Decimal(n)) = {n}
BY DecimalIs, StoulIs

-----------------------------------------------------------------------------
(* The lines of a snapshot *)

(* s is a, of length m, then c, then b, of length n. *)
Around(s, a, m, c, b, n) ==
  /\ Len(s) = m + 1 + n
  /\ \A i \in 1 .. m : s[i] = a[i]
  /\ s[m + 1] = c
  /\ \A i \in 1 .. n : s[m + 1 + i] = b[i]

LEMMA AroundIs ==
  ASSUME NEW S, NEW a \in Seq(S), NEW c \in S, NEW b \in Seq(S)
  PROVE  /\ (a \o <<c>>) \o b \in Seq(S)
         /\ Around((a \o <<c>>) \o b, a, Len(a), c, b, Len(b))
<1> DEFINE m == Len(a)  n == Len(b)  one == <<c>>  ac == a \o one  s == ac \o b
<1>1. m \in Nat /\ n \in Nat /\ one \in Seq(S) /\ Len(one) = 1 /\ one[1] = c
  OBVIOUS
<1> HIDE DEF one
<1>2. ac \in Seq(S) /\ Len(ac) = Len(a) + Len(one)
      /\ \A i \in 1 .. Len(a) + Len(one) : ac[i] = IF i <= Len(a) THEN a[i] ELSE one[i - Len(a)]
  BY <1>1, ConcatProperties
<1> HIDE DEF ac
<1>3. s \in Seq(S) /\ Len(s) = Len(ac) + Len(b)
      /\ \A i \in 1 .. Len(ac) + Len(b) : s[i] = IF i <= Len(ac) THEN ac[i] ELSE b[i - Len(ac)]
  <2>1. ac \in Seq(S) /\ b \in Seq(S)
    BY <1>2
  <2> QED
    BY <2>1, ConcatProperties
<1> HIDE DEF s, m, n
<1>4. Len(ac) = m + 1 /\ \A i \in 1 .. m + 1 : ac[i] = IF i <= m THEN a[i] ELSE one[i - m]
  BY <1>1, <1>2, Zenon DEF m
<1>5. Len(s) = (m + 1) + n
      /\ \A i \in 1 .. (m + 1) + n : s[i] = IF i <= m + 1 THEN ac[i] ELSE b[i - (m + 1)]
  BY <1>3, <1>4, Zenon DEF n
<1>6. \A i \in 1 .. m : s[i] = a[i]
  BY <1>1, <1>4, <1>5
<1>7. s[m + 1] = c
  <2>1. m + 1 \in 1 .. m + 1 /\ m + 1 \in 1 .. (m + 1) + n /\ ~(m + 1 <= m) /\ (m + 1) - m = 1
        /\ m + 1 <= m + 1
    BY <1>1
  <2> QED
    BY <1>1, <1>4, <1>5, <2>1
<1>8. ASSUME NEW i \in 1 .. n
      PROVE  s[m + 1 + i] = b[i]
  <2>1. m + 1 + i \in 1 .. (m + 1) + n /\ ~(m + 1 + i <= m + 1) /\ (m + 1 + i) - (m + 1) = i
    BY <1>1
  <2> QED
    BY <1>5, <2>1
<1> QED
  BY <1>3, <1>5, <1>6, <1>7, <1>8 DEF Around, s, ac, one, m, n

(* A line of the file without its line break. *)
Body(key, entry) ==
  key \o <<"=">> \o Decimal(entry.offset) \o <<",">> \o Decimal(entry.valueSize)

(* The symbols of a snapshot whose keys are written with C. *)
Written(C) == C \cup Digital \cup {"=", ",", NL}

PlainKey(C) == {k \in Seq(C) : Range(k) \cap {"=", NL} = {}}

Entries == [offset : 0 .. SizeModulus - 1, valueSize : 0 .. SizeModulus - 1]

LEMMA EntryIs ==
  ASSUME NEW C, NEW entry \in Entries
  PROVE  /\ Stoul(Decimal(entry.offset)) = {entry.offset}
         /\ Stoul(Decimal(entry.valueSize)) = {entry.valueSize}
         /\ Decimal(entry.offset) \in Seq(Digital) /\ Decimal(entry.valueSize) \in Seq(Digital)
         /\ Decimal(entry.offset) \in Seq(Written(C)) /\ Decimal(entry.valueSize) \in Seq(Written(C))
         /\ entry = [offset |-> entry.offset, valueSize |-> entry.valueSize]
<1> DEFINE o == entry.offset  v == entry.valueSize
<1>1. o \in Nat /\ v \in Nat /\ o < SizeModulus /\ v < SizeModulus
      /\ entry = [offset |-> o, valueSize |-> v]
  BY SizeAssumption DEF Entries
<1> HIDE DEF o, v
<1>2. Stoul(Decimal(o)) = {o} /\ Stoul(Decimal(v)) = {v}
  BY <1>1, NumbersAreRead
<1>3. Decimal(o) \in Seq(Digital) /\ Decimal(v) \in Seq(Digital)
  BY <1>1, DecimalIs
<1>4. Seq(Digital) \subseteq Seq(Written(C))
  BY SeqMonotonic DEF Written
<1> QED
  BY <1>1, <1>2, <1>3, <1>4 DEF o, v

(* Where the pieces of a line are: n, p and q are the lengths of the key and the numbers. *)
BodyLayout(body, key, n, d1, p, d2, q) ==
  /\ Len(body) = n + p + q + 2
  /\ \A i \in 1 .. n : body[i] = key[i]
  /\ body[n + 1] = "="
  /\ \A i \in 1 .. p : body[n + 1 + i] = d1[i]
  /\ body[n + p + 2] = ","
  /\ \A i \in 1 .. q : body[n + p + 2 + i] = d2[i]

LEMMA BodyIs ==
  ASSUME NEW C, NEW key \in Seq(C), NEW entry \in Entries
  PROVE  /\ Body(key, entry) \in Seq(Written(C))
         /\ BodyLayout(Body(key, entry), key, Len(key),
                       Decimal(entry.offset), Len(Decimal(entry.offset)),
                       Decimal(entry.valueSize), Len(Decimal(entry.valueSize)))
<1> DEFINE W == Written(C)
           d1 == Decimal(entry.offset)  d2 == Decimal(entry.valueSize)
           n == Len(key)  p == Len(d1)  q == Len(d2)
           s == (key \o <<"=">>) \o d1
           body == (s \o <<",">>) \o d2
           r == Len(s)
<1>1. key \in Seq(W) /\ d1 \in Seq(W) /\ d2 \in Seq(W) /\ "=" \in W /\ "," \in W
  <2>1. key \in Seq(W)
    BY SeqMonotonic DEF Written
  <2>2. d1 \in Seq(W) /\ d2 \in Seq(W)
    BY EntryIs
  <2>3. "=" \in W /\ "," \in W
    BY DEF Written
  <2> QED
    BY <2>1, <2>2, <2>3
<1> HIDE DEF W, d1, d2
<1>2. n \in Nat /\ p \in Nat /\ q \in Nat
  BY <1>1, LenProperties
<1>3. s \in Seq(W) /\ Around(s, key, n, "=", d1, p)
  BY <1>1, AroundIs
<1> HIDE DEF s
<1>4. body \in Seq(W) /\ Around(body, s, r, ",", d2, q)
  BY <1>1, <1>3, AroundIs
<1>5. body = Body(key, entry)
  BY DEF Body, s, d1, d2
<1> HIDE DEF body, n, p, q, r
<1>6. /\ r = n + 1 + p
      /\ \A i \in 1 .. n : s[i] = key[i]
      /\ s[n + 1] = "="
      /\ \A i \in 1 .. p : s[n + 1 + i] = d1[i]
  BY <1>3 DEF Around, r
<1>7. /\ Len(body) = r + 1 + q
      /\ \A i \in 1 .. r : body[i] = s[i]
      /\ body[r + 1] = ","
      /\ \A i \in 1 .. q : body[r + 1 + i] = d2[i]
  BY <1>4 DEF Around
<1>8. /\ \A i \in 1 .. n : i \in 1 .. r
      /\ n + 1 \in 1 .. r
      /\ \A i \in 1 .. p : n + 1 + i \in 1 .. r
      /\ r + 1 = n + p + 2 /\ r + 1 + q = n + p + q + 2
      /\ \A i \in 1 .. q : r + 1 + i = n + p + 2 + i
  BY <1>2, <1>6
<1>9. BodyLayout(body, key, n, d1, p, d2, q)
  BY <1>6, <1>7, <1>8 DEF BodyLayout
<1> QED
  BY <1>4, <1>5, <1>9 DEF W, d1, d2, n, p, q

(* A line is taken apart where it was put together, if its key is plain. *)
LEMMA BodyLoaded ==
  ASSUME NEW C, NEW key \in PlainKey(C), NEW entry \in Entries, NEW f
  PROVE  LoadedLine([threw |-> FALSE, index |-> f], Body(key, entry)) =
           [threw |-> FALSE, index |-> With(f, key, entry)]
<1> DEFINE W == Written(C)
           d1 == Decimal(entry.offset)  d2 == Decimal(entry.valueSize)
           n == Len(key)  p == Len(d1)  q == Len(d2)
           body == Body(key, entry)
           L == Len(body)
<1>1. key \in Seq(C) /\ \A i \in DOMAIN key : key[i] # "="
  BY DEF PlainKey, Range
<1>2. /\ Stoul(d1) = {entry.offset} /\ Stoul(d2) = {entry.valueSize}
      /\ d1 \in Seq(Digital) /\ d2 \in Seq(Digital) /\ d1 \in Seq(W) /\ d2 \in Seq(W)
      /\ entry = [offset |-> entry.offset, valueSize |-> entry.valueSize]
  BY EntryIs
<1>3. body \in Seq(W) /\ BodyLayout(body, key, n, d1, p, d2, q)
  BY <1>1, BodyIs
<1>4. key \in Seq(W)
  BY <1>1, SeqMonotonic DEF Written
<1> HIDE DEF body, d1, d2, W
<1>5. n \in Nat /\ p \in Nat /\ q \in Nat /\ DOMAIN key = 1 .. n
  BY <1>1, <1>2
<1>6. \A i \in 1 .. p : d1[i] # ","
  <2>1. \A i \in 1 .. p : d1[i] \in Digital
    BY <1>2
  <2> QED
    BY <2>1, DigitsArePlain
<1> HIDE DEF n, p, q, L
<1>7. /\ L = n + p + q + 2
      /\ \A i \in 1 .. n : body[i] = key[i]
      /\ body[n + 1] = "="
      /\ \A i \in 1 .. p : body[n + 1 + i] = d1[i]
      /\ body[n + p + 2] = ","
      /\ \A i \in 1 .. q : body[n + p + 2 + i] = d2[i]
  BY <1>3 DEF BodyLayout, L
<1>0. n \in Nat /\ p \in Nat /\ q \in Nat /\ L = n + p + q + 2
  BY <1>5, <1>7
<1>8. Find(body, "=", 1) = n + 1
  <2>1. n + 1 \in 1 .. L /\ \A i \in 1 .. (n + 1) - 1 : i \in 1 .. n
    BY <1>0
  <2>2. IsFirst(body, "=", 1, n + 1)
    BY <1>1, <1>5, <1>7, <2>1 DEF IsFirst, L
  <2> QED
    BY <1>3, <2>2, PlaceIn
<1>9. Find(body, ",", (n + 1) + 1) = n + p + 2
  <2> DEFINE from == (n + 1) + 1
  <2>1. /\ n + p + 2 \in from .. L /\ from \in Nat \ {0}
        /\ \A i \in from .. (n + p + 2) - 1 : i - (n + 1) \in 1 .. p /\ n + 1 + (i - (n + 1)) = i
    BY <1>0
  <2> HIDE DEF from
  <2>2. \A i \in from .. (n + p + 2) - 1 : body[i] # ","
    <3>1. ASSUME NEW i \in from .. (n + p + 2) - 1
          PROVE  body[i] # ","
      <4> DEFINE j == i - (n + 1)
      <4>1. j \in 1 .. p /\ n + 1 + j = i
        BY <2>1
      <4> HIDE DEF j
      <4>2. body[n + 1 + j] = d1[j] /\ d1[j] # ","
        BY <1>6, <1>7, <4>1
      <4> QED
        BY <4>1, <4>2
    <3> QED
      BY <3>1
  <2>3. IsFirst(body, ",", from, n + p + 2)
    BY <1>7, <2>1, <2>2 DEF IsFirst, L
  <2>4. Find(body, ",", from) = n + p + 2
    BY <1>3, <2>1, <2>3, PlaceIn
  <2> QED
    BY <2>4 DEF from
<1>10. SubSeq(body, 1, (n + 1) - 1) = key
  <2>1. (n + 1) - 1 = 1 + n - 1 /\ (n + 1) - 1 <= L /\ \A i \in 1 .. n : 1 + i - 1 = i
    BY <1>0
  <2>2. IsPart(body, 1, (n + 1) - 1, key, n)
    BY <1>7, <2>1 DEF IsPart, n, L
  <2> QED
    BY <1>3, <1>4, <2>2, PartIn
<1>11. SubSeq(body, (n + 1) + 1, (n + p + 2) - 1) = d1
  <2> DEFINE from == (n + 1) + 1  to == (n + p + 2) - 1
  <2>1. from \in Nat \ {0} /\ to = from + p - 1 /\ to <= L
        /\ \A i \in 1 .. p : from + i - 1 = n + 1 + i
    BY <1>0
  <2> HIDE DEF from, to
  <2>2. IsPart(body, from, to, d1, p)
    BY <1>7, <2>1 DEF IsPart, p, L
  <2>3. SubSeq(body, from, to) = d1
    BY <1>2, <1>3, <2>1, <2>2, PartIn
  <2> QED
    BY <2>3 DEF from, to
<1>12. SubSeq(body, (n + p + 2) + 1, L) = d2
  <2> DEFINE from == (n + p + 2) + 1
  <2>1. from \in Nat \ {0} /\ L = from + q - 1 /\ L <= L
        /\ \A i \in 1 .. q : from + i - 1 = n + p + 2 + i
    BY <1>0
  <2> HIDE DEF from
  <2>2. IsPart(body, from, L, d2, q)
    BY <1>7, <2>1 DEF IsPart, q, L
  <2>3. SubSeq(body, from, L) = d2
    BY <1>2, <1>3, <2>1, <2>2, PartIn
  <2> QED
    BY <2>3 DEF from
<1>13. n + 1 # NPos /\ n + p + 2 # NPos
  BY <1>5 DEF NPos
<1> DEFINE o == entry.offset  v == entry.valueSize
<1>14. Stoul(d1) = {o} /\ Stoul(d2) = {v} /\ entry = [offset |-> o, valueSize |-> v]
  BY <1>2
<1> HIDE DEF o, v
<1>15. (CHOOSE x \in {o} : TRUE) = o /\ (CHOOSE x \in {v} : TRUE) = v
  OBVIOUS
<1> DEFINE eq == n + 1  comma == n + p + 2
<1>16. /\ Find(body, "=", 1) = eq /\ Find(body, ",", eq + 1) = comma
       /\ SubSeq(body, 1, eq - 1) = key /\ SubSeq(body, eq + 1, comma - 1) = d1
       /\ SubSeq(body, comma + 1, Len(body)) = d2 /\ eq # NPos /\ comma # NPos
  BY <1>8, <1>9, <1>10, <1>11, <1>12, <1>13 DEF L
<1> HIDE DEF eq, comma, d1, d2
<1> DEFINE s == [threw |-> FALSE, index |-> f]
<1>17. LoadedLine(s, body) = [s EXCEPT !.index = With(@, key, [offset |-> o, valueSize |-> v])]
  <2>1. ~s.threw
    OBVIOUS
  <2> HIDE DEF s
  <2> QED
    BY <1>14, <1>15, <1>16, <2>1 DEF LoadedLine, CommaAfter
<1>18. LoadedLine(s, body) = [threw |-> FALSE, index |-> With(f, key, entry)]
  BY <1>14, <1>17
<1> QED
  BY <1>18 DEF body

NoBreak(C) == {s \in Seq(C) : \A i \in 1 .. Len(s) : s[i] # NL}

(* The text that has the given lines. *)
Broken(bs) == FlattenSeq([i \in DOMAIN bs |-> bs[i] \o <<NL>>])

LEMMA BrokenAppend ==
  ASSUME NEW C, NL \in C, NEW bs \in Seq(NoBreak(C)), NEW b \in NoBreak(C)
  PROVE  /\ Broken(bs) \in Seq(C) /\ b \o <<NL>> \in Seq(C)
         /\ Broken(Append(bs, b)) = Broken(bs) \o (b \o <<NL>>)
<1> DEFINE U == Seq(C)
           S == NoBreak(C)
           n == Len(bs)
           longer == Append(bs, b)
           End(s) == s \o <<NL>>
           ended == [i \in 1 .. n |-> End(bs[i])]
           f == End(b)
<1>1. /\ n \in Nat /\ longer \in Seq(S) /\ Len(longer) = n + 1
      /\ \A i \in 1 .. n : longer[i] = bs[i] /\ bs[i] \in S
      /\ longer[n + 1] = b
  <2>1. n \in Nat /\ (\A i \in 1 .. n : bs[i] \in S) /\ bs \in Seq(S) /\ b \in S
    OBVIOUS
  <2> HIDE DEF S
  <2>2. bs \in Seq(S) /\ b \in S
    BY <2>1
  <2>3. /\ longer \in Seq(S) /\ Len(longer) = n + 1
        /\ \A i \in 1 .. n : longer[i] = bs[i]
        /\ longer[n + 1] = b
    BY <2>2, AppendLog
  <2> HIDE DEF longer, n
  <2> QED
    BY <2>1, <2>3
<1>2. DOMAIN longer = 1 .. n + 1 /\ DOMAIN bs = 1 .. n
  <2>1. DOMAIN longer = 1 .. Len(longer) /\ DOMAIN bs = 1 .. Len(bs)
    BY <1>1, LenProperties
  <2> QED
    BY <1>1, <2>1
<1>3. \A s \in S : End(s) \in U
  <2>1. <<NL>> \in U
    OBVIOUS
  <2> HIDE DEF U
  <2>2. \A s \in S : s \in U
    BY DEF NoBreak, U
  <2>3. \A s, t \in U : s \o t \in U
    BY ConcatProperties DEF U
  <2> QED
    BY <2>1, <2>2, <2>3
<1>7. Broken(longer) = FlattenSeq([i \in 1 .. n + 1 |-> End(longer[i])])
  BY <1>2 DEF Broken
<1>8. Broken(bs) = FlattenSeq(ended)
  BY <1>2 DEF Broken
<1> HIDE DEF longer, n, U, End, S
<1>4. f \in U
  BY <1>3 DEF S
<1>5. ended \in Seq(U) /\ Len(ended) = n
  <2>1. ended \in [1 .. n -> U]
    BY <1>1, <1>3
  <2> HIDE DEF ended
  <2> QED
    BY <1>1, <2>1
<1> HIDE DEF f
<1>6. [i \in 1 .. n + 1 |-> End(longer[i])] = Append(ended, f)
  <2> DEFINE more == Append(ended, f)
             s == [i \in 1 .. n + 1 |-> End(longer[i])]
  <2>1. /\ more \in Seq(U) /\ Len(more) = n + 1
        /\ \A i \in 1 .. n : more[i] = ended[i]
        /\ more[n + 1] = f
    <3> HIDE DEF ended
    <3> QED
      BY <1>4, <1>5, AppendLog
  <2>2. \A i \in 1 .. n : more[i] = End(bs[i])
    BY <2>1
  <2> HIDE DEF more
  <2>3. more \in [1 .. n + 1 -> U]
    BY <2>1
  <2>4. ASSUME NEW i \in 1 .. n + 1
        PROVE  more[i] = s[i]
    <3>1. CASE i = n + 1
      BY <1>1, <2>1, <3>1 DEF f
    <3>2. CASE i # n + 1
      <4>1. i \in 1 .. n
        BY <1>1, <3>2
      <4> QED
        BY <1>1, <2>2, <4>1
    <3> QED
      BY <3>1, <3>2
  <2>5. more = [i \in 1 .. n + 1 |-> more[i]]
    BY <2>3
  <2>6. more = s
    BY <2>4, <2>5
  <2> QED
    BY <2>6 DEF more
<1>9. Broken(bs) \in U /\ Broken(longer) = Broken(bs) \o f
  <2> HIDE DEF ended
  <2>1. FlattenSeq(ended) \in Seq(C) /\ FlattenSeq(Append(ended, f)) = FlattenSeq(ended) \o f
    BY <1>4, <1>5, FlattenAppend DEF U
  <2> QED
    BY <1>6, <1>7, <1>8, <2>1 DEF U
<1> QED
  BY <1>4, <1>9 DEF longer, f, U, End

LEMMA BrokenEmpty == Broken(<<>>) = <<>>
<1>1. DOMAIN <<>> = {} /\ Len(<<>>) = 0
  OBVIOUS
<1>2. Broken(<<>>) = FlattenSeq([i \in {} |-> <<>>[i] \o <<NL>>])
  BY <1>1 DEF Broken
<1>3. [i \in {} |-> <<>>[i] \o <<NL>>] = <<>>
  BY <1>1
<1>4. FlattenSeq(<<>>) = <<>>
  BY <1>1 DEF FlattenSeq
<1> QED
  BY <1>2, <1>3, <1>4

(* A line that stands somewhere is read there. *)
LEMMA ReadLine ==
  ASSUME NEW C, NL \in C, NEW content \in Seq(C), NEW p \in Nat, NEW b \in NoBreak(C),
         StandsAt(content, p, b \o <<NL>>)
  PROVE  /\ Len(b) \in Nat /\ p + Len(b) + 1 <= Len(content) /\ Len(b \o <<NL>>) = Len(b) + 1
         /\ Find(content, NL, p + 1) = p + Len(b) + 1
         /\ SubSeq(content, p + 1, p + Len(b)) = b
<1> DEFINE n == Len(b)  L == Len(content)  one == <<NL>>  s == b \o one
<1>1. b \in Seq(C) /\ \A i \in 1 .. n : b[i] # NL
  BY DEF NoBreak
<1>2. n \in Nat /\ L \in Nat /\ one \in Seq(C) /\ Len(one) = 1 /\ one[1] = NL
  BY <1>1
<1> HIDE DEF one
<1>3. /\ Len(s) = Len(b) + Len(one)
      /\ \A i \in 1 .. Len(b) + Len(one) : s[i] = IF i <= Len(b) THEN b[i] ELSE one[i - Len(b)]
  BY <1>1, <1>2, ConcatProperties
<1>4. StandsAt(content, p, s)
  BY DEF one
<1> HIDE DEF s, n, L
<1>5. Len(s) = n + 1 /\ \A i \in 1 .. n + 1 : s[i] = IF i <= n THEN b[i] ELSE one[i - n]
  BY <1>2, <1>3, Zenon DEF n
<1>6. p + (n + 1) <= L /\ \A i \in 1 .. n + 1 : content[p + i] = s[i]
  BY <1>4, <1>5 DEF StandsAt, L
<1>7. \A i \in 1 .. n : content[p + i] = b[i]
  <2>1. \A i \in 1 .. n : i \in 1 .. n + 1 /\ i <= n
    BY <1>2
  <2> QED
    BY <1>5, <1>6, <2>1
<1>8. content[p + n + 1] = NL
  <2>1. n + 1 \in 1 .. n + 1 /\ ~(n + 1 <= n) /\ (n + 1) - n = 1 /\ p + (n + 1) = p + n + 1
    BY <1>2
  <2> QED
    BY <1>2, <1>5, <1>6, <2>1
<1>0. p + (n + 1) <= L /\ p \in Nat /\ n \in Nat /\ L \in Nat
  BY <1>2, <1>6
<1>9. Find(content, NL, p + 1) = p + n + 1
  <2>1. p + n + 1 \in p + 1 .. L /\ p + 1 \in Nat \ {0}
    BY <1>0
  <2>2. ASSUME NEW i \in p + 1 .. (p + n + 1) - 1
        PROVE  content[i] # NL
    <3> DEFINE j == i - p
    <3>1. j \in 1 .. n /\ p + j = i
      BY <1>0
    <3> HIDE DEF j
    <3>2. content[p + j] = b[j] /\ b[j] # NL
      BY <1>1, <1>7, <3>1 DEF n
    <3> QED
      BY <3>1, <3>2
  <2>3. IsFirst(content, NL, p + 1, p + n + 1)
    BY <1>8, <2>1, <2>2 DEF IsFirst, L
  <2> QED
    BY <2>1, <2>3, PlaceIn
<1>10. SubSeq(content, p + 1, p + n) = b
  <2>1. p + n = (p + 1) + n - 1 /\ p + n <= L /\ p + 1 \in Nat \ {0}
        /\ \A i \in 1 .. n : (p + 1) + i - 1 = p + i
    BY <1>0
  <2> DEFINE from == p + 1  to == p + n
  <2>3. from \in Nat \ {0} /\ to = from + n - 1 /\ to <= L
        /\ \A i \in 1 .. n : from + i - 1 = p + i
    BY <2>1
  <2>4. to \in Nat
    BY <1>0
  <2> HIDE DEF from, to
  <2>2. IsPart(content, from, to, b, n)
    BY <1>0, <1>7, <2>3, <2>4 DEF IsPart, n, L
  <2>5. b \in Seq(C)
    BY <1>1
  <2>6. SubSeq(content, from, to) = b
    BY <2>2, <2>3, <2>4, <2>5, PartIn DEF n
  <2> QED
    BY <2>6 DEF from, to
<1>11. p + n + 1 <= L
  BY <1>0
<1> QED
  BY <1>2, <1>5, <1>9, <1>10, <1>11 DEF n, L, s, one

(* Lines that stand in a text are read one after the other. *)
LEMMA LinesRead ==
  ASSUME NEW C, NL \in C, NEW content \in Seq(C), NEW g,
         LinesFrom(g, content, NoBreak(C)), NEW p \in Nat
  PROVE  \A bs \in Seq(NoBreak(C)) : StandsAt(content, p, Broken(bs)) =>
           /\ p + Len(Broken(bs)) \in 0 .. Len(content)
           /\ g[p + 1] = bs \o g[p + Len(Broken(bs)) + 1]
<1> DEFINE L == Len(content)
           P == NoBreak(C)
           S == Seq(P)
           Good(bs) == StandsAt(content, p, Broken(bs)) =>
             /\ p + Len(Broken(bs)) \in 0 .. L
             /\ g[p + 1] = bs \o g[p + Len(Broken(bs)) + 1]
           T == {bs \in S : Good(bs)}
<1>1. L \in Nat
  OBVIOUS
<1>2. /\ g \in [1 .. L + 1 -> S]
      /\ \A pos \in 1 .. L + 1 :
           Find(content, NL, pos) # NPos =>
             g[pos] = <<SubSeq(content, pos, Find(content, NL, pos) - 1)>>
                        \o g[Find(content, NL, pos) + 1]
  BY DEF LinesFrom
<1>3. ASSUME NEW n \in Nat, p + n <= L
      PROVE  p + n \in 0 .. L /\ p + n + 1 \in 1 .. L + 1 /\ g[p + n + 1] \in S
  <2> HIDE DEF L, S
  <2>1. p + n \in 0 .. L /\ p + n + 1 \in 1 .. L + 1
    BY <1>1, <1>3
  <2> QED
    BY <1>2, <2>1
<1>4. <<>> \in S /\ \A s \in S : <<>> \o s = s
  BY ConcatEmptySeq
<1> HIDE DEF L, P
<1>5. <<>> \in T
  <2>1. Len(<<>>) = 0
    OBVIOUS
  <2>2. ASSUME p <= L
        PROVE  /\ p \in 0 .. L
               /\ g[p + 1] = <<>> \o g[p + 1]
    <3>1. 0 \in Nat /\ p + 0 = p /\ p + 0 + 1 = p + 1
      OBVIOUS
    <3>2. p \in 0 .. L /\ g[p + 1] \in S
      <4> HIDE DEF S
      <4>1. p + 0 <= L
        BY <2>2, <3>1
      <4>2. p + 0 \in 0 .. L /\ g[p + 0 + 1] \in S
        BY <1>3, <3>1, <4>1
      <4> QED
        BY <3>1, <4>2
    <3> QED
      BY <1>4, <3>2
  <2>4. p + Len(<<>>) = p
    BY <2>1
  <2>3. Good(<<>>)
    BY <2>2, <2>4, BrokenEmpty DEF StandsAt, L
  <2> HIDE DEF Good
  <2> QED
    BY <1>4, <2>3
<1>6. ASSUME NEW bs \in S, NEW b \in P, bs \in T
      PROVE  Append(bs, b) \in T
  <2> DEFINE a == Broken(bs)
             f == b \o <<NL>>
             more == Append(bs, b)
             n == Len(a)
             m == Len(b)
  <2>1. a \in Seq(C) /\ f \in Seq(C) /\ Broken(more) = a \o f
    BY BrokenAppend DEF P
  <2>3. more \in S /\ more = bs \o <<b>>
    BY AppendProperties, AppendIsConcat
  <2>4. n \in Nat
    BY <2>1
  <2>5. Len(a \o f) = n + Len(f)
    <3> HIDE DEF a, f
    <3> QED
      BY <2>1, ConcatProperties DEF n
  <2>6. ASSUME StandsAt(content, p, a \o f)
        PROVE  /\ p + Len(a \o f) \in 0 .. L
               /\ g[p + 1] = more \o g[p + Len(a \o f) + 1]
    <3>1. StandsAt(content, p, a) /\ StandsAt(content, p + n, f)
      <4> HIDE DEF a, f
      <4> QED
        BY <1>1, <2>1, <2>6, PartsStand DEF n, L
    <3>2. p + n <= L
      BY <3>1 DEF StandsAt, L
    <3>3. p + n \in Nat
      BY <2>4
    <3> DEFINE k == p + n
               q == k + 1
               e == k + m + 1
    <3>4. /\ m \in Nat /\ e <= L /\ Len(f) = m + 1
          /\ Find(content, NL, q) = e /\ SubSeq(content, q, k + m) = b
      <4> HIDE DEF n, a
      <4>1. k \in Nat /\ StandsAt(content, k, f)
        BY <3>1, <3>3
      <4> HIDE DEF k
      <4> QED
        BY <4>1, ReadLine DEF P, L
    <3> HIDE DEF m, a, f
    <3>5. e # NPos /\ e - 1 = k + m /\ q \in 1 .. L + 1 /\ e + 1 \in 1 .. L + 1
          /\ e = p + Len(a \o f) /\ p + Len(a) + 1 = q
      <4> DEFINE x == Len(a \o f)  y == Len(f)
      <4>1. x = n + y /\ y = m + 1
        BY <2>5, <3>4
      <4> HIDE DEF x, y, n
      <4>2. e # NPos /\ e - 1 = k + m /\ q \in 1 .. L + 1 /\ e + 1 \in 1 .. L + 1
            /\ e = p + x /\ p + n + 1 = q
        BY <1>1, <2>4, <3>2, <3>4, <4>1 DEF NPos
      <4> QED
        BY <4>2 DEF x, n
    <3> DEFINE rest == g[e + 1]
    <3>6. g[q] = <<b>> \o rest /\ rest \in S
      <4> HIDE DEF q, e, k, S
      <4> QED
        BY <1>2, <3>4, <3>5
    <3>7. g[p + 1] = bs \o g[q]
      <4>1. g[p + 1] = bs \o g[p + Len(a) + 1]
        BY <1>6, <3>1 DEF a
      <4> HIDE DEF q, n
      <4> QED
        BY <3>5, <4>1
    <3> HIDE DEF rest
    <3>8. bs \o (<<b>> \o rest) = (bs \o <<b>>) \o rest
      BY <3>6, Between
    <3>9. g[p + 1] = more \o rest
      BY <2>3, <3>6, <3>7, <3>8
    <3>10. p + Len(a \o f) \in 0 .. L
      <4> DEFINE x == Len(a \o f)
      <4> HIDE DEF x
      <4>1. e = p + x /\ e \in Nat /\ e <= L
        BY <3>3, <3>4, <3>5 DEF x
      <4> HIDE DEF e
      <4> QED
        BY <1>1, <4>1 DEF x
    <3> HIDE DEF e, more
    <3> QED
      BY <3>5, <3>9, <3>10 DEF rest
  <2>7. Good(more)
    <3> HIDE DEF a, f, more, n, m
    <3> QED
      BY <2>1, <2>6
  <2> HIDE DEF Good, more
  <2> QED
    BY <2>3, <2>7 DEF more
<1>7. S \subseteq T
  <2> HIDE DEF T
  <2> QED
    BY <1>5, <1>6, SequenceInduction
<1> QED
  BY <1>7 DEF L, P

(* Up to the first line break there is none. *)
LEMMA PieceIs ==
  ASSUME NEW C, NEW content \in Seq(C), NEW pos \in 1 .. Len(content), NEW end,
         IsFirst(content, NL, pos, end)
  PROVE  SubSeq(content, pos, end - 1) \in NoBreak(C)
<1> DEFINE L == Len(content)  e == end - 1  s == SubSeq(content, pos, e)
<1>1. L \in Nat /\ pos \in Nat \ {0} /\ \A i \in 1 .. L : content[i] \in C
  OBVIOUS
<1>2. end \in pos .. L /\ \A i \in pos .. e : content[i] # NL
  BY DEF IsFirst
<1> HIDE DEF L
<1>3. e \in Int /\ pos \in Int /\ \A i \in pos .. e : i \in 1 .. L
  BY <1>1, <1>2
<1> HIDE DEF e
<1>4. \A i \in pos .. e : content[i] \in C \ {NL}
  BY <1>1, <1>2, <1>3
<1>5. s \in Seq(C \ {NL})
  BY <1>3, <1>4, SubSeqProperties
<1> HIDE DEF s
<1>6. s \in Seq(C)
  BY <1>5, SeqMonotonic
<1>7. \A i \in 1 .. Len(s) : s[i] # NL
  BY <1>5
<1> QED
  BY <1>6, <1>7 DEF NoBreak, s, e

LEMMA BrokenType ==
  ASSUME NEW C, NL \in C
  PROVE  \A bs \in Seq(NoBreak(C)) : Broken(bs) \in Seq(C)
<1> DEFINE P == NoBreak(C)
           U == Seq(C)
           T == {bs \in Seq(P) : Broken(bs) \in U}
<1>1. <<>> \in T
  <2>1. <<>> \in U /\ <<>> \in Seq(P)
    OBVIOUS
  <2> HIDE DEF U, P
  <2> QED
    BY <2>1, BrokenEmpty
<1>2. ASSUME NEW bs \in Seq(P), NEW b \in P, bs \in T
      PROVE  Append(bs, b) \in T
  <2> DEFINE x == Broken(bs)  y == b \o <<NL>>  more == Append(bs, b)
  <2>1. x \in U /\ y \in U /\ Broken(more) = x \o y
    BY BrokenAppend
  <2> HIDE DEF x, y
  <2>2. x \o y \in U
    BY <2>1, ConcatProperties
  <2>3. more \in Seq(P)
    BY AppendProperties
  <2> HIDE DEF more, U, P
  <2> QED
    BY <2>1, <2>2, <2>3 DEF more
<1>3. Seq(P) \subseteq T
  <2> HIDE DEF T, P
  <2> QED
    BY <1>1, <1>2, SequenceInduction
<1> QED
  BY <1>3

(* The lines of a text of lines are these lines. *)
LEMMA LinesOfBroken ==
  ASSUME NEW C, NL \in C, NEW bs \in Seq(NoBreak(C))
  PROVE  Lines(Broken(bs)) = bs
<1> DEFINE P == NoBreak(C)
           content == Broken(bs)
           L == Len(content)
           S == Seq(P)
<1>1. content \in Seq(C)
  BY BrokenType
<1> HIDE DEF content, P
<1>2. L \in Nat
  BY <1>1
<1>3. PICK g : LinesFrom(g, content, P)
  <2>1. ASSUME NEW pos \in 1 .. L, NEW end \in 1 .. L, IsFirst(content, NL, pos, end)
        PROVE  SubSeq(content, pos, end - 1) \in P
    BY <1>1, <2>1, PieceIs DEF P
  <2> QED
    BY <1>1, <2>1, LinesAre
<1>4. StandsAt(content, 0, content)
  BY <1>1, WholeStands
<1>5. g[0 + 1] = bs \o g[0 + L + 1]
  <2>1. 0 \in Nat
    OBVIOUS
  <2> QED
    BY <1>1, <1>3, <1>4, <2>1, LinesRead DEF content, P
<1>6. g[L + 1] = <<>>
  <2> DEFINE pos == L + 1
  <2>1. pos \in Nat \ {0} /\ pos .. L = {} /\ pos \in 1 .. L + 1
    BY <1>2
  <2> HIDE DEF pos
  <2>2. Find(content, NL, pos) = NPos
    BY <1>1, <2>1, FirstIn
  <2>3. g[pos] = <<>>
    BY <1>3, <2>1, <2>2 DEF LinesFrom
  <2> QED
    BY <2>3 DEF pos
<1>7. Lines(content) = g[1]
  BY <1>3 DEF LinesFrom
<1>8. 0 + 1 = 1 /\ 0 + L + 1 = L + 1
  BY <1>2
<1> HIDE DEF L
<1>9. bs \o <<>> = bs
  <2>1. bs \in Seq(P)
    BY DEF P
  <2> QED
    BY <2>1, ConcatEmptySeq
<1> QED
  BY <1>5, <1>6, <1>7, <1>8, <1>9 DEF content

(* What a line says, and the states that lines lead to. *)
KeyOf(line) == SubSeq(line, 1, Find(line, "=", 1) - 1)

EntryOf(line) ==
  LET eq    == Find(line, "=", 1)
      comma == CommaAfter(line, eq)
  IN  [offset    |-> CHOOSE n \in Stoul(SubSeq(line, eq + 1, comma - 1)) : TRUE,
       valueSize |-> CHOOSE n \in Stoul(SubSeq(line, comma + 1, Len(line))) : TRUE]

Keyed(lines) == {l \in Range(lines) : Find(l, "=", 1) # NPos}

Loads(lines) ==
  [threw : BOOLEAN,
   index : UNION {[K -> {EntryOf(l) : l \in Keyed(lines)}] :
                    K \in SUBSET {KeyOf(l) : l \in Keyed(lines)}}]

LEMMA LoadsClosed ==
  ASSUME NEW lines, NEW s \in Loads(lines), NEW line \in Range(lines)
  PROVE  LoadedLine(s, line) \in Loads(lines)
<1> DEFINE eq     == Find(line, "=", 1)
           comma  == CommaAfter(line, eq)
           offset == Stoul(SubSeq(line, eq + 1, comma - 1))
           size   == Stoul(SubSeq(line, comma + 1, Len(line)))
           V == {EntryOf(l) : l \in Keyed(lines)}
           Keys == {KeyOf(l) : l \in Keyed(lines)}
           key == SubSeq(line, 1, eq - 1)
           entry == [offset    |-> CHOOSE n \in offset : TRUE,
                     valueSize |-> CHOOSE n \in size : TRUE]
           f == s.index
           Fs == UNION {[K -> V] : K \in SUBSET Keys}
<1>1. LoadedLine(s, line) =
        IF s.threw \/ NPos \in {eq, comma} THEN s
        ELSE IF {} \in {offset, size} THEN [s EXCEPT !.threw = TRUE]
        ELSE [s EXCEPT !.index = With(f, key, entry)]
  BY DEF LoadedLine
<1>2. key = KeyOf(line) /\ entry = EntryOf(line)
  BY DEF KeyOf, EntryOf
<1>3. s \in [threw : BOOLEAN, index : Fs]
  BY DEF Loads
<1>4. ASSUME eq # NPos
      PROVE  With(f, key, entry) \in Fs
  <2>1. line \in Keyed(lines)
    BY <1>4 DEF Keyed
  <2>2. key \in Keys /\ entry \in V
    BY <1>2, <2>1
  <2>3. PICK K \in SUBSET Keys : f \in [K -> V]
    BY <1>3
  <2> HIDE DEF Keys, V, key, entry, f
  <2>4. With(f, key, entry) \in [K \cup {key} -> V]
    BY <2>2, <2>3 DEF With
  <2>5. K \cup {key} \in SUBSET Keys
    BY <2>2
  <2> QED
    BY <2>4, <2>5
<1> HIDE DEF Fs, eq, comma, offset, size, key, entry, f
<1>5. LoadedLine(s, line) \in [threw : BOOLEAN, index : Fs]
  BY <1>1, <1>3, <1>4
<1> QED
  BY <1>5 DEF Loads, Fs

LEMMA NothingLoaded == \A lines : Nothing \in Loads(lines)
<1> TAKE lines
<1> DEFINE V == {EntryOf(l) : l \in Keyed(lines)}
           Keys == {KeyOf(l) : l \in Keyed(lines)}
<1>1. <<>> \in [{} -> V]
  OBVIOUS
<1> QED
  BY <1>1 DEF Nothing, Loads

(* The loads of the first lines of a file. *)
LoadedFrom(f, content) ==
  /\ f \in [0 .. Len(Lines(content)) -> Loads(Lines(content))]
  /\ f[0] = Nothing
  /\ \A i \in 1 .. Len(Lines(content)) : f[i] = LoadedLine(f[i - 1], Lines(content)[i])
  /\ Load(content) = f[Len(Lines(content))]

LEMMA LoadIs ==
  ASSUME NEW content, NEW P, Lines(content) \in Seq(P)
  PROVE  \E f : LoadedFrom(f, content)
<1> DEFINE lines == Lines(content)
           n == Len(lines)
           S == Loads(lines)
           Def(f, i) == IF i = 0 THEN Nothing ELSE LoadedLine(f[i - 1], lines[i])
           found == CHOOSE f : f = [i \in 0 .. n |-> Def(f, i)]
           step == [i \in 1 .. n |-> [s \in S |-> LoadedLine(s, lines[i])]]
           first == Nothing
<1>1. Load(content) = found[n]
  BY DEF Load
<1>2. n \in Nat /\ \A i \in 1 .. n : lines[i] \in Range(lines)
  BY DEF Range
<1>3. first \in S /\ \A i \in 1 .. n, s \in S : LoadedLine(s, lines[i]) \in S
  <2> HIDE DEF lines
  <2> QED
    BY <1>2, LoadsClosed, NothingLoaded
<1> HIDE DEF lines, n, S
<1>4. Counted(n, S, first, step)
  BY <1>2, <1>3 DEF Counted
<1>5. PICK h \in [0 .. n -> S] : \A i \in 0 .. n : h[i] = IF i = 0 THEN first ELSE step[i][h[i - 1]]
  <2> HIDE DEF step, first
  <2> QED
    BY <1>4, CountedRecursion
<1>6. 0 \in 0 .. n /\ \A i \in 1 .. n : i # 0 /\ i \in 0 .. n /\ i - 1 \in 0 .. n
  BY <1>2
<1>7. \A i \in 0 .. n : i = 0 \/ i \in 1 .. n
  BY <1>2
<1>8. h = [i \in 0 .. n |-> Def(h, i)]
  <2>1. ASSUME NEW i \in 0 .. n
        PROVE  h[i] = Def(h, i)
    <3>1. CASE i = 0
      BY <1>5, <1>6, <3>1
    <3>2. CASE i \in 1 .. n
      <4>1. h[i] = step[i][h[i - 1]] /\ h[i - 1] \in S /\ i # 0
        BY <1>5, <1>6, <3>2
      <4>2. step[i][h[i - 1]] = LoadedLine(h[i - 1], lines[i])
        BY <3>2, <4>1
      <4> QED
        BY <4>1, <4>2
    <3> QED
      BY <1>7, <3>1, <3>2
  <2> HIDE DEF Def
  <2> QED
    BY <1>5, <2>1
<1>9. found = [i \in 0 .. n |-> Def(found, i)]
  <2> HIDE DEF Def
  <2> QED
    BY <1>8
<1> HIDE DEF found
<1>10. found[0] = first /\ \A i \in 1 .. n : found[i] = LoadedLine(found[i - 1], lines[i])
  <2>1. \A i \in 0 .. n : found[i] = Def(found, i)
    <3> HIDE DEF Def
    <3> QED
      BY <1>9
  <2> QED
    BY <1>6, <2>1
<1>11. \A i \in 1 .. n : found[i - 1] \in S => found[i] = step[i][found[i - 1]]
  BY <1>10
<1>12. \A i \in 0 .. n : found[i] \in S
  <2> HIDE DEF step, first
  <2> QED
    BY <1>4, <1>10, <1>11, CountedRecurs
<1>13. found \in [0 .. n -> S]
  <2> HIDE DEF Def
  <2> QED
    BY <1>9, <1>12
<1> QED
  BY <1>1, <1>10, <1>13 DEF LoadedFrom, lines, n, S

(* The lines of a snapshot without their line breaks. *)
Bodies(keys, index) == [i \in DOMAIN keys |-> Body(keys[i], index[keys[i]])]

LEMMA FileIsBroken ==
  ASSUME NEW keys, NEW index
  PROVE  FileText(keys, index) = Broken(Bodies(keys, index))
<1>1. DOMAIN Bodies(keys, index) = DOMAIN keys
  BY DEF Bodies
<1>2. \A i \in DOMAIN keys : Bodies(keys, index)[i] \o <<NL>> = Line(keys[i], index[keys[i]])
  BY DEF Bodies, Body, Line
<1>3. [i \in DOMAIN keys |-> Bodies(keys, index)[i] \o <<NL>>] =
        [i \in DOMAIN keys |-> Line(keys[i], index[keys[i]])]
  BY <1>2
<1> QED
  BY <1>1, <1>3 DEF FileText, Broken

(* The line of a plain key has no line break in it. *)
LEMMA BodyUnbroken ==
  ASSUME NEW C, NEW key \in PlainKey(C), NEW entry \in Entries
  PROVE  Body(key, entry) \in NoBreak(Written(C))
<1> DEFINE d1 == Decimal(entry.offset)  d2 == Decimal(entry.valueSize)
           n == Len(key)  p == Len(d1)  q == Len(d2)
           body == Body(key, entry)
<1>1. key \in Seq(C) /\ \A i \in DOMAIN key : key[i] # NL
  BY DEF PlainKey, Range
<1>2. d1 \in Seq(Digital) /\ d2 \in Seq(Digital)
  BY EntryIs
<1>3. body \in Seq(Written(C)) /\ BodyLayout(body, key, n, d1, p, d2, q)
  BY <1>1, BodyIs
<1> HIDE DEF body, d1, d2
<1>4. n \in Nat /\ p \in Nat /\ q \in Nat /\ DOMAIN key = 1 .. n
  BY <1>1, <1>2
<1>5. \A c \in Digital : c # NL
  BY DigitsArePlain DEF NL
<1>6. /\ \A i \in 1 .. p : d1[i] # NL
      /\ \A i \in 1 .. q : d2[i] # NL
      /\ \A i \in 1 .. n : key[i] # NL
  <2>1. (\A i \in 1 .. p : d1[i] \in Digital) /\ \A i \in 1 .. q : d2[i] \in Digital
    BY <1>2
  <2> QED
    BY <1>1, <1>4, <1>5, <2>1
<1>7. "=" # NL /\ "," # NL
  BY DEF NL
<1> HIDE DEF n, p, q
<1>8. ASSUME NEW i \in 1 .. Len(body)
      PROVE  body[i] # NL
  <2>1. i \in 1 .. n + p + q + 2
    BY <1>3 DEF BodyLayout
  <2>2. CASE i \in 1 .. n
    BY <1>3, <1>6, <2>2 DEF BodyLayout
  <2>3. CASE i = n + 1
    BY <1>3, <1>7, <2>3 DEF BodyLayout
  <2>4. CASE i = n + p + 2
    BY <1>3, <1>7, <2>4 DEF BodyLayout
  <2>5. CASE i - (n + 1) \in 1 .. p
    <3> DEFINE j == i - (n + 1)
    <3>1. n + 1 + j = i /\ j \in 1 .. p
      BY <1>4, <2>1, <2>5
    <3> HIDE DEF j
    <3>2. body[n + 1 + j] = d1[j] /\ d1[j] # NL
      BY <1>3, <1>6, <3>1 DEF BodyLayout
    <3> QED
      BY <3>1, <3>2
  <2>6. CASE i - (n + p + 2) \in 1 .. q
    <3> DEFINE j == i - (n + p + 2)
    <3>1. n + p + 2 + j = i /\ j \in 1 .. q
      BY <1>4, <2>1, <2>6
    <3> HIDE DEF j
    <3>2. body[n + p + 2 + j] = d2[j] /\ d2[j] # NL
      BY <1>3, <1>6, <3>1 DEF BodyLayout
    <3> QED
      BY <3>1, <3>2
  <2> QED
    BY <1>4, <2>1, <2>2, <2>3, <2>4, <2>5, <2>6
<1> QED
  BY <1>3, <1>8 DEF NoBreak, body

(* What has been loaded after i lines of a clean snapshot. *)
LoadedKeys(keys, i) == {keys[j] : j \in 1 .. i}

Restored(keys, index, i) == [threw |-> FALSE, index |-> [k \in LoadedKeys(keys, i) |-> index[k]]]

(***************************************************************************)
(* A snapshot of plain keys gives back the index it was written from, in   *)
(* whatever order the keys are written (snapshot.cpp:41-55, 110-139).      *)
(***************************************************************************)
THEOREM SnapshotRoundTrip ==
  ASSUME NEW C, NEW keys \in Seq(PlainKey(C)), NEW index \in [Range(keys) -> Entries]
  PROVE  Load(FileText(keys, index)) = [threw |-> FALSE, index |-> index]
<1> DEFINE W == Written(C)
           bs == Bodies(keys, index)
           content == FileText(keys, index)
           n == Len(keys)
           K(i) == LoadedKeys(keys, i)
           g(i) == [k \in K(i) |-> index[k]]
<1>1. /\ n \in Nat /\ DOMAIN keys = 1 .. n
      /\ \A i \in 1 .. n : keys[i] \in PlainKey(C) /\ index[keys[i]] \in Entries
      /\ Range(keys) = LoadedKeys(keys, n)
  <2>1. n \in Nat /\ DOMAIN keys = 1 .. n /\ \A i \in 1 .. n : keys[i] \in PlainKey(C)
    OBVIOUS
  <2>2. Range(keys) = LoadedKeys(keys, n)
    BY <2>1 DEF Range, LoadedKeys
  <2>3. \A i \in 1 .. n : keys[i] \in Range(keys)
    BY <2>1 DEF Range
  <2> QED
    BY <2>1, <2>2, <2>3
<1>2. /\ bs \in Seq(NoBreak(W)) /\ Len(bs) = n
      /\ \A i \in 1 .. n : bs[i] = Body(keys[i], index[keys[i]])
  <2>1. bs = [i \in 1 .. n |-> Body(keys[i], index[keys[i]])]
    BY <1>1 DEF Bodies
  <2>2. \A i \in 1 .. n : Body(keys[i], index[keys[i]]) \in NoBreak(W)
    BY <1>1, BodyUnbroken
  <2> HIDE DEF W, bs
  <2>3. bs \in [1 .. n -> NoBreak(W)]
    BY <2>1, <2>2
  <2> QED
    BY <1>1, <2>1, <2>3
<1>3. Lines(content) = bs
  <2>1. NL \in W
    BY DEF Written
  <2> HIDE DEF W, bs
  <2>2. content = Broken(bs)
    BY FileIsBroken DEF bs
  <2> QED
    BY <1>2, <2>1, <2>2, LinesOfBroken
<1> HIDE DEF W, bs, content
<1>4. PICK f : LoadedFrom(f, content)
  BY <1>2, <1>3, LoadIs
<1>5. /\ f[0] = Nothing
      /\ \A i \in 1 .. n : f[i] = LoadedLine(f[i - 1], bs[i])
      /\ Load(content) = f[n]
  BY <1>2, <1>3, <1>4 DEF LoadedFrom
<1> DEFINE T == {i \in 0 .. n : f[i] = Restored(keys, index, i)}
<1> HIDE DEF n
<1>6. 0 \in T
  <2>1. LoadedKeys(keys, 0) = {}
    BY DEF LoadedKeys
  <2>2. [k \in {} |-> index[k]] = <<>>
    OBVIOUS
  <2>3. Nothing = Restored(keys, index, 0)
    BY <2>1, <2>2 DEF Nothing, Restored
  <2> QED
    BY <1>1, <1>5, <2>3
<1>7. ASSUME NEW i \in 1 .. n, i - 1 \in T
      PROVE  i \in T
  <2>1. K(i) = K(i - 1) \cup {keys[i]}
    <3>1. \A j : j \in 1 .. i <=> (j \in 1 .. i - 1 \/ j = i)
      BY <1>1
    <3> QED
      BY <3>1 DEF LoadedKeys
  <2>2. With(g(i - 1), keys[i], index[keys[i]]) = g(i)
    <3> DEFINE old == g(i - 1)  k1 == keys[i]  A == K(i - 1)  B == K(i)
    <3> HIDE DEF A, B, k1
    <3>1. B = A \cup {k1}
      BY <2>1 DEF A, B, k1
    <3>2. [k \in DOMAIN [k \in A |-> index[k]] \cup {k1} |->
             IF k = k1 THEN index[k1] ELSE [k2 \in A |-> index[k2]][k]] = [k \in B |-> index[k]]
      BY <3>1
    <3> QED
      BY <3>2 DEF With, A, B, k1
  <2>3. LoadedLine([threw |-> FALSE, index |-> g(i - 1)], bs[i]) =
          [threw |-> FALSE, index |-> With(g(i - 1), keys[i], index[keys[i]])]
    <3> HIDE DEF g
    <3> QED
      BY <1>1, <1>2, BodyLoaded
  <2>4. f[i - 1] = [threw |-> FALSE, index |-> g(i - 1)]
    BY <1>7 DEF Restored
  <2>5. f[i] = LoadedLine(f[i - 1], bs[i])
    BY <1>5
  <2>6. f[i] = [threw |-> FALSE, index |-> g(i)]
    <3> HIDE DEF g
    <3> QED
      BY <2>2, <2>3, <2>4, <2>5
  <2>7. i \in 0 .. n
    BY <1>1
  <2> QED
    BY <2>6, <2>7 DEF Restored
<1>8. 0 .. n \subseteq T
  <2> HIDE DEF T
  <2> QED
    BY <1>1, <1>6, <1>7, CountedInduction
<1>9. f[n] = Restored(keys, index, n)
  <2>1. n \in 0 .. n
    BY <1>1
  <2> QED
    BY <1>8, <2>1
<1>10. [k \in LoadedKeys(keys, n) |-> index[k]] = index
  BY <1>1
<1> QED
  BY <1>5, <1>9, <1>10 DEF Restored, content

LEMMA FileType ==
  ASSUME NEW C, NEW keys \in Seq(Seq(C)), NEW index,
         \A i \in DOMAIN keys : index[keys[i]] \in Entries
  PROVE  FileText(keys, index) \in Seq(Written(C))
<1> DEFINE W == Written(C)
           U == Seq(W)
           n == Len(keys)
           L(i) == Line(keys[i], index[keys[i]])
           lines == [i \in 1 .. n |-> L(i)]
<1>0. n \in Nat
  OBVIOUS
<1>1. DOMAIN keys = 1 .. n /\ \A i \in 1 .. n : keys[i] \in Seq(C)
  OBVIOUS
<1>2. \A i \in 1 .. n : L(i) = Body(keys[i], index[keys[i]]) \o <<NL>>
  BY DEF Line, Body
<1>3. <<NL>> \in U /\ <<>> \in U
  BY DEF Written
<1>4. \A i \in 1 .. n : Body(keys[i], index[keys[i]]) \in U
  BY <1>1, BodyIs
<1> HIDE DEF U, L
<1>5. \A s, t \in U : s \o t \in U
  BY ConcatProperties DEF U
<1>6. \A i \in 1 .. n : L(i) \in U
  BY <1>2, <1>3, <1>4, <1>5
<1>7. lines \in [1 .. n -> U]
  BY <1>6
<1>8. FileText(keys, index) = FlattenSeq(lines)
  BY <1>1 DEF FileText, L
<1> HIDE DEF lines, n, W
<1>9. lines \in Seq(U)
  BY <1>0, <1>7
<1>10. FlattenSeq(lines) \in Seq(W)
  <2>1. lines \in Seq(Seq(W)) /\ <<>> \in Seq(W)
    BY <1>3, <1>9 DEF U
  <2> QED
    BY <2>1, FlattenAppend
<1> QED
  BY <1>8, <1>10 DEF W

(* The key of a line has neither a '=' nor a line break. *)
LEMMA KeyIsPlain ==
  ASSUME NEW C, NEW line \in NoBreak(C), Find(line, "=", 1) # NPos
  PROVE  KeyOf(line) \in PlainKey(C)
<1> DEFINE eq == Find(line, "=", 1)  e == eq - 1  L == Len(line)  key == SubSeq(line, 1, e)
<1>1. line \in Seq(C) /\ L \in Nat /\ \A i \in 1 .. L : line[i] \in C /\ line[i] # NL
  BY DEF NoBreak
<1>2. eq \in 1 .. L /\ \A i \in 1 .. e : line[i] # "="
  <2>1. 1 \in Nat \ {0}
    OBVIOUS
  <2> QED
    BY <1>1, <2>1, FirstIn
<1> HIDE DEF eq, L
<1>3. e \in Int /\ 1 \in Int /\ \A i \in 1 .. e : i \in 1 .. L
  BY <1>1, <1>2
<1> HIDE DEF e
<1> DEFINE P == C \ {"=", NL}
<1>4. \A i \in 1 .. e : line[i] \in P
  BY <1>1, <1>2, <1>3
<1> HIDE DEF P
<1>5. key \in Seq(P)
  BY <1>3, <1>4, SubSeqProperties
<1> HIDE DEF key
<1>6. key \in Seq(C)
  BY <1>5, SeqMonotonic DEF P
<1>7. \A i \in DOMAIN key : key[i] \in P
  BY <1>5
<1>8. Range(key) \cap {"=", NL} = {}
  BY <1>7 DEF Range, P
<1> QED
  BY <1>6, <1>8 DEF PlainKey, KeyOf, key, e, eq

(***************************************************************************)
(* Whatever the file says, no key with a '=' or a line break comes out of  *)
(* it (snapshot.cpp:110-139): such a key is lost, or cut to another one.   *)
(***************************************************************************)
THEOREM LoadedKeysArePlain ==
  ASSUME NEW C, NEW content \in Seq(C)
  PROVE  DOMAIN Load(content).index \subseteq PlainKey(C)
<1> DEFINE P == NoBreak(C)
           lines == Lines(content)
           Keys == {KeyOf(l) : l \in Keyed(lines)}
           V == {EntryOf(l) : l \in Keyed(lines)}
<1>1. lines \in Seq(P)
  <2>1. ASSUME NEW pos \in 1 .. Len(content), NEW end \in 1 .. Len(content),
               IsFirst(content, NL, pos, end)
        PROVE  SubSeq(content, pos, end - 1) \in P
    BY <2>1, PieceIs
  <2> HIDE DEF P
  <2>2. PICK g : LinesFrom(g, content, P)
    BY <2>1, LinesAre
  <2> DEFINE S == Seq(P)  m == Len(content)
  <2>3. m \in Nat
    OBVIOUS
  <2>4. g \in [1 .. m + 1 -> S] /\ lines = g[1]
    BY <2>2 DEF LinesFrom
  <2> HIDE DEF S, m
  <2>5. 1 \in 1 .. m + 1
    BY <2>3
  <2>6. lines \in S
    BY <2>4, <2>5
  <2> QED
    BY <2>6 DEF S
<1>2. PICK f : LoadedFrom(f, content)
  <2> HIDE DEF P
  <2> QED
    BY <1>1, LoadIs
<1>3. Load(content) \in Loads(lines)
  <2> DEFINE n == Len(lines)
  <2>1. n \in Nat
    BY <1>1
  <2>2. f \in [0 .. n -> Loads(lines)] /\ Load(content) = f[n]
    BY <1>2 DEF LoadedFrom
  <2> HIDE DEF n
  <2>3. n \in 0 .. n
    BY <2>1
  <2> QED
    BY <2>2, <2>3
<1>4. Keys \subseteq PlainKey(C)
  <2>1. \A l \in Range(lines) : l \in P
    BY <1>1 DEF Range
  <2> HIDE DEF P, lines
  <2>2. \A l \in Keyed(lines) : l \in P /\ Find(l, "=", 1) # NPos
    BY <2>1 DEF Keyed
  <2>3. \A l \in Keyed(lines) : KeyOf(l) \in PlainKey(C)
    BY <2>2, KeyIsPlain DEF P
  <2> QED
    BY <2>3
<1>5. Load(content).index \in UNION {[K -> V] : K \in SUBSET Keys}
  BY <1>3 DEF Loads
<1> QED
  BY <1>4, <1>5

(* The two keys of the property, whose index has an entry for each. *)
Both(other, x) ==
  With(With(<<>>, other, [offset |-> 9, valueSize |-> 21]), x, [offset |-> 10, valueSize |-> 0])

LEMMA BothIs ==
  ASSUME NEW other, NEW x, SizeModulus > 21
  PROVE  Both(other, x) \in [{x, other} -> Entries]
<1> DEFINE e1 == [offset |-> 9, valueSize |-> 21]  e2 == [offset |-> 10, valueSize |-> 0]
           one == With(<<>>, other, e1)
<1>1. e1 \in Entries /\ e2 \in Entries
  <2>1. {9, 21, 10, 0} \subseteq 0 .. SizeModulus - 1
    BY SizeAssumption
  <2> QED
    BY <2>1 DEF Entries
<1> HIDE DEF e1, e2
<1>2. one \in [{other} -> Entries]
  <2>1. DOMAIN <<>> = {}
    OBVIOUS
  <2> QED
    BY <1>1, <2>1 DEF With
<1> HIDE DEF one
<1>3. With(one, x, e2) \in [{x, other} -> Entries]
  BY <1>1, <1>2 DEF With
<1> QED
  BY <1>3 DEF Both, one, e1, e2

LEMMA PairIs ==
  ASSUME NEW S, NEW a \in S, NEW b \in S
  PROVE  /\ <<a, b>> \in Seq(S) /\ DOMAIN <<a, b>> = 1 .. 2 /\ Range(<<a, b>>) = {a, b}
<1>1. <<a, b>> \in Seq(S) /\ DOMAIN <<a, b>> = 1 .. 2 /\ <<a, b>>[1] = a /\ <<a, b>>[2] = b
  OBVIOUS
<1>2. \A i \in 1 .. 2 : i = 1 \/ i = 2
  OBVIOUS
<1> QED
  BY <1>1, <1>2 DEF Range

(***************************************************************************)
(* Every key typed that has neither '=' nor a line break comes back from a *)
(* snapshot, and no other does, beside another key and in either order, if *)
(* sizes can be at least as large as those that are written.               *)
(***************************************************************************)
LEMMA SnapshotOfPlainKeys ==
  ASSUME text \in Text, SizeModulus > 21
  PROVE  SnapshotKeepsPlainKeys
<1> DEFINE C == Symbol \cup {"other"}
           other == <<"other">>
           index == Both(other, text)
           clean == Range(text) \cap {"=", NL} = {}
<1>1. text \in Seq(C) /\ other \in Seq(C)
  <2>1. text \in Seq(C)
    BY SeqMonotonic DEF Text
  <2>2. other \in Seq(C)
    OBVIOUS
  <2> QED
    BY <2>1, <2>2
<1>2. other \in PlainKey(C)
  <2>1. Range(other) = {"other"}
    <3>1. DOMAIN other = {1} /\ other[1] = "other"
      OBVIOUS
    <3> QED
      BY <3>1 DEF Range
  <2>2. "other" # "=" /\ "other" # NL
    BY DEF NL
  <2> QED
    BY <1>1, <2>1, <2>2 DEF PlainKey
<1> HIDE DEF C, other
<1>3. index \in [{text, other} -> Entries]
  BY BothIs
<1>4. clean => text \in PlainKey(C)
  BY <1>1 DEF PlainKey
<1>5. ASSUME NEW keys \in {<<text, other>>, <<other, text>>}
      PROVE  clean <=> Load(FileText(keys, index)) = [threw |-> FALSE, index |-> index]
  <2>1. keys \in Seq(Seq(C)) /\ Range(keys) = {text, other} /\ DOMAIN keys = 1 .. 2
        /\ (clean => keys \in Seq(PlainKey(C)))
    <3>1. CASE keys = <<text, other>>
      BY <1>1, <1>2, <1>4, <3>1, PairIs
    <3>2. CASE keys = <<other, text>>
      BY <1>1, <1>2, <1>4, <3>2, PairIs
    <3> QED
      BY <1>5, <3>1, <3>2
  <2> HIDE DEF index
  <2>2. CASE clean
    <3>1. keys \in Seq(PlainKey(C)) /\ index \in [Range(keys) -> Entries]
      BY <1>3, <2>1, <2>2
    <3> QED
      BY <2>2, <3>1, SnapshotRoundTrip
  <2>3. CASE ~clean
    <3> DEFINE loaded == Load(FileText(keys, index))
    <3>1. \A i \in DOMAIN keys : index[keys[i]] \in Entries
      BY <1>3, <2>1 DEF Range
    <3>2. FileText(keys, index) \in Seq(Written(C))
      BY <2>1, <3>1, FileType
    <3>3. DOMAIN loaded.index \subseteq PlainKey(Written(C))
      BY <3>2, LoadedKeysArePlain
    <3>4. text \notin PlainKey(Written(C))
      BY <2>3 DEF PlainKey
    <3>5. text \in DOMAIN index
      BY <1>3
    <3> HIDE DEF loaded, clean
    <3>6. loaded # [threw |-> FALSE, index |-> index]
      BY <3>3, <3>4, <3>5
    <3> QED
      BY <2>3, <3>6 DEF loaded
  <2> QED
    BY <2>2, <2>3
<1> QED
  BY <1>5 DEF SnapshotKeepsPlainKeys, Both, other

(***************************************************************************)
(* Loading the snapshot that was written of a text and another key, in     *)
(* either order, gives both back exactly if the text has no '=' and no     *)
(* line break; the numbers beside them must be of type size_t              *)
(* (snapshot.cpp:41-55, 110-139).                                          *)
(***************************************************************************)
THEOREM SnapshotKept ==
  ASSUME SizeModulus > 21
  PROVE  Spec => []SnapshotKeepsPlainKeys
<1>1. Typed => SnapshotKeepsPlainKeys
  BY SnapshotOfPlainKeys DEF Typed
<1> QED
  BY <1>1, TypedAlways, PTL

-----------------------------------------------------------------------------
(* Trimming *)

(* The part of a sequence after a places up to place b. *)
LEMMA CutOut ==
  ASSUME NEW C, NEW x \in Seq(C), NEW a \in Nat, NEW b \in Nat, a <= b, b <= Len(x)
  PROVE  /\ SubSeq(x, a + 1, b) \in Seq(C)
         /\ Len(SubSeq(x, a + 1, b)) = b - a
         /\ \A i \in 1 .. b - a : SubSeq(x, a + 1, b)[i] = x[a + i]
<1> DEFINE n == Len(x)  m == a + 1  y == SubSeq(x, m, b)
<1>1. n \in Nat /\ \A i \in 1 .. n : x[i] \in C
  OBVIOUS
<1> HIDE DEF n
<1>2. b <= n
  BY DEF n
<1>3. /\ m \in Int /\ b \in Int
      /\ \A i \in m .. b : i \in 1 .. n
      /\ (IF m <= b THEN b - m + 1 ELSE 0) = b - a
      /\ b - m + 1 = b - a
      /\ \A i \in 1 .. b - a : m + i - 1 = a + i
  BY <1>1, <1>2
<1> HIDE DEF m
<1>4. \A i \in m .. b : x[i] \in C
  BY <1>1, <1>3
<1>5. /\ y \in Seq(C)
      /\ Len(y) = IF m <= b THEN b - m + 1 ELSE 0
      /\ \A i \in 1 .. b - m + 1 : y[i] = x[m + i - 1]
  BY <1>3, <1>4, SubSeqProperties
<1> HIDE DEF y
<1>6. Len(y) = b - a /\ \A i \in 1 .. b - a : y[i] = x[a + i]
  BY <1>3, <1>5
<1> QED
  BY <1>5, <1>6 DEF y, m

(* A sequence is the part of another that has its symbols. *)
LEMMA CutFrom ==
  ASSUME NEW C, NEW x \in Seq(C), NEW y \in Seq(C), NEW a \in Nat, NEW b \in Nat,
         Len(y) = b - a, b <= Len(x), \A i \in 1 .. b - a : y[i] = x[a + i]
  PROVE  SubSeq(x, a + 1, b) = y
<1> DEFINE n == Len(y)  m == a + 1  L == Len(x)
<1>1. n \in Nat /\ L \in Nat
  OBVIOUS
<1>2. n = b - a /\ b <= L
  OBVIOUS
<1> HIDE DEF n, L
<1>3. m \in Nat \ {0} /\ b = m + n - 1 /\ \A i \in 1 .. n : m + i - 1 = a + i /\ i \in 1 .. b - a
  BY <1>1, <1>2
<1> HIDE DEF m
<1>4. IsPart(x, m, b, y, n)
  BY <1>2, <1>3 DEF IsPart, n, L
<1>5. SubSeq(x, m, b) = y
  BY <1>3, <1>4, PartIn
<1> QED
  BY <1>5 DEF m

(* k symbols of S and no more begin the text. *)
Leads(k, s, S) ==
  /\ k \in 0 .. Len(s)
  /\ \A i \in 1 .. k : s[i] \in S
  /\ k < Len(s) => s[k + 1] \notin S

LEMMA LeadsWithout ==
  ASSUME NEW C, NEW s \in Seq(C), NEW S
  PROVE  \E k \in 0 .. Len(s) : Leads(k, s, S) /\ Without(S, s) = SubSeq(s, k + 1, Len(s))
<1> DEFINE n == Len(s)
           others == {i \in DOMAIN s : s[i] \notin S}
<1>1. n \in Nat /\ DOMAIN s = 1 .. n
  OBVIOUS
<1>2. CASE others = {}
  <2>1. Without(S, s) = <<>>
    BY <1>2 DEF Without
  <2>2. SubSeq(s, n + 1, n) = <<>>
    <3>1. n + 1 \in Int /\ n \in Int /\ n < n + 1
      BY <1>1
    <3> DEFINE m == n + 1
    <3> HIDE DEF m, n
    <3>2. SubSeq(s, m, n) = <<>>
      BY <3>1, SubSeqEmpty DEF m
    <3> QED
      BY <3>2 DEF m
  <2>3. Leads(n, s, S) /\ n \in 0 .. n
    BY <1>1, <1>2 DEF Leads
  <2> QED
    BY <2>1, <2>2, <2>3
<1>3. CASE others # {}
  <2> DEFINE a == Min(others)  k == a - 1
  <2>1. Without(S, s) = SubSeq(s, a, n)
    BY <1>3 DEF Without
  <2>2. a \in others /\ \A j \in others : a <= j
    <3>1. others \subseteq Int /\ (\A i \in others : 1 <= i)
      BY <1>1
    <3>2. \E i \in others : \A j \in others : i <= j
      <4> DEFINE p == CHOOSE i \in others : \A j \in others : i <= j
      <4>1. others \subseteq Nat
        BY <1>1
      <4> HIDE DEF others
      <4> QED
        BY <1>3, <4>1, NatMin
    <3> HIDE DEF others
    <3> QED
      BY <3>2 DEF Min
  <2>3. a \in 1 .. n /\ s[a] \notin S /\ \A i \in 1 .. n : i < a => s[i] \in S
    <3>1. a \in 1 .. n /\ s[a] \notin S
      BY <1>1, <2>2
    <3> HIDE DEF a
    <3>2. \A i \in 1 .. n : i < a => i \notin others
      <4> HIDE DEF others
      <4> QED
        BY <1>1, <2>2, <3>1
    <3> QED
      BY <1>1, <3>1, <3>2
  <2> HIDE DEF a, others, n
  <2>4. k \in 0 .. n /\ k + 1 = a /\ \A i \in 1 .. k : s[i] \in S
    BY <1>1, <2>3
  <2> HIDE DEF k
  <2>5. Leads(k, s, S)
    BY <2>3, <2>4 DEF Leads, n
  <2> QED
    BY <2>1, <2>4, <2>5 DEF n
<1> QED
  BY <1>2, <1>3

(* m symbols of a text are left when the spaces at its end are gone. *)
Trails(m, s) ==
  /\ m \in 0 .. Len(s)
  /\ \A i \in m + 1 .. Len(s) : s[i] = SP
  /\ m # 0 => s[m] # SP

LEMMA TrailsTrimmed ==
  ASSUME NEW C, NEW s \in Seq(C)
  PROVE  \E m \in 0 .. Len(s) : Trails(m, s) /\ RightTrimmed(s) = SubSeq(s, 0 + 1, m)
<1> DEFINE n == Len(s)  r == Reverse(s)
<1>1. n \in Nat /\ \A i \in 1 .. n : s[i] \in C
  OBVIOUS
<1>2. r \in Seq(C) /\ Len(r) = n /\ \A i \in 1 .. n : r[i] = s[(n - i) + 1]
  <2>1. r = [i \in 1 .. n |-> s[(n - i) + 1]]
    BY DEF Reverse
  <2> HIDE DEF n, r
  <2>2. \A i \in 1 .. n : (n - i) + 1 \in 1 .. n
    BY <1>1
  <2>3. r \in [1 .. n -> C]
    BY <1>1, <2>1, <2>2
  <2> QED
    BY <1>1, <2>1, <2>3
<1> HIDE DEF r
<1>3. PICK k \in 0 .. Len(r) : Leads(k, r, {SP}) /\ Without({SP}, r) = SubSeq(r, k + 1, Len(r))
  BY <1>2, LeadsWithout
<1> DEFINE m == n - k  y == SubSeq(r, k + 1, n)
<1> HIDE DEF n
<1>4. k \in 0 .. n /\ Leads(k, r, {SP}) /\ Without({SP}, r) = y
  BY <1>2, <1>3
<1>5. y \in Seq(C) /\ Len(y) = n - k /\ \A i \in 1 .. n - k : y[i] = r[k + i]
  <2>1. k \in Nat /\ n \in Nat /\ k <= n
    BY <1>1, <1>4
  <2> QED
    BY <1>2, <2>1, CutOut
<1> HIDE DEF y
<1>6. m \in 0 .. n
  BY <1>1, <1>4
<1>7. RightTrimmed(s) = Reverse(y)
  BY <1>4 DEF RightTrimmed, LeftTrimmed, r
<1>8. Reverse(y) = [i \in 1 .. m |-> y[(m - i) + 1]]
  BY <1>5 DEF Reverse
<1>9. ASSUME NEW i \in 1 .. m
      PROVE  y[(m - i) + 1] = s[i]
  <2> DEFINE j == (m - i) + 1  p == k + j
  <2>1. j \in 1 .. n - k /\ p \in 1 .. n /\ (n - p) + 1 = i
    BY <1>1, <1>4
  <2> HIDE DEF j
  <2>2. y[j] = r[p]
    BY <1>5, <2>1
  <2> HIDE DEF p
  <2>3. r[p] = s[i]
    BY <1>2, <2>1
  <2> QED
    BY <2>2, <2>3 DEF j
<1> HIDE DEF m
<1>10. Reverse(y) = [i \in 1 .. m |-> s[i]]
  BY <1>8, <1>9
<1>11. SubSeq(s, 0 + 1, m) = Reverse(y)
  <2> DEFINE z == [i \in 1 .. m |-> s[i]]
  <2>1. \A i \in 1 .. m : s[i] \in C
    BY <1>1, <1>6
  <2>2. z \in [1 .. m -> C] /\ m \in Nat
    BY <1>1, <1>6, <2>1
  <2>3. z \in Seq(C) /\ Len(z) = m /\ \A i \in 1 .. m : z[i] = s[i]
    BY <2>2
  <2> HIDE DEF z
  <2>4. 0 \in Nat /\ m \in Nat /\ Len(z) = m - 0 /\ m <= n
        /\ \A i \in 1 .. m - 0 : z[i] = s[0 + i]
    BY <1>1, <1>6, <2>3
  <2>5. SubSeq(s, 0 + 1, m) = z
    BY <2>3, <2>4, CutFrom DEF n
  <2> QED
    BY <1>10, <2>5 DEF z
<1>12. Trails(m, s)
  <2>1. \A i \in 1 .. k : r[i] = SP
    BY <1>4 DEF Leads
  <2>2. ASSUME NEW i \in m + 1 .. n
        PROVE  s[i] = SP
    <3> DEFINE j == (n - i) + 1
    <3>1. j \in 1 .. k /\ j \in 1 .. n /\ (n - j) + 1 = i
      BY <1>1, <1>4, <1>6 DEF m
    <3> HIDE DEF j
    <3> QED
      BY <1>2, <2>1, <3>1
  <2>3. ASSUME m # 0
        PROVE  s[m] # SP
    <3>1. k < n /\ k + 1 \in 1 .. n /\ (n - (k + 1)) + 1 = m
      BY <1>1, <1>4, <1>6, <2>3 DEF m
    <3>2. r[k + 1] # SP
      BY <1>2, <1>4, <3>1 DEF Leads
    <3> DEFINE j == k + 1
    <3> HIDE DEF j
    <3>3. r[j] # SP /\ j \in 1 .. n /\ (n - j) + 1 = m
      BY <3>1, <3>2 DEF j
    <3> QED
      BY <1>2, <3>3
  <2> QED
    BY <1>6, <2>2, <2>3 DEF Trails, n
<1> QED
  BY <1>6, <1>7, <1>11, <1>12 DEF n

-----------------------------------------------------------------------------
(* The places of a symbol, counted *)

(* How many of the places M are not after i, and the place with n of them. *)
Rank(M, i) == Cardinality({j \in M : j <= i})
At(M, n)   == CHOOSE i \in M : Rank(M, i) = n

LEMMA RankStep ==
  ASSUME NEW L \in Nat, NEW M \in SUBSET (1 .. L)
  PROVE  /\ Cardinality(M) \in Nat
         /\ Rank(M, 0) = 0
         /\ Rank(M, L) = Cardinality(M)
         /\ \A i \in 0 .. L : Rank(M, i) \in Nat
         /\ \A i \in 1 .. L : Rank(M, i) = IF i \in M THEN Rank(M, i - 1) + 1 ELSE Rank(M, i - 1)
<1> DEFINE Upto(i) == {j \in M : j <= i}
<1>0. \A j \in M : j \in Int /\ ~(j <= 0) /\ j <= L
  OBVIOUS
<1>1. IsFiniteSet(M)
  <2>1. 1 \in Int /\ L \in Int
    OBVIOUS
  <2>2. IsFiniteSet(1 .. L)
    BY <2>1, FS_Interval
  <2> QED
    BY <2>2, FS_Subset
<1>2. \A i : IsFiniteSet(Upto(i))
  <2>1. \A i : Upto(i) \in SUBSET M
    OBVIOUS
  <2> HIDE DEF Upto
  <2> QED
    BY <1>1, <2>1, FS_Subset
<1>3. Cardinality(M) \in Nat /\ \A i : Rank(M, i) \in Nat
  <2>1. \A i : Rank(M, i) = Cardinality(Upto(i))
    BY DEF Rank
  <2> HIDE DEF Upto
  <2> QED
    BY <1>1, <1>2, <2>1, FS_CardinalityType
<1>4. Rank(M, 0) = 0
  <2>1. Upto(0) = {}
    BY <1>0
  <2> QED
    BY <2>1, FS_EmptySet DEF Rank
<1>5. Rank(M, L) = Cardinality(M)
  <2>1. Upto(L) = M
    BY <1>0
  <2> QED
    BY <2>1 DEF Rank
<1>6. ASSUME NEW i \in 1 .. L
      PROVE  Rank(M, i) = IF i \in M THEN Rank(M, i - 1) + 1 ELSE Rank(M, i - 1)
  <2> DEFINE h == i - 1  A == Upto(h)  B == Upto(i)
  <2>1. \A j \in M : j \in Int /\ (j <= i <=> (j <= h \/ j = i))
    OBVIOUS
  <2>2. ~(i <= h)
    OBVIOUS
  <2> HIDE DEF h
  <2>3. CASE i \in M
    <3>1. B = A \cup {i} /\ i \notin A
      BY <2>1, <2>2, <2>3
    <3>2. IsFiniteSet(A)
      BY <1>2
    <3> HIDE DEF A, B
    <3>3. Cardinality(B) = Cardinality(A) + 1
      BY <3>1, <3>2, FS_AddElement
    <3> QED
      BY <2>3, <3>3 DEF Rank, A, B, h
  <2>4. CASE i \notin M
    <3>1. A = B
      BY <2>1, <2>4
    <3> QED
      BY <2>4, <3>1 DEF Rank, h
  <2> QED
    BY <2>3, <2>4
<1> QED
  BY <1>3, <1>4, <1>5, <1>6

(* The places are counted in order, each of them once. *)
LEMMA Ranked ==
  ASSUME NEW L \in Nat, NEW M \in SUBSET (1 .. L)
  PROVE  /\ \A n \in 1 .. Cardinality(M) : At(M, n) \in M /\ Rank(M, At(M, n)) = n
         /\ \A i \in M : Rank(M, i) \in 1 .. Cardinality(M)
         /\ \A i, j \in M : i < j => Rank(M, i) < Rank(M, j)
<1> DEFINE r == [i \in 0 .. L |-> Rank(M, i)]
           N == Cardinality(M)
<1>1. /\ N \in Nat /\ r[0] = 0 /\ r[L] = N
      /\ \A i \in 0 .. L : r[i] \in Nat
      /\ \A i \in 1 .. L : r[i] = IF i \in M THEN r[i - 1] + 1 ELSE r[i - 1]
  <2>1. 0 \in 0 .. L /\ L \in 0 .. L /\ \A i \in 1 .. L : i \in 0 .. L /\ i - 1 \in 0 .. L
    OBVIOUS
  <2> QED
    BY <2>1, RankStep
<1>2. \A i \in M : i \in 1 .. L /\ i \in 0 .. L /\ Rank(M, i) = r[i]
  OBVIOUS
<1> HIDE DEF r, N
<1>3. \A i \in 0 .. L : \A j \in 0 .. i : r[j] <= r[i]
  <2> DEFINE T == {i \in 0 .. L : \A j \in 0 .. i : r[j] <= r[i]}
  <2>1. 0 \in T
    BY <1>1
  <2>2. ASSUME NEW i \in 1 .. L, i - 1 \in T
        PROVE  i \in T
    <3>1. i \in 0 .. L /\ i - 1 \in 0 .. L
      OBVIOUS
    <3>2. r[i - 1] <= r[i] /\ r[i - 1] \in Nat /\ r[i] \in Nat
      BY <1>1, <3>1
    <3>3. ASSUME NEW j \in 0 .. i
          PROVE  r[j] <= r[i]
      <4>1. CASE j = i
        BY <3>2, <4>1
      <4>2. CASE j # i
        <5>1. j \in 0 .. i - 1 /\ j \in 0 .. L
          BY <4>2
        <5>2. r[j] <= r[i - 1] /\ r[j] \in Nat
          BY <1>1, <2>2, <5>1
        <5> QED
          BY <3>2, <5>2
      <4> QED
        BY <4>1, <4>2
    <3> QED
      BY <3>1, <3>3
  <2>3. 0 .. L \subseteq T
    <3> HIDE DEF T
    <3> QED
      BY <2>1, <2>2, CountedInduction
  <2> QED
    BY <2>3
<1>4. \A i \in 0 .. L : \A n \in 1 .. r[i] : \E j \in M : r[j] = n
  <2> DEFINE T == {i \in 0 .. L : \A n \in 1 .. r[i] : \E j \in M : r[j] = n}
  <2>1. 0 \in T
    BY <1>1
  <2>2. ASSUME NEW i \in 1 .. L, i - 1 \in T
        PROVE  i \in T
    <3>1. i \in 0 .. L /\ i - 1 \in 0 .. L
      OBVIOUS
    <3>2. r[i] = (IF i \in M THEN r[i - 1] + 1 ELSE r[i - 1]) /\ r[i - 1] \in Nat /\ r[i] \in Nat
      BY <1>1, <3>1
    <3>3. ASSUME NEW n \in 1 .. r[i]
          PROVE  \E j \in M : r[j] = n
      <4>1. CASE n \in 1 .. r[i - 1]
        BY <2>2, <4>1
      <4>2. CASE n \notin 1 .. r[i - 1]
        <5>1. i \in M /\ n = r[i]
          BY <3>2, <4>2
        <5> QED
          BY <5>1
      <4> QED
        BY <4>1, <4>2
    <3> QED
      BY <3>1, <3>3
  <2>3. 0 .. L \subseteq T
    <3> HIDE DEF T
    <3> QED
      BY <2>1, <2>2, CountedInduction
  <2> QED
    BY <2>3
<1>5. ASSUME NEW n \in 1 .. N
      PROVE  At(M, n) \in M /\ Rank(M, At(M, n)) = n
  <2>1. L \in 0 .. L
    OBVIOUS
  <2>2. \E j \in M : r[j] = n
    BY <1>1, <1>4, <2>1
  <2>3. \E j \in M : Rank(M, j) = n
    BY <1>2, <2>2
  <2> QED
    BY <2>3 DEF At
<1>6. ASSUME NEW i \in M, NEW j \in M, i < j
      PROVE  Rank(M, i) < Rank(M, j)
  <2>1. j \in 1 .. L /\ i \in 0 .. j - 1 /\ j - 1 \in 0 .. L /\ i \in 0 .. L /\ j \in 0 .. L
    BY <1>2, <1>6
  <2>2. r[j] = r[j - 1] + 1 /\ r[i] <= r[j - 1]
    BY <1>1, <1>3, <2>1
  <2>3. r[i] \in Nat /\ r[j - 1] \in Nat
    BY <1>1, <2>1
  <2>4. r[i] < r[j]
    BY <2>2, <2>3
  <2> QED
    BY <1>2, <2>4
<1>7. ASSUME NEW i \in M
      PROVE  Rank(M, i) \in 1 .. N
  <2>1. i \in 1 .. L /\ i - 1 \in 0 .. L /\ i \in 0 .. L /\ L \in 0 .. L
    BY <1>2
  <2>2. r[i] = r[i - 1] + 1 /\ r[i - 1] \in Nat /\ r[i] <= r[L]
    BY <1>1, <1>3, <2>1
  <2>3. r[i] \in 1 .. N
    BY <1>1, <2>2
  <2> QED
    BY <1>2, <2>3
<1> QED
  BY <1>5, <1>6, <1>7 DEF N

(* Between a place and the next there is none. *)
LEMMA NextAt ==
  ASSUME NEW L \in Nat, NEW M \in SUBSET (1 .. L), NEW m \in 0 .. Cardinality(M)
  PROVE  LET after == IF m = 0 THEN 0 ELSE At(M, m)
         IN  /\ m < Cardinality(M) =>
                  /\ At(M, m + 1) \in M /\ after < At(M, m + 1)
                  /\ \A i \in M : i < At(M, m + 1) => i <= after
             /\ m = Cardinality(M) => \A i \in M : i <= after
<1> DEFINE N == Cardinality(M)
           after == IF m = 0 THEN 0 ELSE At(M, m)
           p == At(M, m + 1)
<1>1. /\ \A n \in 1 .. N : At(M, n) \in M /\ Rank(M, At(M, n)) = n
      /\ \A i \in M : Rank(M, i) \in 1 .. N
      /\ \A i, j \in M : i < j => Rank(M, i) < Rank(M, j)
  BY Ranked
<1>2. N \in Nat /\ m \in Nat
  BY RankStep
<1>3. \A i \in M : i \in Nat /\ 0 < i
  OBVIOUS
<1>4. m = 0 \/ (after \in M /\ Rank(M, after) = m)
  <2> HIDE DEF N
  <2>1. m # 0 => m \in 1 .. N
    BY <1>2 DEF N
  <2> QED
    BY <1>1, <2>1
<1>5. ASSUME m < N
      PROVE  p \in M /\ Rank(M, p) = m + 1
  <2> HIDE DEF N
  <2>1. m + 1 \in 1 .. N
    BY <1>2, <1>5
  <2> QED
    BY <1>1, <2>1
<1> HIDE DEF N, p
<1>6. m = 0 => after = 0
  OBVIOUS
<1>7. m \in 0 .. N
  BY DEF N
<1> HIDE DEF after
<1>8. ASSUME NEW i \in M, Rank(M, i) <= m
      PROVE  i <= after
  <2>1. Rank(M, i) \in Nat /\ 1 <= Rank(M, i)
    BY <1>1, <1>2
  <2>2. m # 0
    BY <1>2, <1>8, <2>1
  <2>3. after \in M /\ Rank(M, after) = m
    BY <1>4, <2>2
  <2>4. ~(after < i)
    BY <1>1, <1>2, <1>8, <2>1, <2>3
  <2> QED
    BY <1>3, <2>3, <2>4
<1>9. ASSUME m < N
      PROVE  /\ p \in M /\ after < p
             /\ \A i \in M : i < p => i <= after
  <2>1. p \in M /\ Rank(M, p) = m + 1
    BY <1>5, <1>9
  <2>2. after < p
    <3>1. CASE m = 0
      BY <1>3, <1>6, <2>1, <3>1
    <3>2. CASE after \in M /\ Rank(M, after) = m
      <4>1. ~(p < after) /\ p # after
        BY <1>1, <1>2, <2>1, <3>2
      <4> QED
        BY <1>3, <2>1, <3>2, <4>1
    <3> QED
      BY <1>4, <3>1, <3>2
  <2>3. ASSUME NEW i \in M, i < p
        PROVE  i <= after
    <3>1. Rank(M, i) < Rank(M, p) /\ Rank(M, i) \in Nat
      BY <1>1, <1>2, <2>1, <2>3
    <3>2. Rank(M, i) <= m
      BY <1>2, <2>1, <3>1
    <3> QED
      BY <1>8, <3>2
  <2> QED
    BY <2>1, <2>2, <2>3
<1>10. ASSUME m = N, NEW i \in M
       PROVE  i <= after
  <2>1. Rank(M, i) <= m
    BY <1>1, <1>2, <1>10
  <2> QED
    BY <1>8, <2>1
<1> QED
  BY <1>9, <1>10 DEF N, p, after

-----------------------------------------------------------------------------
(* The arguments of a line *)

(* The arguments from each place on. *)
ArgumentsFrom(g, x) ==
  /\ g \in [1 .. Len(x) + 1 -> Seq(Text)]
  /\ Quoted(x) = g[1]
  /\ \A pos \in 1 .. Len(x) + 1 :
       LET start == Find(x, QT, pos)
           end   == Find(x, QT, start + 1)
       IN  IF NPos \in {start, end} \/ end = start + 1 THEN g[pos] = <<>>
           ELSE g[pos] = <<SubSeq(x, start + 1, end - 1)>> \o g[end + 1]

LEMMA ArgumentsAre ==
  ASSUME NEW x \in Text
  PROVE  \E g : ArgumentsFrom(g, x)
<1> DEFINE L == Len(x)
           D == 1 .. L + 1
           S == Seq(Text)
           Start(pos) == Find(x, QT, pos)
           End(pos) == Find(x, QT, Start(pos) + 1)
           Piece(pos) == SubSeq(x, Start(pos) + 1, End(pos) - 1)
           Ends(pos) == NPos \in {Start(pos), End(pos)} \/ End(pos) = Start(pos) + 1
           Def(f, pos) == IF Ends(pos) THEN <<>> ELSE <<Piece(pos)>> \o f[End(pos) + 1]
           found == CHOOSE f : f = [pos \in D |-> Def(f, pos)]
           Stop == {pos \in D : Ends(pos)}
           before == [pos \in D |-> IF pos \in Stop THEN pos ELSE End(pos) + 1]
           rank == [pos \in D |-> (L + 1) - pos]
           base == [pos \in D |-> <<>>]
           step == [pos \in D |-> [s \in S |-> IF pos \in Stop THEN s ELSE <<Piece(pos)>> \o s]]
<1>1. Quoted(x) = found[1]
  BY DEF Quoted
<1>2. L \in Nat
  BY DEF Text
<1>3. ASSUME NEW pos \in D, ~Ends(pos)
      PROVE  /\ End(pos) \in Nat /\ pos <= End(pos) /\ End(pos) + 1 \in D
             /\ Piece(pos) \in Text
  <2> DEFINE a == Start(pos)  b == End(pos)  from == a + 1
  <2>1. pos \in Nat \ {0}
    BY <1>2
  <2>2. a # NPos /\ b # NPos
    BY <1>3
  <2>3. a \in pos .. L
    BY <2>1, <2>2, FindFirst
  <2> HIDE DEF a
  <2>4. from \in Nat \ {0} /\ b = Find(x, QT, from)
    <3>1. b = Find(x, QT, from)
      BY DEF a
    <3> HIDE DEF b
    <3> QED
      BY <2>1, <2>3, <3>1
  <2> HIDE DEF from, b
  <2>5. b \in from .. L
    BY <2>2, <2>4, FindFirst
  <2> DEFINE c == b - 1
  <2>6. a \in Nat /\ c \in Nat /\ a <= c /\ c <= L
        /\ b \in Nat /\ pos <= b /\ b + 1 \in D
    BY <1>2, <2>1, <2>3, <2>5 DEF from
  <2> HIDE DEF c, L
  <2>7. SubSeq(x, a + 1, c) \in Seq(Symbol)
    BY <2>6, CutOut DEF Text, L
  <2> QED
    BY <2>6, <2>7 DEF a, b, c, Text
<1>4. \A s \in S, r \in Text : <<r>> \o s \in S
  <2>1. \A r \in Text : <<r>> \in S
    OBVIOUS
  <2> QED
    BY <2>1, ConcatProperties
<1>5. <<>> \in S
  OBVIOUS
<1> HIDE DEF L, S, End, Piece, Ends
<1>6. Recursive(D, S, L, rank, Stop, base, before, step)
  <2>1. rank \in [D -> 0 .. L] /\ base \in [D -> S]
    BY <1>2, <1>5
  <2>2. before \in [D -> D]
    <3>1. \A pos \in D : pos \notin Stop => End(pos) + 1 \in D
      BY <1>3
    <3> HIDE DEF D, Stop
    <3> QED
      BY <3>1
  <2>3. step \in [D -> [S -> S]]
    <3>1. \A pos \in D : pos \notin Stop => Piece(pos) \in Text
      BY <1>3
    <3> HIDE DEF D, Stop
    <3> QED
      BY <1>4, <3>1
  <2>4. ASSUME NEW pos \in D, pos \notin Stop
        PROVE  rank[before[pos]] < rank[pos]
    <3>1. before[pos] = End(pos) + 1 /\ before[pos] \in D /\ pos <= End(pos) /\ End(pos) \in Nat
      BY <1>3, <2>4
    <3>2. rank[pos] = (L + 1) - pos /\ rank[before[pos]] = (L + 1) - before[pos]
      BY <3>1
    <3>3. pos \in Nat
      BY <1>2
    <3> HIDE DEF before, rank, Stop, D
    <3> QED
      BY <1>2, <3>1, <3>2, <3>3
  <2> HIDE DEF D, rank, Stop, base, before, step
  <2> QED
    BY <1>2, <2>1, <2>2, <2>3, <2>4 DEF Recursive
<1>7. ASSUME NEW f, NEW pos \in D
      PROVE  /\ pos \in Stop => Def(f, pos) = base[pos]
             /\ pos \notin Stop /\ f[before[pos]] \in S => Def(f, pos) = step[pos][f[before[pos]]]
  <2>1. CASE pos \in Stop
    BY <2>1
  <2>2. CASE pos \notin Stop
    <3>1. ~Ends(pos) /\ before[pos] = End(pos) + 1
      BY <2>2
    <3> HIDE DEF D, before, Stop
    <3> QED
      BY <2>2, <3>1
  <2> QED
    BY <2>1, <2>2
<1>8. PICK h \in [D -> S] : \A d \in D : h[d] = IF d \in Stop THEN base[d] ELSE step[d][h[before[d]]]
  <2> HIDE DEF D, rank, Stop, base, before, step
  <2> QED
    BY <1>6, Recursion
<1>9. before \in [D -> D]
  <2> HIDE DEF D, rank, Stop, base, before, step
  <2> QED
    BY <1>6 DEF Recursive
<1> HIDE DEF Def, D, rank, Stop, base, before, step
<1>10. h = [pos \in D |-> Def(h, pos)]
  <2>1. \A pos \in D : h[pos] = Def(h, pos)
    BY <1>7, <1>8, <1>9
  <2> QED
    BY <1>8, <2>1
<1>11. found = [pos \in D |-> Def(found, pos)]
  BY <1>10
<1> HIDE DEF found
<1>12. \A pos \in D : found[pos] = Def(found, pos)
  BY <1>11
<1>13. \A pos \in D : found[pos] \in S
  <2>1. \A pos \in D :
          /\ pos \in Stop => found[pos] = base[pos]
          /\ pos \notin Stop /\ found[before[pos]] \in S =>
               found[pos] = step[pos][found[before[pos]]]
    BY <1>7, <1>12
  <2> QED
    BY <1>6, <2>1, Recurs
<1>14. found \in [D -> S]
  BY <1>11, <1>13
<1>15. \A pos \in D : IF Ends(pos) THEN found[pos] = <<>>
                      ELSE found[pos] = <<Piece(pos)>> \o found[End(pos) + 1]
  BY <1>12 DEF Def
<1> QED
  BY <1>1, <1>14, <1>15 DEF ArgumentsFrom, Ends, D, S, End, Piece, L

(* Where the quotation marks of a text are. *)
Marks(s) == {i \in DOMAIN s : s[i] = QT}

(* x is s from its place k on, and no mark is before. *)
RestAfter(x, s, k) ==
  /\ k \in 0 .. Len(s)
  /\ x \in Text /\ Len(x) = Len(s) - k
  /\ \A i \in 1 .. Len(s) - k : x[i] = s[k + i]
  /\ \A i \in 1 .. k : s[i] # QT

(* Where the search for the mark after the m-th begins. *)
Behind(s, k, m) == IF m = 0 THEN 1 ELSE (At(Marks(s), m) - k) + 1

LEMMA NextMark ==
  ASSUME NEW s \in Text, NEW x, NEW k, RestAfter(x, s, k),
         NEW m \in 0 .. Cardinality(Marks(s))
  PROVE  /\ Behind(s, k, m) \in 1 .. Len(x) + 1
         /\ m = Cardinality(Marks(s)) => Find(x, QT, Behind(s, k, m)) = NPos
         /\ m < Cardinality(Marks(s)) =>
              /\ Find(x, QT, Behind(s, k, m)) = At(Marks(s), m + 1) - k
              /\ At(Marks(s), m + 1) \in k + 1 .. Len(s)
              /\ Behind(s, k, m) <= At(Marks(s), m + 1) - k
              /\ Find(x, QT, Behind(s, k, m)) # NPos
<1> DEFINE L == Len(s)  l == Len(x)  M == Marks(s)  N == Cardinality(M)
           after == IF m = 0 THEN 0 ELSE At(M, m)
           p == At(M, m + 1)
           from == Behind(s, k, m)
<1>1. L \in Nat /\ DOMAIN s = 1 .. L
  BY DEF Text
<1>2. k \in 0 .. L /\ x \in Text /\ l = L - k
      /\ (\A i \in 1 .. L - k : x[i] = s[k + i]) /\ \A i \in 1 .. k : s[i] # QT
  BY DEF RestAfter
<1>3. \A i : i \in M <=> i \in 1 .. L /\ s[i] = QT
  BY <1>1 DEF Marks
<1>4. M \in SUBSET (1 .. L)
  BY <1>3
<1>5. N \in Nat /\ m \in 0 .. N
  BY <1>1, <1>4, RankStep
<1>6. /\ m < N => p \in M /\ after < p /\ \A i \in M : i < p => i <= after
      /\ m = N => \A i \in M : i <= after
  BY <1>1, <1>4, NextAt
<1>7. m # 0 => after \in M
  <2>1. m # 0 => m \in 1 .. N
    <3> HIDE DEF N
    <3> QED
      BY <1>5
  <2> QED
    BY <1>1, <1>4, <2>1, Ranked
<1>8. from = IF m = 0 THEN 1 ELSE (after - k) + 1
  BY DEF Behind
<1>12. m = 0 => after = 0
  OBVIOUS
<1> HIDE DEF L, l, N, p, from, after
<1>9. \A i \in M : i \in k + 1 .. L
  BY <1>1, <1>2, <1>3
<1> HIDE DEF M
<1>10. from \in 1 .. l + 1 /\ \A i \in 1 .. L - k : from <= i <=> after < k + i
  <2>1. CASE m = 0
    BY <1>1, <1>2, <1>8, <1>12, <2>1
  <2>2. CASE m # 0
    <3>1. after \in k + 1 .. L
      BY <1>7, <1>9, <2>2
    <3> QED
      BY <1>1, <1>2, <1>8, <2>2, <3>1
  <2> QED
    BY <2>1, <2>2
<1>11. from \in Nat \ {0}
  BY <1>1, <1>2, <1>10
<1>13. ASSUME m = N
       PROVE  Find(x, QT, from) = NPos
  <2> DEFINE q == Find(x, QT, from)
  <2>1. q = NPos \/ (q \in from .. l /\ x[q] = QT)
    BY <1>2, <1>11, FindFirst DEF l
  <2> HIDE DEF q
  <2>2. ASSUME q \in from .. l, x[q] = QT
        PROVE  FALSE
    <3> DEFINE j == k + q
    <3>1. q \in 1 .. L - k /\ j \in 1 .. L /\ after < j /\ j \in Int
      BY <1>1, <1>2, <1>10, <2>2
    <3>2. s[j] = QT
      BY <1>2, <2>2, <3>1
    <3> HIDE DEF j
    <3>3. j \in M
      BY <1>3, <3>1, <3>2
    <3>4. j <= after
      BY <1>6, <1>13, <3>3
    <3>5. after \in Int
      BY <1>1, <1>2, <1>7, <1>9, <1>12
    <3> QED
      BY <3>1, <3>4, <3>5
  <2> QED
    BY <2>1, <2>2 DEF q
<1>14. ASSUME m < N
       PROVE  /\ Find(x, QT, from) = p - k
              /\ p \in k + 1 .. L
              /\ from <= p - k
              /\ p - k # NPos
  <2> DEFINE q == p - k
  <2>1. p \in M /\ after < p /\ p \in k + 1 .. L
    BY <1>6, <1>9, <1>14
  <2>2. q \in 1 .. L - k /\ k + q = p /\ q # NPos
    BY <1>1, <1>2, <2>1 DEF NPos
  <2> HIDE DEF q
  <2>3. from <= q
    <3>1. after < k + q
      BY <2>1, <2>2
    <3> QED
      BY <1>10, <2>2, <3>1
  <2>4. q \in from .. l
    BY <1>1, <1>2, <1>10, <2>2, <2>3
  <2>5. x[q] = QT
    <3>1. s[p] = QT
      BY <1>3, <2>1
    <3> QED
      BY <1>2, <2>2, <3>1
  <2>6. ASSUME NEW i \in from .. q - 1
        PROVE  x[i] # QT
    <3> DEFINE j == k + i
    <3>1. i \in 1 .. L - k /\ j \in 1 .. L /\ j < p /\ after < j
      BY <1>1, <1>2, <1>10, <2>2, <2>4
    <3> HIDE DEF j
    <3>2. j \notin M
      <4>1. after \in Int
        BY <1>1, <1>2, <1>7, <1>9, <1>12
      <4>2. ~(j <= after)
        BY <3>1, <4>1
      <4> QED
        BY <1>6, <1>14, <3>1, <4>2
    <3>3. s[j] # QT
      BY <1>3, <3>1, <3>2
    <3> QED
      BY <1>2, <3>1, <3>3 DEF j
  <2>7. IsFirst(x, QT, from, q)
    BY <2>4, <2>5, <2>6 DEF IsFirst, l
  <2>8. Find(x, QT, from) = q
    BY <1>2, <1>11, <2>7, PlaceIn DEF Text
  <2> QED
    BY <2>1, <2>2, <2>3, <2>8 DEF q
<1> QED
  BY <1>10, <1>13, <1>14 DEF from, N, p, l, L, M

(* How many come before the first that is not good. *)
LEMMA CountIs ==
  ASSUME NEW P \in Nat, NEW Good
  PROVE  LET c == Cardinality({n \in 1 .. P : \A m \in 1 .. n : m \in Good})
         IN  c \in 0 .. P /\ (\A m \in 1 .. c : m \in Good) /\ (c < P => c + 1 \notin Good)
<1> DEFINE I(i) == {n \in 1 .. i : \A m \in 1 .. n : m \in Good}
           Is(i, c) == I(i) = 1 .. c /\ (\A m \in 1 .. c : m \in Good) /\ (c < i => c + 1 \notin Good)
           T == {i \in 0 .. P : \E c \in 0 .. i : Is(i, c)}
<1>1. 0 \in T
  <2>1. 0 \in 0 .. P /\ 0 \in 0 .. 0 /\ ~(0 < 0)
    OBVIOUS
  <2>2. 1 .. 0 = {} /\ I(0) = {}
    OBVIOUS
  <2>3. Is(0, 0)
    <3> HIDE DEF I
    <3> QED
      BY <2>1, <2>2
  <2> HIDE DEF Is
  <2> QED
    BY <2>1, <2>3
<1>2. ASSUME NEW i \in 1 .. P, i - 1 \in T
      PROVE  i \in T
  <2> DEFINE h == i - 1
  <2>1. h \in Nat /\ i = h + 1 /\ i \in 0 .. P
    OBVIOUS
  <2>2. PICK c \in 0 .. h : Is(h, c)
    BY <1>2
  <2> HIDE DEF h
  <2>3. c \in Nat /\ c <= h
    BY <2>1
  <2>4. CASE c = h /\ i \in Good
    <3>1. \A m \in 1 .. i : m \in Good
      <4>1. \A m \in 1 .. i : m \in 1 .. c \/ m = i
        BY <2>1, <2>4
      <4> QED
        BY <2>2, <2>4, <4>1
    <3>2. I(i) = 1 .. i
      <4>1. \A n \in 1 .. i : \A m \in 1 .. n : m \in 1 .. i
        BY <2>1
      <4> QED
        BY <3>1, <4>1
    <3>3. ~(i < i) /\ i \in 0 .. i
      BY <2>1
    <3>4. Is(i, i)
      BY <3>1, <3>2, <3>3
    <3> HIDE DEF Is
    <3> QED
      BY <2>1, <3>3, <3>4
  <2>5. CASE ~(c = h /\ i \in Good)
    <3>1. c \in 0 .. i /\ c < i /\ c + 1 \in Nat /\ 1 <= c + 1
      BY <2>1, <2>3
    <3>2. c + 1 \notin Good
      <4>1. CASE c = h
        BY <2>1, <2>5, <4>1
      <4>2. CASE c < h
        BY <2>2, <4>2
      <4> QED
        BY <2>1, <2>3, <4>1, <4>2
    <3>3. I(i) = 1 .. c
      <4>1. ASSUME NEW n \in I(i)
            PROVE  n \in 1 .. c
        <5>1. n \in 1 .. i /\ \A m \in 1 .. n : m \in Good
          OBVIOUS
        <5>2. ~(c + 1 \in 1 .. n)
          BY <3>2, <5>1
        <5> HIDE DEF I
        <5> QED
          BY <2>1, <2>3, <5>1, <5>2
      <4>2. ASSUME NEW n \in 1 .. c
            PROVE  n \in I(i)
        <5>1. n \in 1 .. i /\ \A m \in 1 .. n : m \in 1 .. c
          BY <2>1, <2>3
        <5> QED
          BY <2>2, <5>1
      <4> HIDE DEF I
      <4> QED
        BY <4>1, <4>2
    <3>4. Is(i, c)
      <4> HIDE DEF I
      <4> QED
        BY <2>2, <3>2, <3>3
    <3> HIDE DEF Is
    <3> QED
      BY <2>1, <3>1, <3>4
  <2> QED
    BY <2>4, <2>5
<1>3. P \in T
  <2>1. 0 .. P \subseteq T
    <3> HIDE DEF T
    <3> QED
      BY <1>1, <1>2, CountedInduction
  <2>2. P \in 0 .. P
    OBVIOUS
  <2> HIDE DEF T
  <2> QED
    BY <2>1, <2>2
<1>4. PICK c \in 0 .. P : Is(P, c)
  BY <1>3
<1>5. Cardinality(1 .. c) = c
  <2>1. 1 \in Int /\ c \in Int /\ c = (IF 1 > c THEN 0 ELSE c - 1 + 1)
    OBVIOUS
  <2> QED
    BY <2>1, FS_Interval
<1>6. Cardinality(I(P)) = c
  <2> HIDE DEF I
  <2> QED
    BY <1>4, <1>5
<1> HIDE DEF I
<1> QED
  BY <1>4, <1>6 DEF I

(* The n-th quoted part of a text. *)
PartOf(s, n) == SubSeq(s, At(Marks(s), 2 * n - 1) + 1, At(Marks(s), 2 * n) - 1)

(* The arguments end at place pos, or a part begins there and the rest is at next. *)
EndsAt(x, pos) ==
  LET start == Find(x, QT, pos)
      end   == Find(x, QT, start + 1)
  IN  NPos \in {start, end} \/ end = start + 1

PartAt(x, pos, part, next) ==
  LET start == Find(x, QT, pos)
      end   == Find(x, QT, start + 1)
  IN  part = SubSeq(x, start + 1, end - 1) /\ next = end + 1

LEMMA PairRead ==
  ASSUME NEW s \in Text, NEW x, NEW k, RestAfter(x, s, k), NEW n \in Nat,
         2 * n + 2 <= Cardinality(Marks(s))
  PROVE  /\ PartOf(s, n + 1) \in Text
         /\ PartOf(s, n + 1) = <<>> <=> EndsAt(x, Behind(s, k, 2 * n))
         /\ PartAt(x, Behind(s, k, 2 * n), PartOf(s, n + 1), Behind(s, k, 2 * (n + 1)))
<1> DEFINE L == Len(s)  M == Marks(s)  N == Cardinality(M)
           m == 2 * n  m1 == 2 * n + 1  m2 == 2 * n + 2
           a == At(M, m1)  b == At(M, m2)
           start == a - k  end == b - k
           pos == Behind(s, k, m)
           c == b - 1
           part == SubSeq(s, a + 1, c)
<1>1. L \in Nat /\ k \in 0 .. L /\ x \in Text /\ Len(x) = L - k
      /\ \A i \in 1 .. L - k : x[i] = s[k + i]
  BY DEF RestAfter, Text
<1>2. N \in Nat
  <2>1. L \in Nat /\ M \in SUBSET (1 .. L)
    BY DEF Marks, Text
  <2> HIDE DEF L, M
  <2> QED
    BY <2>1, RankStep
<1>3. m \in 0 .. N /\ m < N /\ m1 \in 0 .. N /\ m1 < N /\ m1 # 0 /\ m2 # 0
      /\ m + 1 = m1 /\ m1 + 1 = m2 /\ 2 * (n + 1) = m2 /\ 2 * (n + 1) - 1 = m1
  <2>1. m2 <= N
    OBVIOUS
  <2> HIDE DEF N
  <2> QED
    BY <1>2, <2>1
<1>4. PartOf(s, n + 1) = part
  <2> HIDE DEF m1, m2
  <2> QED
    BY <1>3 DEF PartOf
<1> HIDE DEF m, m1, m2, M, N, L
<1>5. Find(x, QT, pos) = start /\ a \in k + 1 .. L /\ start # NPos
  <2>1. m \in 0 .. Cardinality(Marks(s)) /\ m < Cardinality(Marks(s))
    BY <1>3 DEF N, M
  <2>2. /\ Find(x, QT, Behind(s, k, m)) = At(Marks(s), m + 1) - k
        /\ At(Marks(s), m + 1) \in k + 1 .. Len(s)
        /\ Find(x, QT, Behind(s, k, m)) # NPos
    BY <2>1, NextMark
  <2> QED
    BY <1>3, <2>2 DEF M, L
<1>6. Behind(s, k, m1) = start + 1 /\ Behind(s, k, m2) = end + 1
  BY <1>3 DEF Behind, M
<1>7. Find(x, QT, start + 1) = end /\ b \in k + 1 .. L /\ end # NPos /\ start + 1 <= end
  <2>1. m1 \in 0 .. Cardinality(Marks(s)) /\ m1 < Cardinality(Marks(s))
    BY <1>3 DEF N, M
  <2>2. /\ Find(x, QT, Behind(s, k, m1)) = At(Marks(s), m1 + 1) - k
        /\ At(Marks(s), m1 + 1) \in k + 1 .. Len(s)
        /\ Behind(s, k, m1) <= At(Marks(s), m1 + 1) - k
        /\ Find(x, QT, Behind(s, k, m1)) # NPos
    BY <2>1, NextMark
  <2> QED
    BY <1>3, <1>6, <2>2 DEF M, L
<1>8. PartAt(x, pos, SubSeq(x, start + 1, end - 1), end + 1)
  <2> HIDE DEF start, end, pos
  <2> QED
    BY <1>5, <1>7 DEF PartAt
<1>9. EndsAt(x, pos) <=> end = start + 1
  <2> HIDE DEF start, end, pos
  <2> QED
    BY <1>5, <1>7 DEF EndsAt
<1> HIDE DEF pos, a, b
<1>10. /\ a \in Nat /\ c \in Nat /\ a <= c /\ c <= L
       /\ start \in Nat /\ end - 1 \in Nat /\ end - 1 <= L - k
       /\ c - a = (end - 1) - start /\ start <= end - 1
       /\ \A i \in 1 .. c - a : start + i \in 1 .. L - k /\ k + (start + i) = a + i
       /\ (end = start + 1 <=> c - a = 0)
  BY <1>1, <1>5, <1>7
<1> HIDE DEF c, start, end
<1>11. /\ part \in Seq(Symbol) /\ Len(part) = c - a
       /\ \A i \in 1 .. c - a : part[i] = s[a + i]
  BY <1>10, CutOut DEF L, Text
<1> HIDE DEF part
<1>12. SubSeq(x, start + 1, end - 1) = part
  <2> DEFINE e == end - 1
  <2>1. Len(part) = e - start /\ e \in Nat /\ start \in Nat
    BY <1>10, <1>11
  <2>2. \A i \in 1 .. e - start : part[i] = x[start + i]
    BY <1>1, <1>10, <1>11
  <2>3. e <= Len(x)
    BY <1>1, <1>10
  <2> HIDE DEF e
  <2>4. SubSeq(x, start + 1, e) = part
    BY <1>1, <1>11, <2>1, <2>2, <2>3, CutFrom DEF Text
  <2> QED
    BY <2>4 DEF e
<1>13. part = <<>> <=> end = start + 1
  <2>1. part = <<>> <=> Len(part) = 0
    BY <1>11
  <2> QED
    BY <1>10, <1>11, <2>1
<1>14. part \in Text
  BY <1>11 DEF Text
<1>15. PartOf(s, n + 1) = <<>> <=> EndsAt(x, Behind(s, k, 2 * n))
  BY <1>4, <1>9, <1>13 DEF pos, m
<1>16. PartAt(x, Behind(s, k, 2 * n), PartOf(s, n + 1), Behind(s, k, 2 * (n + 1)))
  BY <1>3, <1>4, <1>6, <1>8, <1>12 DEF pos, m
<1> QED
  BY <1>4, <1>14, <1>15, <1>16

Pairs(s) == Cardinality(Marks(s)) \div 2

(* How many parts come before the first that is empty. *)
PartsOf(s) == Cardinality({n \in 1 .. Pairs(s) : \A m \in 1 .. n : PartOf(s, m) # <<>>})

LEMMA PartsOfIs ==
  ASSUME NEW s \in Text
  PROVE  /\ Cardinality(Marks(s)) \in Nat /\ Pairs(s) \in Nat
         /\ 2 * Pairs(s) <= Cardinality(Marks(s)) /\ Cardinality(Marks(s)) <= 2 * Pairs(s) + 1
         /\ PartsOf(s) \in 0 .. Pairs(s)
         /\ \A m \in 1 .. PartsOf(s) : PartOf(s, m) # <<>>
         /\ PartsOf(s) < Pairs(s) => PartOf(s, PartsOf(s) + 1) = <<>>
<1> DEFINE L == Len(s)  M == Marks(s)  N == Cardinality(M)  P == N \div 2
           Good == {m \in 1 .. P : PartOf(s, m) # <<>>}
           I == {n \in 1 .. P : \A m \in 1 .. n : m \in Good}
           c == Cardinality(I)
<1>1. N \in Nat
  <2>1. L \in Nat /\ M \in SUBSET (1 .. L)
    BY DEF Marks, Text
  <2> HIDE DEF L, M
  <2> QED
    BY <2>1, RankStep
<1> HIDE DEF N
<1>2. P \in Nat /\ 2 * P <= N /\ N <= 2 * P + 1
  BY <1>1
<1>3. P = Pairs(s)
  BY DEF Pairs, N
<1> HIDE DEF P
<1>4. c \in 0 .. P /\ (\A m \in 1 .. c : m \in Good) /\ (c < P => c + 1 \notin Good)
  <2> HIDE DEF Good
  <2> QED
    BY <1>2, CountIs
<1>5. I = {n \in 1 .. P : \A m \in 1 .. n : PartOf(s, m) # <<>>}
  <2>1. \A n \in 1 .. P : \A m \in 1 .. n : m \in 1 .. P
    BY <1>2
  <2> QED
    BY <2>1
<1>6. c = PartsOf(s)
  <2> HIDE DEF I
  <2> QED
    BY <1>3, <1>5 DEF PartsOf
<1> HIDE DEF c, I
<1>7. ASSUME c < P
      PROVE  PartOf(s, c + 1) = <<>>
  <2>1. c + 1 \in 1 .. P
    BY <1>2, <1>4, <1>7
  <2> QED
    BY <1>4, <1>7, <2>1
<1> QED
  BY <1>1, <1>2, <1>3, <1>4, <1>6, <1>7 DEF N

FirstParts(s, n) == [m \in 1 .. n |-> PartOf(s, m)]

LEMMA QuotedIs ==
  ASSUME NEW s \in Text, NEW x, NEW k, RestAfter(x, s, k)
  PROVE  Quoted(x) = FirstParts(s, PartsOf(s))
<1> DEFINE N == Cardinality(Marks(s))  P == Pairs(s)  c == PartsOf(s)
           S == Seq(Text)
           B(n) == Behind(s, k, 2 * n)
           Part(n) == PartOf(s, n)
           F(n) == FirstParts(s, n)
<1>1. /\ N \in Nat /\ P \in Nat /\ 2 * P <= N /\ N <= 2 * P + 1
      /\ c \in 0 .. P
      /\ \A m \in 1 .. c : Part(m) # <<>>
      /\ c < P => Part(c + 1) = <<>>
  BY PartsOfIs
<1>2. x \in Text
  BY DEF RestAfter
<1>3. PICK g : ArgumentsFrom(g, x)
  BY <1>2, ArgumentsAre
<1>4. ASSUME NEW pos \in 1 .. Len(x) + 1
      PROVE  /\ g[pos] \in S
             /\ EndsAt(x, pos) => g[pos] = <<>>
             /\ \A part, next : PartAt(x, pos, part, next) /\ ~EndsAt(x, pos) =>
                  g[pos] = <<part>> \o g[next]
  <2> DEFINE D == 1 .. Len(x) + 1
  <2>1. g[pos] \in S
    <3>1. g \in [D -> S] /\ pos \in D
      BY <1>3 DEF ArgumentsFrom
    <3> HIDE DEF D, S
    <3> QED
      BY <3>1
  <2> DEFINE start == Find(x, QT, pos)
             end   == Find(x, QT, start + 1)
  <2>2. IF NPos \in {start, end} \/ end = start + 1 THEN g[pos] = <<>>
        ELSE g[pos] = <<SubSeq(x, start + 1, end - 1)>> \o g[end + 1]
    BY <1>3 DEF ArgumentsFrom
  <2>3. EndsAt(x, pos) <=> (NPos \in {start, end} \/ end = start + 1)
    BY DEF EndsAt
  <2>4. \A part, next : PartAt(x, pos, part, next) <=>
          part = SubSeq(x, start + 1, end - 1) /\ next = end + 1
    BY DEF PartAt
  <2> HIDE DEF start, end, S
  <2> QED
    BY <2>1, <2>2, <2>3, <2>4
<1>5. ASSUME NEW n \in Nat, 2 * n <= N
      PROVE  B(n) \in 1 .. Len(x) + 1
  <2> DEFINE m == 2 * n
  <2>1. m \in 0 .. N
    <3> HIDE DEF N
    <3> QED
      BY <1>1, <1>5
  <2> HIDE DEF m
  <2> QED
    BY <2>1, NextMark DEF m
<1>6. ASSUME NEW n \in Nat, 2 * n + 2 <= N
      PROVE  /\ Part(n + 1) \in Text
             /\ Part(n + 1) = <<>> <=> EndsAt(x, B(n))
             /\ PartAt(x, B(n), Part(n + 1), B(n + 1))
  BY <1>6, PairRead
<1> HIDE DEF N, P, c, B, Part
<1>7. \A n \in 1 .. c : Part(n) \in Text
  <2> SUFFICES ASSUME NEW n \in 1 .. c
               PROVE  Part(n) \in Text
    OBVIOUS
  <2> DEFINE h == n - 1
  <2>1. h \in Nat /\ 2 * h + 2 <= N /\ h + 1 = n
    BY <1>1
  <2> HIDE DEF h
  <2> QED
    BY <1>6, <2>1
<1>8. \A n \in 0 .. c : F(n) \in S
  <2> SUFFICES ASSUME NEW n \in 0 .. c
               PROVE  F(n) \in S
    OBVIOUS
  <2>1. \A m \in 1 .. n : m \in 1 .. c
    BY <1>1
  <2>2. F(n) = [m \in 1 .. n |-> Part(m)]
    BY DEF FirstParts, Part
  <2> HIDE DEF F
  <2>3. F(n) \in [1 .. n -> Text]
    BY <1>7, <2>1, <2>2
  <2>4. n \in Nat
    BY <1>1
  <2> QED
    BY <2>3, <2>4
<1> DEFINE T == {n \in 0 .. c : g[1] = F(n) \o g[B(n)]}
<1>9. 0 \in T
  <2>1. B(0) = 1
    BY DEF B, Behind
  <2>2. F(0) = <<>>
    <3>1. 1 .. 0 = {}
      OBVIOUS
    <3>2. [m \in {} |-> PartOf(s, m)] = <<>>
      OBVIOUS
    <3> QED
      BY <3>1, <3>2 DEF FirstParts
  <2>3. g[1] \in S
    <3>1. B(0) \in 1 .. Len(x) + 1
      <4>1. 0 \in Nat /\ 2 * 0 <= N
        BY <1>1
      <4> QED
        BY <1>5, <4>1
    <3> QED
      BY <1>4, <2>1, <3>1
  <2>4. <<>> \o g[1] = g[1]
    BY <2>3, ConcatEmptySeq
  <2>5. 0 \in 0 .. c
    BY <1>1
  <2> HIDE DEF F
  <2> QED
    BY <2>1, <2>2, <2>4, <2>5
<1>10. ASSUME NEW n \in 1 .. c, n - 1 \in T
       PROVE  n \in T
  <2> DEFINE h == n - 1  rest == g[B(n)]  p == Part(n)
  <2>1. h \in Nat /\ h \in 0 .. c /\ 2 * h + 2 <= N /\ 2 * h <= N /\ 2 * n <= N /\ n \in Nat /\ h + 1 = n
        /\ n \in 0 .. c
    BY <1>1
  <2> HIDE DEF h
  <2>2. B(h) \in 1 .. Len(x) + 1 /\ B(n) \in 1 .. Len(x) + 1
    BY <1>5, <2>1
  <2>3. PartAt(x, B(h), p, B(n)) /\ ~EndsAt(x, B(h)) /\ p \in Text
    <3>1. /\ Part(h + 1) \in Text
          /\ Part(h + 1) = <<>> <=> EndsAt(x, B(h))
          /\ PartAt(x, B(h), Part(h + 1), B(h + 1))
      BY <1>6, <2>1
    <3> QED
      BY <1>1, <2>1, <3>1
  <2>4. g[B(h)] = <<p>> \o rest /\ rest \in S
    BY <1>4, <2>2, <2>3
  <2>5. g[1] = F(h) \o g[B(h)]
    BY <1>10 DEF h
  <2>6. F(h) \in S
    BY <1>8, <2>1
  <2>7. F(n) = F(h) \o <<p>>
    <3>1. F(h) \o <<p>> = Append(F(h), p)
      BY <2>3, <2>6, AppendIsConcat
    <3>2. Len(F(h)) = h /\ DOMAIN F(h) = 1 .. h
      BY <2>1, <2>6 DEF FirstParts
    <3> DEFINE more == Append(F(h), p)
    <3>3. /\ more = [i \in 1 .. h + 1 |-> more[i]]
          /\ \A i \in 1 .. h : more[i] = F(h)[i]
          /\ more[h + 1] = p
      <4> DEFINE f == F(h)
      <4>1. f \in Seq(Text) /\ Len(f) = h
        BY <2>6, <3>2
      <4> HIDE DEF f
      <4>2. /\ more \in Seq(Text) /\ Len(more) = h + 1
            /\ \A i \in 1 .. h : more[i] = f[i]
            /\ more[h + 1] = p
        BY <2>3, <4>1, AppendLog DEF f
      <4> HIDE DEF more
      <4>3. more = [i \in 1 .. h + 1 |-> more[i]]
        BY <4>2
      <4> QED
        BY <4>2, <4>3 DEF f
    <3>4. \A i \in 1 .. n : (i # n => i \in 1 .. h)
      BY <2>1
    <3>5. \A i \in 1 .. h : F(h)[i] = Part(i)
      BY DEF FirstParts, Part
    <3>6. F(n) = [i \in 1 .. n |-> Part(i)]
      BY DEF FirstParts, Part
    <3>7. F(n) = more
      <4> HIDE DEF F, more
      <4>1. \A i \in 1 .. n : more[i] = Part(i)
        BY <2>1, <3>3, <3>4, <3>5
      <4>2. more = [i \in 1 .. n |-> more[i]]
        BY <2>1, <3>3
      <4> QED
        BY <3>6, <4>1, <4>2
    <3> QED
      BY <3>1, <3>7
  <2> HIDE DEF F, p, rest
  <2>8. F(h) \o (<<p>> \o rest) = (F(h) \o <<p>>) \o rest
    BY <2>3, <2>4, <2>6, Between
  <2>9. g[1] = F(n) \o rest
    BY <2>4, <2>5, <2>7, <2>8
  <2> QED
    BY <2>1, <2>9 DEF rest
<1>11. c \in T
  <2>1. 0 .. c \subseteq T
    <3>1. c \in Nat
      BY <1>1
    <3> HIDE DEF T
    <3> QED
      BY <1>9, <1>10, <3>1, CountedInduction
  <2>2. c \in 0 .. c
    BY <1>1
  <2> HIDE DEF T
  <2> QED
    BY <2>1, <2>2
<1>12. g[B(c)] = <<>>
  <2>1. c \in Nat /\ 2 * c <= N
    BY <1>1
  <2>2. B(c) \in 1 .. Len(x) + 1
    BY <1>5, <2>1
  <2>3. EndsAt(x, B(c))
    <3>1. CASE c < P
      <4>1. 2 * c + 2 <= N
        BY <1>1, <3>1
      <4> QED
        BY <1>1, <1>6, <2>1, <3>1, <4>1
    <3>2. CASE c = P
      <4> DEFINE m == 2 * c
      <4>1. m \in 0 .. N /\ (m = N \/ (m < N /\ m + 1 = N)) /\ m + 1 # 0
        BY <1>1, <3>2
      <4> HIDE DEF m
      <4>2. CASE m = N
        <5>1. Find(x, QT, Behind(s, k, m)) = NPos
          BY <4>1, <4>2, NextMark DEF N
        <5> QED
          BY <5>1 DEF EndsAt, B, m
      <4>3. CASE m < N /\ m + 1 = N
        <5> DEFINE m1 == m + 1
        <5>1. Find(x, QT, Behind(s, k, m)) = At(Marks(s), m1) - k
          BY <4>1, <4>3, NextMark DEF N
        <5>2. m1 \in 0 .. N /\ m1 = N /\ m1 # 0
          BY <1>1, <4>1, <4>3
        <5> HIDE DEF m1
        <5>3. Find(x, QT, Behind(s, k, m1)) = NPos
          BY <5>2, NextMark DEF N
        <5>4. Behind(s, k, m1) = (At(Marks(s), m1) - k) + 1
          BY <5>2 DEF Behind
        <5> QED
          BY <5>1, <5>3, <5>4 DEF EndsAt, B, m
      <4> QED
        BY <4>1, <4>2, <4>3
    <3> QED
      BY <1>1, <3>1, <3>2
  <2> QED
    BY <1>4, <2>2, <2>3
<1>13. F(c) \o <<>> = F(c)
  <2>1. c \in 0 .. c
    BY <1>1
  <2>2. F(c) \in S
    BY <1>8, <2>1
  <2> HIDE DEF F
  <2> QED
    BY <2>2, ConcatEmptySeq
<1>14. Quoted(x) = g[1]
  BY <1>3 DEF ArgumentsFrom
<1> QED
  BY <1>11, <1>12, <1>13, <1>14 DEF c

(* The line of typed text s without its first k spaces. *)
LEMMA TrimmedRest ==
  ASSUME NEW s \in Text
  PROVE  \E k : /\ Leads(k, s, {SP}) /\ RestAfter(LeftTrimmed(s), s, k)
                /\ LeftTrimmed(s) = SubSeq(s, k + 1, Len(s))
<1> DEFINE L == Len(s)
<1>1. L \in Nat /\ s \in Seq(Symbol)
  BY DEF Text
<1>2. PICK k \in 0 .. L : Leads(k, s, {SP}) /\ Without({SP}, s) = SubSeq(s, k + 1, L)
  BY <1>1, LeadsWithout
<1>3. /\ SubSeq(s, k + 1, L) \in Seq(Symbol)
      /\ Len(SubSeq(s, k + 1, L)) = L - k
      /\ \A i \in 1 .. L - k : SubSeq(s, k + 1, L)[i] = s[k + i]
  <2>1. k \in Nat /\ L \in Nat /\ k <= L
    BY <1>1, <1>2
  <2> QED
    BY <1>1, <2>1, CutOut
<1>4. \A i \in 1 .. k : s[i] # QT
  BY <1>2 DEF Leads, QT, SP
<1>5. LeftTrimmed(s) = SubSeq(s, k + 1, L)
  BY <1>2 DEF LeftTrimmed
<1>6. RestAfter(LeftTrimmed(s), s, k)
  BY <1>2, <1>3, <1>4, <1>5 DEF RestAfter, Text
<1> QED
  BY <1>2, <1>5, <1>6

(* Where the name of a command ends. *)
NameEnd(s) == IF Marks(s) = {} THEN Len(s) ELSE At(Marks(s), 1) - 1

LEMMA NoMarks ==
  ASSUME NEW s \in Text
  PROVE  /\ Cardinality(Marks(s)) \in Nat
         /\ Marks(s) = {} <=> Cardinality(Marks(s)) = 0
<1> DEFINE L == Len(s)  M == Marks(s)
<1>1. L \in Nat /\ M \in SUBSET (1 .. L)
  BY DEF Marks, Text
<1> HIDE DEF L, M
<1>2. Cardinality(M) \in Nat /\ \A i \in M : Rank(M, i) \in 1 .. Cardinality(M)
  BY <1>1, RankStep, Ranked
<1>3. M = {} => Cardinality(M) = 0
  BY FS_EmptySet
<1>4. M # {} => Cardinality(M) # 0
  BY <1>2
<1> QED
  BY <1>2, <1>3, <1>4 DEF M

(* What stands before the first mark, in the text and in the text without its first spaces. *)
LEMMA NameIs ==
  ASSUME NEW s \in Text, NEW x, NEW k, RestAfter(x, s, k)
  PROVE  /\ NameEnd(s) \in k .. Len(s)
         /\ Find(x, QT, 1) = NPos <=> Marks(s) = {}
         /\ SubSeq(s, k + 1, NameEnd(s)) =
              IF Find(x, QT, 1) = NPos THEN x ELSE SubSeq(x, 1, Find(x, QT, 1) - 1)
<1> DEFINE L == Len(s)  N == Cardinality(Marks(s))  e == NameEnd(s)  p == Find(x, QT, 1)
           l == Len(x)
<1>1. L \in Nat /\ k \in 0 .. L /\ x \in Seq(Symbol) /\ l = L - k
      /\ (\A i \in 1 .. L - k : x[i] = s[k + i]) /\ s \in Seq(Symbol)
  BY DEF RestAfter, Text
<1>2. N \in Nat /\ (Marks(s) = {} <=> N = 0)
  BY NoMarks
<1>3. 0 = N => p = NPos
  <2>1. 0 \in 0 .. N /\ Behind(s, k, 0) = 1
    BY <1>2 DEF Behind
  <2> QED
    BY <2>1, NextMark
<1>4. 0 < N => /\ p = At(Marks(s), 1) - k
               /\ At(Marks(s), 1) \in k + 1 .. L
               /\ p # NPos
  <2>1. 0 \in 0 .. N /\ Behind(s, k, 0) = 1 /\ 0 + 1 = 1
    BY <1>2 DEF Behind
  <2> QED
    BY <2>1, NextMark
<1>5. e = IF Marks(s) = {} THEN L ELSE At(Marks(s), 1) - 1
  BY DEF NameEnd
<1> HIDE DEF L, N, e, p, l
<1>6. CASE N = 0
  <2>1. e = L /\ p = NPos /\ Marks(s) = {}
    BY <1>2, <1>3, <1>5, <1>6
  <2>2. SubSeq(s, k + 1, L) = x
    <3>1. k \in Nat /\ L \in Nat /\ l = L - k /\ L <= L
      BY <1>1
    <3> QED
      BY <1>1, <3>1, CutFrom DEF L, l
  <2> QED
    BY <1>1, <2>1, <2>2 DEF e, p, L
<1>7. CASE N # 0
  <2> DEFINE q == p - 1
  <2>1. e \in k .. L /\ q \in Nat /\ q <= l /\ e - k = q /\ p # NPos /\ Marks(s) # {}
        /\ e \in Nat /\ k \in Nat /\ e <= L /\ q - 0 = q
        /\ \A i \in 1 .. e - k : i \in 1 .. L - k /\ 0 + i = i
    BY <1>1, <1>2, <1>4, <1>5, <1>7
  <2> HIDE DEF q
  <2>2. /\ SubSeq(x, 0 + 1, q) \in Seq(Symbol)
        /\ Len(SubSeq(x, 0 + 1, q)) = q - 0
        /\ \A i \in 1 .. q - 0 : SubSeq(x, 0 + 1, q)[i] = x[0 + i]
    <3>1. 0 \in Nat /\ 0 <= q
      BY <2>1
    <3> QED
      BY <1>1, <2>1, <3>1, CutOut DEF l
  <2> DEFINE y == SubSeq(x, 0 + 1, q)
  <2> HIDE DEF y
  <2>3. y \in Seq(Symbol) /\ Len(y) = e - k /\ \A i \in 1 .. e - k : y[i] = s[k + i]
    BY <1>1, <2>1, <2>2 DEF y
  <2>4. SubSeq(s, k + 1, e) = y
    BY <1>1, <2>1, <2>3, CutFrom DEF L
  <2>5. 0 + 1 = 1
    OBVIOUS
  <2>6. SubSeq(s, k + 1, e) = SubSeq(x, 1, q)
    BY <2>4, <2>5 DEF y
  <2> QED
    BY <2>1, <2>6 DEF e, p, L, q
<1> QED
  BY <1>6, <1>7

(* Leading spaces are found again in the beginning of a text. *)
LEMMA TrimmedName ==
  ASSUME NEW s \in Seq(Symbol), NEW k, Leads(k, s, {SP}), NEW e \in k .. Len(s), k < e
  PROVE  LeftTrimmed(SubSeq(s, 1, e)) = SubSeq(s, k + 1, e)
<1> DEFINE L == Len(s)  name == SubSeq(s, 0 + 1, e)
<1>1. L \in Nat /\ k \in 0 .. L /\ (\A i \in 1 .. k : s[i] = SP) /\ s[k + 1] # SP
      /\ e \in Nat /\ e <= L /\ 0 <= e /\ e - 0 = e /\ k \in Nat /\ k <= e
  BY DEF Leads
<1>2. /\ name \in Seq(Symbol) /\ Len(name) = e - 0
      /\ \A i \in 1 .. e - 0 : name[i] = s[0 + i]
  <2>1. 0 \in Nat
    OBVIOUS
  <2> QED
    BY <1>1, <2>1, CutOut
<1> HIDE DEF L, name
<1>3. name \in Seq(Symbol) /\ Len(name) = e /\ \A i \in 1 .. e : name[i] = s[i]
  BY <1>1, <1>2
<1>4. PICK h \in 0 .. e : Leads(h, name, {SP}) /\ Without({SP}, name) = SubSeq(name, h + 1, e)
  BY <1>3, LeadsWithout
<1>5. h = k
  <2>1. (\A i \in 1 .. h : name[i] = SP) /\ (h < e => name[h + 1] # SP)
    BY <1>3, <1>4 DEF Leads
  <2>2. CASE h < k
    <3>1. h + 1 \in 1 .. k /\ h + 1 \in 1 .. e /\ h < e
      BY <1>1, <1>4, <2>2
    <3> DEFINE j == h + 1
    <3> HIDE DEF j
    <3>2. j \in 1 .. k /\ j \in 1 .. e /\ name[j] # SP
      BY <2>1, <3>1 DEF j
    <3> QED
      BY <1>1, <1>3, <3>2
  <2>3. CASE k < h
    <3> DEFINE j == k + 1
    <3>1. j \in 1 .. h /\ j \in 1 .. e /\ s[j] # SP
      BY <1>1, <1>4, <2>3
    <3> HIDE DEF j
    <3> QED
      BY <1>3, <2>1, <3>1
  <2> QED
    BY <1>1, <1>4, <2>2, <2>3
<1>6. SubSeq(name, k + 1, e) = SubSeq(s, k + 1, e)
  <2> DEFINE y == SubSeq(name, k + 1, e)
  <2>1. y \in Seq(Symbol) /\ Len(y) = e - k /\ \A i \in 1 .. e - k : y[i] = name[k + i]
    <3>1. name \in Seq(Symbol) /\ k \in Nat /\ e \in Nat /\ k <= e /\ e <= Len(name)
      BY <1>1, <1>3
    <3> QED
      BY <3>1, CutOut
  <2> HIDE DEF y
  <2>2. \A i \in 1 .. e - k : k + i \in 1 .. e
    BY <1>1
  <2>3. \A i \in 1 .. e - k : y[i] = s[k + i]
    BY <1>3, <2>1, <2>2
  <2>4. SubSeq(s, k + 1, e) = y
    BY <1>1, <2>1, <2>3, CutFrom DEF L
  <2> QED
    BY <2>4 DEF y
<1>7. 0 + 1 = 1
  OBVIOUS
<1> QED
  BY <1>4, <1>5, <1>6, <1>7 DEF LeftTrimmed, name

(* Nothing is left of a text only if it has nothing but spaces. *)
LEMMA RightTrimmedEmpty ==
  ASSUME NEW s \in Seq(Symbol)
  PROVE  /\ s = <<>> => RightTrimmed(s) = <<>>
         /\ s # <<>> /\ s[1] # SP => RightTrimmed(s) # <<>>
<1> DEFINE n == Len(s)
<1>1. n \in Nat
  OBVIOUS
<1>2. PICK m \in 0 .. n : Trails(m, s) /\ RightTrimmed(s) = SubSeq(s, 0 + 1, m)
  BY TrailsTrimmed
<1>3. Len(SubSeq(s, 0 + 1, m)) = m - 0 /\ SubSeq(s, 0 + 1, m) \in Seq(Symbol)
  <2>1. 0 \in Nat /\ m \in Nat /\ 0 <= m /\ m <= n
    BY <1>1, <1>2
  <2> QED
    BY <2>1, CutOut
<1> DEFINE y == SubSeq(s, 0 + 1, m)
<1> HIDE DEF y
<1>4. y \in Seq(Symbol) /\ Len(y) = m
  BY <1>1, <1>2, <1>3 DEF y
<1>5. s = <<>> => y = <<>>
  <2>1. s = <<>> => n = 0
    OBVIOUS
  <2>2. n = 0 => m = 0
    BY <1>1, <1>2
  <2>3. m = 0 => y = <<>>
    BY <1>4
  <2> QED
    BY <2>1, <2>2, <2>3
<1>6. ASSUME s # <<>>, s[1] # SP
      PROVE  y # <<>>
  <2>1. n # 0
    BY <1>6
  <2> HIDE DEF n
  <2>2. m # 0
    <3>1. \A i \in m + 1 .. n : s[i] = SP
      BY <1>2 DEF Trails, n
    <3> QED
      BY <1>1, <1>6, <2>1, <3>1
  <2> QED
    BY <1>4, <2>2
<1> QED
  BY <1>2, <1>5, <1>6 DEF y

(***************************************************************************)
(* A line that is typed is cut at its quotation marks, two by two, however *)
(* many there are and whatever is between (parser.cpp:12-60).              *)
(***************************************************************************)
LEMMA ArgumentsOfText ==
  ASSUME text \in Text
  PROVE  ArgumentsAreTheQuotedParts
<1> DEFINE L == Len(text)  M == Marks(text)  N == Cardinality(M)
           x == LeftTrimmed(text)
           e == NameEnd(text)
           name == SubSeq(text, 1, e)
           p == Find(x, QT, 1)
           src == IF p = NPos THEN x ELSE SubSeq(x, 1, p - 1)
           cmd == RightTrimmed(src)
           blank == \A i \in DOMAIN name : name[i] = SP
           args == [n \in 1 .. PartsOf(text) |-> PartOf(text, n)]
<1>1. L \in Nat /\ text \in Seq(Symbol)
  BY DEF Text
<1>2. PICK k : /\ Leads(k, text, {SP}) /\ RestAfter(x, text, k)
               /\ x = SubSeq(text, k + 1, L)
  BY TrimmedRest
<1> HIDE DEF x
<1>3. e \in k .. L /\ (p = NPos <=> M = {}) /\ SubSeq(text, k + 1, e) = src
  BY <1>2, NameIs
<1>4. ParseLine(text) = IF cmd = <<>> THEN NoCommand
                        ELSE [name |-> Recased(cmd, Upper),
                              args |-> IF p = NPos THEN <<>> ELSE Quoted(x)]
  BY DEF ParseLine, x
<1>5. k \in 0 .. L /\ (\A i \in 1 .. k : text[i] = SP) /\ (k < L => text[k + 1] # SP)
  BY <1>2 DEF Leads
<1>0. k \in Nat /\ e \in Nat /\ k <= e /\ e <= L /\ L \in Nat
  BY <1>1, <1>3, <1>5
<1>6. name \in Seq(Symbol) /\ Len(name) = e /\ \A i \in 1 .. e : name[i] = text[i]
  <2> DEFINE y == SubSeq(text, 0 + 1, e)
  <2>1. y \in Seq(Symbol) /\ Len(y) = e - 0 /\ \A i \in 1 .. e - 0 : y[i] = text[0 + i]
    <3>1. 0 \in Nat /\ 0 <= e
      BY <1>0
    <3> QED
      BY <1>0, <1>1, <3>1, CutOut
  <2>2. name = y
    OBVIOUS
  <2> HIDE DEF y, name, e
  <2>3. e - 0 = e /\ \A i \in 1 .. e : 0 + i = i
    BY <1>0
  <2> QED
    BY <2>1, <2>2, <2>3
<1>7. blank <=> \A i \in 1 .. e : text[i] = SP
  <2>1. DOMAIN name = 1 .. Len(name)
    BY <1>6
  <2> HIDE DEF name
  <2> QED
    BY <1>6, <2>1
<1>8. blank <=> k = e
  <2> HIDE DEF blank, e, L
  <2>1. CASE k = e
    BY <1>5, <1>7, <2>1
  <2>2. CASE k < e
    <3>1. k + 1 \in 1 .. e /\ k < L
      BY <1>0, <2>2
    <3> QED
      BY <1>5, <1>7, <2>2, <3>1
  <2> QED
    BY <1>0, <2>1, <2>2
<1>9. /\ src \in Seq(Symbol) /\ Len(src) = e - k
      /\ \A i \in 1 .. e - k : src[i] = text[k + i]
  <2> DEFINE y == SubSeq(text, k + 1, e)
  <2>1. y \in Seq(Symbol) /\ Len(y) = e - k /\ \A i \in 1 .. e - k : y[i] = text[k + i]
    BY <1>0, <1>1, CutOut
  <2> HIDE DEF y
  <2> QED
    BY <1>3, <2>1 DEF y
<1> HIDE DEF src, e
<1>10. blank => cmd = <<>>
  <2>1. blank => Len(src) = 0
    <3> HIDE DEF blank
    <3> QED
      BY <1>0, <1>8, <1>9
  <2>2. Len(src) = 0 => src = <<>>
    BY <1>9
  <2> HIDE DEF blank
  <2> QED
    BY <1>9, <2>1, <2>2, RightTrimmedEmpty
<1>11. ASSUME ~blank
       PROVE  cmd # <<>> /\ k < e
  <2> HIDE DEF blank, L
  <2>1. k < e
    BY <1>0, <1>8, <1>11
  <2>2. Len(src) # 0 /\ 1 \in 1 .. e - k /\ k < L
    BY <1>0, <1>9, <2>1
  <2>3. src # <<>>
    BY <2>2
  <2>4. src[1] # SP
    BY <1>5, <1>9, <2>2
  <2> QED
    BY <1>9, <2>1, <2>3, <2>4, RightTrimmedEmpty
<1>12. ~blank => Trimmed(name) = cmd
  <2>1. ASSUME ~blank
        PROVE  LeftTrimmed(name) = src
    <3>1. k < e /\ e \in k .. L
      BY <1>3, <1>11, <2>1 DEF e
    <3>2. LeftTrimmed(SubSeq(text, 1, e)) = SubSeq(text, k + 1, e)
      BY <1>1, <1>2, <3>1, TrimmedName
    <3> QED
      BY <1>3, <3>2 DEF src, e
  <2> QED
    BY <2>1 DEF Trimmed
<1>13. p = NPos => args = <<>>
  <2>1. ASSUME p = NPos
        PROVE  args = <<>>
    <3>1. Cardinality(Marks(text)) = 0
      BY <1>3, <2>1, NoMarks
    <3>2. PartsOf(text) = 0
      <4> DEFINE P == Pairs(text)  c == PartsOf(text)
      <4>1. P \in Nat /\ c \in 0 .. P /\ 2 * P <= 0
        BY <3>1, PartsOfIs
      <4> HIDE DEF P, c
      <4>2. c = 0
        BY <4>1
      <4> QED
        BY <4>2 DEF c
    <3>3. 1 .. 0 = {}
      OBVIOUS
    <3>4. [n \in {} |-> PartOf(text, n)] = <<>>
      OBVIOUS
    <3> QED
      BY <3>2, <3>3, <3>4
  <2> QED
    BY <2>1
<1>14. Quoted(x) = args
  BY <1>2, QuotedIs DEF FirstParts
<1> HIDE DEF args, cmd, p
<1>15. IF blank THEN ParseLine(text) = NoCommand
       ELSE /\ ParseLine(text).args = args
            /\ Recased(Trimmed(name), Upper) = ParseLine(text).name
  <2> HIDE DEF blank, name
  <2> QED
    BY <1>4, <1>10, <1>11, <1>12, <1>13, <1>14
<1>16. e = IF M = {} THEN L ELSE At(M, 1) - 1
  BY DEF NameEnd, e
<1>17. args = [n \in 1 .. Cardinality({n \in 1 .. N \div 2 : \A m \in 1 .. n :
                   SubSeq(text, At(M, 2 * m - 1) + 1, At(M, 2 * m) - 1) # <<>>}) |->
                 SubSeq(text, At(M, 2 * n - 1) + 1, At(M, 2 * n) - 1)]
  BY DEF args, PartsOf, Pairs, PartOf
<1> QED
  BY <1>15, <1>16, <1>17 DEF ArgumentsAreTheQuotedParts, Marks, At, Rank

(***************************************************************************)
(* Of every line that is typed the arguments are the quoted parts up to    *)
(* the first empty one, and only a line without a name is refused          *)
(* (parser.cpp:12-60).                                                     *)
(***************************************************************************)
THEOREM ArgumentsAreFound == Spec => []ArgumentsAreTheQuotedParts
<1>1. Typed => ArgumentsAreTheQuotedParts
  BY ArgumentsOfText DEF Typed
<1> QED
  BY <1>1, TypedAlways, PTL

-----------------------------------------------------------------------------
(* Expressions *)

(* A part of a part is a part. *)
LEMMA CutCut ==
  ASSUME NEW C, NEW x \in Seq(C), NEW a \in Nat, NEW b \in Nat, a <= b, b <= Len(x),
         NEW c \in Nat, NEW d \in Nat, c <= d, d <= b - a
  PROVE  SubSeq(SubSeq(x, a + 1, b), c + 1, d) = SubSeq(x, (a + c) + 1, a + d)
<1> DEFINE y == SubSeq(x, a + 1, b)  z == SubSeq(y, c + 1, d)  p == a + c  q == a + d
           L == Len(x)
<1>1. y \in Seq(C) /\ Len(y) = b - a /\ \A i \in 1 .. b - a : y[i] = x[a + i]
  BY CutOut
<1> HIDE DEF y
<1>2. z \in Seq(C) /\ Len(z) = d - c /\ \A i \in 1 .. d - c : z[i] = y[c + i]
  <2>1. d <= Len(y)
    BY <1>1
  <2> QED
    BY <1>1, <2>1, CutOut
<1> HIDE DEF z
<1>3. L \in Nat /\ b <= L
  OBVIOUS
<1> HIDE DEF L
<1>4. p \in Nat /\ q \in Nat /\ q - p = d - c /\ q <= L
      /\ \A i \in 1 .. d - c : c + i \in 1 .. b - a /\ a + (c + i) = p + i
  BY <1>3
<1> HIDE DEF p, q
<1>5. \A i \in 1 .. q - p : z[i] = x[p + i]
  BY <1>1, <1>2, <1>4
<1>6. SubSeq(x, p + 1, q) = z
  BY <1>2, <1>4, <1>5, CutFrom DEF L
<1> QED
  BY <1>6 DEF z, y, p, q

(* What is left of a text without the spaces at its ends is at k + 1 .. e. *)
TrimmedTo(s, k, e) ==
  /\ k \in Nat /\ e \in k .. Len(s)
  /\ \A i \in 1 .. k : s[i] = SP
  /\ \A i \in e + 1 .. Len(s) : s[i] = SP
  /\ k < e => s[k + 1] # SP /\ s[e] # SP

LEMMA TrimmedIs ==
  ASSUME NEW C, NEW s \in Seq(C)
  PROVE  \E k, e : TrimmedTo(s, k, e) /\ Trimmed(s) = SubSeq(s, k + 1, e)
<1> DEFINE L == Len(s)
<1>1. L \in Nat
  OBVIOUS
<1>2. PICK k \in 0 .. L : Leads(k, s, {SP}) /\ Without({SP}, s) = SubSeq(s, k + 1, L)
  BY LeadsWithout
<1> DEFINE x == SubSeq(s, k + 1, L)  l == L - k
<1>3. k \in Nat /\ k <= L /\ (\A i \in 1 .. k : s[i] = SP) /\ (k < L => s[k + 1] # SP)
  BY <1>1, <1>2 DEF Leads
<1>4. x \in Seq(C) /\ Len(x) = l /\ \A i \in 1 .. l : x[i] = s[k + i]
  <2>1. L <= Len(s)
    BY <1>1
  <2> QED
    BY <1>1, <1>3, <2>1, CutOut
<1>5. LeftTrimmed(s) = x
  BY <1>2 DEF LeftTrimmed
<1> HIDE DEF x
<1>6. PICK m \in 0 .. Len(x) : Trails(m, x) /\ RightTrimmed(x) = SubSeq(x, 0 + 1, m)
  BY <1>4, TrailsTrimmed
<1> DEFINE e == k + m
<1>7. /\ m \in 0 .. l /\ (\A i \in m + 1 .. l : x[i] = SP) /\ (m # 0 => x[m] # SP)
  BY <1>4, <1>6 DEF Trails
<1>8. SubSeq(x, 0 + 1, m) = SubSeq(s, k + 1, e)
  <2>1. m <= L - k /\ 0 \in Nat /\ m \in Nat /\ 0 <= m /\ L <= Len(s)
    BY <1>1, <1>3, <1>7
  <2>2. SubSeq(SubSeq(s, k + 1, L), 0 + 1, m) = SubSeq(s, (k + 0) + 1, k + m)
    BY <1>1, <1>3, <2>1, CutCut
  <2>3. k + 0 = k
    BY <1>3
  <2> QED
    BY <2>2, <2>3 DEF x
<1> HIDE DEF L, l
<1>9. TrimmedTo(s, k, e)
  <2>1. e \in k .. L
    BY <1>1, <1>3, <1>7 DEF l
  <2>2. ASSUME NEW i \in e + 1 .. L
        PROVE  s[i] = SP
    <3> DEFINE j == i - k
    <3>1. j \in m + 1 .. l /\ j \in 1 .. l /\ k + j = i
      BY <1>1, <1>3, <1>7 DEF l
    <3> HIDE DEF j
    <3> QED
      BY <1>4, <1>7, <3>1
  <2>3. ASSUME k < e
        PROVE  s[k + 1] # SP /\ s[e] # SP
    <3>1. m # 0 /\ m \in 1 .. l /\ k < L
      BY <1>1, <1>3, <1>7, <2>3 DEF l
    <3> QED
      BY <1>3, <1>4, <1>7, <3>1
  <2> QED
    BY <1>3, <2>1, <2>2, <2>3 DEF TrimmedTo, L
<1> QED
  BY <1>5, <1>6, <1>8, <1>9 DEF Trimmed

(* Where a part stands in a text. *)
Occurs(t, part, i) ==
  /\ i \in 1 .. Len(t) - Len(part) + 1
  /\ \A j \in 1 .. Len(part) : t[i + j - 1] = part[j]

LEMMA OccursIs ==
  ASSUME NEW C, NEW t \in Seq(C), NEW part \in Seq(C), part # <<>>,
         NEW i \in 1 .. Len(t) - Len(part) + 1
  PROVE  SubSeq(t, i, i + Len(part) - 1) = part <=> Occurs(t, part, i)
<1> DEFINE L == Len(t)  n == Len(part)  a == i - 1  b == i + n - 1  y == SubSeq(t, a + 1, b)
<1>1. L \in Nat /\ n \in Nat \ {0} /\ i \in 1 .. L - n + 1
  OBVIOUS
<1>2. Occurs(t, part, i) <=> \A j \in 1 .. n : t[i + j - 1] = part[j]
  BY DEF Occurs
<1> HIDE DEF L, n
<1>3. /\ a \in Nat /\ b \in Nat /\ a <= b /\ b <= L /\ b - a = n /\ a + 1 = i
      /\ \A j \in 1 .. n : a + j = i + j - 1
  BY <1>1
<1> HIDE DEF a, b
<1>4. y \in Seq(C) /\ Len(y) = n /\ \A j \in 1 .. n : y[j] = t[i + j - 1]
  <2>1. y \in Seq(C) /\ Len(y) = b - a /\ \A j \in 1 .. b - a : y[j] = t[a + j]
    BY <1>3, CutOut DEF L
  <2> HIDE DEF y
  <2> QED
    BY <1>3, <2>1
<1>5. ASSUME \A j \in 1 .. n : t[i + j - 1] = part[j]
      PROVE  y = part
  <2>1. part \in Seq(C) /\ Len(part) = b - a /\ \A j \in 1 .. b - a : part[j] = t[a + j]
    BY <1>3, <1>5 DEF n
  <2> QED
    BY <1>3, <2>1, CutFrom DEF L
<1>6. y = part => \A j \in 1 .. n : t[i + j - 1] = part[j]
  <2> HIDE DEF y
  <2> QED
    BY <1>4
<1>7. y = SubSeq(t, i, b)
  BY <1>3
<1> HIDE DEF y
<1> QED
  BY <1>2, <1>5, <1>6, <1>7 DEF b, n

LEMMA FindTextIs ==
  ASSUME NEW C, NEW t \in Seq(C), NEW part \in Seq(C), part # <<>>
  PROVE  /\ FindText(t, part) = NPos <=> \A i : ~Occurs(t, part, i)
         /\ FindText(t, part) # NPos =>
              /\ Occurs(t, part, FindText(t, part))
              /\ \A i : Occurs(t, part, i) => FindText(t, part) <= i
<1> DEFINE D == 1 .. Len(t) - Len(part) + 1
           hits == {i \in D : SubSeq(t, i, i + Len(part) - 1) = part}
<1>1. hits = {i \in D : Occurs(t, part, i)}
  <2>1. \A i \in D : SubSeq(t, i, i + Len(part) - 1) = part <=> Occurs(t, part, i)
    BY OccursIs
  <2> HIDE DEF D
  <2> QED
    BY <2>1
<1>2. \A i : Occurs(t, part, i) => i \in D
  BY DEF Occurs
<1>3. FindText(t, part) = IF hits = {} THEN NPos ELSE Min(hits)
  BY DEF FindText
<1>4. hits \in SUBSET (Nat \ {0})
  OBVIOUS
<1> HIDE DEF D, hits
<1>5. \A i : Occurs(t, part, i) <=> i \in hits
  BY <1>1, <1>2
<1>6. hits # {} => Min(hits) \in hits /\ \A j \in hits : Min(hits) <= j
  <2>1. hits # {} => \E i \in hits : \A j \in hits : i <= j
    BY <1>4, NatMin
  <2> QED
    BY <2>1 DEF Min
<1>7. hits # {} => Min(hits) # NPos
  BY <1>4, <1>6 DEF NPos
<1> QED
  BY <1>3, <1>5, <1>6, <1>7

OpSymbol == {">", "<", "!", "="}

(* The operators, one by one. *)
LEMMA OperatorsAre ==
  /\ DOMAIN OPERATORS = 1 .. 6
  /\ Range(OPERATORS) = {OPERATORS[n] : n \in 1 .. 6}
  /\ \A n \in 1 .. 3 : /\ Len(OPERATORS[n]) = 2 /\ OPERATORS[n][2] = "="
                       /\ OPERATORS[n] = <<OPERATORS[n][1], "=">>
  /\ OPERATORS[1][1] = ">" /\ OPERATORS[2][1] = "<" /\ OPERATORS[3][1] = "!"
  /\ \A n \in 4 .. 6 : Len(OPERATORS[n]) = 1 /\ OPERATORS[n] = <<OPERATORS[n][1]>>
  /\ OPERATORS[4][1] = ">" /\ OPERATORS[5][1] = "<" /\ OPERATORS[6][1] = "="
<1>1. DOMAIN OPERATORS = 1 .. 6
  BY DEF OPERATORS
<1>2. /\ OPERATORS[1] = <<">", "=">> /\ OPERATORS[2] = <<"<", "=">> /\ OPERATORS[3] = <<"!", "=">>
      /\ OPERATORS[4] = <<">">> /\ OPERATORS[5] = <<"<">> /\ OPERATORS[6] = <<"=">>
  BY DEF OPERATORS
<1>3. (\A n \in 1 .. 3 : n = 1 \/ n = 2 \/ n = 3) /\ (\A n \in 4 .. 6 : n = 4 \/ n = 5 \/ n = 6)
  OBVIOUS
<1>4. Range(OPERATORS) = {OPERATORS[n] : n \in 1 .. 6}
  BY <1>1 DEF Range
<1> HIDE DEF OPERATORS
<1> QED
  BY <1>1, <1>2, <1>3, <1>4

LEMMA OperatorType ==
  \A n \in 1 .. 6 : /\ OPERATORS[n] \in Seq(OpSymbol) /\ OPERATORS[n] # <<>>
                    /\ Len(OPERATORS[n]) = IF n <= 3 THEN 2 ELSE 1
<1>1. \A n \in 1 .. 6 : n \in 1 .. 3 \/ n = 4 \/ n = 5 \/ n = 6
  OBVIOUS
<1>2. \A n \in 1 .. 3 : n = 1 \/ n = 2 \/ n = 3
  OBVIOUS
<1>3. \A n \in 1 .. 3 : OPERATORS[n][1] \in OpSymbol /\ n <= 3
  BY <1>2, OperatorsAre DEF OpSymbol
<1>4. \A n \in 4 .. 6 : OPERATORS[n][1] \in OpSymbol /\ ~(n <= 3)
  <2>1. \A n \in 4 .. 6 : (n = 4 \/ n = 5 \/ n = 6) /\ ~(n <= 3)
    OBVIOUS
  <2> QED
    BY <2>1, OperatorsAre DEF OpSymbol
<1>5. "=" \in OpSymbol
  BY DEF OpSymbol
<1>6. \A c \in OpSymbol : <<c>> \in Seq(OpSymbol) /\ <<c>> # <<>>
                          /\ <<c, "=">> \in Seq(OpSymbol) /\ <<c, "=">> # <<>>
  BY <1>5
<1>7. \A n \in 1 .. 6 : n \in 1 .. 3 \/ n \in 4 .. 6
  OBVIOUS
<1> QED
  BY <1>3, <1>4, <1>6, <1>7, OperatorsAre, ZenonT(60)

(* Trimming takes no operator away. *)
LEMMA OccursTrimmed ==
  ASSUME NEW C, NEW s \in Seq(C), NEW k, NEW e, TrimmedTo(s, k, e),
         NEW part \in Seq(OpSymbol), part # <<>>
  PROVE  /\ \A i : Occurs(SubSeq(s, k + 1, e), part, i) =>
                     Occurs(s, part, k + i) /\ k + i + Len(part) - 1 <= e
         /\ \A i : Occurs(s, part, i) =>
                     i > k /\ Occurs(SubSeq(s, k + 1, e), part, i - k)
<1> DEFINE L == Len(s)  l == Len(part)  t == SubSeq(s, k + 1, e)
<1>1. /\ L \in Nat /\ k \in Nat /\ e \in k .. L
      /\ (\A i \in 1 .. k : s[i] = SP) /\ (\A i \in e + 1 .. L : s[i] = SP)
  BY DEF TrimmedTo
<1>2. l \in Nat \ {0} /\ \A j \in 1 .. l : part[j] # SP
  <2>1. SP \notin OpSymbol
    BY DEF SP, OpSymbol
  <2>2. \A j \in 1 .. l : part[j] \in OpSymbol
    OBVIOUS
  <2> QED
    BY <2>1, <2>2
<1>3. t \in Seq(C) /\ Len(t) = e - k /\ \A i \in 1 .. e - k : t[i] = s[k + i]
  <2>1. e \in Nat /\ k <= e /\ e <= Len(s)
    BY <1>1
  <2> QED
    BY <1>1, <2>1, CutOut
<1> HIDE DEF t
<1>4. ASSUME NEW i, Occurs(t, part, i)
      PROVE  Occurs(s, part, k + i) /\ k + i + l - 1 <= e
  <2>1. i \in 1 .. (e - k) - l + 1 /\ \A j \in 1 .. l : t[i + j - 1] = part[j]
    BY <1>3, <1>4 DEF Occurs
  <2> HIDE DEF L, l
  <2>2. /\ k + i \in 1 .. L - l + 1 /\ k + i + l - 1 <= e
        /\ \A j \in 1 .. l : i + j - 1 \in 1 .. e - k /\ k + (i + j - 1) = (k + i) + j - 1
    BY <1>1, <1>2, <2>1
  <2>3. \A j \in 1 .. l : s[(k + i) + j - 1] = part[j]
    BY <1>3, <2>1, <2>2
  <2> QED
    BY <2>2, <2>3 DEF Occurs, L, l
<1>5. ASSUME NEW i, Occurs(s, part, i)
      PROVE  i > k /\ Occurs(t, part, i - k)
  <2>1. i \in 1 .. L - l + 1 /\ \A j \in 1 .. l : s[i + j - 1] = part[j]
    BY <1>5 DEF Occurs
  <2> HIDE DEF L, l
  <2>2. s[i] # SP /\ s[i + l - 1] # SP
    <3>1. 1 \in 1 .. l /\ l \in 1 .. l /\ i + 1 - 1 = i
      BY <1>2, <2>1
    <3> QED
      BY <1>2, <2>1, <3>1
  <2>3. i \notin 1 .. k /\ i + l - 1 \notin e + 1 .. L
    BY <1>1, <2>2
  <2>4. i > k /\ i + l - 1 <= e
    BY <1>1, <1>2, <2>1, <2>3
  <2>5. /\ i - k \in 1 .. (e - k) - l + 1
        /\ \A j \in 1 .. l : /\ (i - k) + j - 1 \in 1 .. e - k
                             /\ k + ((i - k) + j - 1) = i + j - 1
    BY <1>1, <1>2, <2>1, <2>4
  <2>6. \A j \in 1 .. l : t[(i - k) + j - 1] = part[j]
    BY <1>3, <2>1, <2>5
  <2> QED
    BY <1>3, <2>4, <2>5, <2>6 DEF Occurs, l
<1> QED
  BY <1>4, <1>5 DEF t, l

(***************************************************************************)
(* In s the n-th operator stands first at p, and none that comes before it *)
(* in the list stands anywhere. The field is at k + 1 .. m and the value   *)
(* at h + 1 .. e, without the spaces around them.                          *)
(***************************************************************************)
ReadAt(s, n, p, k, m, h, e) ==
  LET q == p + Len(OPERATORS[n])
  IN  /\ TrimmedTo(s, k, e)
      /\ n \in 1 .. 6 /\ Occurs(s, OPERATORS[n], p)
      /\ \A i : Occurs(s, OPERATORS[n], i) => p <= i
      /\ \A j \in 1 .. n - 1 : \A i : ~Occurs(s, OPERATORS[j], i)
      /\ m \in k .. p - 1 /\ (m # k => s[m] # SP)
      /\ \A i \in m + 1 .. p - 1 : s[i] = SP
      /\ h \in q - 1 .. e /\ (h < e => s[h + 1] # SP)
      /\ \A i \in q .. h : s[i] = SP

NoExpression == [field |-> <<>>, op |-> <<>>, value |-> <<>>]

LEMMA Expressed ==
  ASSUME NEW C, NEW s \in Seq(C), OpSymbol \subseteq C
  PROVE  \/ /\ \A n \in 1 .. 6 : \A i : ~Occurs(s, OPERATORS[n], i)
            /\ ParseExpression(s) = NoExpression
         \/ \E n, p, k, m, h, e :
              /\ ReadAt(s, n, p, k, m, h, e)
              /\ ParseExpression(s) = [field |-> SubSeq(s, k + 1, m), op |-> OPERATORS[n],
                                       value |-> SubSeq(s, h + 1, e)]
<1> DEFINE L == Len(s)
<1>1. PICK k, e : TrimmedTo(s, k, e) /\ Trimmed(s) = SubSeq(s, k + 1, e)
  BY TrimmedIs
<1>2. L \in Nat /\ k \in Nat /\ e \in k .. L
  BY <1>1 DEF TrimmedTo
<1> DEFINE t == SubSeq(s, k + 1, e)  l == e - k
<1>3. t \in Seq(C) /\ Len(t) = l /\ \A i \in 1 .. l : t[i] = s[k + i]
  <2>1. e \in Nat /\ k <= e /\ e <= Len(s)
    BY <1>2
  <2> QED
    BY <1>2, <2>1, CutOut
<1> DEFINE used == {n \in 1 .. 6 : FindText(t, OPERATORS[n]) # NPos}
<1>4. \A n \in 1 .. 6 : /\ OPERATORS[n] \in Seq(C) /\ OPERATORS[n] \in Seq(OpSymbol)
                        /\ OPERATORS[n] # <<>>
  <2>1. Seq(OpSymbol) \subseteq Seq(C)
    OBVIOUS
  <2> QED
    BY <2>1, OperatorType
<1>5. ASSUME NEW n \in 1 .. 6
      PROVE  /\ \A i : Occurs(t, OPERATORS[n], i) =>
                         Occurs(s, OPERATORS[n], k + i) /\ k + i + Len(OPERATORS[n]) - 1 <= e
             /\ \A i : Occurs(s, OPERATORS[n], i) =>
                         i > k /\ Occurs(t, OPERATORS[n], i - k)
  <2> DEFINE op == OPERATORS[n]
  <2>1. op \in Seq(OpSymbol) /\ op # <<>>
    BY <1>4
  <2> HIDE DEF op
  <2>2. /\ \A i : Occurs(t, op, i) => Occurs(s, op, k + i) /\ k + i + Len(op) - 1 <= e
        /\ \A i : Occurs(s, op, i) => i > k /\ Occurs(t, op, i - k)
    BY <1>1, <2>1, OccursTrimmed
  <2> QED
    BY <2>2 DEF op
<1>6. ASSUME NEW n \in 1 .. 6
      PROVE  /\ FindText(t, OPERATORS[n]) = NPos <=> \A i : ~Occurs(t, OPERATORS[n], i)
             /\ FindText(t, OPERATORS[n]) # NPos =>
                  /\ Occurs(t, OPERATORS[n], FindText(t, OPERATORS[n]))
                  /\ \A i : Occurs(t, OPERATORS[n], i) => FindText(t, OPERATORS[n]) <= i
  <2> DEFINE op == OPERATORS[n]
  <2>1. op \in Seq(C) /\ op # <<>>
    BY <1>4
  <2> HIDE DEF op, t
  <2>2. /\ FindText(t, op) = NPos <=> \A i : ~Occurs(t, op, i)
        /\ FindText(t, op) # NPos =>
             /\ Occurs(t, op, FindText(t, op))
             /\ \A i : Occurs(t, op, i) => FindText(t, op) <= i
    BY <1>3, <2>1, FindTextIs
  <2> QED
    BY <2>2 DEF op
<1> HIDE DEF t
<1>7. \A n \in 1 .. 6 : n \notin used => \A i : ~Occurs(s, OPERATORS[n], i)
  <2> SUFFICES ASSUME NEW n \in 1 .. 6, n \notin used, NEW i, Occurs(s, OPERATORS[n], i)
               PROVE  FALSE
    OBVIOUS
  <2>1. Occurs(t, OPERATORS[n], i - k)
    BY <1>5
  <2>2. FindText(t, OPERATORS[n]) = NPos
    OBVIOUS
  <2> QED
    BY <1>6, <2>1, <2>2
<1>8. used = {n \in DOMAIN OPERATORS : FindText(Trimmed(s), OPERATORS[n]) # NPos}
  BY <1>1, OperatorsAre DEF t
<1>9. CASE used = {}
  <2>1. ParseExpression(s) = NoExpression
    BY <1>8, <1>9 DEF ParseExpression, NoExpression
  <2> QED
    BY <1>7, <1>9, <2>1
<1>10. CASE used # {}
  <2> DEFINE n == Min(used)  op == OPERATORS[n]  u == FindText(t, op)
  <2>1. n \in used /\ \A j \in used : n <= j
    <3>1. used \in SUBSET Nat
      OBVIOUS
    <3> HIDE DEF used
    <3>2. \E i \in used : \A j \in used : i <= j
      BY <1>10, <3>1, NatMin
    <3> QED
      BY <3>2 DEF Min
  <2>2. ParseExpression(s) = [field |-> RightTrimmed(SubSeq(t, 1, u - 1)), op |-> op,
                              value |-> LeftTrimmed(SubSeq(t, u + Len(op), Len(t)))]
    BY <1>1, <1>8, <1>10 DEF ParseExpression, t
  <2>3. n \in 1 .. 6 /\ u # NPos
    BY <2>1
  <2>4. \A j \in 1 .. n - 1 : \A i : ~Occurs(s, OPERATORS[j], i)
    <3> HIDE DEF used, n
    <3>1. \A j \in 1 .. n - 1 : j \in 1 .. 6 /\ ~(n <= j)
      BY <2>3
    <3> QED
      BY <1>7, <2>1, <3>1
  <2> HIDE DEF n, used
  <2>5. /\ Occurs(t, op, u) /\ \A i : Occurs(t, op, i) => u <= i
        /\ Occurs(s, op, k + u) /\ k + u + Len(op) - 1 <= e
    BY <1>5, <1>6, <2>3
  <2>6. op \in Seq(C) /\ op # <<>>
    BY <1>4, <2>3
  <2> DEFINE w == Len(op)  p == k + u  a == u - 1  b == u + w - 1
  <2>7. w \in Nat \ {0} /\ u \in 1 .. l - w + 1
    <3>1. w \in Nat \ {0}
      <4> HIDE DEF op
      <4> QED
        BY <2>6
    <3> QED
      BY <1>3, <2>5, <3>1 DEF Occurs
  <2>8. \A i : Occurs(s, op, i) => p <= i
    <3> SUFFICES ASSUME NEW i, Occurs(s, op, i)
                 PROVE  p <= i
      OBVIOUS
    <3>1. u <= i - k
      BY <1>5, <2>3, <2>5
    <3>2. i \in Int
      BY DEF Occurs
    <3> HIDE DEF op, u
    <3> QED
      BY <1>2, <2>7, <3>1, <3>2
  <2> HIDE DEF op, u
  <2>9. /\ a \in Nat /\ b \in Nat /\ a <= l /\ b <= l /\ b + 1 = u + w
        /\ 0 <= a /\ l <= Len(t) /\ l \in Nat /\ 0 \in Nat
    BY <1>2, <1>3, <2>7
  <2> DEFINE x == SubSeq(t, 0 + 1, a)  y == SubSeq(t, b + 1, l)
  <2>10. x \in Seq(C) /\ Len(x) = a /\ \A i \in 1 .. a : x[i] = t[i]
    <3>1. /\ SubSeq(t, 0 + 1, a) \in Seq(C) /\ Len(SubSeq(t, 0 + 1, a)) = a - 0
          /\ \A i \in 1 .. a - 0 : SubSeq(t, 0 + 1, a)[i] = t[0 + i]
      <4> a <= Len(t)
        BY <1>3, <2>9
      <4> HIDE DEF a
      <4> QED
        BY <1>3, <2>9, CutOut
    <3> HIDE DEF x
    <3>2. a - 0 = a /\ \A i \in 1 .. a : 0 + i = i
      BY <2>9
    <3> QED
      BY <3>1, <3>2 DEF x
  <2>11. y \in Seq(C) /\ Len(y) = l - b /\ \A i \in 1 .. l - b : y[i] = t[b + i]
    <3> HIDE DEF b, l
    <3> QED
      BY <1>3, <2>9, CutOut
  <2>12. PICK m0 \in 0 .. Len(x) : Trails(m0, x) /\ RightTrimmed(x) = SubSeq(x, 0 + 1, m0)
    BY <2>10, TrailsTrimmed
  <2>13. PICK h0 \in 0 .. Len(y) : Leads(h0, y, {SP})
                                   /\ Without({SP}, y) = SubSeq(y, h0 + 1, Len(y))
    BY <2>11, LeadsWithout
  <2> DEFINE m == k + m0  h == k + b + h0
  <2>14. /\ m0 \in 0 .. a /\ (\A i \in m0 + 1 .. a : x[i] = SP) /\ (m0 # 0 => x[m0] # SP)
    BY <2>10, <2>12 DEF Trails
  <2>15. /\ h0 \in 0 .. l - b /\ (\A i \in 1 .. h0 : y[i] = SP)
         /\ (h0 < l - b => y[h0 + 1] # SP)
    BY <2>11, <2>13 DEF Leads
  <2>16. SubSeq(x, 0 + 1, m0) = SubSeq(s, k + 1, m)
    <3> HIDE DEF a
    <3>1. m0 \in Nat /\ 0 <= m0 /\ m0 <= a - 0 /\ a <= Len(t) /\ m0 <= l /\ m0 <= e - k
      BY <1>2, <1>3, <2>9, <2>14
    <3>2. SubSeq(SubSeq(t, 0 + 1, a), 0 + 1, m0) = SubSeq(t, (0 + 0) + 1, 0 + m0)
      BY <1>3, <2>9, <3>1, CutCut
    <3>3. SubSeq(SubSeq(s, k + 1, e), 0 + 1, m0) = SubSeq(s, (k + 0) + 1, k + m0)
      <4>1. e \in Nat /\ k <= e /\ e <= Len(s)
        BY <1>2
      <4> QED
        BY <1>2, <2>9, <3>1, <4>1, CutCut
    <3>4. (0 + 0) + 1 = 0 + 1 /\ 0 + m0 = m0 /\ k + 0 = k
      BY <1>2, <3>1
    <3> QED
      BY <3>2, <3>3, <3>4 DEF t
  <2>17. SubSeq(y, h0 + 1, Len(y)) = SubSeq(s, h + 1, e)
    <3> DEFINE c == b + h0
    <3>1. c \in Nat /\ h = k + c /\ k + l = e /\ c <= l /\ l <= e - k /\ b + (l - b) = l
      <4> HIDE DEF b
      <4> QED
        BY <1>2, <2>9, <2>15
    <3>2. SubSeq(SubSeq(t, b + 1, l), h0 + 1, l - b) = SubSeq(t, (b + h0) + 1, b + (l - b))
      <4>1. h0 \in Nat /\ l - b \in Nat /\ h0 <= l - b /\ l - b <= l - b
        BY <2>9, <2>15
      <4> HIDE DEF b, l
      <4> QED
        BY <1>3, <2>9, <4>1, CutCut
    <3>3. SubSeq(SubSeq(s, k + 1, e), c + 1, l) = SubSeq(s, (k + c) + 1, k + l)
      <4>1. e \in Nat /\ k <= e /\ e <= Len(s)
        BY <1>2
      <4> HIDE DEF c, l
      <4> QED
        BY <1>2, <2>9, <3>1, <4>1, CutCut
    <3>4. SubSeq(SubSeq(t, b + 1, l), h0 + 1, l - b) = SubSeq(t, c + 1, l)
      BY <3>1, <3>2
    <3>5. SubSeq(t, c + 1, l) = SubSeq(s, h + 1, e)
      BY <3>1, <3>3 DEF t
    <3> QED
      BY <2>11, <3>4, <3>5
  <2>18. ParseExpression(s) = [field |-> SubSeq(s, k + 1, m), op |-> op,
                               value |-> SubSeq(s, h + 1, e)]
    <3>1. 0 + 1 = 1 /\ a = u - 1 /\ b + 1 = u + Len(op) /\ l = Len(t)
      BY <1>3, <2>9
    <3>2. x = SubSeq(t, 1, u - 1) /\ y = SubSeq(t, u + Len(op), Len(t))
      BY <3>1
    <3> HIDE DEF x, y, m, h
    <3> QED
      BY <2>2, <2>12, <2>13, <2>16, <2>17, <3>2 DEF LeftTrimmed
  <2>19. \A i \in 1 .. a : i \in 1 .. l /\ x[i] = s[k + i]
    <3>1. \A i \in 1 .. a : i \in 1 .. l
      BY <2>9
    <3> HIDE DEF x, a, l
    <3> QED
      BY <1>3, <2>10, <3>1
  <2>20. \A i \in 1 .. l - b : y[i] = s[k + b + i]
    <3>1. \A i \in 1 .. l - b : b + i \in 1 .. l /\ k + (b + i) = k + b + i
      <4> HIDE DEF b
      <4> QED
        BY <1>2, <2>9
    <3> HIDE DEF y, b, l
    <3> QED
      BY <1>3, <2>11, <3>1
  <2> HIDE DEF x, y
  <2>21. /\ m \in k .. p - 1 /\ (m # k => s[m] # SP)
         /\ \A i \in m + 1 .. p - 1 : s[i] = SP
    <3>1. m \in k .. p - 1
      BY <1>2, <2>7, <2>14
    <3>2. m # k => s[m] # SP
      <4> SUFFICES ASSUME m # k
                   PROVE  s[m] # SP
        OBVIOUS
      <4>1. m0 # 0 /\ m0 \in 1 .. a
        BY <1>2, <2>9, <2>14
      <4> QED
        BY <2>14, <2>19, <4>1
    <3>3. ASSUME NEW i \in m + 1 .. p - 1
          PROVE  s[i] = SP
      <4> DEFINE j == i - k
      <4>1. j \in m0 + 1 .. a /\ j \in 1 .. a /\ k + j = i
        BY <1>2, <2>7, <2>14
      <4> HIDE DEF j
      <4> QED
        BY <2>14, <2>19, <4>1
    <3> QED
      BY <3>1, <3>2, <3>3
  <2>22. /\ h \in (p + w) - 1 .. e /\ (h < e => s[h + 1] # SP)
         /\ \A i \in p + w .. h : s[i] = SP
    <3>1. h \in (p + w) - 1 .. e
      BY <1>2, <2>7, <2>15
    <3>2. h < e => s[h + 1] # SP
      <4> SUFFICES ASSUME h < e
                   PROVE  s[h + 1] # SP
        OBVIOUS
      <4>1. h0 < l - b /\ h0 + 1 \in 1 .. l - b /\ k + b + (h0 + 1) = h + 1
        <5> HIDE DEF b
        <5> QED
          BY <1>2, <2>9, <2>15
      <4> QED
        BY <2>15, <2>20, <4>1
    <3>3. ASSUME NEW i \in p + w .. h
          PROVE  s[i] = SP
      <4> DEFINE j == i - (k + b)
      <4>1. j \in 1 .. h0 /\ j \in 1 .. l - b /\ k + b + j = i
        BY <1>2, <2>7, <2>9, <2>15
      <4> HIDE DEF j
      <4> QED
        BY <2>15, <2>20, <4>1
    <3> QED
      BY <3>1, <3>2, <3>3
  <2> HIDE DEF m, h, p, w
  <2>23. ReadAt(s, n, p, k, m, h, e)
    <3>1. w = Len(OPERATORS[n])
      BY DEF w, op
    <3>2. Occurs(s, OPERATORS[n], p) /\ \A i : Occurs(s, OPERATORS[n], i) => p <= i
      BY <2>5, <2>8 DEF op, p
    <3>3. /\ h \in (p + Len(OPERATORS[n])) - 1 .. e
          /\ \A i \in p + Len(OPERATORS[n]) .. h : s[i] = SP
      BY <2>22, <3>1, Zenon
    <3> QED
      BY <1>1, <2>3, <2>4, <2>21, <2>22, <3>2, <3>3, Zenon DEF ReadAt
  <2> QED
    BY <2>18, <2>23 DEF op
<1> QED
  BY <1>9, <1>10

-----------------------------------------------------------------------------
(* Negative numbers *)

LEMMA PowerIs ==
  ASSUME NEW n \in Nat
  PROVE  \E g : /\ g[0] = 1 /\ PowerOfTen(n) = g[n]
                /\ \A i \in 1 .. n : g[i] = 10 * g[i - 1]
                /\ \A i \in 0 .. n : g[i] \in Nat \ {0}
<1> DEFINE U == Nat \ {0}
           Def(f, i) == IF i = 0 THEN 1 ELSE 10 * f[i - 1]
           power == CHOOSE f : f = [i \in 0 .. n |-> Def(f, i)]
           step == [i \in 1 .. n |-> [s \in U |-> 10 * s]]
<1>1. PowerOfTen(n) = power[n]
  BY DEF PowerOfTen
<1>2. Counted(n, U, 1, step)
  BY DEF Counted
<1>3. PICK h \in [0 .. n -> U] :
        \A i \in 0 .. n : h[i] = IF i = 0 THEN 1 ELSE step[i][h[i - 1]]
  <2> DEFINE m == n
  <2>1. Counted(m, U, 1, step)
    BY <1>2
  <2> HIDE DEF step, U, m
  <2>2. \E h \in [0 .. m -> U] : \A i \in 0 .. m : h[i] = IF i = 0 THEN 1 ELSE step[i][h[i - 1]]
    BY <2>1, CountedRecursion
  <2> QED
    BY <2>2 DEF m
<1>4. ASSUME NEW f, NEW i \in 1 .. n, f[i - 1] \in U
      PROVE  Def(f, i) = step[i][f[i - 1]]
  <2>1. i # 0
    OBVIOUS
  <2> QED
    BY <1>4, <2>1
<1>5. \A i \in 0 .. n : i = 0 \/ (i \in 1 .. n /\ i - 1 \in 0 .. n)
  OBVIOUS
<1>6. h = [i \in 0 .. n |-> Def(h, i)]
  <2>1. ASSUME NEW i \in 0 .. n
        PROVE  h[i] = Def(h, i)
    <3>1. CASE i = 0
      BY <1>3, <3>1
    <3>2. CASE i # 0
      <4>1. i \in 1 .. n /\ h[i - 1] \in U /\ h[i] = step[i][h[i - 1]]
        <5> HIDE DEF step, U
        <5> QED
          BY <1>3, <1>5, <3>2
      <4> QED
        BY <1>4, <4>1
    <3> QED
      BY <3>1, <3>2
  <2> HIDE DEF Def
  <2> QED
    BY <1>3, <2>1
<1> HIDE DEF Def, step
<1>7. power = [i \in 0 .. n |-> Def(power, i)]
  BY <1>6
<1> HIDE DEF power
<1>8. \A i \in 0 .. n : power[i] = Def(power, i)
  <2> DEFINE D == 0 .. n
  <2> HIDE DEF D
  <2>1. power = [i \in D |-> Def(power, i)]
    BY <1>7 DEF D
  <2>2. \A i \in D : power[i] = Def(power, i)
    BY <2>1
  <2> QED
    BY <2>2 DEF D
<1>9. power[0] = 1 /\ \A i \in 1 .. n : power[i] = Def(power, i) /\ i # 0
  BY <1>8 DEF Def
<1>10. \A i \in 0 .. n : power[i] \in U
  <2>1. \A i \in 1 .. n : power[i - 1] \in U => power[i] = step[i][power[i - 1]]
    BY <1>4, <1>9
  <2> HIDE DEF U
  <2> QED
    BY <1>2, <1>9, <2>1, CountedRecurs
<1>11. \A i \in 1 .. n : power[i] = 10 * power[i - 1]
  BY <1>9 DEF Def
<1> QED
  BY <1>1, <1>9, <1>10, <1>11

LEMMA PowerStep ==
  ASSUME NEW n \in Nat
  PROVE  /\ PowerOfTen(0) = 1
         /\ PowerOfTen(n) \in Nat \ {0}
         /\ PowerOfTen(n + 1) = 10 * PowerOfTen(n)
<1>1. PICK g : /\ g[0] = 1 /\ PowerOfTen(n) = g[n]
               /\ \A i \in 1 .. n : g[i] = 10 * g[i - 1]
               /\ \A i \in 0 .. n : g[i] \in Nat \ {0}
  BY PowerIs
<1> DEFINE m == n + 1
<1>2. m \in Nat /\ m - 1 = n /\ m \in 1 .. m /\ n \in 0 .. n /\ \A i \in 1 .. n : i \in 1 .. m
  OBVIOUS
<1> HIDE DEF m
<1>3. PICK h : /\ h[0] = 1 /\ PowerOfTen(m) = h[m]
               /\ \A i \in 1 .. m : h[i] = 10 * h[i - 1]
               /\ \A i \in 0 .. m : h[i] \in Nat \ {0}
  BY <1>2, PowerIs
<1> DEFINE T == {i \in 0 .. n : h[i] = g[i]}
<1>4. 0 \in T
  BY <1>1, <1>3
<1>5. ASSUME NEW i \in 1 .. n, i - 1 \in T
      PROVE  i \in T
  <2>1. h[i] = 10 * h[i - 1] /\ g[i] = 10 * g[i - 1] /\ i \in 0 .. n
    BY <1>1, <1>2, <1>3
  <2> QED
    BY <1>5, <2>1
<1>6. 0 .. n \subseteq T
  <2> HIDE DEF T
  <2> QED
    BY <1>4, <1>5, CountedInduction
<1>7. h[n] = g[n] /\ h[m] = 10 * h[n]
  BY <1>2, <1>3, <1>6
<1>8. PowerOfTen(0) = 1
  <2>1. \E f : f[0] = 1 /\ PowerOfTen(0) = f[0]
    <3> DEFINE z == 0
    <3>1. z \in Nat
      OBVIOUS
    <3> HIDE DEF z
    <3>2. \E f : f[0] = 1 /\ PowerOfTen(z) = f[z]
      BY <3>1, PowerIs
    <3> QED
      BY <3>2 DEF z
  <2> QED
    BY <2>1
<1> QED
  BY <1>1, <1>2, <1>3, <1>7, <1>8 DEF m

LEMMA PowerGrows ==
  ASSUME NEW a \in Nat, NEW b \in Nat, a <= b
  PROVE  PowerOfTen(a) <= PowerOfTen(b)
<1> DEFINE d == b - a
           T == {i \in 0 .. d : PowerOfTen(a) <= PowerOfTen(a + i)}
<1>1. d \in Nat /\ a + d = b /\ a + 0 = a
  OBVIOUS
<1> HIDE DEF d
<1>2. PowerOfTen(a) \in Nat
  BY PowerStep
<1>3. 0 \in T
  BY <1>1, <1>2
<1>4. ASSUME NEW i \in 1 .. d, i - 1 \in T
      PROVE  i \in T
  <2> DEFINE c == a + (i - 1)
  <2>1. c \in Nat /\ c + 1 = a + i /\ i \in 0 .. d
    BY <1>1
  <2>2. PowerOfTen(a) <= PowerOfTen(c)
    BY <1>4
  <2> HIDE DEF c
  <2>3. PowerOfTen(c) \in Nat \ {0} /\ PowerOfTen(c + 1) = 10 * PowerOfTen(c)
    BY <2>1, PowerStep
  <2> DEFINE x == PowerOfTen(a)  y == PowerOfTen(c)  z == PowerOfTen(c + 1)
  <2>4. x \in Nat /\ y \in Nat /\ z = 10 * y /\ x <= y
    BY <1>2, <2>2, <2>3
  <2> HIDE DEF x, y, z
  <2>5. x <= z
    BY <2>4
  <2> QED
    BY <2>1, <2>5 DEF x, z
<1>5. 0 .. d \subseteq T
  <2> HIDE DEF T
  <2> QED
    BY <1>1, <1>3, <1>4, CountedInduction
<1> QED
  BY <1>1, <1>5

(* A number is smaller than the power of ten that has a digit more. *)
LEMMA NumberBelow ==
  ASSUME NEW ds \in Seq(Digital)
  PROVE  /\ Number(ds) \in Nat
         /\ Number(ds) < PowerOfTen(Len(ds))
         /\ ds # <<>> /\ ds[1] # "0" => Number(ds) # 0
<1> DEFINE Good(s) == /\ Number(s) \in Nat /\ Number(s) < PowerOfTen(Len(s))
                      /\ s # <<>> /\ s[1] # "0" => Number(s) # 0
           T == {s \in Seq(Digital) : Good(s)}
<1>1. <<>> \in T
  <2>1. Number(<<>>) = 0
    <3>1. <<>> \in Seq(Digital) /\ Len(<<>>) = 0
      OBVIOUS
    <3> QED
      BY <3>1, NumberIs DEF CountsUp
  <2>2. PowerOfTen(0) = 1
    BY PowerStep
  <2> QED
    BY <2>1, <2>2
<1>2. ASSUME NEW s \in Seq(Digital), NEW c \in Digital, s \in T
      PROVE  Append(s, c) \in T
  <2> DEFINE n == Len(s)  more == Append(s, c)
             x == Number(s)  y == Number(more)  p == PowerOfTen(n)  q == PowerOfTen(n + 1)
  <2>1. /\ n \in Nat /\ more \in Seq(Digital) /\ Len(more) = n + 1
        /\ (\A i \in 1 .. n : more[i] = s[i]) /\ more[n + 1] = c
    BY AppendLog
  <2>2. y = 10 * x + Digit(c)
    BY NumberAppend
  <2>3. p \in Nat /\ q = 10 * p
    BY <2>1, PowerStep
  <2>4. Digit(c) \in 0 .. 9 /\ (c # "0" => Digit(c) # 0)
    BY DigitsAre DEF Digital
  <2>5. x \in Nat /\ x < p /\ (s # <<>> /\ s[1] # "0" => x # 0)
    BY <1>2
  <2> DEFINE d == Digit(c)
  <2>6. y \in Nat /\ y < q /\ (x # 0 \/ d # 0 => y # 0)
    <3> HIDE DEF x, y, p, q, d
    <3>1. y = 10 * x + d /\ d \in 0 .. 9
      BY <2>2, <2>4 DEF d
    <3> QED
      BY <2>3, <2>5, <3>1
  <2>7. more[1] # "0" => y # 0
    <3>1. CASE s = <<>>
      <4>1. n + 1 = 1
        BY <3>1
      <4>2. more[1] = c
        BY <2>1, <4>1
      <4> HIDE DEF more, x, y
      <4> QED
        BY <2>4, <2>6, <4>2
    <3>2. CASE s # <<>>
      <4>1. 1 \in 1 .. n
        BY <3>2
      <4>2. more[1] = s[1]
        BY <2>1, <4>1
      <4> HIDE DEF more, x, y
      <4> QED
        BY <2>5, <2>6, <3>2, <4>2
    <3> QED
      BY <3>1, <3>2
  <2> HIDE DEF more
  <2>8. Good(more)
    BY <2>1, <2>6, <2>7
  <2> QED
    BY <2>1, <2>8 DEF more
<1>3. Seq(Digital) \subseteq T
  <2> HIDE DEF T
  <2> QED
    BY <1>1, <1>2, SequenceInduction
<1> QED
  BY <1>3

(***************************************************************************)
(* What std::stoul() reads: white space up to a, a sign at d unless d = a, *)
(* and the digits at d + 1 .. z.                                           *)
(***************************************************************************)
NumberAt(v, a, d, z) ==
  /\ a \in 0 .. Len(v) /\ \A i \in 1 .. a : v[i] \in White
  /\ d = a \/ (d = a + 1 /\ v[d] \in {"-", "+"})
  /\ z \in d + 1 .. Len(v) /\ \A i \in d + 1 .. z : v[i] \in Digital

SignAt(v, a, d) == IF d = a THEN "+" ELSE v[d]

LEMMA StoulReads ==
  ASSUME NEW C, NEW v \in Seq(C), NEW r \in Stoul(v)
  PROVE  \E a, d, z :
           /\ NumberAt(v, a, d, z)
           /\ Number(SubSeq(v, d + 1, z)) < SizeModulus
           /\ r = Signed(SignAt(v, a, d), Number(SubSeq(v, d + 1, z)))
<1> DEFINE L == Len(v)
<1>1. L \in Nat
  OBVIOUS
<1>2. PICK a \in 0 .. L : Leads(a, v, White) /\ Without(White, v) = SubSeq(v, a + 1, L)
  BY LeadsWithout
<1> DEFINE x == SubSeq(v, a + 1, L)  l == L - a
<1>3. x \in Seq(C) /\ Len(x) = l /\ \A i \in 1 .. l : x[i] = v[a + i]
  <2>1. a \in Nat /\ L \in Nat /\ a <= L /\ L <= Len(v)
    BY <1>1, <1>2
  <2> QED
    BY <2>1, CutOut
<1> HIDE DEF x
<1> DEFINE sign == IF x # <<>> /\ Head(x) \in {"-", "+"} THEN Head(x) ELSE "+"
           number == IF x # <<>> /\ Head(x) = sign THEN Tail(x) ELSE x
<1>4. /\ x # <<>> => l # 0 /\ Head(x) = v[a + 1] /\ Tail(x) = SubSeq(v, (a + 1) + 1, L)
  <2> SUFFICES ASSUME x # <<>>
               PROVE  l # 0 /\ Head(x) = v[a + 1] /\ Tail(x) = SubSeq(v, (a + 1) + 1, L)
    OBVIOUS
  <2>1. l \in Nat \ {0} /\ Head(x) = x[1]
    <3>1. Len(x) # 0 /\ Len(x) \in Nat
      BY <1>3
    <3>2. Head(x) = x[1]
      BY <1>3, HeadTailProperties
    <3> QED
      BY <1>3, <3>1, <3>2
  <2>2. Tail(x) = SubSeq(x, 1 + 1, l)
    <3>1. Tail(x) = SubSeq(x, 2, Len(x))
      BY <1>3, TailIsSubSeq
    <3> QED
      BY <1>3, <3>1
  <2>3. SubSeq(SubSeq(v, a + 1, L), 1 + 1, l) = SubSeq(v, (a + 1) + 1, a + l)
    <3>1. /\ a \in Nat /\ L \in Nat /\ a <= L /\ L <= Len(v)
          /\ 1 \in Nat /\ l \in Nat /\ 1 <= l /\ l <= L - a
      BY <1>1, <1>2, <2>1
    <3> HIDE DEF L, l
    <3> QED
      BY <3>1, CutCut
  <2>4. a + l = L /\ 1 \in 1 .. l
    BY <1>1, <1>2, <2>1
  <2> QED
    BY <1>3, <2>1, <2>2, <2>3, <2>4 DEF x
<1>5. PICK d : /\ d \in {a, a + 1} /\ number = SubSeq(v, d + 1, L) /\ d <= L
               /\ sign = SignAt(v, a, d)
               /\ d # a => v[d] \in {"-", "+"}
  <2>1. CASE x # <<>> /\ Head(x) \in {"-", "+"}
    <3>1. sign = v[a + 1] /\ number = SubSeq(v, (a + 1) + 1, L) /\ v[a + 1] \in {"-", "+"}
      BY <1>4, <2>1
    <3>2. a + 1 # a /\ a + 1 <= L
      BY <1>1, <1>2, <1>4, <2>1
    <3> DEFINE d == a + 1
    <3> HIDE DEF number, sign, d
    <3> QED
      BY <3>1, <3>2 DEF SignAt, d
  <2>2. CASE ~(x # <<>> /\ Head(x) \in {"-", "+"})
    <3>1. sign = "+" /\ number = x /\ a <= L
      BY <1>1, <1>2, <2>2
    <3> HIDE DEF number, sign
    <3> QED
      BY <3>1 DEF SignAt, x
  <2> QED
    BY <2>1, <2>2
<1>6. d \in Nat /\ d <= L
  BY <1>1, <1>2, <1>5
<1> DEFINE w == L - d
<1>7. number \in Seq(C) /\ Len(number) = w /\ \A i \in 1 .. w : number[i] = v[d + i]
  <2>1. L <= Len(v)
    BY <1>1
  <2> HIDE DEF number
  <2> QED
    BY <1>1, <1>5, <1>6, <2>1, CutOut
<1>8. Stoul(v) = LET rest == Without(Range(Digits), number)
                     n    == Number(SubSeq(number, 1, Len(number) - Len(rest)))
                 IN  IF rest = number \/ n >= SizeModulus THEN {} ELSE {Signed(sign, n)}
  BY <1>2 DEF Stoul, x
<1> HIDE DEF number, sign
<1>9. PICK c \in 0 .. w : /\ Leads(c, number, Digital)
                          /\ Without(Digital, number) = SubSeq(number, c + 1, w)
  <2>1. \E c \in 0 .. Len(number) : /\ Leads(c, number, Digital)
                                    /\ Without(Digital, number) = SubSeq(number, c + 1, Len(number))
    BY <1>7, LeadsWithout
  <2> QED
    BY <1>7, <2>1
<1> DEFINE rest == Without(Digital, number)  z == d + c
<1>10. w \in Nat /\ c \in Nat /\ c <= w /\ Len(rest) = w - c
  <2>1. w \in Nat /\ c \in Nat /\ c <= w
    BY <1>1, <1>6
  <2>2. Len(SubSeq(number, c + 1, w)) = w - c
    <3>1. w <= Len(number)
      BY <1>7, <2>1
    <3> HIDE DEF w
    <3> QED
      BY <1>7, <2>1, <3>1, CutOut
  <2> QED
    BY <1>9, <2>1, <2>2
<1>11. SubSeq(number, 1, Len(number) - Len(rest)) = SubSeq(v, d + 1, z)
  <2>1. Len(number) - Len(rest) = c /\ 0 + 1 = 1 /\ d + 0 = d
    BY <1>6, <1>7, <1>10
  <2>2. SubSeq(SubSeq(v, d + 1, L), 0 + 1, c) = SubSeq(v, (d + 0) + 1, d + c)
    <3>1. 0 \in Nat /\ 0 <= c /\ c <= L - d /\ L <= Len(v)
      BY <1>1, <1>10
    <3> QED
      BY <1>1, <1>6, <1>10, <3>1, CutCut
  <2> HIDE DEF L
  <2> QED
    BY <1>5, <2>1, <2>2
<1> DEFINE n == Number(SubSeq(v, d + 1, z))
<1>12. Stoul(v) = IF rest = number \/ n >= SizeModulus THEN {} ELSE {Signed(sign, n)}
  BY <1>8, <1>11 DEF Digital
<1>13. rest # number /\ ~(n >= SizeModulus) /\ r = Signed(sign, n)
  <2> HIDE DEF rest, n
  <2> QED
    BY <1>12
<1>14. c # 0
  <2> SUFFICES ASSUME c = 0
               PROVE  FALSE
    OBVIOUS
  <2>1. SubSeq(number, 0 + 1, w) = number
    <3>1. 0 + 1 = 1 /\ w = Len(number)
      BY <1>7
    <3>2. SubSeq(number, 1, Len(number)) = number
      BY <1>7, SubSeqFull
    <3> QED
      BY <3>1, <3>2
  <2> QED
    BY <1>9, <1>13, <2>1
<1>15. NumberAt(v, a, d, z)
  <2>1. a \in 0 .. L /\ \A i \in 1 .. a : v[i] \in White
    BY <1>2 DEF Leads
  <2>2. z \in d + 1 .. L
    BY <1>1, <1>6, <1>10, <1>14
  <2>3. \A i \in d + 1 .. z : v[i] \in Digital
    <3> SUFFICES ASSUME NEW i \in d + 1 .. z
                 PROVE  v[i] \in Digital
      OBVIOUS
    <3> DEFINE j == i - d
    <3>1. j \in 1 .. c /\ j \in 1 .. w /\ d + j = i
      BY <1>1, <1>6, <1>10
    <3>2. number[j] \in Digital
      BY <1>9, <3>1 DEF Leads
    <3> HIDE DEF j, w
    <3> QED
      BY <1>7, <3>1, <3>2
  <2> HIDE DEF z
  <2> QED
    BY <1>5, <2>1, <2>2, <2>3 DEF NumberAt
<1>16. SubSeq(v, d + 1, z) \in Seq(Digital)
  <2> DEFINE y == SubSeq(v, d + 1, z)  k == z - d
  <2>1. y \in Seq(C) /\ Len(y) = k /\ \A i \in 1 .. k : y[i] = v[d + i]
    <3>1. z \in Nat /\ d <= z /\ z <= Len(v)
      BY <1>1, <1>6, <1>10
    <3> HIDE DEF z
    <3> QED
      BY <1>6, <3>1, CutOut
  <2>2. \A i \in 1 .. k : d + i \in d + 1 .. z
    BY <1>6, <1>10
  <2>3. \A i \in d + 1 .. z : v[i] \in Digital
    BY <1>15 DEF NumberAt
  <2> HIDE DEF y, k, z
  <2>4. \A i \in 1 .. k : y[i] \in Digital
    BY <2>1, <2>2, <2>3
  <2>5. y = [i \in 1 .. k |-> y[i]]
    BY <2>1
  <2>6. k \in Nat
    BY <2>1
  <2>7. y \in Seq(Digital)
    BY <2>4, <2>5, <2>6
  <2> QED
    BY <2>7 DEF y
<1>17. n < SizeModulus
  <2>1. n \in Nat
    BY <1>16, NumberBelow
  <2> HIDE DEF n
  <2> QED
    BY <1>13, <2>1, SizeAssumption
<1> QED
  BY <1>5, <1>13, <1>15, <1>17

(* The fields of a filter, as they may be typed. *)
FieldSymbol == {"relevance", "similarity", "Relevance", "Similarity"}

LEMMA LowerIs ==
  /\ DOMAIN Lower = {"Top", "Relevance", "Similarity", "SortBy"}
  /\ Lower["Top"] = "top" /\ Lower["Relevance"] = "relevance"
  /\ Lower["Similarity"] = "similarity" /\ Lower["SortBy"] = "sortby"
BY DEF Lower

LowerCase(c) == IF c \in DOMAIN Lower THEN Lower[c] ELSE c

LEMMA FieldIs ==
  ASSUME NEW C, NEW f \in Seq(C), NEW x \in {"relevance", "similarity"},
         Recased(f, Lower) = <<x>>
  PROVE  Len(f) = 1 /\ f[1] \in FieldSymbol /\ x = LowerCase(f[1])
<1> DEFINE y == Recased(f, Lower)  one == <<x>>
<1>0. y = [i \in DOMAIN f |-> LowerCase(f[i])]
  BY Zenon DEF Recased, LowerCase
<1>1. DOMAIN y = DOMAIN f /\ DOMAIN f = 1 .. Len(f) /\ Len(f) \in Nat
  <2> HIDE DEF y
  <2> QED
    BY <1>0
<1>2. \A i \in DOMAIN f : y[i] = LowerCase(f[i])
  <2> HIDE DEF y
  <2> QED
    BY <1>0, Zenon
<1>3. DOMAIN one = 1 .. 1 /\ one[1] = x
  OBVIOUS
<1> HIDE DEF y, one
<1>4. y = one
  BY DEF y, one
<1>5. Len(f) = 1
  <2>1. 1 .. Len(f) = 1 .. 1
    BY <1>1, <1>3, <1>4
  <2>2. 1 \in 1 .. Len(f) /\ \A i \in 1 .. Len(f) : i = 1
    BY <2>1
  <2>3. Len(f) \in 1 .. Len(f)
    BY <1>1, <2>2
  <2> QED
    BY <2>2, <2>3
<1>6. x = LowerCase(f[1])
  <2>1. 1 \in DOMAIN f
    BY <1>1, <1>5
  <2> QED
    BY <1>2, <1>3, <1>4, <2>1
<1>7. f[1] \in FieldSymbol
  <2>1. CASE f[1] \in DOMAIN Lower
    BY <1>6, <2>1, LowerIs DEF LowerCase, FieldSymbol
  <2>2. CASE f[1] \notin DOMAIN Lower
    BY <1>6, <2>2 DEF LowerCase, FieldSymbol
  <2> QED
    BY <2>1, <2>2
<1> QED
  BY <1>5, <1>6, <1>7

(* A filter that parse_filter() reads, and where it stands in the text. *)
LEMMA FilterRead ==
  ASSUME NEW C, NEW s \in Seq(C), OpSymbol \subseteq C,
         NEW i \in DOMAIN ParseFilter(s, DefaultQuery).filters
  PROVE  LET q == ParseFilter(s, DefaultQuery)
         IN  /\ i = 1
             /\ \E n, p, k, m, h, e :
                  /\ ReadAt(s, n, p, k, m, h, e)
                  /\ m = k + 1 /\ s[m] \in FieldSymbol
                  /\ q.filters[1].field = LowerCase(s[m])
                  /\ q.filters[1].op = OPERATORS[n]
                  /\ q.filters[1].value \in Stoul(SubSeq(s, h + 1, e))
<1> DEFINE q == ParseFilter(s, DefaultQuery)
           f == ParseExpression(s)
           field == Recased(f.field, Lower)
           value == Recased(f.value, Lower)
           number == CHOOSE r \in Stoul(f.value) : TRUE
           filter == [field |-> Head(field), op |-> f.op, value |-> number]
           names == {<<"relevance">>, <<"similarity">>}
<1>1. DefaultQuery.filters = <<>> /\ DOMAIN <<>> = {}
  BY DEF DefaultQuery
<1>2. q.filters = <<>> \/ /\ <<>> \notin {f.field, f.value} /\ Stoul(f.value) # {}
                          /\ field \in names
                          /\ q.filters = Append(<<>>, filter)
  <2> HIDE DEF f
  <2>1. CASE <<>> \in {f.field, f.value}
    BY <1>1, <2>1 DEF ParseFilter, f
  <2>2. CASE /\ <<>> \notin {f.field, f.value}
             /\ field \in {<<"sortby">>, <<"sort", SP, "by">>}
    <3>1. q = IF value \in {<<"relevance">>, <<"similarity">>}
                THEN [DefaultQuery EXCEPT !.sortBy = Head(value)] ELSE DefaultQuery
      BY <2>2 DEF ParseFilter, f
    <3> HIDE DEF q, value
    <3> QED
      BY <3>1 DEF DefaultQuery
  <2>3. CASE /\ <<>> \notin {f.field, f.value}
             /\ field \notin {<<"sortby">>, <<"sort", SP, "by">>}
    <3>1. q = IF Stoul(f.value) = {} THEN DefaultQuery
              ELSE CASE field = <<"top">> /\ f.op = <<"=">> -> [DefaultQuery EXCEPT !.topK = number]
                     [] field \in names -> [DefaultQuery EXCEPT !.filters = Append(@, filter)]
                     [] OTHER -> DefaultQuery
      BY <2>3 DEF ParseFilter, f
    <3>2. <<"top">> \notin names
      OBVIOUS
    <3>3. ~(field = <<"top">> /\ field \in names)
      BY <3>2
    <3> HIDE DEF q, field, number, filter, names
    <3>4. CASE Stoul(f.value) = {}
      BY <1>1, <3>1, <3>4
    <3>5. CASE Stoul(f.value) # {} /\ field = <<"top">> /\ f.op = <<"=">>
      <4>1. q = [DefaultQuery EXCEPT !.topK = number]
        BY <3>1, <3>3, <3>5
      <4> QED
        BY <4>1 DEF DefaultQuery
    <3>6. CASE Stoul(f.value) # {} /\ field \in names
      <4>1. q = [DefaultQuery EXCEPT !.filters = Append(@, filter)]
        BY <3>1, <3>3, <3>6
      <4>2. q.filters = Append(<<>>, filter)
        BY <4>1 DEF DefaultQuery
      <4> QED
        BY <2>3, <3>6, <4>2
    <3>7. CASE /\ Stoul(f.value) # {} /\ ~(field = <<"top">> /\ f.op = <<"=">>)
               /\ field \notin names
      <4>1. q = DefaultQuery
        BY <3>1, <3>7
      <4> QED
        BY <1>1, <4>1
    <3> QED
      BY <3>4, <3>5, <3>6, <3>7
  <2> QED
    BY <2>1, <2>2, <2>3
<1>3. /\ <<>> \notin {f.field, f.value} /\ Stoul(f.value) # {} /\ field \in names
      /\ q.filters = Append(<<>>, filter)
  BY <1>1, <1>2
<1> HIDE DEF f, q
<1>4. PICK n, p, k, m, h, e :
        /\ ReadAt(s, n, p, k, m, h, e)
        /\ f = [field |-> SubSeq(s, k + 1, m), op |-> OPERATORS[n],
                value |-> SubSeq(s, h + 1, e)]
  <2>1. f # NoExpression
    BY <1>3 DEF NoExpression
  <2> QED
    BY <2>1, Expressed DEF f
<1> DEFINE x == SubSeq(s, k + 1, m)
<1>5. f.field = x /\ f.op = OPERATORS[n] /\ f.value = SubSeq(s, h + 1, e)
  BY <1>4
<1>6. /\ k \in Nat /\ m \in Nat /\ k <= m /\ m <= Len(s)
  <2> DEFINE L == Len(s)
  <2>1. L \in Nat /\ TrimmedTo(s, k, e) /\ m \in k .. p - 1 /\ Occurs(s, OPERATORS[n], p)
    BY <1>4 DEF ReadAt
  <2>2. k \in Nat /\ e \in k .. L
    BY <2>1 DEF TrimmedTo
  <2> DEFINE w == Len(OPERATORS[n])
  <2>3. p \in 1 .. L - w + 1 /\ w \in Nat \ {0}
    <3>1. n \in 1 .. 6
      BY <1>4 DEF ReadAt
    <3>2. w \in Nat \ {0}
      BY <3>1, OperatorType
    <3> QED
      BY <2>1, <3>2 DEF Occurs
  <2> HIDE DEF L, w
  <2>4. m \in Nat /\ k <= m /\ m <= L
    BY <2>1, <2>2, <2>3
  <2> QED
    BY <2>2, <2>4 DEF L
<1>7. x \in Seq(C) /\ Len(x) = m - k /\ \A j \in 1 .. m - k : x[j] = s[k + j]
  BY <1>6, CutOut
<1> HIDE DEF x
<1>8. PICK y \in {"relevance", "similarity"} : field = <<y>>
  BY <1>3
<1>9. Len(x) = 1 /\ x[1] \in FieldSymbol /\ y = LowerCase(x[1])
  <2>1. Recased(x, Lower) = <<y>>
    BY <1>5, <1>8
  <2> QED
    BY <1>7, <2>1, FieldIs
<1>10. m = k + 1 /\ x[1] = s[m]
  <2>1. m - k = 1
    BY <1>7, <1>9
  <2>2. m = k + 1 /\ 1 \in 1 .. m - k
    BY <1>6, <2>1
  <2> QED
    BY <1>7, <2>2
<1>11. Head(field) = y
  <2> HIDE DEF field
  <2>1. Head(<<y>>) = y
    OBVIOUS
  <2> QED
    BY <1>8, <2>1
<1>12. number \in Stoul(f.value)
  BY <1>3
<1> HIDE DEF field, number
<1>13. DOMAIN q.filters = 1 .. 1 /\ q.filters[1] = filter
  <2>1. Append(<<>>, filter) = <<filter>>
    OBVIOUS
  <2> HIDE DEF filter
  <2> QED
    BY <1>3, <2>1
<1>14. filter.field = y /\ filter.op = OPERATORS[n] /\ filter.value = number
  BY <1>5, <1>11
<1>15. i = 1
  BY <1>13 DEF q
<1> HIDE DEF filter
<1> QED
  BY <1>4, <1>5, <1>9, <1>10, <1>12, <1>13, <1>14, <1>15 DEF q

Readable == Symbol \cup OpSymbol

LEMMA Narrowed ==
  ASSUME NEW C, NEW y \in Seq(C), NEW D, \A i \in 1 .. Len(y) : y[i] \in D
  PROVE  y \in Seq(D)
OBVIOUS

(* Nothing that a number may begin with stands before the value of a filter. *)
LEMMA BeforeValue ==
  ASSUME NEW s \in Seq(Readable), NEW n, NEW p, NEW k, NEW m, NEW h, NEW e,
         ReadAt(s, n, p, k, m, h, e), m = k + 1, s[m] \in FieldSymbol
  PROVE  /\ h \in Nat \ {0} /\ e \in Nat /\ h <= e /\ e <= Len(s)
         /\ \A i \in 1 .. h : s[i] \in {SP} \cup FieldSymbol \cup OpSymbol
<1> DEFINE L == Len(s)  w == Len(OPERATORS[n])  op == OPERATORS[n]  q == p + w
<1>1. L \in Nat
  OBVIOUS
<1>2. /\ TrimmedTo(s, k, e) /\ n \in 1 .. 6 /\ Occurs(s, OPERATORS[n], p)
      /\ m \in k .. p - 1 /\ (\A i \in m + 1 .. p - 1 : s[i] = SP)
      /\ h \in q - 1 .. e /\ (\A i \in q .. h : s[i] = SP)
  BY DEF ReadAt
<1>3. k \in Nat /\ e \in k .. L /\ \A i \in 1 .. k : s[i] = SP
  BY <1>2 DEF TrimmedTo
<1>4. op \in Seq(OpSymbol) /\ w \in Nat \ {0} /\ \A j \in 1 .. w : op[j] \in OpSymbol
  <2>1. op \in Seq(OpSymbol) /\ op # <<>>
    BY <1>2, OperatorType
  <2> HIDE DEF op
  <2>2. Len(op) \in Nat \ {0} /\ \A j \in 1 .. Len(op) : op[j] \in OpSymbol
    BY <2>1
  <2> QED
    BY <2>1, <2>2 DEF op
<1>5. p \in 1 .. L - w + 1 /\ \A j \in 1 .. w : s[p + j - 1] = op[j]
  BY <1>2 DEF Occurs
<1> HIDE DEF L, w, op
<1>6. h \in Nat \ {0} /\ e \in Nat /\ h <= e /\ e <= L
  BY <1>1, <1>2, <1>3, <1>4, <1>5
<1>7. ASSUME NEW i \in 1 .. h
      PROVE  s[i] \in {SP} \cup FieldSymbol \cup OpSymbol
  <2>1. i \in 1 .. k \/ i = m \/ i \in m + 1 .. p - 1 \/ i \in p .. q - 1 \/ i \in q .. h
    BY <1>2, <1>3, <1>4, <1>5, <1>6
  <2>2. CASE i \in p .. q - 1
    <3> DEFINE j == (i - p) + 1
    <3>1. j \in 1 .. w /\ p + j - 1 = i
      BY <1>4, <1>5, <2>2
    <3> HIDE DEF j
    <3> QED
      BY <1>4, <1>5, <3>1
  <2> QED
    BY <1>2, <1>3, <2>1, <2>2
<1> QED
  BY <1>6, <1>7 DEF L

LEMMA NothingToCount ==
  /\ ({SP, TAB, "+", "-"} \cup FieldSymbol \cup OpSymbol) \cap Digital = {}
  /\ "-" \notin {SP, TAB, "+"} \cup FieldSymbol \cup OpSymbol
<1>1. DOMAIN Digits = 1 .. 10
  BY DEF Digits
<1>2. ASSUME NEW i \in 1 .. 10
      PROVE  Digits[i] \notin {SP, TAB, "+", "-"} \cup FieldSymbol \cup OpSymbol
  <2>1. \/ i = 1 \/ i = 2 \/ i = 3 \/ i = 4 \/ i = 5
        \/ i = 6 \/ i = 7 \/ i = 8 \/ i = 9 \/ i = 10
    OBVIOUS
  <2>2. \/ Digits[i] = "0" \/ Digits[i] = "1" \/ Digits[i] = "2" \/ Digits[i] = "3"
        \/ Digits[i] = "4" \/ Digits[i] = "5" \/ Digits[i] = "6" \/ Digits[i] = "7"
        \/ Digits[i] = "8" \/ Digits[i] = "9"
    BY <2>1 DEF Digits
  <2> DEFINE c == Digits[i]
  <2> HIDE DEF c
  <2>3. \/ c = "0" \/ c = "1" \/ c = "2" \/ c = "3" \/ c = "4"
        \/ c = "5" \/ c = "6" \/ c = "7" \/ c = "8" \/ c = "9"
    BY <2>2 DEF c
  <2> QED
    BY <2>3 DEF SP, TAB, FieldSymbol, OpSymbol, c
<1>3. "-" \notin {SP, TAB, "+"} \cup FieldSymbol \cup OpSymbol
  BY DEF SP, TAB, FieldSymbol, OpSymbol
<1> QED
  BY <1>1, <1>2, <1>3 DEF Digital, Range

(* The number that is read when the first digit stands behind a minus sign. *)
LEMMA NegativeRead ==
  ASSUME NEW s \in Seq(Readable), NEW n, NEW p, NEW k, NEW m, NEW h, NEW e,
         ReadAt(s, n, p, k, m, h, e), m = k + 1, s[m] \in FieldSymbol,
         NEW r \in Stoul(SubSeq(s, h + 1, e)),
         NEW j \in 2 .. Len(s), s[j] \in Digital, s[j] # "0", s[j - 1] = "-",
         \A i \in 1 .. Len(s) : s[i] \in Digital => j <= i
  PROVE  r \in Nat /\ r > SizeModulus - PowerOfTen(Len(s))
<1> DEFINE L == Len(s)  v == SubSeq(s, h + 1, e)
<1>1. /\ h \in Nat \ {0} /\ e \in Nat /\ h <= e /\ e <= L
      /\ \A i \in 1 .. h : s[i] \in {SP} \cup FieldSymbol \cup OpSymbol
  BY BeforeValue
<1>2. v \in Seq(Readable) /\ Len(v) = e - h /\ \A i \in 1 .. e - h : v[i] = s[h + i]
  <2>1. h \in Nat /\ e \in Nat /\ h <= e /\ e <= Len(s)
    BY <1>1
  <2> QED
    BY <2>1, CutOut
<1>3. L \in Nat
  OBVIOUS
<1> HIDE DEF v
<1>4. PICK a, d, z :
        /\ NumberAt(v, a, d, z)
        /\ Number(SubSeq(v, d + 1, z)) < SizeModulus
        /\ r = Signed(SignAt(v, a, d), Number(SubSeq(v, d + 1, z)))
  <2>1. r \in Stoul(v)
    BY DEF v
  <2> QED
    BY <1>2, <2>1, StoulReads
<1>5. /\ a \in 0 .. e - h /\ (\A i \in 1 .. a : v[i] \in White)
      /\ d = a \/ (d = a + 1 /\ v[d] \in {"-", "+"})
      /\ z \in d + 1 .. e - h /\ (\A i \in d + 1 .. z : v[i] \in Digital)
  BY <1>2, <1>4 DEF NumberAt
<1>6. d \in Nat /\ z \in Nat /\ d < z /\ z <= e - h
  BY <1>1, <1>5
<1>7. ASSUME NEW i \in 1 .. h + d
      PROVE  s[i] \in {SP, TAB, "+", "-"} \cup FieldSymbol \cup OpSymbol
  <2>1. CASE i \in 1 .. h
    BY <1>1, <2>1
  <2>2. CASE i \notin 1 .. h
    <3> DEFINE c == i - h
    <3>1. c \in 1 .. d /\ c \in 1 .. e - h /\ h + c = i
      BY <1>1, <1>6, <2>2
    <3>2. c \in 1 .. a \/ (c = d /\ d = a + 1)
      BY <1>5, <3>1
    <3>3. s[i] = v[c]
      <4> HIDE DEF c
      <4> QED
        BY <1>2, <3>1
    <3> HIDE DEF c
    <3>4. v[c] \in {SP, TAB, "+", "-"}
      BY <1>5, <3>2 DEF White
    <3> QED
      BY <3>3, <3>4
  <2> QED
    BY <2>1, <2>2
<1>8. v[d + 1] = s[h + (d + 1)] /\ v[d + 1] \in Digital
  <2>1. d + 1 \in d + 1 .. z /\ d + 1 \in 1 .. e - h
    BY <1>1, <1>6
  <2> QED
    BY <1>2, <1>5, <2>1
<1>9. j = h + (d + 1)
  <2>1. j <= h + (d + 1)
    <3>1. h + (d + 1) \in 1 .. L
      BY <1>1, <1>3, <1>6
    <3> QED
      BY <1>8, <3>1
  <2>2. j \notin 1 .. h + d
    BY <1>7, NothingToCount
  <2> QED
    BY <1>1, <1>6, <2>1, <2>2
<1>10. d # a /\ v[d] = "-"
  <2>1. s[h + d] = "-"
    <3>1. j - 1 = h + d
      BY <1>1, <1>6, <1>9
    <3> QED
      BY <3>1
  <2>2. d # 0
    <3> SUFFICES ASSUME d = 0
                 PROVE  FALSE
      OBVIOUS
    <3>1. h + d \in 1 .. h
      BY <1>1
    <3> QED
      BY <1>1, <2>1, <3>1, NothingToCount
  <2>3. v[d] = s[h + d]
    <3>1. d \in 1 .. e - h
      BY <1>1, <1>6, <2>2
    <3> QED
      BY <1>2, <3>1
  <2>4. d # a
    <3> SUFFICES ASSUME d = a
                 PROVE  FALSE
      OBVIOUS
    <3>1. d \in 1 .. a
      BY <1>6, <2>2
    <3>2. v[d] \in {SP, TAB}
      BY <1>5, <3>1 DEF White
    <3> QED
      BY <2>1, <2>3, <3>2, NothingToCount
  <2> QED
    BY <2>1, <2>3, <2>4
<1> DEFINE ds == SubSeq(v, d + 1, z)  x == Number(ds)  y == PowerOfTen(L)
<1>11. ds \in Seq(Digital) /\ Len(ds) = z - d /\ ds # <<>> /\ ds[1] # "0"
  <2> DEFINE l == z - d
  <2>1. ds \in Seq(Readable) /\ Len(ds) = l /\ \A i \in 1 .. l : ds[i] = v[d + i]
    <3>1. d <= z /\ z <= Len(v)
      BY <1>2, <1>6
    <3> QED
      BY <1>2, <1>6, <3>1, CutOut
  <2>2. l \in Nat \ {0} /\ 1 \in 1 .. l /\ \A i \in 1 .. l : d + i \in d + 1 .. z
    BY <1>6
  <2> HIDE DEF ds, l
  <2>3. \A i \in 1 .. l : ds[i] \in Digital
    BY <1>5, <2>1, <2>2
  <2>5. ds \in Seq(Digital)
    BY <2>1, <2>3, Narrowed
  <2>6. ds[1] = s[j] /\ ds # <<>>
    BY <1>8, <1>9, <2>1, <2>2
  <2> QED
    BY <2>1, <2>5, <2>6 DEF l
<1> HIDE DEF ds
<1>12. x \in Nat \ {0} /\ x < PowerOfTen(z - d)
  BY <1>11, NumberBelow
<1>13. PowerOfTen(z - d) <= y /\ y \in Nat /\ PowerOfTen(z - d) \in Nat
  <2>1. z - d \in Nat /\ L \in Nat /\ z - d <= L
    BY <1>1, <1>3, <1>6
  <2> HIDE DEF L
  <2> QED
    BY <2>1, PowerGrows, PowerStep
<1>14. r = (SizeModulus - x) % SizeModulus /\ x < SizeModulus
  BY <1>4, <1>10 DEF SignAt, Signed, ds
<1> HIDE DEF x, y
<1>15. r = SizeModulus - x
  <2> DEFINE u == SizeModulus - x
  <2>1. u \in 0 .. SizeModulus - 1 /\ r = u % SizeModulus
    BY <1>12, <1>14, SizeAssumption
  <2> HIDE DEF u
  <2>2. u % SizeModulus = u
    BY <2>1, SizeAssumption
  <2> QED
    BY <2>1, <2>2 DEF u
<1>16. r \in Nat /\ r > SizeModulus - y
  <2> DEFINE t == PowerOfTen(z - d)
  <2>1. t \in Nat /\ y \in Nat /\ t <= y /\ x \in Nat /\ x < t
    BY <1>12, <1>13
  <2> HIDE DEF t
  <2> QED
    BY <1>14, <1>15, <2>1, SizeAssumption
<1> QED
  BY <1>16 DEF y, L

LEMMA NegativeOfText ==
  ASSUME text \in Text
  PROVE  NegativeNumbersAreLarge
<1> DEFINE q == ParseFilter(text, DefaultQuery)  L == Len(text)
           digits == {j \in DOMAIN text : text[j] \in Range(Digits)}
<1>1. text \in Seq(Readable) /\ L \in Nat /\ DOMAIN text = 1 .. L /\ OpSymbol \subseteq Readable
  BY DEF Text, Readable
<1> SUFFICES ASSUME NEW i \in DOMAIN q.filters, NEW j \in digits, \A g \in digits : j <= g,
                    text[j] # "0", j > 1, text[j - 1] = "-"
             PROVE  q.filters[i].value > SizeModulus - PowerOfTen(L)
  BY DEF NegativeNumbersAreLarge
<1>2. /\ i = 1
      /\ \E n, p, k, m, h, e :
           /\ ReadAt(text, n, p, k, m, h, e)
           /\ m = k + 1 /\ text[m] \in FieldSymbol
           /\ q.filters[1].value \in Stoul(SubSeq(text, h + 1, e))
  BY <1>1, FilterRead
<1> HIDE DEF q
<1>3. PICK n, p, k, m, h, e :
        /\ ReadAt(text, n, p, k, m, h, e)
        /\ m = k + 1 /\ text[m] \in FieldSymbol
        /\ q.filters[1].value \in Stoul(SubSeq(text, h + 1, e))
  BY <1>2
<1>4. /\ j \in 2 .. Len(text) /\ text[j] \in Digital
      /\ \A g \in 1 .. Len(text) : text[g] \in Digital => j <= g
  BY <1>1 DEF Digital
<1> HIDE DEF L, digits
<1> DEFINE r == q.filters[1].value
<1>5. r \in Stoul(SubSeq(text, h + 1, e))
  BY <1>3
<1> HIDE DEF r
<1>6. r > SizeModulus - PowerOfTen(Len(text))
  BY <1>1, <1>3, <1>4, <1>5, NegativeRead
<1> QED
  BY <1>2, <1>6 DEF r, L

(***************************************************************************)
(* A filter whose number is negative is read for one that is larger than   *)
(* every number of as many digits as the text can have, whatever the       *)
(* modulus is (query_command.cpp:112-119).                                 *)
(***************************************************************************)
THEOREM NegativesAreLarge == Spec => []NegativeNumbersAreLarge
<1>1. Typed => NegativeNumbersAreLarge
  BY NegativeOfText DEF Typed
<1> QED
  BY <1>1, TypedAlways, PTL

-----------------------------------------------------------------------------
(* Options *)

LEMMA SkippingJoins ==
  ASSUME NEW S, NEW a \in Seq(S), NEW b \in Seq(S), NEW e
  PROVE  Skipping(e, a \o b) = Skipping(e, a) \o Skipping(e, b)
<1> DEFINE U == Seq(S)
           T == {s \in U : Skipping(e, a \o s) = Skipping(e, a) \o Skipping(e, s)}
<1>1. \A s \in U : Skipping(e, s) \in U
  <2>1. \A s \in U : Skipping(e, s) \in Seq(S \ {e})
    BY SkippingType
  <2>2. Seq(S \ {e}) \subseteq U
    BY SeqMonotonic
  <2> QED
    BY <2>1, <2>2
<1>2. <<>> \in T
  <2>1. Skipping(e, <<>>) = <<>> /\ <<>> \in U
    BY SkippingNone
  <2>2. a \o <<>> = a /\ Skipping(e, a) \o <<>> = Skipping(e, a)
    <3> DEFINE x == Skipping(e, a)
    <3>1. x \in Seq(S)
      BY <1>1
    <3> HIDE DEF x
    <3>2. a \o <<>> = a /\ x \o <<>> = x
      BY <3>1, ConcatEmptySeq
    <3> QED
      BY <3>2 DEF x
  <2> QED
    BY <2>1, <2>2, Zenon
<1>3. ASSUME NEW s \in U, NEW t \in S, s \in T
      PROVE  Append(s, t) \in T
  <2> DEFINE x == Skipping(e, a)  y == Skipping(e, s)  more == Append(s, t)
  <2>1. x \in Seq(S) /\ y \in Seq(S) /\ <<t>> \in Seq(S) /\ s \in Seq(S)
    BY <1>1
  <2>2. Skipping(e, a \o s) = x \o y
    BY <1>3
  <2>3. more \in Seq(S) /\ a \o s \in Seq(S)
    BY <2>1, AppendProperties, ConcatProperties
  <2>4. a \o more = Append(a \o s, t)
    <3>1. more = s \o <<t>> /\ Append(a \o s, t) = (a \o s) \o <<t>>
      BY <2>1, <2>3, AppendIsConcat
    <3>2. a \o (s \o <<t>>) = (a \o s) \o <<t>>
      BY <2>1, ConcatAssociative
    <3> QED
      BY <3>1, <3>2
  <2>5. CASE t = e
    <3>1. Skipping(e, more) = y
      BY <2>1, <2>5, SkippingAppend
    <3> DEFINE as == a \o s
    <3>2. as \in Seq(S)
      BY <2>3
    <3> HIDE DEF as
    <3>3. Skipping(e, Append(as, t)) = Skipping(e, as)
      BY <2>5, <3>2, SkippingAppend
    <3> HIDE DEF x, y, more
    <3>4. Skipping(e, a \o more) = x \o Skipping(e, more)
      BY <2>2, <2>4, <3>1, <3>3 DEF as
    <3> QED
      BY <2>3, <3>4 DEF x, more
  <2>6. CASE t # e
    <3>1. Skipping(e, more) = Append(y, t)
      BY <2>1, <2>6, SkippingAppend
    <3> DEFINE as == a \o s
    <3>2. as \in Seq(S)
      BY <2>3
    <3> HIDE DEF as
    <3>3. Skipping(e, Append(as, t)) = Append(Skipping(e, as), t)
      BY <2>6, <3>2, SkippingAppend
    <3> HIDE DEF x, y, more
    <3>4. Append(x \o y, t) = x \o Append(y, t)
      <4>1. x \o y \in Seq(S)
        BY <2>1, ConcatProperties
      <4>2. Append(x \o y, t) = (x \o y) \o <<t>> /\ Append(y, t) = y \o <<t>>
        BY <2>1, <4>1, AppendIsConcat
      <4>3. x \o (y \o <<t>>) = (x \o y) \o <<t>>
        BY <2>1, ConcatAssociative
      <4> QED
        BY <4>2, <4>3
    <3>5. Skipping(e, a \o more) = Append(x \o y, t)
      BY <2>2, <2>4, <3>3 DEF as
    <3>6. Skipping(e, a \o more) = x \o Skipping(e, more)
      BY <3>1, <3>4, <3>5
    <3> QED
      BY <2>3, <3>6 DEF x, more
  <2> QED
    BY <2>5, <2>6
<1>4. Seq(S) \subseteq T
  <2> HIDE DEF T
  <2> QED
    BY <1>2, <1>3, SequenceInduction
<1> QED
  BY <1>4

LEMMA SkippingEach ==
  ASSUME NEW S, NEW e
  PROVE  /\ \A s \in Seq(S \ {e}) : Skipping(e, s) = s
         /\ \A s \in Seq({e}) : Skipping(e, s) = <<>>
<1> DEFINE A == {s \in Seq(S \ {e}) : Skipping(e, s) = s}
           B == {s \in Seq({e}) : Skipping(e, s) = <<>>}
<1>1. <<>> \in A /\ <<>> \in B
  BY SkippingNone
<1>2. ASSUME NEW s \in Seq(S \ {e}), NEW t \in S \ {e}, s \in A
      PROVE  Append(s, t) \in A
  <2>1. t # e /\ Append(s, t) \in Seq(S \ {e})
    BY AppendProperties
  <2>2. Skipping(e, Append(s, t)) = Append(Skipping(e, s), t)
    BY <2>1, SkippingAppend
  <2> QED
    BY <1>2, <2>1, <2>2
<1>3. ASSUME NEW s \in Seq({e}), NEW t \in {e}, s \in B
      PROVE  Append(s, t) \in B
  <2>1. t = e /\ Append(s, t) \in Seq({e})
    BY AppendProperties
  <2>2. Skipping(e, Append(s, t)) = Skipping(e, s)
    BY <2>1, SkippingAppend
  <2> QED
    BY <1>3, <2>1, <2>2
<1> HIDE DEF A, B
<1>4. Seq(S \ {e}) \subseteq A
  BY <1>1, <1>2, SequenceInduction
<1>5. Seq({e}) \subseteq B
  BY <1>1, <1>3, SequenceInduction
<1> QED
  BY <1>4, <1>5 DEF A, B

(* What is left at a + 1 .. b of a text without its spaces. *)
DensePart(s, a, b) == Skipping(SP, SubSeq(s, a + 1, b))

LEMMA DenseParts ==
  ASSUME NEW C, NEW s \in Seq(C), NEW a \in Nat, NEW b \in Nat, a <= b, b <= Len(s)
  PROVE  /\ DensePart(s, a, b) \in Seq(C)
         /\ (\A i \in a + 1 .. b : s[i] = SP) => DensePart(s, a, b) = <<>>
         /\ (\A i \in a + 1 .. b : s[i] # SP) => DensePart(s, a, b) = SubSeq(s, a + 1, b)
         /\ \A c \in a .. b : DensePart(s, a, b) = DensePart(s, a, c) \o DensePart(s, c, b)
<1> DEFINE y == SubSeq(s, a + 1, b)
<1>1. y \in Seq(C) /\ Len(y) = b - a /\ \A i \in 1 .. b - a : y[i] = s[a + i]
  BY CutOut
<1>2. DensePart(s, a, b) \in Seq(C)
  <2>1. DensePart(s, a, b) \in Seq(C \ {SP})
    <3> HIDE DEF y
    <3>1. Skipping(SP, y) \in Seq(C \ {SP})
      BY <1>1, SkippingType
    <3> QED
      BY <3>1 DEF DensePart, y
  <2> QED
    BY <2>1, SeqMonotonic
<1>3. \A i \in 1 .. b - a : a + i \in a + 1 .. b
  OBVIOUS
<1> HIDE DEF y
<1>4. ASSUME \A i \in a + 1 .. b : s[i] = SP
      PROVE  DensePart(s, a, b) = <<>>
  <2>1. \A i \in 1 .. Len(y) : y[i] \in {SP}
    BY <1>1, <1>3, <1>4
  <2>2. y \in Seq({SP})
    BY <1>1, <2>1, Narrowed
  <2> QED
    BY <2>2, SkippingEach DEF DensePart, y
<1>5. ASSUME \A i \in a + 1 .. b : s[i] # SP
      PROVE  DensePart(s, a, b) = y
  <2>1. \A i \in 1 .. Len(y) : y[i] \in C \ {SP}
    <3>1. \A i \in 1 .. Len(y) : y[i] \in C
      BY <1>1
    <3> QED
      BY <1>1, <1>3, <1>5, <3>1
  <2>2. y \in Seq(C \ {SP})
    BY <1>1, <2>1, Narrowed
  <2> QED
    BY <2>2, SkippingEach DEF DensePart, y
<1>6. ASSUME NEW c \in a .. b
      PROVE  DensePart(s, a, b) = DensePart(s, a, c) \o DensePart(s, c, b)
  <2> DEFINE u == SubSeq(s, a + 1, c)  v == SubSeq(s, c + 1, b)
  <2>1. /\ a + 1 \in 1 .. Len(s) + 1 /\ c \in a + 1 - 1 .. Len(s) /\ b \in c .. Len(s)
        /\ c \in Nat /\ a <= c /\ c <= b /\ c <= Len(s)
    OBVIOUS
  <2>2. u \o v = y
    BY <2>1, ConcatAdjacentSubSeq DEF y
  <2>3. u \in Seq(C) /\ v \in Seq(C)
    BY <2>1, CutOut
  <2> HIDE DEF u, v
  <2>4. Skipping(SP, u \o v) = Skipping(SP, u) \o Skipping(SP, v)
    BY <2>3, SkippingJoins
  <2> QED
    BY <2>2, <2>4 DEF DensePart, y, u, v
<1> QED
  BY <1>2, <1>4, <1>5, <1>6 DEF y

LEMMA ReadBounds ==
  ASSUME NEW s \in Seq(Readable), NEW n, NEW p, NEW k, NEW m, NEW h, NEW e,
         ReadAt(s, n, p, k, m, h, e)
  PROVE  LET a == p - 1  b == a + Len(OPERATORS[n])
         IN  /\ n \in 1 .. 6 /\ Len(OPERATORS[n]) \in Nat \ {0}
             /\ k \in Nat /\ m \in Nat /\ a \in Nat /\ b \in Nat /\ h \in Nat /\ e \in Nat
             /\ k <= m /\ m <= a /\ a < b /\ b <= h /\ h <= e /\ e <= Len(s)
             /\ (\A i \in 0 + 1 .. k : s[i] = SP) /\ (\A i \in m + 1 .. a : s[i] = SP)
             /\ (\A i \in b + 1 .. h : s[i] = SP) /\ (\A i \in e + 1 .. Len(s) : s[i] = SP)
             /\ k < m => s[k + 1] # SP /\ s[m] # SP
             /\ h < e => s[h + 1] # SP /\ s[e] # SP
             /\ \A i \in 1 .. b - a : s[a + i] = OPERATORS[n][i]
<1> DEFINE L == Len(s)  w == Len(OPERATORS[n])  q == p + w  a == p - 1  b == a + w
<1>1. L \in Nat
  OBVIOUS
<1>2. /\ TrimmedTo(s, k, e) /\ n \in 1 .. 6 /\ Occurs(s, OPERATORS[n], p)
      /\ m \in k .. p - 1 /\ (m # k => s[m] # SP) /\ (\A i \in m + 1 .. p - 1 : s[i] = SP)
      /\ h \in q - 1 .. e /\ (h < e => s[h + 1] # SP) /\ (\A i \in q .. h : s[i] = SP)
  BY DEF ReadAt
<1>3. /\ k \in Nat /\ e \in k .. L /\ (\A i \in 1 .. k : s[i] = SP)
      /\ (\A i \in e + 1 .. L : s[i] = SP) /\ (k < e => s[k + 1] # SP /\ s[e] # SP)
  BY <1>2 DEF TrimmedTo
<1>4. w \in Nat \ {0}
  BY <1>2, OperatorType, SMTT(60)
<1>5. p \in 1 .. L - w + 1 /\ \A j \in 1 .. w : s[p + j - 1] = OPERATORS[n][j]
  BY <1>2 DEF Occurs
<1> HIDE DEF L, w
<1>6. /\ k \in Nat /\ m \in Nat /\ a \in Nat /\ b \in Nat /\ h \in Nat /\ e \in Nat
      /\ k <= m /\ m <= a /\ a < b /\ b <= h /\ h <= e /\ e <= L /\ k < e
  BY <1>1, <1>2, <1>3, <1>4, <1>5
<1>7. b - a = w /\ b + 1 = q /\ 0 + 1 = 1 /\ \A i \in 1 .. w : a + i = p + i - 1
  BY <1>4, <1>5
<1>8. \A i \in 1 .. b - a : s[a + i] = OPERATORS[n][i]
  <2> HIDE DEF a, b
  <2> QED
    BY <1>5, <1>7
<1>9. /\ k < m => s[k + 1] # SP /\ s[m] # SP
      /\ h < e => s[h + 1] # SP /\ s[e] # SP
  BY <1>2, <1>3, <1>6
<1>10. /\ (\A i \in 0 + 1 .. k : s[i] = SP) /\ (\A i \in m + 1 .. a : s[i] = SP)
       /\ (\A i \in b + 1 .. h : s[i] = SP) /\ (\A i \in e + 1 .. L : s[i] = SP)
  <2>1. \A i \in m + 1 .. a : s[i] = SP
    BY <1>2
  <2> HIDE DEF a, b, q
  <2> QED
    BY <1>2, <1>3, <1>7, <2>1
<1> HIDE DEF a, b
<1> QED
  BY <1>2, <1>4, <1>6, <1>8, <1>9, <1>10 DEF a, b, L, w

(* Without its spaces, a text is its field, its operator and its value without theirs. *)
LEMMA DenseRead ==
  ASSUME NEW s \in Seq(Readable), NEW n, NEW p, NEW k, NEW m, NEW h, NEW e,
         ReadAt(s, n, p, k, m, h, e)
  PROVE  /\ DensePart(s, k, m) \in Seq(Readable) /\ DensePart(s, h, e) \in Seq(Readable)
         /\ Skipping(SP, s) = (DensePart(s, k, m) \o OPERATORS[n]) \o DensePart(s, h, e)
<1> DEFINE L == Len(s)  a == p - 1  b == a + Len(OPERATORS[n])  op == OPERATORS[n]
           F == DensePart(s, k, m)  V == DensePart(s, h, e)
<1>1. /\ n \in 1 .. 6 /\ Len(op) \in Nat \ {0}
      /\ k \in Nat /\ m \in Nat /\ a \in Nat /\ b \in Nat /\ h \in Nat /\ e \in Nat
      /\ k <= m /\ m <= a /\ a < b /\ b <= h /\ h <= e /\ e <= L
      /\ (\A i \in 0 + 1 .. k : s[i] = SP) /\ (\A i \in m + 1 .. a : s[i] = SP)
      /\ (\A i \in b + 1 .. h : s[i] = SP) /\ (\A i \in e + 1 .. L : s[i] = SP)
      /\ \A i \in 1 .. b - a : s[a + i] = op[i]
  BY ReadBounds
<1>2. L \in Nat
  OBVIOUS
<1>3. op \in Seq(OpSymbol) /\ op \in Seq(Readable) /\ Len(op) = b - a
  <2>1. op \in Seq(OpSymbol)
    BY <1>1, OperatorType
  <2>2. OpSymbol \subseteq Readable
    BY DEF Readable
  <2>3. Len(op) = b - a
    <3> DEFINE w == Len(OPERATORS[n])
    <3>1. w \in Nat /\ a \in Nat
      BY <1>1
    <3> HIDE DEF w, a
    <3>2. (a + w) - a = w
      BY <3>1
    <3> QED
      BY <3>2 DEF w
  <2> HIDE DEF op
  <2> QED
    BY <2>1, <2>2, <2>3, SeqMonotonic
<1> HIDE DEF a, b, op
<1>4. F \in Seq(Readable) /\ V \in Seq(Readable)
  <2>1. m <= Len(s) /\ e <= Len(s)
    BY <1>1, <1>2
  <2> QED
    BY <1>1, <2>1, DenseParts
<1>5. /\ k \in Nat /\ m \in Nat /\ a \in Nat /\ b \in Nat /\ h \in Nat /\ e \in Nat
      /\ L \in Nat /\ 0 \in Nat /\ L <= Len(s)
  BY <1>1, <1>2
<1>6. /\ 0 <= k /\ k <= m /\ m <= a /\ a <= b /\ b <= h /\ h <= e /\ e <= L
      /\ k <= L /\ m <= L /\ a <= L /\ b <= L /\ h <= L /\ 0 <= L /\ L <= L
  BY <1>1, <1>2
<1>7. \A x \in Nat, y \in Nat, z \in Nat :
        x <= z /\ z <= y /\ y <= L => DensePart(s, x, y) = DensePart(s, x, z) \o DensePart(s, z, y)
  <2> SUFFICES ASSUME NEW x \in Nat, NEW y \in Nat, NEW z \in Nat, x <= z, z <= y, y <= L
               PROVE  DensePart(s, x, y) = DensePart(s, x, z) \o DensePart(s, z, y)
    OBVIOUS
  <2>1. x <= y /\ y <= Len(s) /\ z \in x .. y
    OBVIOUS
  <2> QED
    BY <2>1, DenseParts
<1>8. \A x \in Nat, y \in Nat :
        x <= y /\ y <= L =>
          /\ (\A i \in x + 1 .. y : s[i] = SP) => DensePart(s, x, y) = <<>>
          /\ (\A i \in x + 1 .. y : s[i] # SP) => DensePart(s, x, y) = SubSeq(s, x + 1, y)
  BY DenseParts
<1>9. /\ DensePart(s, 0, k) = <<>> /\ DensePart(s, m, a) = <<>>
      /\ DensePart(s, b, h) = <<>> /\ DensePart(s, e, L) = <<>>
  <2>1. \A i \in e + 1 .. L : s[i] = SP
    BY <1>1
  <2> HIDE DEF L
  <2> QED
    BY <1>1, <1>5, <1>6, <1>8, <2>1
<1>10. /\ DensePart(s, 0, L) = DensePart(s, 0, k) \o DensePart(s, k, L)
       /\ DensePart(s, k, L) = F \o DensePart(s, m, L)
       /\ DensePart(s, m, L) = DensePart(s, m, a) \o DensePart(s, a, L)
       /\ DensePart(s, a, L) = DensePart(s, a, b) \o DensePart(s, b, L)
       /\ DensePart(s, b, L) = DensePart(s, b, h) \o DensePart(s, h, L)
       /\ DensePart(s, h, L) = V \o DensePart(s, e, L)
  <2> HIDE DEF L
  <2>1. DensePart(s, 0, L) = DensePart(s, 0, k) \o DensePart(s, k, L)
    BY <1>5, <1>6, <1>7
  <2>2. DensePart(s, k, L) = DensePart(s, k, m) \o DensePart(s, m, L)
    BY <1>5, <1>6, <1>7, ZenonT(60)
  <2>3. DensePart(s, m, L) = DensePart(s, m, a) \o DensePart(s, a, L)
    BY <1>5, <1>6, <1>7, ZenonT(60)
  <2>4. DensePart(s, a, L) = DensePart(s, a, b) \o DensePart(s, b, L)
    BY <1>5, <1>6, <1>7, ZenonT(60)
  <2>5. DensePart(s, b, L) = DensePart(s, b, h) \o DensePart(s, h, L)
    BY <1>5, <1>6, <1>7, ZenonT(60)
  <2>6. DensePart(s, h, L) = DensePart(s, h, e) \o DensePart(s, e, L)
    BY <1>5, <1>6, <1>7, ZenonT(60)
  <2> QED
    BY <2>1, <2>2, <2>3, <2>4, <2>5, <2>6
<1>11. DensePart(s, a, b) = op
  <2>1. a <= b /\ b <= Len(s)
    BY <1>1, <1>2
  <2>2. SubSeq(s, a + 1, b) = op
    <3>1. op \in Seq(Readable) /\ \A i \in 1 .. b - a : op[i] = s[a + i]
      BY <1>1, <1>3
    <3> QED
      BY <1>3, <1>5, <2>1, <3>1, CutFrom
  <2>3. \A i \in a + 1 .. b : s[i] # SP
    <3>1. \A g \in 1 .. b - a : op[g] \in OpSymbol
      BY <1>3
    <3>2. \A g \in 1 .. b - a : s[a + g] # SP
      <4>1. SP \notin OpSymbol
        BY DEF SP, OpSymbol
      <4>2. \A g \in 1 .. b - a : s[a + g] = op[g]
        BY <1>1
      <4> QED
        BY <3>1, <4>1, <4>2
    <3>3. ASSUME NEW i \in a + 1 .. b
          PROVE  \E g \in 1 .. b - a : a + g = i
      <4>1. i - a \in 1 .. b - a /\ a + (i - a) = i
        BY <1>5
      <4> QED
        BY <4>1
    <3> QED
      BY <3>2, <3>3
  <2> HIDE DEF L
  <2> QED
    BY <1>5, <1>6, <1>8, <2>2, <2>3
<1>12. Skipping(SP, s) = DensePart(s, 0, L)
  <2>1. SubSeq(s, 1, L) = s /\ 0 + 1 = 1
    BY SubSeqFull
  <2> HIDE DEF L
  <2> QED
    BY <2>1 DEF DensePart
<1> DEFINE C == Readable
<1> HIDE DEF F, V, L, C
<1>13. V \o <<>> = V /\ \A x \in Seq(C) : <<>> \o x = x
  BY <1>4, ConcatEmptySeq DEF C
<1>14. op \o V \in Seq(C) /\ F \o (op \o V) \in Seq(C) /\ (F \o op) \o V = F \o (op \o V)
  <2>1. op \in Seq(C) /\ V \in Seq(C) /\ F \in Seq(C)
    BY <1>3, <1>4 DEF C
  <2>2. op \o V \in Seq(C)
    BY <2>1, ConcatProperties
  <2>3. F \o (op \o V) \in Seq(C)
    BY <2>1, <2>2, ConcatProperties
  <2> QED
    BY <2>1, <2>2, <2>3, ConcatAssociative
<1>15. DensePart(s, h, L) = V /\ DensePart(s, b, L) = V
  BY <1>4, <1>9, <1>10, <1>13, Zenon DEF C
<1>16. DensePart(s, a, L) = op \o V
  BY <1>10, <1>11, <1>15, Zenon
<1>17. DensePart(s, m, L) = op \o V
  BY <1>9, <1>10, <1>13, <1>14, <1>16, Zenon
<1>18. DensePart(s, 0, L) = F \o (op \o V)
  BY <1>9, <1>10, <1>13, <1>14, <1>17, Zenon
<1> QED
  BY <1>4, <1>12, <1>14, <1>18 DEF F, V, op

(* A part that neither begins nor ends with a space and has one other symbol is that symbol. *)
LEMMA DenseOne ==
  ASSUME NEW C, NEW s \in Seq(C), NEW a \in Nat, NEW b \in Nat, a <= b, b <= Len(s),
         a < b => s[a + 1] # SP /\ s[b] # SP, NEW c, DensePart(s, a, b) = <<c>>
  PROVE  b = a + 1 /\ SubSeq(s, a + 1, b) = <<c>>
<1>1. a < b
  <2> SUFFICES ASSUME ~(a < b)
               PROVE  FALSE
    OBVIOUS
  <2>1. \A i \in a + 1 .. b : s[i] = SP
    OBVIOUS
  <2>2. DensePart(s, a, b) = <<>>
    BY <2>1, DenseParts
  <2>3. Len(<<c>>) # Len(<<>>)
    OBVIOUS
  <2> QED
    BY <2>2, <2>3
<1> DEFINE first == DensePart(s, a, a + 1)  rest == DensePart(s, a + 1, b)
           last == DensePart(s, b - 1, b)
<1>2. first \in Seq(C) /\ rest \in Seq(C) /\ DensePart(s, a, b) = first \o rest
  <2>1. /\ a + 1 \in Nat /\ a <= a + 1 /\ a + 1 <= b /\ a + 1 <= Len(s)
        /\ a + 1 \in a .. b
    BY <1>1
  <2> QED
    BY <2>1, DenseParts
<1>3. \A g \in 1 .. Len(s) : s[g] # SP =>
        /\ SubSeq(s, (g - 1) + 1, g) = <<s[g]>>
        /\ DensePart(s, g - 1, g) = <<s[g]>> /\ Len(DensePart(s, g - 1, g)) = 1
  <2> SUFFICES ASSUME NEW g \in 1 .. Len(s), s[g] # SP
               PROVE  /\ SubSeq(s, (g - 1) + 1, g) = <<s[g]>>
                      /\ DensePart(s, g - 1, g) = <<s[g]>>
                      /\ Len(DensePart(s, g - 1, g)) = 1
    OBVIOUS
  <2> DEFINE f == g - 1  one == <<s[g]>>
  <2>1. f \in Nat /\ g \in Nat /\ f <= g /\ g <= Len(s) /\ g - f = 1 /\ f + 1 = g
    OBVIOUS
  <2>2. one \in Seq(C) /\ Len(one) = g - f /\ \A i \in 1 .. g - f : one[i] = s[f + i]
    <3>1. one \in Seq(C) /\ Len(one) = 1 /\ one[1] = s[g]
      OBVIOUS
    <3> HIDE DEF one, f
    <3> QED
      BY <2>1, <3>1
  <2> HIDE DEF one, f
  <2>3. SubSeq(s, f + 1, g) = one
    BY <2>1, <2>2, CutFrom
  <2>4. \A i \in f + 1 .. g : s[i] # SP
    BY <2>1
  <2>5. (\A i \in f + 1 .. g : s[i] # SP) => DensePart(s, f, g) = SubSeq(s, f + 1, g)
    BY <2>1, DenseParts
  <2> QED
    BY <2>1, <2>2, <2>3, <2>4, <2>5 DEF f, one
<1>4. first = <<s[a + 1]>> /\ Len(first) = 1
  <2>1. a + 1 \in 1 .. Len(s) /\ (a + 1) - 1 = a
    BY <1>1
  <2> QED
    BY <1>1, <1>3, <2>1
<1>5. b = a + 1
  <2> SUFFICES ASSUME b # a + 1
               PROVE  FALSE
    OBVIOUS
  <2>1. /\ a + 1 \in Nat /\ a + 1 <= b /\ b - 1 \in a + 1 .. b /\ b - 1 <= Len(s)
        /\ b - 1 \in Nat /\ a + 1 <= b - 1 /\ b - 1 <= b /\ b \in 1 .. Len(s)
    BY <1>1
  <2> DEFINE mid == DensePart(s, a + 1, b - 1)
  <2>2. mid \in Seq(C) /\ last \in Seq(C) /\ rest = mid \o last
    BY <2>1, DenseParts
  <2>3. Len(last) = 1
    BY <1>1, <1>3, <2>1
  <2> HIDE DEF first, rest, mid, last
  <2>4. Len(first \o rest) = 1 + (Len(mid) + 1) /\ Len(mid) \in Nat
    <3>1. Len(first \o rest) = Len(first) + Len(rest) /\ Len(rest) = Len(mid) + Len(last)
      BY <1>2, <2>2, ConcatProperties
    <3>2. Len(mid) \in Nat
      BY <2>2
    <3> QED
      BY <1>4, <2>3, <3>1, <3>2
  <2> DEFINE one == <<c>>
  <2>5. Len(one) = 1
    OBVIOUS
  <2>6. first \o rest = one
    BY <1>2
  <2> HIDE DEF one
  <2> QED
    BY <2>4, <2>5, <2>6
<1>6. SubSeq(s, a + 1, b) = <<c>>
  <2>1. b \in 1 .. Len(s) /\ b - 1 = a /\ s[b] # SP
    BY <1>1, <1>5
  <2> QED
    BY <1>3, <2>1
<1> QED
  BY <1>5, <1>6

LEMMA SameElements ==
  ASSUME NEW S, NEW s \in Seq(S), NEW t \in Seq(S), Len(s) = Len(t),
         \A i \in 1 .. Len(s) : s[i] = t[i]
  PROVE  s = t
OBVIOUS

(* A field, an operator and a value in one text. *)
Glued(x, op, y) == (x \o op) \o y

(* A field, an operator and a value can be told apart without any spaces. *)
LEMMA OperatorFound ==
  ASSUME NEW X \in Seq(Readable), NEW Y \in Seq(Readable), NEW n \in 1 .. 6, NEW j \in 1 .. 6,
         ~(j < n), NEW f, NEW d, f \notin OpSymbol, d \notin OpSymbol,
         Glued(X, OPERATORS[n], Y) = Glued(<<f>>, OPERATORS[j], <<d>>)
  PROVE  OPERATORS[n] = OPERATORS[j] /\ X = <<f>> /\ Y = <<d>>
<1> DEFINE C == Readable \cup {f, d}
           u == OPERATORS[n]  v == OPERATORS[j]  A == Len(X)  B == Len(Y)  w == Len(u)  l == Len(v)
           x == X \o u  y == <<f>> \o v  z == x \o Y
<1>0. (X \o OPERATORS[n]) \o Y = (<<f>> \o OPERATORS[j]) \o <<d>>
  BY DEF Glued
<1>1. /\ u \in Seq(OpSymbol) /\ v \in Seq(OpSymbol)
      /\ w = IF n <= 3 THEN 2 ELSE 1
      /\ l = IF j <= 3 THEN 2 ELSE 1
  BY OperatorType
<1>2. /\ A \in Nat /\ B \in Nat /\ w \in {1, 2} /\ l \in {1, 2} /\ l <= w
  <2>1. w \in {1, 2} /\ l \in {1, 2} /\ l <= w
    <3> HIDE DEF w, l
    <3> QED
      BY <1>1
  <2> QED
    BY <2>1
<1> HIDE DEF u, v, w, l
<1>3. u \in Seq(C) /\ v \in Seq(C) /\ X \in Seq(C) /\ Y \in Seq(C)
  <2>1. OpSymbol \subseteq C /\ Readable \subseteq C
    BY DEF Readable
  <2> HIDE DEF C
  <2> QED
    BY <1>1, <2>1, SeqMonotonic
<1>4. <<f>> \in Seq(C) /\ <<d>> \in Seq(C)
  OBVIOUS
<1> HIDE DEF C, A, B
<1>5. x \in Seq(C) /\ Len(x) = A + w
      /\ \A i \in 1 .. A + w : x[i] = IF i <= A THEN X[i] ELSE u[i - A]
  <2>1. X \o u \in Seq(C) /\ Len(X \o u) = Len(X) + Len(u)
        /\ \A i \in 1 .. Len(X) + Len(u) : (X \o u)[i] = IF i <= Len(X) THEN X[i] ELSE u[i - Len(X)]
    BY <1>3, ConcatProperties
  <2> QED
    BY <2>1 DEF A, w
<1> HIDE DEF x
<1>6. z \in Seq(C) /\ Len(z) = (A + w) + B
      /\ \A i \in 1 .. (A + w) + B : z[i] = IF i <= A + w THEN x[i] ELSE Y[i - (A + w)]
  <2>1. x \o Y \in Seq(C) /\ Len(x \o Y) = Len(x) + Len(Y)
        /\ \A i \in 1 .. Len(x) + Len(Y) : (x \o Y)[i] = IF i <= Len(x) THEN x[i] ELSE Y[i - Len(x)]
    BY <1>3, <1>5, ConcatProperties
  <2> DEFINE k == Len(x)
  <2>2. k = A + w
    BY <1>5
  <2>3. Len(x \o Y) = k + B
        /\ \A i \in 1 .. k + B : (x \o Y)[i] = IF i <= k THEN x[i] ELSE Y[i - k]
    BY <2>1 DEF B
  <2> HIDE DEF k
  <2> QED
    BY <2>1, <2>2, <2>3
<1>7. y \in Seq(C) /\ Len(y) = 1 + l
      /\ \A i \in 1 .. 1 + l : y[i] = IF i <= 1 THEN f ELSE v[i - 1]
  <2> DEFINE one == <<f>>
  <2>1. one \in Seq(C) /\ Len(one) = 1 /\ one[1] = f
    BY <1>4
  <2> HIDE DEF one
  <2>2. one \o v \in Seq(C) /\ Len(one \o v) = Len(one) + Len(v)
        /\ \A i \in 1 .. Len(one) + Len(v) :
             (one \o v)[i] = IF i <= Len(one) THEN one[i] ELSE v[i - Len(one)]
    BY <1>3, <2>1, ConcatProperties
  <2>3. \A i \in 1 .. 1 + l : (one \o v)[i] = IF i <= 1 THEN one[i] ELSE v[i - 1]
    BY <2>1, <2>2 DEF l
  <2>4. \A i \in 1 .. 1 + l : i <= 1 => i = 1
    BY <1>2
  <2>5. ASSUME NEW i \in 1 .. 1 + l
        PROVE  (one \o v)[i] = IF i <= 1 THEN f ELSE v[i - 1]
    <3>1. CASE i <= 1
      BY <2>1, <2>3, <2>4, <3>1
    <3>2. CASE ~(i <= 1)
      BY <2>3, <3>2
    <3> QED
      BY <3>1, <3>2
  <2> QED
    BY <2>1, <2>2, <2>5 DEF one, l
<1> HIDE DEF y
<1>8. Len(z) = (1 + l) + 1 /\ \A i \in 1 .. (1 + l) + 1 : z[i] = IF i <= 1 + l THEN y[i] ELSE d
  <2> DEFINE one == <<d>>
  <2>1. one \in Seq(C) /\ Len(one) = 1 /\ one[1] = d
    BY <1>4
  <2> HIDE DEF one
  <2>2. y \o one \in Seq(C) /\ Len(y \o one) = Len(y) + Len(one)
        /\ \A i \in 1 .. Len(y) + Len(one) :
             (y \o one)[i] = IF i <= Len(y) THEN y[i] ELSE one[i - Len(y)]
    BY <1>7, <2>1, ConcatProperties
  <2>3. Len(y \o one) = (1 + l) + 1
        /\ \A i \in 1 .. (1 + l) + 1 : (y \o one)[i] = IF i <= 1 + l THEN y[i] ELSE one[i - (1 + l)]
    BY <1>7, <2>1, <2>2
  <2>4. \A i \in 1 .. (1 + l) + 1 : ~(i <= 1 + l) => i - (1 + l) = 1
    BY <1>2
  <2>5. z = y \o one
    BY <1>0 DEF x, y, u, v, one
  <2> HIDE DEF z
  <2> QED
    BY <2>1, <2>3, <2>4, <2>5
<1> HIDE DEF z
<1>9. (A + w) + B = (1 + l) + 1
  BY <1>6, <1>8
<1>10. \A i \in 1 .. w : A + i \in 1 .. (A + w) + B /\ z[A + i] = u[i]
  <2> SUFFICES ASSUME NEW i \in 1 .. w
               PROVE  A + i \in 1 .. (A + w) + B /\ z[A + i] = u[i]
    OBVIOUS
  <2> DEFINE g == A + i
  <2>1. g \in 1 .. (A + w) + B /\ g \in 1 .. A + w /\ g <= A + w /\ ~(g <= A) /\ g - A = i
    BY <1>2
  <2> HIDE DEF g
  <2>2. z[g] = x[g] /\ x[g] = u[g - A]
    BY <1>5, <1>6, <2>1
  <2> QED
    BY <2>1, <2>2 DEF g
<1>11. \A i \in 1 .. w : u[i] \in OpSymbol
  BY <1>1 DEF w
<1>12. z[1] = f /\ z[(1 + l) + 1] = d
  <2>1. /\ 1 \in 1 .. (1 + l) + 1 /\ 1 <= 1 + l /\ 1 \in 1 .. 1 + l /\ 1 <= 1
        /\ (1 + l) + 1 \in 1 .. (1 + l) + 1 /\ ~((1 + l) + 1 <= 1 + l)
    BY <1>2
  <2>2. y[1] = f
    BY <1>7, <2>1
  <2>3. z[1] = y[1] /\ z[(1 + l) + 1] = d
    BY <1>8, <2>1
  <2> QED
    BY <2>2, <2>3
<1>13. A # 0
  <2> SUFFICES ASSUME A = 0
               PROVE  FALSE
    OBVIOUS
  <2>1. 1 \in 1 .. w /\ A + 1 = 1
    BY <1>2
  <2>2. z[A + 1] = u[1] /\ u[1] \in OpSymbol
    BY <1>10, <1>11, <2>1
  <2> QED
    BY <1>12, <2>1, <2>2
<1>14. B # 0
  <2> SUFFICES ASSUME B = 0
               PROVE  FALSE
    OBVIOUS
  <2>1. w \in 1 .. w /\ A + w = (1 + l) + 1
    BY <1>2, <1>9
  <2>2. z[A + w] = u[w] /\ u[w] \in OpSymbol
    BY <1>10, <1>11, <2>1
  <2> QED
    BY <1>12, <2>1, <2>2
<1>15. A = 1 /\ B = 1 /\ w = l
  BY <1>2, <1>9, <1>13, <1>14
<1>16. u = v
  <2>1. \A i \in 1 .. l : u[i] = v[i]
    <3> SUFFICES ASSUME NEW i \in 1 .. l
                 PROVE  u[i] = v[i]
      OBVIOUS
    <3> DEFINE g == 1 + i
    <3>1. g \in 1 .. (1 + l) + 1 /\ g <= 1 + l /\ g \in 1 .. 1 + l /\ ~(g <= 1) /\ g - 1 = i
      BY <1>2
    <3> HIDE DEF g
    <3>2. z[g] = y[g] /\ y[g] = v[g - 1]
      BY <1>7, <1>8, <3>1
    <3>3. z[g] = u[i]
      BY <1>10, <1>15 DEF g
    <3> QED
      BY <3>1, <3>2, <3>3
  <2>2. \A i \in 1 .. Len(u) : u[i] = v[i]
    BY <1>15, <2>1 DEF w
  <2>3. Len(u) = Len(v)
    BY <1>15 DEF w, l
  <2> QED
    BY <1>1, <2>2, <2>3, SameElements
<1>17. X[1] = f /\ Y[1] = d
  <2>1. /\ 1 \in 1 .. A + w /\ 1 \in 1 .. (A + w) + B /\ 1 <= A + w /\ 1 <= A
        /\ (1 + l) + 1 \in 1 .. (A + w) + B /\ ~((1 + l) + 1 <= A + w)
        /\ ((1 + l) + 1) - (A + w) = 1
    BY <1>2, <1>15
  <2>2. x[1] = X[1] /\ z[1] = x[1]
    BY <1>5, <1>6, <2>1
  <2> DEFINE g == (1 + l) + 1  t == A + w
  <2>3. g \in 1 .. t + B /\ ~(g <= t) /\ g - t = 1
    BY <2>1
  <2>4. \A i \in 1 .. t + B : z[i] = IF i <= t THEN x[i] ELSE Y[i - t]
    BY <1>6
  <2> HIDE DEF g, t
  <2>5. z[g] = Y[1]
    BY <2>3, <2>4
  <2> QED
    BY <1>12, <2>2, <2>5 DEF g
<1>18. X = <<X[1]>> /\ Y = <<Y[1]>>
  BY <1>15 DEF A, B
<1> QED
  BY <1>16, <1>17, <1>18 DEF u, v

(* A digit, read as a number. *)
LEMMA OneDigit ==
  ASSUME NEW n \in 0 .. 9, n < SizeModulus
  PROVE  Stoul(<<Digits[n + 1]>>) = {n}
<1> DEFINE c == Digits[n + 1]
<1>1. c \in Digital /\ Digit(c) = n
  BY DigitsAre DEF Digital
<1> HIDE DEF c
<1>2. <<>> \in Seq(Digital) /\ Number(<<>>) = 0
  <2>1. <<>> \in Seq(Digital) /\ Len(<<>>) = 0
    OBVIOUS
  <2> QED
    BY <2>1, NumberIs DEF CountsUp
<1>3. Append(<<>>, c) = <<c>> /\ <<c>> \in Seq(Digital) /\ <<c>> # <<>>
  BY <1>1
<1>4. Number(<<c>>) = n
  <2>1. Number(Append(<<>>, c)) = 10 * 0 + n
    BY <1>1, <1>2, NumberAppend
  <2>2. 10 * 0 + n = n
    OBVIOUS
  <2> QED
    BY <1>3, <2>1, <2>2
<1>5. Stoul(<<c>>) = {Number(<<c>>)}
  <2> DEFINE ds == <<c>>
  <2>1. ds \in Seq(Digital) /\ ds # <<>> /\ Number(ds) < SizeModulus
    BY <1>3, <1>4
  <2> HIDE DEF ds
  <2>2. Stoul(ds) = {Number(ds)}
    BY <2>1, StoulIs
  <2> QED
    BY <2>2 DEF ds
<1> QED
  BY <1>4, <1>5 DEF c

(* A text that says a field, an operator and a value of one symbol each. *)
SaysOption(s, f, op, d) == Skipping(SP, s) = (<<f>> \o op) \o <<d>>

LEMMA OptionParsed ==
  ASSUME NEW s \in Seq(Readable), NEW op \in Range(OPERATORS), FindText(s, op) # NPos,
         NEW f, NEW d, f \notin OpSymbol, d \notin OpSymbol,
         SaysOption(s, f, op, d)
  PROVE  ParseExpression(s) = [field |-> <<f>>, op |-> op, value |-> <<d>>]
<1>0. OpSymbol \subseteq Readable
  BY DEF Readable
<1>1. PICK j \in 1 .. 6 : op = OPERATORS[j]
  BY OperatorsAre
<1>2. \E i : Occurs(s, op, i)
  <2>1. op \in Seq(Readable) /\ op # <<>>
    <3>1. op \in Seq(OpSymbol) /\ op # <<>>
      BY <1>1, OperatorType
    <3> QED
      BY <1>0, <3>1, SeqMonotonic
  <2> QED
    BY <2>1, FindTextIs
<1>3. PICK n, p, k, m, h, e :
        /\ ReadAt(s, n, p, k, m, h, e)
        /\ ParseExpression(s) = [field |-> SubSeq(s, k + 1, m), op |-> OPERATORS[n],
                                 value |-> SubSeq(s, h + 1, e)]
  <2>1. ~(\A n \in 1 .. 6 : \A i : ~Occurs(s, OPERATORS[n], i))
    BY <1>1, <1>2
  <2> QED
    BY <1>0, <2>1, Expressed
<1>4. n \in 1 .. 6 /\ ~(j < n)
  <2>1. n \in 1 .. 6 /\ \A g \in 1 .. n - 1 : \A i : ~Occurs(s, OPERATORS[g], i)
    BY <1>3 DEF ReadAt
  <2>2. j \notin 1 .. n - 1
    BY <1>1, <1>2, <2>1
  <2> QED
    BY <2>1, <2>2
<1> DEFINE X == DensePart(s, k, m)  Y == DensePart(s, h, e)
<1>5. X \in Seq(Readable) /\ Y \in Seq(Readable) /\ Skipping(SP, s) = (X \o OPERATORS[n]) \o Y
  <2>1. ReadAt(s, n, p, k, m, h, e)
    BY <1>3
  <2> QED
    BY <2>1, DenseRead
<1> HIDE DEF X, Y
<1>6. OPERATORS[n] = op /\ X = <<f>> /\ Y = <<d>>
  <2>1. Glued(X, OPERATORS[n], Y) = Glued(<<f>>, OPERATORS[j], <<d>>)
    BY <1>1, <1>5 DEF SaysOption, Glued
  <2>2. X \in Seq(Readable) /\ Y \in Seq(Readable)
    BY <1>5
  <2>3. OPERATORS[n] = OPERATORS[j] /\ X = <<f>> /\ Y = <<d>>
    <3>1. n \in 1 .. 6 /\ j \in 1 .. 6 /\ ~(j < n) /\ f \notin OpSymbol /\ d \notin OpSymbol
      BY <1>4
    <3> QED
      BY <2>1, <2>2, <3>1, OperatorFound, SMTT(60)
  <2> QED
    BY <1>1, <2>3
<1>7. /\ k \in Nat /\ m \in Nat /\ h \in Nat /\ e \in Nat
      /\ k <= m /\ h <= e /\ m <= Len(s) /\ e <= Len(s)
      /\ k < m => s[k + 1] # SP /\ s[m] # SP
      /\ h < e => s[h + 1] # SP /\ s[e] # SP
  <2> DEFINE a == p - 1  b == a + Len(OPERATORS[n])
  <2>1. /\ k \in Nat /\ m \in Nat /\ a \in Nat /\ b \in Nat /\ h \in Nat /\ e \in Nat
        /\ k <= m /\ m <= a /\ a < b /\ b <= h /\ h <= e /\ e <= Len(s)
        /\ k < m => s[k + 1] # SP /\ s[m] # SP
        /\ h < e => s[h + 1] # SP /\ s[e] # SP
    BY <1>3, ReadBounds
  <2> DEFINE L == Len(s)
  <2>2. L \in Nat /\ e <= L
    BY <2>1
  <2> HIDE DEF a, b, L
  <2>3. m <= L
    BY <2>1, <2>2
  <2> QED
    BY <2>1, <2>3 DEF L
<1>8. SubSeq(s, k + 1, m) = <<f>>
  <2>1. DensePart(s, k, m) = <<f>>
    BY <1>6 DEF X
  <2> QED
    BY <1>7, <2>1, DenseOne
<1>9. SubSeq(s, h + 1, e) = <<d>>
  <2>1. DensePart(s, h, e) = <<d>>
    BY <1>6 DEF Y
  <2> QED
    BY <1>7, <2>1, DenseOne
<1> QED
  BY <1>3, <1>6, <1>8, <1>9

LEMMA RecasedOne == \A c : Recased(<<c>>, Lower) = <<LowerCase(c)>>
<1> TAKE c
<1> DEFINE one == <<c>>  y == <<LowerCase(c)>>
<1>1. DOMAIN one = 1 .. 1 /\ one[1] = c /\ \A i \in 1 .. 1 : i = 1
  OBVIOUS
<1> HIDE DEF one
<1>2. Recased(one, Lower) = [i \in DOMAIN one |-> LowerCase(one[i])]
  BY Zenon DEF Recased, LowerCase
<1>3. y = [i \in 1 .. 1 |-> LowerCase(c)]
  OBVIOUS
<1> HIDE DEF y
<1>4. Recased(one, Lower) = [i \in 1 .. 1 |-> LowerCase(c)]
  BY <1>1, <1>2
<1> QED
  BY <1>3, <1>4 DEF one, y

LEMMA SingleOrNot ==
  /\ \A c : <<c>> # <<>>
  /\ \A c, d : <<c>> = <<d>> <=> c = d
  /\ \A c : <<c>> # <<"sort", SP, "by">>
  /\ \A c : Head(<<c>>) = c
<1>1. \A c : <<c>> # <<>>
  OBVIOUS
<1>2. \A c, d : <<c>> = <<d>> <=> c = d
  OBVIOUS
<1>3. ASSUME NEW c
      PROVE  <<c>> # <<"sort", SP, "by">>
  <2>1. Len(<<c>>) = 1 /\ Len(<<"sort", SP, "by">>) = 3
    OBVIOUS
  <2> QED
    BY <2>1
<1> QED
  BY <1>1, <1>2, <1>3

(* What parse_filter() makes of a field, an operator and a value of one symbol each. *)
LEMMA OptionTaken ==
  ASSUME NEW s, NEW f, NEW op, NEW d,
         ParseExpression(s) = [field |-> <<f>>, op |-> op, value |-> <<d>>]
  PROVE  LET q == ParseFilter(s, DefaultQuery)
         IN  /\ LowerCase(f) = "sortby" /\ LowerCase(d) = "similarity" => q.sortBy = "similarity"
             /\ \A n : Stoul(<<d>>) = {n} =>
                  /\ LowerCase(f) = "top" /\ op = <<"=">> => q.topK = n
                  /\ LowerCase(f) \in {"relevance", "similarity"} =>
                       q.filters = <<[field |-> LowerCase(f), op |-> op, value |-> n]>>
<1> DEFINE e == ParseExpression(s)
           q == ParseFilter(s, DefaultQuery)
           field == Recased(e.field, Lower)
           value == Recased(e.value, Lower)
           number == CHOOSE m \in Stoul(e.value) : TRUE
           filter == [field |-> Head(field), op |-> e.op, value |-> number]
           c == LowerCase(f)  v == LowerCase(d)
           names == {<<"relevance">>, <<"similarity">>}
           orders == {<<"sortby">>, <<"sort", SP, "by">>}
<1>1. e.field = <<f>> /\ e.op = op /\ e.value = <<d>>
  OBVIOUS
<1> HIDE DEF e
<1>2. field = <<c>> /\ value = <<v>>
  BY <1>1, RecasedOne
<1>3. <<>> \notin {e.field, e.value}
  BY <1>1, SingleOrNot
<1>4. ASSUME c = "sortby", v = "similarity"
      PROVE  q.sortBy = "similarity"
  <2>1. field \in orders /\ value \in names /\ Head(value) = "similarity"
    <3> HIDE DEF field, value
    <3> QED
      BY <1>2, <1>4, SingleOrNot
  <2>2. q = [DefaultQuery EXCEPT !.sortBy = Head(value)]
    BY <1>3, <2>1 DEF ParseFilter, e
  <2> HIDE DEF q, value
  <2> QED
    BY <2>1, <2>2 DEF DefaultQuery
<1>5. ASSUME NEW n, Stoul(<<d>>) = {n}
      PROVE  number = n /\ Stoul(e.value) # {}
  BY <1>1, <1>5
<1>6. ASSUME NEW n, Stoul(<<d>>) = {n}, c = "top", op = <<"=">>
      PROVE  q.topK = n
  <2>1. field \notin orders /\ field = <<"top">> /\ e.op = <<"=">>
    <3> HIDE DEF field
    <3> QED
      BY <1>1, <1>2, <1>6, SingleOrNot
  <2>2. Stoul(e.value) # {}
    BY <1>5, <1>6
  <2>3. field \notin names
    <3> HIDE DEF field
    <3> QED
      BY <1>2, <1>6, SingleOrNot
  <2>4. q = CASE field = <<"top">> /\ e.op = <<"=">> -> [DefaultQuery EXCEPT !.topK = number]
              [] field \in names -> [DefaultQuery EXCEPT !.filters = Append(@, filter)]
              [] OTHER -> DefaultQuery
    BY <1>3, <2>1, <2>2 DEF ParseFilter, e
  <2> HIDE DEF q, field, number, filter, names
  <2>5. q = [DefaultQuery EXCEPT !.topK = number]
    BY <2>1, <2>3, <2>4
  <2>6. number = n
    BY <1>5, <1>6
  <2> QED
    BY <2>5, <2>6 DEF DefaultQuery
<1>7. ASSUME NEW n, Stoul(<<d>>) = {n}, c \in {"relevance", "similarity"}
      PROVE  q.filters = <<[field |-> c, op |-> op, value |-> n]>>
  <2>1. field \notin orders /\ field # <<"top">> /\ field \in names /\ Head(field) = c
    <3> HIDE DEF field
    <3> QED
      BY <1>2, <1>7, SingleOrNot
  <2>2. Stoul(e.value) # {}
    BY <1>5, <1>7
  <2>3. q = CASE field = <<"top">> /\ e.op = <<"=">> -> [DefaultQuery EXCEPT !.topK = number]
              [] field \in names -> [DefaultQuery EXCEPT !.filters = Append(@, filter)]
              [] OTHER -> DefaultQuery
    BY <1>3, <2>1, <2>2 DEF ParseFilter, e
  <2>4. number = n /\ e.op = op
    BY <1>1, <1>5, <1>7
  <2>5. filter = [field |-> c, op |-> op, value |-> n]
    <3> HIDE DEF field, number
    <3> QED
      BY <2>1, <2>4
  <2> HIDE DEF q, field, number, filter, names
  <2>6. q = [DefaultQuery EXCEPT !.filters = Append(@, filter)]
    BY <2>1, <2>3
  <2>7. q.filters = Append(<<>>, filter)
    BY <2>6 DEF DefaultQuery
  <2> QED
    BY <2>5, <2>7
<1> QED
  BY <1>4, <1>6, <1>7 DEF c, v, q

LEMMA PlainNames ==
  /\ \A f \in {"relevance", "similarity", "top"} : LowerCase(f) = f
  /\ LowerCase("SortBy") = "sortby" /\ LowerCase("Similarity") = "similarity"
  /\ {"relevance", "similarity", "top", "SortBy", "Similarity"} \cap OpSymbol = {}
  /\ \A c \in OpSymbol \cup Digital \cup {"-", "+", TAB} : LowerCase(c) = c
<1>1. \A f \in {"relevance", "similarity", "top"} : LowerCase(f) = f
  BY LowerIs DEF LowerCase
<1>2. LowerCase("SortBy") = "sortby" /\ LowerCase("Similarity") = "similarity"
  BY LowerIs DEF LowerCase
<1>3. {"relevance", "similarity", "top", "SortBy", "Similarity"} \cap OpSymbol = {}
  BY DEF OpSymbol
<1>4. \A c \in OpSymbol \cup {"-", "+", TAB} : LowerCase(c) = c
  BY LowerIs DEF LowerCase, OpSymbol, TAB
<1>5. ASSUME NEW c \in Digital
      PROVE  LowerCase(c) = c
  <2>1. PICK i \in 1 .. 10 : c = Digits[i]
    <3>1. DOMAIN Digits = 1 .. 10
      BY DEF Digits
    <3> QED
      BY <3>1 DEF Digital, Range
  <2>2. \/ i = 1 \/ i = 2 \/ i = 3 \/ i = 4 \/ i = 5
        \/ i = 6 \/ i = 7 \/ i = 8 \/ i = 9 \/ i = 10
    OBVIOUS
  <2>3. \/ c = "0" \/ c = "1" \/ c = "2" \/ c = "3" \/ c = "4"
        \/ c = "5" \/ c = "6" \/ c = "7" \/ c = "8" \/ c = "9"
    BY <2>1, <2>2 DEF Digits
  <2>4. c \notin {"Top", "Relevance", "Similarity", "SortBy"}
    BY <2>3
  <2> QED
    BY <2>4, LowerIs DEF LowerCase
<1> QED
  BY <1>1, <1>2, <1>3, <1>4, <1>5

LEMMA RecasedJoins ==
  ASSUME NEW C, NEW x \in Seq(C), NEW y \in Seq(C)
  PROVE  /\ Recased(x, Lower) \in Seq(C \cup {LowerCase(c) : c \in C})
         /\ Recased(x \o y, Lower) = Recased(x, Lower) \o Recased(y, Lower)
<1> DEFINE D == C \cup {LowerCase(c) : c \in C}
           m == Len(x)  n == Len(y)  X == Recased(x, Lower)  Y == Recased(y, Lower)
           z == x \o y  Z == Recased(z, Lower)
<1>1. \A s : Recased(s, Lower) = [i \in DOMAIN s |-> LowerCase(s[i])]
  BY Zenon DEF Recased, LowerCase
<1>2. m \in Nat /\ n \in Nat
  OBVIOUS
<1>3. ASSUME NEW s \in Seq(C)
      PROVE  /\ Recased(s, Lower) \in Seq(D) /\ Len(Recased(s, Lower)) = Len(s)
             /\ \A i \in 1 .. Len(s) : Recased(s, Lower)[i] = LowerCase(s[i])
  <2> DEFINE S == Recased(s, Lower)  l == Len(s)
  <2>1. l \in Nat /\ DOMAIN s = 1 .. l /\ \A i \in 1 .. l : s[i] \in C
    OBVIOUS
  <2>2. S = [i \in 1 .. l |-> LowerCase(s[i])]
    BY <1>1, <2>1
  <2>3. \A i \in 1 .. l : LowerCase(s[i]) \in D
    BY <2>1
  <2> HIDE DEF S, D, l
  <2>4. S \in Seq(D) /\ Len(S) = l
    BY <2>1, <2>2, <2>3
  <2>5. \A i \in 1 .. l : S[i] = LowerCase(s[i])
    BY <2>2
  <2> QED
    BY <2>4, <2>5 DEF S, l
<1>4. z \in Seq(C) /\ Len(z) = m + n
      /\ \A i \in 1 .. m + n : z[i] = IF i <= m THEN x[i] ELSE y[i - m]
  BY ConcatProperties
<1>5. /\ X \in Seq(D) /\ Len(X) = m /\ Y \in Seq(D) /\ Len(Y) = n
      /\ \A i \in 1 .. m : X[i] = LowerCase(x[i])
      /\ \A i \in 1 .. n : Y[i] = LowerCase(y[i])
  BY <1>3
<1> HIDE DEF z
<1>6. Z \in Seq(D) /\ Len(Z) = m + n /\ \A i \in 1 .. m + n : Z[i] = LowerCase(z[i])
  <2> DEFINE l == Len(z)
  <2>1. Z \in Seq(D) /\ Len(Z) = l /\ \A i \in 1 .. l : Z[i] = LowerCase(z[i])
    BY <1>3, <1>4
  <2>2. l = m + n
    BY <1>4
  <2> HIDE DEF l, Z, m, n, D
  <2> QED
    BY <2>1, <2>2
<1> HIDE DEF X, Y, Z, D
<1>7. X \o Y \in Seq(D) /\ Len(X \o Y) = m + n
      /\ \A i \in 1 .. m + n : (X \o Y)[i] = IF i <= m THEN X[i] ELSE Y[i - m]
  <2>1. X \o Y \in Seq(D) /\ Len(X \o Y) = Len(X) + Len(Y)
        /\ \A i \in 1 .. Len(X) + Len(Y) :
             (X \o Y)[i] = IF i <= Len(X) THEN X[i] ELSE Y[i - Len(X)]
    <3>1. X \in Seq(D) /\ Y \in Seq(D)
      BY <1>5
    <3> QED
      BY <3>1, ConcatProperties
  <2> HIDE DEF m, n
  <2> QED
    BY <1>5, <2>1
<1> HIDE DEF m, n
<1>8. ASSUME NEW i \in 1 .. m + n
      PROVE  Z[i] = (X \o Y)[i]
  <2>1. CASE i <= m
    <3>1. i \in 1 .. m
      BY <1>2, <2>1
    <3>2. z[i] = x[i] /\ (X \o Y)[i] = X[i]
      BY <1>4, <1>7, <2>1
    <3> QED
      BY <1>5, <1>6, <3>1, <3>2
  <2>2. CASE ~(i <= m)
    <3>1. i - m \in 1 .. n
      BY <1>2, <2>2
    <3>2. z[i] = y[i - m] /\ (X \o Y)[i] = Y[i - m]
      BY <1>4, <1>7, <2>2
    <3> QED
      BY <1>5, <1>6, <3>1, <3>2
  <2> QED
    BY <2>1, <2>2
<1>9. Z = X \o Y
  <2> DEFINE w == X \o Y
  <2>1. w \in Seq(D) /\ Len(w) = m + n /\ \A i \in 1 .. m + n : Z[i] = w[i]
    BY <1>7, <1>8
  <2> HIDE DEF w
  <2>2. Len(Z) = Len(w) /\ \A i \in 1 .. Len(Z) : Z[i] = w[i]
    BY <1>6, <2>1
  <2> QED
    BY <1>6, <2>1, <2>2, SameElements DEF w
<1> QED
  BY <1>5, <1>9 DEF X, Y, Z, z, D

LEMMA RecasedPlain ==
  ASSUME NEW s \in Seq(OpSymbol)
  PROVE  Recased(s, Lower) = s
<1> DEFINE l == Len(s)
<1>1. l \in Nat /\ DOMAIN s = 1 .. l /\ \A i \in 1 .. l : s[i] \in OpSymbol
  OBVIOUS
<1>2. \A i \in 1 .. l : LowerCase(s[i]) = s[i]
  BY <1>1, PlainNames
<1>3. Recased(s, Lower) = [i \in 1 .. l |-> LowerCase(s[i])]
  <2>1. Recased(s, Lower) = [i \in DOMAIN s |-> LowerCase(s[i])]
    BY Zenon DEF Recased, LowerCase
  <2> QED
    BY <1>1, <2>1
<1>4. s = [i \in 1 .. l |-> s[i]]
  OBVIOUS
<1> HIDE DEF l
<1>5. [i \in 1 .. l |-> LowerCase(s[i])] = [i \in 1 .. l |-> s[i]]
  BY <1>2
<1> QED
  BY <1>3, <1>4, <1>5, Zenon

LEMMA PrefixOf ==
  ASSUME NEW C, NEW x \in Seq(C), NEW y \in Seq(C)
  PROVE  IsPrefix(x, x \o y)
<1> DEFINE m == Len(x)  n == Len(y)  z == x \o y
<1>1. m \in Nat /\ n \in Nat /\ m <= m + n /\ 0 + 1 = 1
  OBVIOUS
<1>2. z \in Seq(C) /\ Len(z) = m + n
      /\ \A i \in 1 .. m + n : z[i] = IF i <= m THEN x[i] ELSE y[i - m]
  BY ConcatProperties
<1> HIDE DEF z, n
<1>3. SubSeq(z, 0 + 1, m) = x
  <2>1. m - 0 = m /\ \A i \in 1 .. m : i \in 1 .. m + n /\ i <= m /\ 0 + i = i
    BY <1>1
  <2>2. \A i \in 1 .. m - 0 : x[i] = z[0 + i]
    <3> HIDE DEF m
    <3> QED
      BY <1>2, <2>1
  <2>3. 0 \in Nat /\ m <= Len(z) /\ Len(x) = m - 0
    BY <1>1, <1>2, <2>1
  <2> QED
    BY <1>1, <1>2, <2>2, <2>3, CutFrom
<1>4. SubSeq(x, 1, m) = x
  BY SubSeqFull
<1> QED
  BY <1>1, <1>2, <1>3, <1>4 DEF IsPrefix, z

LEMMA OptionSaid ==
  ASSUME SizeModulus > 9, NEW s \in Seq(Readable), NEW op \in Range(OPERATORS),
         FindText(s, op) # NPos
  PROVE  LET q == ParseFilter(s, DefaultQuery)
         IN  /\ \A n \in 0 .. 9 :
                  /\ \A f \in {"relevance", "similarity"} :
                       SaysOption(s, f, op, Digits[n + 1]) =>
                         q.filters = <<[field |-> f, op |-> op, value |-> n]>>
                  /\ op = <<"=">> /\ SaysOption(s, "top", op, Digits[n + 1]) => q.topK = n
             /\ SaysOption(s, "SortBy", op, "Similarity") => q.sortBy = "similarity"
<1> DEFINE q == ParseFilter(s, DefaultQuery)
<1>1. ASSUME NEW f, NEW d, f \notin OpSymbol, d \notin OpSymbol, SaysOption(s, f, op, d)
      PROVE  /\ LowerCase(f) = "sortby" /\ LowerCase(d) = "similarity" => q.sortBy = "similarity"
             /\ \A n : Stoul(<<d>>) = {n} =>
                  /\ LowerCase(f) = "top" /\ op = <<"=">> => q.topK = n
                  /\ LowerCase(f) \in {"relevance", "similarity"} =>
                       q.filters = <<[field |-> LowerCase(f), op |-> op, value |-> n]>>
  <2>1. ParseExpression(s) = [field |-> <<f>>, op |-> op, value |-> <<d>>]
    BY <1>1, OptionParsed
  <2> QED
    BY <2>1, OptionTaken
<1> HIDE DEF q
<1>2. ASSUME NEW n \in 0 .. 9
      PROVE  Digits[n + 1] \notin OpSymbol /\ Stoul(<<Digits[n + 1]>>) = {n}
  <2>1. n < SizeModulus
    BY SizeAssumption
  <2>2. Digits[n + 1] \in Digital
    BY DigitsAre DEF Digital
  <2> QED
    BY <2>1, <2>2, OneDigit, NothingToCount
<1>3. ASSUME NEW n \in 0 .. 9, NEW f \in {"relevance", "similarity"},
             SaysOption(s, f, op, Digits[n + 1])
      PROVE  q.filters = <<[field |-> f, op |-> op, value |-> n]>>
  <2>1. f \notin OpSymbol /\ LowerCase(f) = f
    BY PlainNames
  <2> DEFINE d == Digits[n + 1]
  <2>2. d \notin OpSymbol /\ Stoul(<<d>>) = {n}
    BY <1>2
  <2> HIDE DEF d
  <2>3. SaysOption(s, f, op, d)
    BY <1>3 DEF d
  <2> QED
    BY <1>1, <2>1, <2>2, <2>3
<1>4. ASSUME NEW n \in 0 .. 9, op = <<"=">>, SaysOption(s, "top", op, Digits[n + 1])
      PROVE  q.topK = n
  <2>1. "top" \notin OpSymbol /\ LowerCase("top") = "top"
    BY PlainNames
  <2> DEFINE d == Digits[n + 1]
  <2>2. d \notin OpSymbol /\ Stoul(<<d>>) = {n}
    BY <1>2
  <2> HIDE DEF d
  <2>3. SaysOption(s, "top", op, d)
    BY <1>4 DEF d
  <2> QED
    BY <1>1, <1>4, <2>1, <2>2, <2>3
<1>5. ASSUME SaysOption(s, "SortBy", op, "Similarity")
      PROVE  q.sortBy = "similarity"
  BY <1>1, <1>5, PlainNames
<1> QED
  BY <1>3, <1>4, <1>5 DEF q

(* What the text of a number begins with, if not with a space. *)
LEMMA NumberBegins ==
  ASSUME NEW C, NEW v \in Seq(C), NEW r \in Stoul(v)
  PROVE  Len(v) # 0 /\ (v[1] # SP => v[1] \in Digital \cup {"-", "+", TAB})
<1> DEFINE L == Len(v)
<1>1. PICK a, d, z : NumberAt(v, a, d, z)
  BY StoulReads
<1>2. /\ L \in Nat /\ a \in 0 .. L /\ (\A i \in 1 .. a : v[i] \in White)
      /\ d = a \/ (d = a + 1 /\ v[d] \in {"-", "+"})
      /\ z \in d + 1 .. L /\ (\A i \in d + 1 .. z : v[i] \in Digital)
  BY <1>1 DEF NumberAt
<1> HIDE DEF L
<1>3. CASE a # 0
  <2>1. 1 \in 1 .. a /\ L # 0
    BY <1>2, <1>3
  <2> QED
    BY <1>2, <2>1 DEF White, L
<1>4. CASE a = 0 /\ d = a
  <2>1. 1 \in d + 1 .. z /\ L # 0
    BY <1>2, <1>4
  <2> QED
    BY <1>2, <2>1 DEF L
<1>5. CASE a = 0 /\ d # a
  <2>1. d = 1 /\ L # 0
    BY <1>2, <1>5
  <2> QED
    BY <1>2, <1>5, <2>1 DEF L
<1> QED
  BY <1>2, <1>3, <1>4, <1>5

(* A part that begins with something else than a space is that and the rest. *)
LEMMA DenseFirst ==
  ASSUME NEW C, NEW s \in Seq(C), NEW a \in Nat, NEW b \in Nat, a < b, b <= Len(s), s[a + 1] # SP
  PROVE  \E rest \in Seq(C) : DensePart(s, a, b) = <<s[a + 1]>> \o rest
<1> DEFINE g == a + 1  one == <<s[g]>>
<1>1. /\ g \in Nat /\ a <= g /\ g <= b /\ g <= Len(s) /\ g \in a .. b /\ a <= b
      /\ g \in 1 .. Len(s) /\ \A i \in a + 1 .. g : i = g
  OBVIOUS
<1>2. one \in Seq(C) /\ Len(one) = g - a /\ \A i \in 1 .. g - a : one[i] = s[a + i]
  <2>1. one \in Seq(C) /\ Len(one) = 1 /\ one[1] = s[g]
    BY <1>1
  <2>2. g - a = 1 /\ \A i \in 1 .. g - a : i = 1 /\ a + i = g
    OBVIOUS
  <2> HIDE DEF one, g
  <2> QED
    BY <2>1, <2>2
<1>3. s[g] # SP
  OBVIOUS
<1> HIDE DEF one, g
<1>4. SubSeq(s, a + 1, g) = one
  BY <1>1, <1>2, CutFrom
<1>5. DensePart(s, a, g) = one
  <2>1. \A i \in a + 1 .. g : s[i] # SP
    BY <1>1, <1>3
  <2> QED
    BY <1>1, <1>4, <2>1, DenseParts, ZenonT(60)
<1>6. DensePart(s, a, b) = DensePart(s, a, g) \o DensePart(s, g, b)
  BY <1>1, DenseParts, ZenonT(60)
<1>7. DensePart(s, g, b) \in Seq(C)
  BY <1>1, DenseParts
<1> QED
  BY <1>5, <1>6, <1>7 DEF one, g

(* The field, the operator and the beginning of the number that a filter is read from. *)
LEMMA FilterWritten ==
  ASSUME NEW s \in Seq(Readable), NEW i \in DOMAIN ParseFilter(s, DefaultQuery).filters
  PROVE  LET f == ParseFilter(s, DefaultQuery).filters[i]
         IN  \E c \in Digital \cup {"-", "+", TAB} :
               IsPrefix((<<f.field>> \o f.op) \o <<c>>, Recased(Skipping(SP, s), Lower))
<1> DEFINE q == ParseFilter(s, DefaultQuery)  f == q.filters[1]
<1>0. OpSymbol \subseteq Readable
  BY DEF Readable
<1>1. /\ i = 1
      /\ \E n, p, k, m, h, e :
           /\ ReadAt(s, n, p, k, m, h, e)
           /\ m = k + 1 /\ s[m] \in FieldSymbol
           /\ f.field = LowerCase(s[m])
           /\ f.op = OPERATORS[n]
           /\ f.value \in Stoul(SubSeq(s, h + 1, e))
  BY <1>0, FilterRead
<1> HIDE DEF q
<1>2. PICK n, p, k, m, h, e :
        /\ ReadAt(s, n, p, k, m, h, e)
        /\ m = k + 1 /\ s[m] \in FieldSymbol
        /\ f.field = LowerCase(s[m])
        /\ f.op = OPERATORS[n]
        /\ f.value \in Stoul(SubSeq(s, h + 1, e))
  BY <1>1
<1> DEFINE F == DensePart(s, k, m)  V == DensePart(s, h, e)  op == OPERATORS[n]  g == s[m]
           v == SubSeq(s, h + 1, e)
<1>3. F \in Seq(Readable) /\ V \in Seq(Readable) /\ Skipping(SP, s) = (F \o op) \o V
  <2>1. ReadAt(s, n, p, k, m, h, e)
    BY <1>2
  <2> QED
    BY <2>1, DenseRead
<1>4. /\ k \in Nat /\ m \in Nat /\ h \in Nat /\ e \in Nat
      /\ k <= m /\ h <= e /\ m <= Len(s) /\ e <= Len(s) /\ n \in 1 .. 6
      /\ h < e => s[h + 1] # SP
  <2> DEFINE a == p - 1  b == a + Len(OPERATORS[n])
  <2>1. /\ n \in 1 .. 6
        /\ k \in Nat /\ m \in Nat /\ a \in Nat /\ b \in Nat /\ h \in Nat /\ e \in Nat
        /\ k <= m /\ m <= a /\ a < b /\ b <= h /\ h <= e /\ e <= Len(s)
        /\ h < e => s[h + 1] # SP
    BY <1>2, ReadBounds
  <2> DEFINE L == Len(s)
  <2>2. L \in Nat /\ e <= L
    BY <2>1
  <2> HIDE DEF a, b, L
  <2>3. m <= L
    BY <2>1, <2>2
  <2> QED
    BY <2>1, <2>3 DEF L
<1> HIDE DEF F, V
<1>5. F = <<g>> /\ g \in Readable
  <2>1. k < m /\ s[k + 1] = g /\ s[k + 1] # SP
    <3>1. SP \notin FieldSymbol
      BY DEF SP, FieldSymbol
    <3> QED
      BY <1>2, <1>4, <3>1
  <2>2. m \in 1 .. Len(s)
    BY <1>2, <1>4
  <2>3. g \in Readable
    BY <2>2
  <2>4. SubSeq(s, k + 1, m) = <<g>>
    <3> DEFINE one == <<g>>
    <3>1. one \in Seq(Readable) /\ Len(one) = 1 /\ one[1] = g
      BY <2>3
    <3>2. m - k = 1 /\ \A j \in 1 .. m - k : j = 1 /\ k + j = m
      BY <1>2, <1>4
    <3> HIDE DEF one, g
    <3>3. Len(one) = m - k /\ \A j \in 1 .. m - k : one[j] = s[k + j]
      BY <3>1, <3>2 DEF g
    <3>4. SubSeq(s, k + 1, m) = one
      BY <1>4, <3>1, <3>3, CutFrom
    <3> QED
      BY <3>4 DEF one
  <2>5. \A j \in k + 1 .. m : s[j] # SP
    <3>1. \A j \in k + 1 .. m : j = m
      BY <1>2, <1>4
    <3> QED
      BY <1>2, <2>1, <3>1
  <2>6. DensePart(s, k, m) = SubSeq(s, k + 1, m)
    BY <1>4, <2>5, DenseParts
  <2> QED
    BY <2>3, <2>4, <2>6 DEF F
<1>6. Len(v) # 0 /\ (v[1] # SP => v[1] \in Digital \cup {"-", "+", TAB})
      /\ Len(v) = e - h /\ \A j \in 1 .. e - h : v[j] = s[h + j]
  <2>1. v \in Seq(Readable) /\ Len(v) = e - h /\ \A j \in 1 .. e - h : v[j] = s[h + j]
    BY <1>4, CutOut
  <2>2. f.value \in Stoul(v)
    BY <1>2
  <2> DEFINE r == f.value
  <2> HIDE DEF v, r
  <2>3. r \in Stoul(v)
    BY <2>2 DEF r
  <2>4. Len(v) # 0 /\ (v[1] # SP => v[1] \in Digital \cup {"-", "+", TAB})
    BY <2>1, <2>3, NumberBegins
  <2> QED
    BY <2>1, <2>4
<1> DEFINE c == s[h + 1]
<1>7. h < e /\ c \in Digital \cup {"-", "+", TAB} /\ c \in Readable
  <2>1. h < e /\ 1 \in 1 .. e - h /\ h + 1 \in 1 .. Len(s)
    <3> HIDE DEF v
    <3> QED
      BY <1>4, <1>6
  <2>2. v[1] = c /\ c # SP
    BY <1>4, <1>6, <2>1
  <2>3. c \in Readable
    BY <2>1
  <2> HIDE DEF v, c
  <2> QED
    BY <1>6, <2>1, <2>2, <2>3
<1>8. PICK rest \in Seq(Readable) : V = <<c>> \o rest
  <2>1. s[h + 1] # SP
    BY <1>4, <1>7
  <2>2. h \in Nat /\ e \in Nat /\ h < e /\ e <= Len(s)
    BY <1>4, <1>7
  <2> HIDE DEF c, v, f, g, op
  <2>3. \E rest \in Seq(Readable) : DensePart(s, h, e) = <<s[h + 1]>> \o rest
    BY <2>1, <2>2, DenseFirst
  <2> QED
    BY <2>3, Zenon DEF V, c
<1> DEFINE fs == <<g>>  cs == <<c>>
<1>9. op \in Seq(OpSymbol) /\ op \in Seq(Readable)
  <2>1. op \in Seq(OpSymbol)
    BY <1>4, OperatorType
  <2> HIDE DEF op
  <2> QED
    BY <1>0, <2>1, SeqMonotonic
<1>10. fs \in Seq(Readable) /\ cs \in Seq(Readable)
  BY <1>5, <1>7
<1>11. Recased(fs, Lower) = <<LowerCase(g)>> /\ Recased(cs, Lower) = cs
       /\ Recased(op, Lower) = op
  <2>1. LowerCase(c) = c
    <3> HIDE DEF c
    <3> QED
      BY <1>7, PlainNames
  <2>2. Recased(fs, Lower) = <<LowerCase(g)>> /\ Recased(cs, Lower) = <<LowerCase(c)>>
    BY RecasedOne
  <2>3. Recased(op, Lower) = op
    BY <1>9, RecasedPlain
  <2> QED
    BY <2>1, <2>2, <2>3
<1>12. F = fs /\ V = cs \o rest
  BY <1>5, <1>8
<1> HIDE DEF fs, cs, op
<1> DEFINE left == fs \o op  head == left \o cs
<1>13. left \in Seq(Readable)
  BY <1>9, <1>10, ConcatProperties
<1>14. Recased(left, Lower) = Recased(fs, Lower) \o op
  BY <1>9, <1>10, <1>11, RecasedJoins
<1>15. Skipping(SP, s) = left \o (cs \o rest)
  BY <1>3, <1>12
<1> HIDE DEF left
<1>16. head \in Seq(Readable)
  BY <1>10, <1>13, ConcatProperties
<1>17. Recased(head, Lower) = (Recased(fs, Lower) \o op) \o cs
  BY <1>10, <1>11, <1>13, <1>14, RecasedJoins, ZenonT(60)
<1>18. left \o (cs \o rest) = head \o rest
  <2>1. left \in Seq(Readable) /\ cs \in Seq(Readable) /\ rest \in Seq(Readable)
    BY <1>10, <1>13
  <2> DEFINE C == Readable  t == rest
  <2> HIDE DEF c, v, f, g, C, t
  <2>2. left \o (cs \o rest) = (left \o cs) \o rest
    <3>1. left \in Seq(C) /\ cs \in Seq(C) /\ t \in Seq(C)
      BY <2>1 DEF C, t
    <3>2. left \o (cs \o t) = (left \o cs) \o t
      BY <3>1, ConcatAssociative
    <3> QED
      BY <3>2 DEF t
  <2> QED
    BY <2>2
<1> HIDE DEF head
<1> DEFINE D == Readable \cup {LowerCase(x) : x \in Readable}
<1>19. Recased(head \o rest, Lower) = Recased(head, Lower) \o Recased(rest, Lower)
       /\ Recased(head, Lower) \in Seq(D) /\ Recased(rest, Lower) \in Seq(D)
  BY <1>16, RecasedJoins
<1> DEFINE x == Recased(head, Lower)  y == Recased(rest, Lower)
<1>20. IsPrefix(x, x \o y)
  <2>1. x \in Seq(D) /\ y \in Seq(D)
    BY <1>19
  <2> HIDE DEF x, y, D
  <2> QED
    BY <2>1, PrefixOf
<1>21. Recased(Skipping(SP, s), Lower) = x \o y
  BY <1>15, <1>18, <1>19
<1>22. x = (<<f.field>> \o f.op) \o <<c>>
  <2>1. f.field = LowerCase(g) /\ f.op = op /\ cs = <<c>>
    BY <1>2 DEF op, cs
  <2> HIDE DEF f, g, c
  <2> QED
    BY <1>11, <1>17, <2>1, Zenon
<1>23. \E u \in Digital \cup {"-", "+", TAB} :
         IsPrefix((<<f.field>> \o f.op) \o <<u>>, Recased(Skipping(SP, s), Lower))
  <2> HIDE DEF x, y, f, c
  <2>1. IsPrefix((<<f.field>> \o f.op) \o <<c>>, Recased(Skipping(SP, s), Lower))
    BY <1>20, <1>21, <1>22, Zenon
  <2> QED
    BY <1>7, <2>1
<1> QED
  BY <1>1, <1>23 DEF q

LEMMA NothingSaid ==
  ASSUME NEW s \in Seq(Readable), \A op \in Range(OPERATORS) : FindText(s, op) = NPos
  PROVE  ParseFilter(s, DefaultQuery) = DefaultQuery
<1>0. OpSymbol \subseteq Readable
  BY DEF Readable
<1>1. \A n \in 1 .. 6 : \A i : ~Occurs(s, OPERATORS[n], i)
  <2> SUFFICES ASSUME NEW n \in 1 .. 6
               PROVE  \A i : ~Occurs(s, OPERATORS[n], i)
    OBVIOUS
  <2> DEFINE op == OPERATORS[n]
  <2>1. op \in Seq(OpSymbol) /\ op # <<>> /\ op \in Range(OPERATORS)
    BY OperatorType, OperatorsAre
  <2> HIDE DEF op
  <2>2. op \in Seq(Readable)
    BY <1>0, <2>1, SeqMonotonic
  <2>3. FindText(s, op) = NPos
    BY <2>1
  <2>4. \A i : ~Occurs(s, op, i)
    BY <2>1, <2>2, <2>3, FindTextIs
  <2> QED
    BY <2>4 DEF op
<1>2. \A n, p, k, m, h, e : ~ReadAt(s, n, p, k, m, h, e)
  BY <1>1 DEF ReadAt
<1>3. ParseExpression(s) = NoExpression
  BY <1>0, <1>2, Expressed
<1> DEFINE q == ParseFilter(s, DefaultQuery)
           f == ParseExpression(s)
           field == Recased(f.field, Lower)
<1>4. f.field = <<>> /\ <<>> \in {f.field, f.value}
  BY <1>3 DEF NoExpression
<1>5. field \notin {<<"sortby">>, <<"sort", SP, "by">>}
  <2>1. field = [i \in DOMAIN f.field |-> LowerCase(f.field[i])]
    BY Zenon DEF Recased, LowerCase
  <2>2. DOMAIN f.field = {} /\ DOMAIN <<"sortby">> = 1 .. 1
        /\ DOMAIN <<"sort", SP, "by">> = 1 .. 3 /\ 1 \in 1 .. 1 /\ 1 \in 1 .. 3
    BY <1>4
  <2> HIDE DEF f
  <2>3. DOMAIN field = {}
    BY <2>1, <2>2
  <2> HIDE DEF field
  <2> QED
    BY <2>2, <2>3
<1> HIDE DEF f
<1>6. q = DefaultQuery
  BY <1>4, <1>5 DEF ParseFilter, f
<1> QED
  BY <1>6

LEMMA OptionOfText ==
  ASSUME SizeModulus > 9, text \in Text
  PROVE  OptionIsReadAsWritten
<1> DEFINE dense == Skipping(SP, text)
           q == ParseFilter(text, DefaultQuery)
           used == {op \in Range(OPERATORS) : FindText(text, op) # NPos}
           Says(f, op, v) == dense = (<<f>> \o op) \o <<v>> /\ op \in used
<1>1. text \in Seq(Readable)
  BY DEF Text, Readable
<1>2. \A op \in used :
        /\ \A n \in 0 .. 9 :
             /\ \A f \in {"relevance", "similarity"} :
                  SaysOption(text, f, op, Digits[n + 1]) =>
                    q.filters = <<[field |-> f, op |-> op, value |-> n]>>
             /\ op = <<"=">> /\ SaysOption(text, "top", op, Digits[n + 1]) => q.topK = n
        /\ SaysOption(text, "SortBy", op, "Similarity") => q.sortBy = "similarity"
  BY <1>1, OptionSaid
<1>3. \A f, op, v : Says(f, op, v) => op \in used /\ SaysOption(text, f, op, v)
  BY DEF SaysOption
<1>4. ASSUME NEW i \in DOMAIN q.filters
      PROVE  \E c \in Range(Digits) \cup {"-", "+", TAB} :
               IsPrefix((<<q.filters[i].field>> \o q.filters[i].op) \o <<c>>,
                        Recased(dense, Lower))
  BY <1>1, FilterWritten DEF Digital
<1>5. used = {} => q = DefaultQuery
  BY <1>1, NothingSaid
<1> HIDE DEF q, used
<1>6. ASSUME NEW n \in 0 .. 9
      PROVE  /\ \A f \in {"relevance", "similarity"}, op \in used :
                  Says(f, op, Digits[n + 1]) =>
                    q.filters = <<[field |-> f, op |-> op, value |-> n]>>
             /\ Says("top", <<"=">>, Digits[n + 1]) => q.topK = n
  <2>1. ASSUME NEW f \in {"relevance", "similarity"}, NEW op \in used, Says(f, op, Digits[n + 1])
        PROVE  q.filters = <<[field |-> f, op |-> op, value |-> n]>>
    <3>1. SaysOption(text, f, op, Digits[n + 1])
      BY <1>3, <2>1
    <3> QED
      BY <1>2, <3>1
  <2>2. ASSUME Says("top", <<"=">>, Digits[n + 1])
        PROVE  q.topK = n
    <3> DEFINE op == <<"=">>
    <3>1. op \in used /\ SaysOption(text, "top", op, Digits[n + 1])
      BY <1>3, <2>2
    <3>2. op = <<"=">>
      OBVIOUS
    <3> HIDE DEF op
    <3> QED
      BY <1>2, <3>1, <3>2
  <2> QED
    BY <2>1, <2>2
<1>7. ASSUME NEW op \in used, Says("SortBy", op, "Similarity")
      PROVE  q.sortBy = "similarity"
  BY <1>2, <1>3, <1>7
<1> QED
  BY <1>4, <1>5, <1>6, <1>7, Zenon DEF OptionIsReadAsWritten, q, used

(***************************************************************************)
(* An option of QUERY is read as it is written, whatever text is typed and *)
(* whatever spaces it has, and a text without an operator changes nothing  *)
(* (query_command.cpp:7-14, 46-134).                                       *)
(***************************************************************************)
THEOREM OptionsAreRead == ASSUME SizeModulus > 9 PROVE Spec => []OptionIsReadAsWritten
<1>1. Typed => OptionIsReadAsWritten
  BY OptionOfText DEF Typed
<1> QED
  BY <1>1, TypedAlways, PTL
=============================================================================
