---------------------------- MODULE CognexFormats ----------------------------
(***************************************************************************)
(* The texts that Cognex reads, against what they are meant to say: a line *)
(* that is typed, the expression of a filter, a value that is cut into     *)
(* words, a key in the snapshot file, the bytes of a log. A text is typed  *)
(* symbol by symbol, and each property reads it in its own way.            *)
(***************************************************************************)
EXTENDS CognexCommands, CognexSnapshotFile, CognexLogFile

CONSTANT Inputs   \* [symbols, length]: the alphabets, and how much is typed of each

ASSUME InputAssumption ==
  \A i \in Inputs : i.symbols \subseteq Symbol /\ i.length \in 0 .. 99

VARIABLES
  input,   \* the alphabet
  text     \* what has been typed

vars == <<input, text>>

Init == input \in Inputs /\ text = <<>>

Type(c) ==
  /\ Len(text) < input.length
  /\ text' = Append(text, c)
  /\ UNCHANGED input

Next == \E c \in input.symbols : Type(c)

Spec == Init /\ [][Next]_vars

-----------------------------------------------------------------------------
(* The elements of a sequence other than e. *)
Skipping(e, seq) ==
  LET upTo[i \in 0 .. Len(seq)] ==
        IF i = 0 THEN <<>>
        ELSE IF seq[i] = e THEN upTo[i - 1] ELSE Append(upTo[i - 1], seq[i])
  IN  upTo[Len(seq)]

(* 10^n *)
PowerOfTen(n) ==
  LET power[i \in 0 .. n] == IF i = 0 THEN 1 ELSE 10 * power[i - 1]
  IN  power[n]

-----------------------------------------------------------------------------
(* Properties *)

(***************************************************************************)
(* The arguments of a line are what stands between its first and second    *)
(* mark, its third and fourth and so on, up to the first pair with nothing *)
(* between; and only a line with nothing but spaces before the first mark  *)
(* is refused (parser.cpp:12-60).                                          *)
(***************************************************************************)
ArgumentsAreTheQuotedParts ==
  LET marks   == {i \in DOMAIN text : text[i] = QT}
      Mark(n) == CHOOSE i \in marks : Cardinality({j \in marks : j <= i}) = n
      Part(n) == SubSeq(text, Mark(2 * n - 1) + 1, Mark(2 * n) - 1)
      pairs   == 1 .. Cardinality(marks) \div 2
      count   == Cardinality({n \in pairs : \A m \in 1 .. n : Part(m) # <<>>})
      name    == SubSeq(text, 1, IF marks = {} THEN Len(text) ELSE Mark(1) - 1)
  IN  IF \A i \in DOMAIN name : name[i] = SP
        THEN ParseLine(text) = NoCommand
        ELSE /\ ParseLine(text).args = [n \in 1 .. count |-> Part(n)]
             /\ Recased(Trimmed(name), Upper) = ParseLine(text).name

(***************************************************************************)
(* An option of QUERY, a field, an operator and a number or an order, is   *)
(* read as docs/query-engine.md:190-195 says, whatever spaces are between; *)
(* no filter is read but from a field, an operator and what can begin a    *)
(* number, in this order and with nothing but spaces before and between;   *)
(* and a text without an operator changes nothing, not even the            *)
(* "sortby similarity" of those lines (query_command.cpp:7-14, 46-134).    *)
(***************************************************************************)
OptionIsReadAsWritten ==
  LET dense   == Skipping(SP, text)
      q       == ParseFilter(text, DefaultQuery)
      used    == {op \in Range(OPERATORS) : FindText(text, op) # NPos}
      Says(f, op, v) == dense = <<f>> \o op \o <<v>> /\ op \in used
  IN  /\ \A n \in 0 .. 9 :
           /\ \A f \in {"relevance", "similarity"}, op \in used :
                Says(f, op, Digits[n + 1]) =>
                  q.filters = <<[field |-> f, op |-> op, value |-> n]>>
           /\ Says("top", <<"=">>, Digits[n + 1]) => q.topK = n
      /\ \A op \in used : Says("SortBy", op, "Similarity") => q.sortBy = "similarity"
      /\ \A i \in DOMAIN q.filters : \E n \in Range(Digits) \cup {"-", "+", TAB} :
           IsPrefix(<<q.filters[i].field>> \o q.filters[i].op \o <<n>>,
                    Recased(dense, Lower))
      /\ used = {} => q = DefaultQuery

(***************************************************************************)
(* A negative number is taken, though a filter's number is unsigned: it    *)
(* stands for one so large that a comparison with > rejects every result   *)
(* (query_command.cpp:112-119, query_engine.cpp:187-190).                  *)
(***************************************************************************)
NegativeNumbersAreLarge ==
  LET read     == ParseFilter(text, DefaultQuery).filters
      digits   == {j \in DOMAIN text : text[j] \in Range(Digits)}
      negative == \E j \in digits : /\ \A k \in digits : j <= k
                                    /\ text[j] # "0"
                                    /\ j > 1 /\ text[j - 1] = "-"
  IN  \A i \in DOMAIN read :
        negative => read[i].value > SizeModulus - PowerOfTen(Len(text))

(***************************************************************************)
(* The tokenizer and QUERY cut a text into the same words, but for white   *)
(* space other than a space: a token keeps it inside, and QUERY splits     *)
(* there, so it is found by none of its parts (index_engine.cpp:20-28,     *)
(* utils.cpp:80-93, query_command.cpp:136-161).                            *)
(***************************************************************************)
WordsAreFound ==
  LET tokens == Tokens(text)
  IN  /\ FlattenSeq([i \in DOMAIN tokens |-> SplitTerms(tokens[i])]) = SplitTerms(text)
      /\ \A i \in DOMAIN tokens :
           LET token == tokens[i]
           IN  /\ SP \notin Range(token)
               /\ token # <<>>
               /\ {Head(token), token[Len(token)]} \cap White = {}
               /\ TAB \notin Range(token) <=> token \in Range(SplitTerms(text))

(***************************************************************************)
(* Loading a snapshot gives back what was written exactly if no key has a  *)
(* '=' or a line break; then the keys beside it are safe too, in whatever  *)
(* order the hash map writes them (snapshot.cpp:41-55, 110-139).           *)
(***************************************************************************)
SnapshotKeepsPlainKeys ==
  LET other == <<"other">>
      index == With(With(<<>>, other, [offset |-> 9, valueSize |-> 21]),
                    text, [offset |-> 10, valueSize |-> 0])
      clean == Range(text) \cap {"=", NL} = {}
  IN  \A keys \in {<<text, other>>, <<other, text>>} :
        clean <=> Load(FileText(keys, index)) = [threw |-> FALSE, index |-> index]

(* The texts of a sequence that are not empty. *)
NonEmpty(texts) == Skipping(<<>>, texts)

(* What is typed taken for records: its lines, none of them empty. *)
Records == NonEmpty(Lines(text))

(* The longest beginning of the records whose log is not longer than n bytes. *)
Fitting(records, n) ==
  SubSeq(records, 1, Max({i \in 0 .. Len(records) :
                            Len(LogFile(SubSeq(records, 1, i))) <= n}))

(***************************************************************************)
(* Of a log that was cut anywhere, even inside a size, replay finds the    *)
(* records before the cut. Records appended later it finds if the cut was  *)
(* between two records; otherwise none of them, nor any that nobody wrote. *)
(* Zeros at the end, which a file may have after a loss of power, read as  *)
(* empty records, and what is appended behind them is found only if their  *)
(* number allows (wal.tpp:13-33, wal.cpp:19-24).                           *)
(***************************************************************************)
LogIsReadUpToTheCut ==
  \A n \in 0 .. Len(Records) :
    LET before == SubSeq(Records, 1, n)
        later  == SubSeq(Records, n + 1, Len(Records))
        Found(file) == NonEmpty(Replay(file))
        zeros(m)    == [i \in 1 .. m |-> "0"]
    IN  /\ \A cut \in 0 .. Len(LogFile(before)) :
             LET kept == Fitting(before, cut)
                 file == SubSeq(LogFile(before), 1, cut)
             IN  /\ Replay(file) = kept
                 /\ Replay(file \o LogFile(later)) =
                      IF file = LogFile(kept) THEN kept \o later ELSE kept
        /\ \A m \in 0 .. 7 :
             Found(LogFile(before) \o zeros(m) \o LogFile(later)) =
               IF m % 3 = 0 THEN before \o later ELSE before

(***************************************************************************)
(* An offset reads as a value exactly if it is where a whole record begins *)
(* and the key has the right size: no other place in a value log that was  *)
(* cut and appended to passes for a record (storage_engine.cpp:45-124).    *)
(***************************************************************************)
OffsetsLeadToRecords ==
  \A n \in 1 .. Len(Records) :
    LET first  == ValueFrame(1, Records[n])
        second == ValueFrame(2, Records[Len(Records)])
    IN  \A cut \in 0 .. Len(first) :
          LET file == SubSeq(first, 1, cut) \o second
          IN  \A pos \in 1 .. Len(file), keySize \in {1, 2} :
                ValueAt(file, pos, keySize) =
                  IF pos = cut + 1 /\ keySize = 2 THEN {Records[Len(Records)]}
                  ELSE IF pos = 1 /\ cut = Len(first) /\ keySize = 1 THEN {Records[n]}
                  ELSE {}
=============================================================================
