--------------------------- MODULE CognexCommands ---------------------------
(***************************************************************************)
(* What the REPL makes of a line that is typed: parse_line() cuts it into  *)
(* a command and its quoted arguments; QUERY takes its first argument for  *)
(* words to look for and the others for filters.                           *)
(*                                                                         *)
(* The name of a command, of a field or of an order is one symbol, in the  *)
(* cases that occur; a quotation mark and an operator's characters are     *)
(* symbols of their own.                                                   *)
(***************************************************************************)
EXTENDS CognexNumbers

QT == "QUOTE"

Upper == [put |-> "PUT", get |-> "GET", del |-> "DEL", snapshot |-> "SNAPSHOT",
          query |-> "QUERY", compact |-> "COMPACT", exit |-> "EXIT"]
Lower == [Top |-> "top", Relevance |-> "relevance", Similarity |-> "similarity",
          SortBy |-> "sortby"]

Recased(text, case) ==
  [i \in DOMAIN text |-> IF text[i] \in DOMAIN case THEN case[text[i]] ELSE text[i]]

(* Leading, trailing spaces and both: no other white space. *)
LeftTrimmed(text)  == Without({SP}, text)
RightTrimmed(text) == Reverse(LeftTrimmed(Reverse(text)))
Trimmed(text)      == RightTrimmed(LeftTrimmed(text))

-----------------------------------------------------------------------------
(* parse_line() *)

(* A mutant of Quoted: the next argument begins at the closing mark. *)
QuotedOverlapping(rest) ==
  LET argsFrom[pos \in 1 .. Len(rest) + 1] ==
        LET start == Find(rest, QT, pos)
            end   == Find(rest, QT, start + 1)
        IN  IF NPos \in {start, end} \/ end = start + 1 THEN <<>>
            ELSE <<SubSeq(rest, start + 1, end - 1)>> \o argsFrom[end]
  IN  argsFrom[1]

(* The loop over the arguments: one that is empty or not closed ends it. *)
Quoted(rest) ==
  LET argsFrom[pos \in 1 .. Len(rest) + 1] ==
        LET start == Find(rest, QT, pos)
            end   == Find(rest, QT, start + 1)
        IN  IF NPos \in {start, end} \/ end = start + 1 THEN <<>>
            ELSE <<SubSeq(rest, start + 1, end - 1)>> \o argsFrom[end + 1]
  IN  argsFrom[1]

NoCommand == [name |-> <<>>, args |-> <<>>]

ParseLine(line) ==
  LET sv   == LeftTrimmed(line)
      p1   == Find(sv, QT, 1)
      cmd  == RightTrimmed(IF p1 = NPos THEN sv ELSE SubSeq(sv, 1, p1 - 1))
  IN  IF cmd = <<>> THEN NoCommand
      ELSE [name |-> Recased(cmd, Upper), args |-> IF p1 = NPos THEN <<>> ELSE Quoted(sv)]

-----------------------------------------------------------------------------
(* The arguments of QUERY *)

(* A mutant of SplitTerms: it splits at spaces only. *)
SplitTermsAtSpaces(text) ==
  LET Next(s, c) ==
        IF c # SP THEN [s EXCEPT !.current = Append(@, c)]
        ELSE IF s.current = <<>> THEN s
        ELSE [terms |-> Append(s.terms, s.current), current |-> <<>>]
      state[i \in 0 .. Len(text)] ==
        IF i = 0 THEN [terms |-> <<>>, current |-> <<>>] ELSE Next(state[i - 1], text[i])
  IN  Next(state[Len(text)], SP).terms

(* split_terms(): at any white space, and the end of the text. *)
SplitTerms(text) ==
  LET Next(s, c) ==
        IF c \notin White THEN [s EXCEPT !.current = Append(@, c)]
        ELSE IF s.current = <<>> THEN s
        ELSE [terms |-> Append(s.terms, s.current), current |-> <<>>]
      state[i \in 0 .. Len(text)] ==
        IF i = 0 THEN [terms |-> <<>>, current |-> <<>>] ELSE Next(state[i - 1], text[i])
  IN  Next(state[Len(text)], SP).terms

(* A mutant of OPERATORS: a short operator comes before the long ones. *)
OPERATORSShortFirst ==
  <<<<">">>, <<">", "=">>, <<"<", "=">>, <<"!", "=">>, <<"<">>, <<"=">>>>

OPERATORS ==
  <<<<">", "=">>, <<"<", "=">>, <<"!", "=">>, <<">">>, <<"<">>, <<"=">>>>

(* The first place where text part begins, or NPos. *)
FindText(text, part) ==
  LET hits == {i \in 1 .. Len(text) - Len(part) + 1 :
                SubSeq(text, i, i + Len(part) - 1) = part}
  IN  IF hits = {} THEN NPos ELSE Min(hits)

(* parse_expression(): the first operator of the list that occurs anywhere. *)
ParseExpression(expr) ==
  LET text == Trimmed(expr)
      used == {n \in DOMAIN OPERATORS : FindText(text, OPERATORS[n]) # NPos}
  IN  IF used = {} THEN [field |-> <<>>, op |-> <<>>, value |-> <<>>]
      ELSE LET op  == OPERATORS[Min(used)]
               pos == FindText(text, op)
           IN  [field |-> RightTrimmed(SubSeq(text, 1, pos - 1)),
                op    |-> op,
                value |-> LeftTrimmed(SubSeq(text, pos + Len(op), Len(text)))]

DefaultQuery == [terms |-> <<>>, filters |-> <<>>, topK |-> 10, sortBy |-> "relevance"]

(* parse_filter(): what it cannot make sense of leaves the query as it is. *)
ParseFilter(expr, q) ==
  LET f     == ParseExpression(expr)
      field == Recased(f.field, Lower)
      value == Recased(f.value, Lower)
  IN  CASE <<>> \in {f.field, f.value} -> q
        [] field \in {<<"sortby">>, <<"sort", SP, "by">>} ->
             IF value \in {<<"relevance">>, <<"similarity">>}
               THEN [q EXCEPT !.sortBy = Head(value)] ELSE q
        [] OTHER ->
             IF Stoul(f.value) = {} THEN q
             ELSE LET n == CHOOSE m \in Stoul(f.value) : TRUE
                  IN  CASE field = <<"top">> /\ f.op = <<"=">> -> [q EXCEPT !.topK = n]
                        [] field \in {<<"relevance">>, <<"similarity">>} ->
                             [q EXCEPT !.filters =
                               Append(@, [field |-> Head(field), op |-> f.op, value |-> n])]
                        [] OTHER -> q

ParseQuery(args) ==
  IF args = <<>> THEN DefaultQuery
  ELSE FoldLeft(LAMBDA q, expr : ParseFilter(expr, q),
                [DefaultQuery EXCEPT !.terms = SplitTerms(Head(args))], Tail(args))
=============================================================================
