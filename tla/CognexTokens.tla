---------------------------- MODULE CognexTokens ----------------------------
(***************************************************************************)
(* How a value is cut into the tokens it is indexed under: at every space, *)
(* and at nothing else; other white space is only trimmed from the two     *)
(* ends of a word, and a word with nothing else in it is no token.         *)
(***************************************************************************)
EXTENDS CognexText, FiniteSetsExt

TAB   == "TAB"
White == {SP, TAB}

(* clean_token() *)
Cleaned(word) ==
  LET black == {i \in DOMAIN word : word[i] \notin White}
  IN  IF black = {} THEN <<>> ELSE SubSeq(word, Min(black), Max(black))

(***************************************************************************)
(* The loop of tokenize_and_update(): tokensFrom[i] is what it still finds *)
(* when startPointer is at i. It leaves a word past the space after it.    *)
(***************************************************************************)
Tokens(text) ==
  LET End(i) == IF Find(text, SP, i) = NPos THEN Len(text) + 1 ELSE Find(text, SP, i)
      tokensFrom[i \in 1 .. Len(text) + 2] ==
        IF i > Len(text) THEN <<>>
        ELSE IF text[i] = SP THEN tokensFrom[i + 1]
        ELSE LET token == Cleaned(SubSeq(text, i, End(i) - 1))
             IN  (IF token = <<>> THEN <<>> ELSE <<token>>) \o tokensFrom[End(i) + 1]
  IN  tokensFrom[1]

(* How often a token occurs among the tokens of a value. *)
Frequency(tokens, token) == Cardinality({i \in DOMAIN tokens : tokens[i] = token})
=============================================================================
