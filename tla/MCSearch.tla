------------------------------ MODULE MCSearch ------------------------------
(* CognexSearch on two keys and values of up to three words. *)
EXTENDS CognexSearch

MCSymbol == {"PUT", "DEL", SP, TAB, "x", "y", "z"}

KeySymmetry == Permutations(Key)

MCValue ==
  {<<"x">>,
   <<SP, "y", SP, SP, TAB, SP>>,
   <<"y", TAB, SP, "x", SP, "x">>}

x == <<"x">>
y == <<"y">>
z == <<"z">>

Above(field, op, value) == [field |-> field, op |-> op, value |-> value]

MCQueries ==
  {[terms |-> <<x>>, filters |-> {}, topK |-> 10, sortBy |-> "relevance"],
   [terms |-> <<x, z, y, x>>, filters |-> {Above("relevance", ">=", 2)},
    topK |-> 1, sortBy |-> "relevance"],
   [terms |-> <<y, x>>, filters |-> {}, topK |-> 1, sortBy |-> "similarity"],
   [terms |-> <<x>>, filters |-> {Above("similarity", "<", 100), Above("relevance", "!=", 1)},
    topK |-> 2, sortBy |-> "similarity"]}

(* compute_bm25() with k = 1.2 and b = 0.75, ln(r) taken as 2(r-1)/(r+1). *)
MCBm25(termFrequency, docLength, totalTokens, totalDocs, rarity, df) ==
  LET idf == (200 * (2 * rarity + 1)) \div (2 * rarity + 4 * df + 3)
  IN  1 + (idf * 220 * termFrequency * totalTokens)
            \div (10 * termFrequency * totalTokens + 3 * totalTokens
                    + 9 * docLength * totalDocs)
=============================================================================
