------------------------------ MODULE MCFormats ------------------------------
(* CognexFormats on an alphabet for each kind of text. *)
EXTENDS CognexFormats

(* A symbol of its own for each sequence of bytes. *)
MCCrc(bytes) == IF bytes = <<>> THEN "0" ELSE ToString(bytes)

MCSymbol ==
  {"PUT", "DEL", SP, TAB, QT, NL, "put", "x", "=", ">", "<", "!", "-", "+", ",", "0", "1", "2",
   "relevance", "top", "SortBy", "Similarity", "other"}

MCInputs ==
  {[symbols |-> {SP, QT, "put"}, length |-> 8],
   [symbols |-> {SP, TAB, "relevance", ">", "=", "-", "+", "0", "2"}, length |-> 5],
   [symbols |-> {SP, "top", "SortBy", "Similarity", "=", "2"}, length |-> 5],
   [symbols |-> {SP, "Similarity", "<", "!", "=", "2"}, length |-> 4],
   [symbols |-> {SP, TAB, "x"}, length |-> 8],
   [symbols |-> {"=", ",", NL, "1", "x"}, length |-> 4],
   [symbols |-> {NL, "0", "x"}, length |-> 7]}
=============================================================================
