-------------------------- MODULE CognexSearchable --------------------------
(***************************************************************************)
(* What Cognex promises a caller who searches it, without an index: QUERY  *)
(* answers from the values that are stored at that moment, each key once,  *)
(* with its relevance, best first and no more than were asked for.         *)
(*                                                                         *)
(* The similarity of a match is left open, but for its scale: it goes from *)
(* 0 to 100 and the best match has 100. CognexSearch implements this       *)
(* specification.                                                          *)
(***************************************************************************)
EXTENDS Naturals, Sequences, FiniteSets

CONSTANTS
  Key, Value,
  Words,        \* the words that each value is found by: a sequence
  Queries       \* [terms, filters, topK, sortBy]

VARIABLES
  up,      \* the engine serves calls
  store,   \* the value of each key: {} or {v}
  answer   \* what the call just made has answered, if it was a query

vars == <<up, store, answer>>

Contents == [Key -> {{}} \cup {{v} : v \in Value}]
Empty    == [k \in Key |-> {}]
NoAnswer == [query |-> {}, lines |-> <<>>]

(* How often the terms of q occur in what is stored under k. *)
Relevance(q, k) ==
  Cardinality(UNION {
    {hit \in (DOMAIN q.terms) \X (DOMAIN Words[v]) : q.terms[hit[1]] = Words[v][hit[2]]} :
    v \in store[k]})

Matching(q) == {k \in Key : Relevance(q, k) > 0}

Compares(op, x, y) ==
  CASE op = ">"  -> x > y
    [] op = ">=" -> x >= y
    [] op = "<"  -> x < y
    [] op = "<=" -> x <= y
    [] op = "="  -> x = y
    [] OTHER     -> TRUE

Field(line, name) == IF name = "similarity" THEN line.similarity ELSE line.relevance

Passes(q, line) == \A f \in q.filters : Compares(f.op, Field(line, f.field), f.value)

Rank(q, line) == Field(line, q.sortBy)

(***************************************************************************)
(* A match may be left out of the lines with a given similarity if that    *)
(* similarity or its relevance fails a filter, or if as many lines as were *)
(* asked for rank no worse.                                                *)
(***************************************************************************)
MayBeLeftOut(q, lines, k, similarity) ==
  LET line == [key |-> k, relevance |-> Relevance(q, k), similarity |-> similarity]
  IN  \/ ~Passes(q, line)
      \/ Len(lines) = q.topK /\ \A i \in DOMAIN lines : Rank(q, lines[i]) >= Rank(q, line)

Permitted(q, lines) ==
  LET listed == {lines[i].key : i \in DOMAIN lines}
      others == Matching(q) \ listed
  IN  /\ Len(lines) <= q.topK
      /\ listed \subseteq Matching(q)
      /\ \A i, j \in DOMAIN lines : i < j =>
           /\ lines[i].key # lines[j].key
           /\ Rank(q, lines[i]) >= Rank(q, lines[j])
      /\ \A i \in DOMAIN lines :
           /\ lines[i].relevance = Relevance(q, lines[i].key)
           /\ lines[i].similarity \in 0 .. 100
           /\ Passes(q, lines[i])
      /\ \A k \in others : \E n \in 0 .. 100 : MayBeLeftOut(q, lines, k, n)
      /\ Matching(q) # {} =>
           \/ \E i \in DOMAIN lines : lines[i].similarity = 100
           \/ \E k \in others : MayBeLeftOut(q, lines, k, 100)

-----------------------------------------------------------------------------

Init ==
  /\ up = FALSE
  /\ store = Empty
  /\ answer = NoAnswer

(* What is recovered is the business of CognexKV. *)
Recover ==
  /\ ~up
  /\ up' = TRUE
  /\ store' \in Contents
  /\ answer' = NoAnswer

Store(k, value) ==
  /\ up
  /\ store' = [store EXCEPT ![k] = value]
  /\ answer' = NoAnswer
  /\ UNCHANGED up

Ask(q) ==
  /\ up
  /\ answer'.query = {q}
  /\ Permitted(q, answer'.lines)
  /\ UNCHANGED <<up, store>>

(* Housekeeping of the engine: nothing a caller can see changes. *)
Tidy ==
  /\ up
  /\ answer' = NoAnswer
  /\ UNCHANGED <<up, store>>

Stop ==
  /\ up' = FALSE
  /\ store' = Empty
  /\ answer' = NoAnswer

Next ==
  \/ Recover
  \/ \E k \in Key : Store(k, {}) \/ \E v \in Value : Store(k, {v})
  \/ \E q \in Queries : Ask(q)
  \/ Tidy
  \/ Stop

Spec == Init /\ [][Next]_vars
=============================================================================
