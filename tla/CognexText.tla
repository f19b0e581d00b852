----------------------------- MODULE CognexText -----------------------------
(***************************************************************************)
(* Keys, values and log records as texts, and how a record is written by   *)
(* put() and del() and taken apart again by apply_record_().               *)
(*                                                                         *)
(* A text is a sequence of symbols. The separator that apply_record_()     *)
(* looks for is a symbol of its own; a run of characters that no operation *)
(* below looks into is one symbol. So "my key" is <<"my", " ", "key">>,    *)
(* and Len is the size of a text up to the length of such runs.            *)
(***************************************************************************)
EXTENDS Naturals, Sequences

CONSTANT Symbol

SP == " "

ASSUME SymbolAssumption == {"PUT", "DEL", SP} \subseteq Symbol

Text == Seq(Symbol)

(* std::string::npos, for positions that count from 1. *)
NPos == 0

(* The first position at or after `from` that holds symbol c, or NPos. *)
Find(s, c, from) ==
  LET hits == {i \in from .. Len(s) : s[i] = c}
  IN  IF hits = {} THEN NPos ELSE CHOOSE i \in hits : \A j \in hits : i <= j

PutRecord(key, value) == <<"PUT", SP>> \o key \o <<SP>> \o value
DelRecord(key)        == <<"DEL", SP>> \o key

NoRecord == [type |-> "NONE", key |-> <<>>, value |-> <<>>]

(***************************************************************************)
(* What apply_record_() makes of a record: its type is what stands before  *)
(* the first space; a PUT's key ends at the second space and its value is  *)
(* the rest; a DEL's key is everything after the first space. A record     *)
(* that lacks a space it needs, or that has another type, is ignored.      *)
(***************************************************************************)
ParsedRecord(record) ==
  LET p1 == Find(record, SP, 1)
      p2 == Find(record, SP, p1 + 1)
      op == SubSeq(record, 1, p1 - 1)
  IN  CASE p1 # NPos /\ op = <<"PUT">> /\ p2 # NPos ->
             [type  |-> "PUT",
              key   |-> SubSeq(record, p1 + 1, p2 - 1),
              value |-> SubSeq(record, p2 + 1, Len(record))]
        [] p1 # NPos /\ op = <<"DEL">> ->
             [type  |-> "DEL",
              key   |-> SubSeq(record, p1 + 1, Len(record)),
              value |-> <<>>]
        [] OTHER -> NoRecord

Plain(text) == \A i \in 1 .. Len(text) : text[i] # SP
=============================================================================
