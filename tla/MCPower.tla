------------------------------- MODULE MCPower -------------------------------
(* CognexPower on two keys of one size. *)
EXTENDS CognexPower, TLC

MCKeySize == [k \in Key |-> 1]

PowerSymmetry == Permutations(Key) \cup Permutations(Value)
=============================================================================
