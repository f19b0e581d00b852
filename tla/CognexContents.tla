--------------------------- MODULE CognexContents ---------------------------
(* What a database can store: a value, or none, for each key. *)
CONSTANTS
  Key,      \* keys
  Value     \* texts that are stored under them

Contents == [Key -> {{}} \cup {{v} : v \in Value}]
Empty    == [k \in Key |-> {}]
=============================================================================
