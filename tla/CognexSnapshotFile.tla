------------------------- MODULE CognexSnapshotFile -------------------------
(***************************************************************************)
(* The text of the snapshot file: one line key=offset,valueSize for each   *)
(* key, written without quoting, and what load_snapshot() makes of it.     *)
(* Sizes below 2^32 keep their value in the uint32_t they are loaded into. *)
(***************************************************************************)
EXTENDS CognexNumbers

NL == "NEWLINE"

Line(key, entry) ==
  key \o <<"=">> \o Decimal(entry.offset) \o <<",">> \o Decimal(entry.valueSize) \o <<NL>>

(* The file that write_snapshot_atomic() writes for the keys in some order. *)
FileText(keys, index) == FlattenSeq([i \in DOMAIN keys |-> Line(keys[i], index[keys[i]])])

(* The lines of a text; what follows the last line break is no line. *)
Lines(content) ==
  LET linesFrom[pos \in 1 .. Len(content) + 1] ==
        LET end == Find(content, NL, pos)
        IN  IF end = NPos THEN <<>>
            ELSE <<SubSeq(content, pos, end - 1)>> \o linesFrom[end + 1]
  IN  linesFrom[1]

Nothing == [threw |-> FALSE, index |-> <<>>]

(* index[key] = entry *)
With(index, key, entry) ==
  [k \in DOMAIN index \cup {key} |-> IF k = key THEN entry ELSE index[k]]

(* A mutant of CommaAfter: the first comma of the line. *)
CommaAnywhere(line, eq) == Find(line, ",", 1)

CommaAfter(line, eq) == Find(line, ",", eq + 1)

(* A line without '=' or ',' is skipped, one without numbers throws. *)
LoadedLine(s, line) ==
  LET eq     == Find(line, "=", 1)
      comma  == CommaAfter(line, eq)
      offset == Stoul(SubSeq(line, eq + 1, comma - 1))
      size   == Stoul(SubSeq(line, comma + 1, Len(line)))
  IN  IF s.threw \/ NPos \in {eq, comma} THEN s
      ELSE IF {} \in {offset, size} THEN [s EXCEPT !.threw = TRUE]
      ELSE [s EXCEPT !.index =
              With(@, SubSeq(line, 1, eq - 1), [offset    |-> CHOOSE n \in offset : TRUE,
                                                valueSize |-> CHOOSE n \in size : TRUE])]

(* load_snapshot() *)
Load(content) ==
  LET lines == Lines(content)
      loaded[i \in 0 .. Len(lines)] ==
        IF i = 0 THEN Nothing ELSE LoadedLine(loaded[i - 1], lines[i])
  IN  loaded[Len(lines)]
=============================================================================
