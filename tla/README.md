# Cognex: a TLA+ verification project

Cognex is an embedded key-value store with a full-text index, in C++17: one
process, one thread, a REPL on top. Writes go to a write-ahead log, values to an
append-only value log, the key index to a snapshot file now and then; the search
index lives in memory only and is rebuilt at every start. This directory models
the store, the search, the program around them and the texts and bytes it reads,
checks them with TLC on small instances, and proves their safety properties for every
instance with TLAPS: those of the store, the search, the whole program, losses of
power, and the texts and bytes that are read.

## The system

| component | state | operations |
| --- | --- | --- |
| write-ahead log (`wal.cpp`, `wal.tpp`) | `wal.log`: length, text, CRC; `walWrites_` | append (three `write()`s, fsync every 1000th), replay up to the first bad record, truncate |
| value log (`storage_engine.cpp`) | `value.log`: header, value, CRC; `valueLogWrites_` | append (three `write()`s), read at an offset with checks of key size and CRC |
| snapshot (`snapshot.cpp`) | `snapshot.dat`, `snapshot.dat.tmp` | write to tmp, fsync, rename, fsync the directory; load |
| key index (`cognex.cpp`) | `index_`: key to offset; `snapshotWriteOps_` | put, del, get, snapshot, recover |
| search index (`index_engine.cpp`, `cognex.cpp`) | `entries_`, `postings_`, `keyToEntry_`, `totalTokens_`, `deleteOpsSinceLastCompaction_` | insert, tombstone, compact, rebuild |
| query engine (`query_engine.cpp`) | none between calls | candidates and scores, filters, ranking with cut-off |
| REPL (`repl.cpp`, `commands/`) | `write_count` | read a line, run a command, snapshot after five writes |
| parsers (`parser.cpp`, `query_command.cpp`) | none | lines, query terms, filters |

`put()` logs, marks the key's old entry deleted, appends the value, enters the
value in the search index, points the key index at it and perhaps takes a
snapshot. `del()` logs, marks the entry deleted, perhaps compacts, and erases the
key. `snapshot()` writes the key index to a new file, renames it over the old one
and only then empties the log. `recover()` loads the snapshot, replays the log
(which appends the values to the value log again), throws the search structures
away and rebuilds them from the values it reads. Components call each other
directly; the only callback is `apply_record_()` during replay. No exception is
caught between the engine and `main()`, so one ends the process.

What is hard: a process that is killed between any two writes (a record can be
left torn, a snapshot half written, a recovery half done), the order of log,
value, snapshot, rename and truncation, files that are synced at different times
when the power fails, offsets that must outlive all of that, tombstones that must
go to the right entry while entries are renumbered, counts that tombstones falsify,
two counters that take snapshots independently, and formats without quoting.
`PROJECT.json` lists the hazards line by line, with the properties that cover each.

What makes each component correct: a restart recovers every call that returned,
and the call under way wholly or not at all; every offset can be read; the live
entries are exactly the stored keys; the postings are exactly what the entries
say; a query answers from what is stored.

## Modules

    CognexText        records as texts: put/del write them, apply_record_ parses them
      CognexStorage     files, key index, calls, snapshot, recovery, kill
        -- implements CognexKV     what is kept: contents, durable contents, call under way
        Cognex            the program: REPL + storage + search
          with CognexIndex and CognexCommands
      CognexTokens      the tokenizer
        CognexIndex       entries, postings, tombstones, compaction as one value
          CognexSearch      search side by itself, and the query engine
            -- implements CognexSearchable   what a query may answer
        CognexNumbers     stoul, to_string
          CognexCommands      command lines, query terms, filters
          CognexSnapshotFile  the lines of the snapshot file
          CognexLogFile       the bytes of the two logs
            CognexFormats       all of these, and the tokenizer, against definitions
    CognexContents    what a database can store (shared by CognexIndex and its users)
    CognexPower       page cache and disk: fsync counters, loss of power
    MCStorage, MCSearch, MCPower, MCFormats, MCCognex           instances for TLC

    CognexText_proofs     numbers, recursion, logs; texts and records
      CognexStorage_proofs  files, offsets, and that CognexStorage implements CognexKV
        Cognex_proofs         the whole program (with CognexIndex_proofs)
      CognexIndex_proofs    the tokenizer and the search structures
        CognexSearch_proofs   the search side
      CognexPower_proofs    losses of power
      CognexFormats_proofs  the texts and bytes that are read
    CognexKV_proofs       the promise itself

### CognexText

A text is a sequence of symbols. The space is a symbol, because
`apply_record_()` looks for it; a run of characters that nothing looks into is one
symbol. `ParsedRecord` is `apply_record_()` up to the point where it acts.

### CognexKV

Four variables: `kv` (what `get()` answers), `durable` (what a restart would
recover now), `torn` (a kill has cut a log record short), `call`. A write is
invoked, logged, and takes effect; `Crash` sets `kv` to `durable`. The specification
is explicit about the weakness of the code: while `torn`, logging changes nothing.

### CognexStorage

| variable | code |
| --- | --- |
| `wal`, `vlog` | the logs; a record has a flag `whole`, false until its checksum is written |
| `snapshot`, `tmp` | the two snapshot files as maps from keys to offsets |
| `index`, `snapshotWriteOps` | `index_`, `snapshotWriteOps_` |
| `pc`, `op`, `cursor` | where the process is, the call under way, how far replay is |
| `calls`, `starts` | counters that bound the instance |

An action ends wherever a kill leaves something different behind: `Put` or `Del`
begins the log record, `WalComplete` ends it, `PutStoreBegin` and `PutApply`
do the same for the value, `SnapshotOpen`, `SnapshotLine(k)`, `SnapshotRename` and
`SnapshotTruncate` are the steps of a snapshot, `Start`, the `Replay` actions and
`Rebuild` those of a recovery. Steps that only touch memory belong to the action
before them. `Kill` is possible everywhere but in `down`; it is also what EXIT
amounts to, since the program does nothing at the end. What `get()` answers is the
state function `View`. An offset is a record's place in the value log; what
`read_from_log_()` checks is `Readable`.

A torn record stays where it is and is never taken for a record: the readers check
length and CRC, and the model takes the CRC to be right about it. That the bytes
bear this out is `LogIsReadUpToTheCut` of `CognexFormats`.

### CognexPower

`CognexStorage` keeps what `write()` was given; here a file is a record `[cache,
disk]`: `cache` is what everybody reads, `disk` the contents it can have after a
loss of power, all those since the last fsync. `PowerFailure` picks one for each file.
`walWrites` and `valueLogWrites` are the fsync counters, lost with the process.
A log append is one step here, since `CognexStorage` has its torn records, and so is
the writing of `snapshot.dat.tmp`, which is synced before it has a name that is
read. Three failures that the code passes over in silence are in the constant
`Fails`: the directory or the log cannot be opened, the sync of the emptied log
fails. All others throw, which is `Kill`. Value log records are of one size, so that
an offset is a place counted in records; which keys have the same size is the
constant `KeySize`. Three variables only observe: `past` has the contents after every
write since the last loss of power, `killed` counts the processes killed since the log
was synced, `exposed` is true once the snapshot has offsets without their values, or
the directory could not be synced. Nothing is promised then:
`snapshot_durable` shows the first, and the second brings the old snapshot back
beside the emptied log.

### CognexTokens, CognexIndex and CognexSearch

`Tokens` is the loop of `tokenize_and_update()`. `CognexIndex` has no variables: a
record holds the four structures, and `Entered`, `Tombstoned`, `Forgotten`, `Dropped`
and `Compacted` are what `insert()`, `put()`, `del()`, `recover()` and `compact()` do to
it. `CognexSearch` and `Cognex` keep such a record in their variable `search`.
Memory is lost as a whole and calls do not overlap, so each call is one action.
Recovery is `Start`, any number of `ReplayPut`/`ReplayDel`, `Reset`, one
`Rebuild(k)` per key in any order, `Ready`. The key index maps keys to values here:
that its offsets can be read is what `OffsetsResolve` says of `CognexStorage`.

`Query(q)` is the whole QUERY command. `Candidates` adds up the postings as
`generate_candidates()` does, `Filtered` is `apply_filters()`, and `Ranked` is the
set of outcomes `rank_results()` can have, since `nth_element` and `sort` leave
ties open. BM25 is a constant operator over exactly the numbers the code gives it,
the wrapping difference included.

Entry ids and positions count from 1. Operators whose comment begins with "A
mutant of" are used by no specification: each is an action or a helper with a
plausible bug, and putting it in the place of the original makes TLC report the
property that `PROJECT.json` names with it.

### CognexSearchable

The promise to a caller who searches: each key at most once, exactly the keys whose
stored value contains a term, with the right relevance, filtered, best first, no
better match left out. The similarity is left open but for its scale.

### CognexNumbers, CognexCommands, CognexSnapshotFile, CognexLogFile, CognexFormats

The parsers and file formats as functions of texts, with the names of the code
(`ParseLine`, `SplitTerms`, `ParseExpression`, `ParseFilter`, `Load`, `Replay`,
`ValueAt`). A text is a sequence of symbols; a command, a field or an order is one
symbol, in the cases that occur, and every character the code looks for is a symbol of
its own. In `CognexLogFile` a symbol is a byte, a size has two of them, and a
checksum is one that only the same bytes give. The state machine of `CognexFormats`
types a text symbol by symbol from one of several alphabets, so that TLC meets every
text up to a length; each property reads it as what it is about.

### Cognex

The composition. It extends `CognexStorage` and `CognexIndex`; the contents `View` of
the storage side are what the search structures are compared with. Each action is one of
the storage side joined with what the same code does to the search structures:
`PutBegin`/`PutEnd`, `DelEnd`, `Replay`, `RebuildSearch` (which reads the values at
their offsets, in any order of the keys). `Enter(line)` parses a typed line and starts
what the handler calls. `writeCount` is `write_count` of `run_repl()`: `AutoSnapshot`
takes a snapshot when it is full, and no line is read until that is done. The engine's
own count takes one inside `put()`, after which PutCommand counts the put all the
same. `inherited` observes how many records an earlier process left in the log.
QUERY is left to `CognexSearch`, since it changes nothing.

## What the runs check

| run | checks | shows |
| --- | --- | --- |
| `kv` | `TypeOK`, `Promise`, `CrashIsAtomic` | the promise is consistent: no finished call is lost, no call is torn apart, unless a torn record is in the way |
| `storage` | `TypeOK`, `OffsetsResolve`, `FilesMatchIndex`, `EngineReturns` | recovery never meets an unreadable offset; the files are never behind or ahead of the index by more than the call under way; everything ends |
| `storage_refinement` | `RefinesKV` | log, value log and snapshot implement `CognexKV` |
| `torn_log` | `ReturnedCallsSurvive`, violated | a write acknowledged after a torn record is lost at the next restart |
| `spaced_keys` | `AnyKeySurvives`, violated | a key with a space comes back as another key |
| `search` | `TypeOK`, `SearchMatchesStore`, `PostingsMatchEntries`, `IdsKeepTheirMeaning` | the structures stay consistent through overwrites, deletes, compactions, and recovery |
| `search_refinement` | `RefinesSearchable` | queries answer from the store |
| `statistics` | `StatisticsExact`, violated | overwritten values are counted as documents and as text |
| `power` | `TypeOK`, `PowerFailureIsBounded`, `ServesWhatWasLeft` | how many writes a loss of power takes back, in the middle of a snapshot too, and that the process starts and serves what is left |
| `snapshot_durable` | `SnapshotIsDurable`, violated | a snapshot that returned can lose its values |
| `formats` | `ArgumentsAreTheQuotedParts`, `OptionIsReadAsWritten`, `NegativeNumbersAreLarge`, `WordsAreFound`, `SnapshotKeepsPlainKeys`, `LogIsReadUpToTheCut`, `OffsetsLeadToRecords` | what each text is read as, and exactly where the formats fail |
| `cognex` | `AllTypeOK`, `SearchSurvives`, `LogIsCounted`, `FullCountEmptiesLog` | GET and QUERY agree across kills and restarts; the snapshot counters do what they can |

The four properties of the violated runs `torn_log`, `spaced_keys`, `statistics` and
`snapshot_durable` restate a sentence of the documentation or a comment of the code;
`PROJECT.json` quotes it under `findings`. Some passing properties state what the code
does where a document says otherwise:

* `docs/wal.md:59` says that a crash can lose the last
  `walFsyncEveryNWrites_ - 1` log entries. Each process counts for itself, so that
  is the bound for one process; with k processes killed since the last sync it is
  k + 1 times that (`PowerFailureIsBounded`; one write less is violated).
* `docs/wal.md:94` says that snapshots keep the log bounded. `LogIsCounted` says which
  records are: deletes of missing keys and what earlier processes left are not.
* `docs/guide.md:96` and `docs/query-engine.md:186` have the option
  `sortby similarity`. An option without an operator is ignored; `sortby = similarity`
  works (`OptionIsReadAsWritten`).
* A key with `=` or a line break does not survive a snapshot
  (`SnapshotKeepsPlainKeys` has it as an equivalence).

Bounds. `MaxCalls = 3` and `MaxStarts = 3` allow a call killed inside its log
append, a restart, a call that returns and another restart, or a kill in each of a
call, its recovery and its snapshot; a fourth call repeats situations of fewer, as
the calls only communicate through the files. The refinement run has two starts,
enough for the log and the snapshot to disagree across one of them.
`SnapshotEveryNWriteOps = 2` (10,000,000 in the code) lets a put take a snapshot.
Two keys and two values distinguish "another key's" and "an older value". In
`search`, two deletes compact (ten in the code), two log records allow a put and a
delete of the same key in replay, five calls allow overwrite, delete, compaction
and writes after it; there are no queries, which change nothing but the answer.
`search_refinement` starts from any contents over three keys (so three matches
can tie at the cut), needs no replay for that, and makes two calls, enough for a
compaction, with queries anywhere. Keys are symmetric in both. `SizeModulus = 64`
stands for 2^64 and is larger than any count in the instance.
`power` syncs the log every second write and the value log every third (1000 and
5000), so that the counters run apart; four calls and three starts let a log of
two processes fail in a third, or a snapshot meet a log that stayed. Keys and values
are symmetric. `snapshot_durable` needs a put and a snapshot. `formats` goes up to
eight symbols for command lines and values, enough for four marks with text in and
between them, five for options (with both signs, a tab and two digits, so that
everything `std::stoul()` accepts before a number occurs), four for keys in the
snapshot and seven for the records of a log. No text is longer than 99 symbols
(`InputAssumption`), which is what a size of two digits can count. `cognex` has thresholds of 2 (5 in the code) for the REPL, 3 for
the engine and 1 for compaction: three calls fill the REPL's count and go on, with
one restart, and several spellings of a command among the lines. The third of three
puts takes the engine's own snapshot, after one that the REPL took.
Deadlock is not checked: the system stops when the bounds are used up.

Fairness. `EngineReturns` and `FullCountEmptiesLog` need it: `WF_vars(EngineStep)` and
`WF_allVars(ProgramStep)` say that a running process goes on with its own code, which
is one thread that waits for nobody but at the prompt. Starting it, typing and killing
are up to its surroundings and not fair.

## What is proved

Each theorem holds for any sets of keys and values, any thresholds, intervals and
bounds. An invariant is proved by a stronger one that is inductive; the steps below
name what has to be added and why.

**Record texts** (`CognexText_proofs`). `PutRoundTrip` and `DelRoundTrip`: parsing a
record gives back what was logged; for a put, if the key has no space. So where a
theorem below assumes `Plain(k)` for every key, that is what it is for: with a space,
the code does not do what is claimed (`spaced_keys`).

**The promise** (`CognexKV_proofs`). `TypeCorrect`, `PromiseKept`, `CrashesAreAtomic`.
`Promise` is inductive together with `TypeOK`.

**The files** (`CognexStorage_proofs`).

* `TypeCorrect`. `TypeOK` needs `CallOK` beside it, which says that there is a call
  of the right kind wherever the code is inside one.
* `OffsetsAlwaysResolve`. The invariant adds `PendingValue`: inside a value log
  append the last record is the one being written. Value log records are never
  changed once whole, so an offset that resolves goes on doing so.
* `FilesAlwaysMatchIndex`, for plain keys. The invariant adds `PendingRecord` (the
  last log record is that of the call under way) and `PendingSnapshot` (each line of
  the half-written snapshot is the index's, and after the rename the snapshot is the
  index). The core is a set of lemmas on what replaying the first n records leaves
  under a key: replaying one record more, and replaying a log over a snapshot that
  already has it, which is why a kill between rename and truncation is harmless.
* `KeepsThePromise`, for plain keys: `CognexStorage` implements `CognexKV`. Calls,
  complete log records and effects map to the steps of the same name; beginning a
  record, every step of a snapshot and every step of a recovery change nothing that
  `CognexKV` can see, because `Durable`, what the files recover, stays the same; a
  kill maps to `Crash`. It needs `ValuesInv` (replay never makes up a value) to have
  the mapped variables in their types.

**The search structures** (`CognexIndex_proofs`, `CognexSearch_proofs`).
`TypeCorrect`, `SearchAlwaysMatchesStore`, `PostingsAlwaysMatchEntries` and
`IdsAlwaysKeepTheirMeaning`. Two predicates carry them. `Consistent` (postings sorted by
id, complete and right, token count exact) is kept by each of `Entered`, `Tombstoned`,
`Forgotten` and `Compacted` whatever is stored. `Matches` relates live entries,
`keyToEntry` and contents; during replay and rebuild, when it does not hold yet, `Leads`
and `Rebuilding` take its place: what replay has left in `keyToEntry_`, which recovery
does not clear, leads nowhere for keys that are not stored. `Compacting` is a
recursive function of the number of entries seen; that the index built so far is packed
(`Packed`) is proved by induction on that number. The tokenizer returns tokens, by
induction from the end of the text. Recursion and induction are lemmas about functions
and sets (`CognexText_proofs`), since the induction theorems of the library take an
operator.

`QueriesAnswerFromTheStore`: `CognexSearch` implements `CognexSearchable`. It adds
`AnswerInv`, that every entry has the tokens of its value. The frequencies that a query
adds up over the postings of an entry are the number of places where its terms occur
(`RelevanceCounts`): a term has at most one posting in an entry, and each posting
stands for as many places as it says, so a sum over postings is the size of a union of
sets with nothing in common (`SumOfSizes`). By `SearchInv` the entries in use are the
stored keys, so the results are the matches, each once (`CandidatesAnswer`); that
a percentage of the greatest score is at most 100, and 100 for that one, is arithmetic.
A result that is not listed was rejected by a filter or cut off: a ranking is injective,
so if it has as many lines as there are results it has them all (`RankedIs`). The
theorem has one hypothesis, `Bm25Positive`: a document with a term has a positive score.
`compute_idf()` takes the logarithm of a number above 1 and the rest of
`compute_bm25()` is a quotient of positive numbers; what else BM25 computes does not
matter. `QueryAssumption` says what `parse_query()` can make of a line.

**The whole program** (`Cognex_proofs`), for plain keys: `AllTypeCorrect`,
`SearchAlwaysSurvives`, `LogIsAlwaysCounted`, `FilesAlwaysHold` and
`ProgramKeepsThePromise`. The invariant `AllInv` has five parts: the files match the
index and store values only (from above, for all steps but the snapshot that the REPL
takes by itself, which is looked at anew); a map never has more than finitely many keys,
so that the rebuild, in whatever order of the hash map, comes to its end; the search
structures are as far as the process is (`SearchPhase`); the counters are within their
bounds, and no call is under way while the REPL's count is full; and the count
covers the records of this process that do something (`InheritedInv`, `LoggedInv` for
the call under way, `CountedInv`).

**Losses of power** (`CognexPower_proofs`). `TypeCorrect`, `PowerFailureAlwaysBounded`,
`AlwaysServesWhatWasLeft`. The invariant looks at every pair of a log and a snapshot that
can be left. The log that is read gives the current contents over each such snapshot.
A log that is cut short has its keys as they were after some write t that is no
further back than what is at risk, and the snapshot has the other keys as of t or later
(`Left`): that is why the pair is no older than t. What can be left of the value log is
how it begins, so an offset that can be read there leads to the same value. A kill adds
an interval less one to what is at risk, which is no less than the count it loses. A
renamed snapshot holds the current contents, which is what lets truncation forget the
log, synced or not.

**Texts and bytes** (`CognexFormats_proofs`). The only state is the text typed so far, so
the invariant is `Typed`: the text is a sequence of symbols, no longer than its alphabet
allows. What each theorem then says is a fact about every such text, and its proof is
about the loops that read it. Each loop is a recursive function of a position or a count;
the lemmas `CountedRecursion`, `CountedInduction` and `RankInduction` (a function that
goes on from a place nearer to the end) give its values and let a claim be carried along.

* `LogRead`. `LogFile` of a sequence is the log of its beginning and that of its end one
  after the other (`LogFile` and `Replay` both by induction over the records). Replay
  that stands where a record begins reads it and goes on behind it. Where a record was
  cut and others follow, the byte at the place of its checksum would have to be the
  checksum of just the bytes before it. No text contains a checksum, and a checksum in a
  log (`IsLog`) is that of a record behind whose beginning it stands: counting places
  shows that none of them can be the one (`TornRead`), but for two zeros that read as
  the size and the checksum of an empty record.
* `OffsetsLead`. The same for one record of the value log, at every place.
* `TokensAreWords`. The tokens of a text are the words between its spaces, each trimmed
  at its ends; `SplitTerms` splits the same text at a tab as well, so splitting the
  tokens again gives what splitting the text gives.
* `ArgumentsAreFound`. What is left of the line when n arguments have been read is
  what stands behind its mark number 2n; the marks are numbered by counting those
  up to a place (`Rank`).
* `OptionsAreRead`, for a modulus above 9. Without its spaces a text is its field, its operator and its value without theirs
  (`DenseRead`), and these can be told apart without any spaces, because `OPERATORS` has
  `>=` before `>` and `=` (`OperatorFound`).
* `NegativesAreLarge`. A number of n digits that does not begin with 0 is between 1 and
  10^n - 1, and a text has fewer digits than symbols; there is no hypothesis.
* `SnapshotKept`, for a modulus above the numbers it writes, 21. `SnapshotRoundTrip`
  is the general fact behind it: a snapshot of any number of plain keys, in any
  order, is read back as the index it was written from. A key with `=` or a line
  break is never loaded from any file (`LoadedKeysArePlain`), which is the "only if".
  `NumbersAreRead` (`std::stoul()` gives back what `std::to_string()` wrote, below the
  modulus) is what both need.

Two of these theorems have the hypothesis `Ideal(Byte)`: a checksum is a byte of some
(infinite) set `Byte` that no two sequences share, that no text contains, and that is 0
for no bytes at all, as CRC-32 has it. CRC-32 has collisions and its bytes can occur in a
text; the theorems say what holds as long as neither comes together in one place.
`OffsetsLead` and `LogRead` are the only ones that look at checksums at all. The moduli are
2^64 in the code.

In the attempt to prove them, two properties turned out to have been stated wrongly,
where the alphabet was too small for TLC to notice. `std::stoul()` also takes a number
behind white space other than a space, or behind `+` (`OptionIsReadAsWritten` now says
so), and `0-2` is the number 0, with the rest ignored, so that only a sign before the
first digit makes a number negative (`NegativeNumbersAreLarge`). The alphabet of the run
now has those symbols.

Assumptions: `SymbolAssumption`, `TextAssumption`, `BoundAssumption` and
`ReplayAssumption` (the set of keys contains every key that replay can produce);
`ValueAssumption` (values are texts), `SearchAssumption`, `QueryAssumption`, `PowerAssumption`,
`SizeAssumption`, `ReplAssumption`, `LineAssumption` and `InputAssumption` constrain the
constants of the other modules. TLC evaluates each in the runs of the module that declares it.

Only model-checked: `EngineReturns` and `FullCountEmptiesLog`, since liveness under
fairness is out of the prover's reach. Every other property of a passing run is a theorem.

## Not modelled

Left out: the BM25 formula in floating point; token positions (written, never read);
GET, HELP, unknown commands and refused lines as actions, since they change nothing;
the benchmark, debug output, building and installing; a disk that is full, beyond the
exception it ends in; a caller of the library that catches such an exception and goes
on, as nothing in the repository does; CRC collisions. A loss of power cuts a log at the
end of a record in `CognexPower`; a cut inside one is the torn record of
`CognexStorage` and `CognexLogFile`. The unbounded growth of `value.log` with restarts
and of `entries_` with overwrites is a fact of the code that no document bounds, and no
property states it. Two processes on the same files are not supported by the code and not
modelled.
