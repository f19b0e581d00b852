----------------------------- MODULE CognexPower -----------------------------
(***************************************************************************)
(* The files of Cognex when the power can fail: what write() was given     *)
(* sits in the page cache until an fsync, and a power failure leaves any   *)
(* of the contents a file has had since then. CognexStorage has the kill   *)
(* between two writes; here a log append is one step, and the question is  *)
(* which fsync comes when.                                                 *)
(*                                                                         *)
(* append_and_fsync() and append_to_value_log_() sync once in so many      *)
(* writes of one process. snapshot() syncs the snapshot and its directory, *)
(* empties the log and syncs that; it does not sync the value log. A sync  *)
(* that fails throws, which for the files is the action Kill; the failures *)
(* that the code passes over in silence are in `Fails`.                    *)
(*                                                                         *)
(* A log loses whole records here: a record cut in two ends replay, as in  *)
(* CognexStorage. All value log records are taken to be of one size, so an *)
(* offset is a place counted in records.                                   *)
(***************************************************************************)
EXTENDS Naturals, Sequences, FiniteSetsExt

CONSTANTS
  Key, Value,
  KeySize,                     \* the size of each key
  WalFsyncEveryNWrites,        \* walFsyncEveryNWrites_
  ValueLogFsyncEveryNWrites,   \* valueLogFsyncEveryNWrites_
  SnapshotEveryNWriteOps,      \* snapshotEveryNWriteOps_
  Fails,                       \* what can fail unnoticed
  MaxCalls,                    \* bound: calls of put(), del() and snapshot()
  MaxStarts                    \* bound: starts of the process

ASSUME PowerAssumption ==
  /\ KeySize \in [Key -> Nat]
  /\ WalFsyncEveryNWrites \in Nat \ {0}
  /\ ValueLogFsyncEveryNWrites \in Nat \ {0}
  /\ SnapshotEveryNWriteOps \in Nat \ {0}
  /\ Fails \subseteq {"open directory", "open log", "sync log"}
  /\ MaxCalls \in Nat
  /\ MaxStarts \in Nat

VARIABLES
  wal,                \* wal.log: writes [key, to]
  valueLog,           \* value.log: records [keySize, value]
  snapshot,           \* snapshot.dat: key -> offset
  index,              \* index_
  walWrites,          \* walWrites_
  valueLogWrites,     \* valueLogWrites_
  snapshotWriteOps,   \* snapshotWriteOps_
  pc,                 \* where the process is
  op,                 \* the put() or del() under way: {} or {write}
  calls, starts,      \* calls made, starts of the process
  past,               \* observed: the contents after each write since the last power failure
  killed,             \* observed: processes killed since the log was synced
  exposed             \* observed: the snapshot lost values, or was not sure to stay

files    == <<wal, valueLog, snapshot>>
counters == <<walWrites, valueLogWrites, snapshotWriteOps>>
memory   == <<index, counters, op>>
observed == <<past, killed, exposed>>
vars     == <<files, memory, pc, calls, starts, observed>>

Absent    == 0
NoOffsets == [k \in Key |-> Absent]

(* put(k, v) writes {v} to k, del(k) writes {}. *)
Write    == [key : Key, to : {{}} \cup {{v} : v \in Value}]
Contents == [Key -> {{}} \cup {{v} : v \in Value}]

-----------------------------------------------------------------------------
(* Files *)

(* A file as everybody reads it, and what a power failure can make of it. *)
File(content) == [cache |-> content, disk |-> {content}]

Wrote(file, content) == [cache |-> content, disk |-> file.disk \cup {content}]

Synced(file) == File(file.cache)

(* A mutant of WroteAndCounted: it syncs one write late. *)
WroteAndCountedLate(file, content, n, m) ==
  IF n > m THEN [file |-> File(content), writes |-> 0]
           ELSE [file |-> Wrote(file, content), writes |-> n]

(* A write that makes the n-th since the last sync, if every m-th is synced. *)
WroteAndCounted(file, content, n, m) ==
  IF n >= m THEN [file |-> File(content), writes |-> 0]
            ELSE [file |-> Wrote(file, content), writes |-> n]

(* read_from_log_() finds a record, of a key of the right size. *)
Resolves(map, log) ==
  \A k \in Key : map[k] # Absent =>
    map[k] \in 1 .. Len(log) /\ log[map[k]].keySize = KeySize[k]

Stored(map, log, k) ==
  IF map[k] \in 1 .. Len(log) THEN {log[map[k]].value} ELSE {}

(* append_to_value_log_() and the index entry: in put() and in replay. *)
Storing(s, write) ==
  LET value == CHOOSE v \in write.to : TRUE
      log   == Append(s.valueLog.cache, [keySize |-> KeySize[write.key], value |-> value])
      done  == WroteAndCounted(s.valueLog, log, s.writes + 1, ValueLogFsyncEveryNWrites)
  IN  [valueLog |-> done.file,
       writes   |-> done.writes,
       index    |-> [s.index EXCEPT ![write.key] = Len(log)]]

(* A mutant of Applying: a delete does not erase the key. *)
ApplyingKeeps(s, write) == IF write.to = {} THEN s ELSE Storing(s, write)

(* put() or del(), or its replay. *)
Applying(s, write) ==
  IF write.to = {} THEN [s EXCEPT !.index[write.key] = Absent] ELSE Storing(s, write)

(* The replay of the log, with the snapshot as the index it starts from. *)
Replayed(values, map, log) ==
  LET replayed[n \in 0 .. Len(log)] ==
        IF n = 0 THEN [valueLog |-> values, writes |-> 0, index |-> map]
                 ELSE Applying(replayed[n - 1], log[n])
  IN  replayed[Len(log)]

(* What recovery from such files gives key k. *)
Recovered(log, values, map, k) ==
  LET writes == {i \in DOMAIN log : log[i].key = k}
  IN  IF writes = {} THEN Stored(map, values, k) ELSE log[Max(writes)].to

-----------------------------------------------------------------------------

Init ==
  /\ wal = File(<<>>) /\ valueLog = File(<<>>) /\ snapshot = File(NoOffsets)
  /\ index = NoOffsets
  /\ walWrites = 0 /\ valueLogWrites = 0 /\ snapshotWriteOps = 0
  /\ pc = "down"
  /\ op = {}
  /\ calls = 0 /\ starts = 0
  /\ past = <<[k \in Key |-> {}]>>
  /\ killed = 0
  /\ exposed = FALSE

ProcessGone ==
  /\ pc' = "down"
  /\ index' = NoOffsets
  /\ walWrites' = 0 /\ valueLogWrites' = 0 /\ snapshotWriteOps' = 0
  /\ op' = {}

(* recover(): a value that cannot be read for the search index throws. *)
Start ==
  /\ pc = "down"
  /\ starts < MaxStarts
  /\ starts' = starts + 1
  /\ LET s == Replayed(valueLog, snapshot.cache, wal.cache)
     IN  /\ valueLog' = s.valueLog
         /\ IF Resolves(s.index, s.valueLog.cache)
              THEN /\ pc' = "ready"
                   /\ index' = s.index
                   /\ valueLogWrites' = s.writes
                   /\ UNCHANGED <<walWrites, snapshotWriteOps, op>>
              ELSE ProcessGone
  /\ UNCHANGED <<wal, snapshot, calls, observed>>

(* put() and del() log first. *)
Call(write) ==
  /\ pc = "ready"
  /\ calls < MaxCalls
  /\ calls' = calls + 1
  /\ LET done == WroteAndCounted(wal, Append(wal.cache, write), walWrites + 1,
                                 WalFsyncEveryNWrites)
     IN  wal' = done.file /\ walWrites' = done.writes
  /\ killed' = IF walWrites + 1 >= WalFsyncEveryNWrites THEN 0 ELSE killed
  /\ past' = Append(past, [past[Len(past)] EXCEPT ![write.key] = write.to])
  /\ op' = {write}
  /\ pc' = "logged"
  /\ UNCHANGED <<valueLog, snapshot, index, valueLogWrites, snapshotWriteOps, starts, exposed>>

(* The rest of put(), which may go on to a snapshot, or of del(). *)
Apply ==
  /\ pc = "logged"
  /\ \E write \in op :
       LET s == Applying([valueLog |-> valueLog, writes |-> valueLogWrites, index |-> index],
                         write)
       IN  /\ valueLog' = s.valueLog
           /\ valueLogWrites' = s.writes
           /\ index' = s.index
           /\ snapshotWriteOps' = snapshotWriteOps + (IF write.to = {} THEN 0 ELSE 1)
           /\ IF write.to # {} /\ snapshotWriteOps + 1 >= SnapshotEveryNWriteOps
                THEN pc' = "snapshot" /\ UNCHANGED op
                ELSE pc' = "ready" /\ op' = {}
  /\ UNCHANGED <<wal, snapshot, walWrites, calls, starts, observed>>

-----------------------------------------------------------------------------
(* snapshot() *)

SnapshotCall ==
  /\ pc = "ready"
  /\ calls < MaxCalls
  /\ calls' = calls + 1
  /\ pc' = "snapshot"
  /\ UNCHANGED <<files, memory, starts, observed>>

(* The temporary file is synced, so the new name leads to all of it or nothing. *)
SnapshotRename ==
  /\ pc = "snapshot"
  /\ snapshot' = Wrote(snapshot, index)
  /\ pc' = "renamed"
  /\ UNCHANGED <<wal, valueLog, memory, calls, starts, observed>>

(* A mutant of SnapshotSync: the directory is not synced. *)
SnapshotSyncSkipped ==
  /\ pc = "renamed"
  /\ pc' = "synced"
  /\ UNCHANGED <<files, memory, calls, starts, observed>>

(* A directory that cannot be opened is not synced. *)
SnapshotSync ==
  /\ pc = "renamed"
  /\ \/ snapshot' = Synced(snapshot) /\ UNCHANGED exposed
     \/ "open directory" \in Fails /\ exposed' = TRUE /\ UNCHANGED snapshot
  /\ pc' = "synced"
  /\ UNCHANGED <<wal, valueLog, memory, calls, starts, past, killed>>

(* wal_truncate() reports neither of its failures. *)
SnapshotTruncate ==
  /\ pc = "synced"
  /\ \/ wal' = File(<<>>) /\ killed' = 0
     \/ "open log" \in Fails /\ UNCHANGED <<wal, killed>>
     \/ "sync log" \in Fails /\ wal' = Wrote(wal, <<>>) /\ UNCHANGED killed
  /\ snapshotWriteOps' = IF op = {} THEN snapshotWriteOps ELSE 0
  /\ op' = {}
  /\ pc' = "ready"
  /\ UNCHANGED <<valueLog, snapshot, index, walWrites, valueLogWrites, calls, starts,
                 past, exposed>>

-----------------------------------------------------------------------------

(* The process ends, by a signal, EXIT or an exception; the page cache stays. *)
Kill ==
  /\ pc # "down"
  /\ ProcessGone
  /\ killed' = killed + 1
  /\ UNCHANGED <<files, calls, starts, past, exposed>>

PowerFailure ==
  /\ \E log \in wal.disk, values \in valueLog.disk, map \in snapshot.disk :
       /\ wal' = File(log)
       /\ valueLog' = File(values)
       /\ snapshot' = File(map)
       /\ past' = <<[k \in Key |-> Recovered(log, values, map, k)]>>
       /\ exposed' = (exposed \/ ~Resolves(map, values))
  /\ ProcessGone
  /\ killed' = 0
  /\ UNCHANGED <<calls, starts>>

Next ==
  \/ Start
  \/ \E write \in Write : Call(write)
  \/ Apply
  \/ SnapshotCall \/ SnapshotRename \/ SnapshotSync \/ SnapshotTruncate
  \/ Kill
  \/ PowerFailure

Spec == Init /\ [][Next]_vars

-----------------------------------------------------------------------------
(* Properties *)

FileOf(S) == [cache : S, disk : SUBSET S]

(* The type invariant. *)
TypeOK ==
  /\ wal \in FileOf(Seq(Write))
  /\ valueLog \in FileOf(Seq([keySize : Nat, value : Value]))
  /\ snapshot \in FileOf([Key -> Nat])
  /\ index \in [Key -> Nat]
  /\ walWrites \in 0 .. WalFsyncEveryNWrites - 1
  /\ valueLogWrites \in 0 .. ValueLogFsyncEveryNWrites - 1
  /\ snapshotWriteOps \in Nat
  /\ pc \in {"down", "ready", "logged", "snapshot", "renamed", "synced"}
  /\ op \subseteq Write
  /\ calls \in 0 .. MaxCalls
  /\ starts \in 0 .. MaxStarts
  /\ past \in Seq(Contents)
  /\ killed \in Nat
  /\ exposed \in BOOLEAN

(* The writes that a power failure can take from the log. *)
AtRisk == walWrites + killed * (WalFsyncEveryNWrites - 1)

(***************************************************************************)
(* A power failure takes back the writes of this process since its last    *)
(* sync of the log and, from each process killed since then, less than a   *)
(* sync interval; each key is left with a value it had since. That holds   *)
(* in the middle of a snapshot, where a log that is cut short meets the    *)
(* new snapshot, and with a log that silently was not emptied; provided    *)
(* that the snapshot's values are there and its directory could be synced  *)
(* (wal.cpp:27-37, 48-54, storage_engine.cpp:132-138, snapshot.cpp:72-81). *)
(***************************************************************************)
PowerFailureIsBounded ==
  ~exposed =>
    \A log \in wal.disk, values \in valueLog.disk, map \in snapshot.disk :
      Resolves(map, values) =>
        \A k \in Key : \E n \in 1 .. Len(past) :
          n + AtRisk >= Len(past) /\ Recovered(log, values, map, k) = past[n][k]

(***************************************************************************)
(* As long as the snapshot's values are there, the process starts whatever *)
(* power failures and kills came before, and get() answers what the last   *)
(* write of each key says, of those that were left (cognex.cpp:82-111).    *)
(***************************************************************************)
ServesWhatWasLeft ==
  ~exposed =>
    /\ Resolves(snapshot.cache, valueLog.cache)
    /\ pc = "ready" =>
         \A k \in Key : Stored(index, valueLog.cache, k) = past[Len(past)][k]

(***************************************************************************)
(* docs/guide.md:104-108 "Snapshots allow: ... Durable persistence": once  *)
(* snapshot() has returned, a power failure leaves a snapshot whose values *)
(* can be read. It does not hold: the value log has not been synced, and   *)
(* recover() throws at the first offset past its end.                      *)
(***************************************************************************)
SnapshotIsDurable ==
  pc = "ready" =>
    \A map \in snapshot.disk, values \in valueLog.disk : Resolves(map, values)
=============================================================================
