---------------------------- MODULE CognexStorage ----------------------------
(***************************************************************************)
(* The storage side of Cognex: the write-ahead log, the value log, the     *)
(* snapshot file and the key index, with put(), del(), snapshot(),         *)
(* recover() and a process that can be killed between any two writes.      *)
(*                                                                         *)
(* Cognex is one thread of one process; what interleaves with it is the    *)
(* kill. A file keeps what write() was given when the process is killed;   *)
(* losing the page cache as well is another matter, left to a module of    *)
(* its own. A record goes to a log in three write()s, so a kill can leave  *)
(* it torn: it stays in the file and no reader takes it for a record.      *)
(*                                                                         *)
(* An exception (a failed write, an unreadable record) is caught nowhere   *)
(* up to main(), and ends the process like a kill.                         *)
(***************************************************************************)
EXTENDS CognexText, CognexContents

CONSTANTS
  SnapshotEveryNWriteOps,   \* snapshotEveryNWriteOps_
  MaxCalls,                 \* bound: calls of put(), del() and snapshot()
  MaxStarts                 \* bound: starts of the process

ASSUME TextAssumption ==
  /\ Key \subseteq Text
  /\ Value \subseteq Text

ASSUME BoundAssumption ==
  /\ SnapshotEveryNWriteOps \in Nat \ {0}
  /\ MaxCalls \in Nat
  /\ MaxStarts \in Nat

(* The records put() and del() can append to the log. *)
LogText ==
  {PutRecord(k, v) : k \in Key, v \in Value} \cup {DelRecord(k) : k \in Key}

(* What replay makes of each of them. *)
Parsed == [r \in LogText |-> ParsedRecord(r)]

(* Key holds every key that replay can make of such a record. *)
ASSUME ReplayAssumption ==
  \A r \in LogText : Parsed[r].type # "NONE" /\ Parsed[r].key \in Key

VARIABLES
  wal,               \* wal.log: records [text, whole]
  vlog,              \* value.log: records [keySize, value, whole]
  snapshot,          \* snapshot.dat: key -> offset
  tmp,               \* snapshot.dat.tmp
  index,             \* index_: key -> offset
  snapshotWriteOps,  \* snapshotWriteOps_
  pc,                \* where the process is
  op,                \* the put() or del() under way
  cursor,            \* the log records replayed so far
  calls,             \* calls made
  starts             \* starts of the process

files  == <<wal, vlog, snapshot, tmp>>
memory == <<index, snapshotWriteOps, op, cursor>>
vars   == <<files, memory, pc, calls, starts>>

(***************************************************************************)
(* The offset of a value log record is its place in the file, counted in   *)
(* records. Absent stands for a key the map does not hold.                 *)
(***************************************************************************)
Absent    == 0
NoOffsets == [k \in Key |-> Absent]

PutOp(k, v) == [type |-> "PUT", key |-> k, value |-> v]
DelOp(k)    == [type |-> "DEL", key |-> k, value |-> <<>>]
NoOp        == NoRecord

Torn(r)   == [r EXCEPT !.whole = FALSE]
Whole(r)  == [r EXCEPT !.whole = TRUE]
WalRecord(text)         == [text |-> text, whole |-> TRUE]
ValueRecord(key, value) == [keySize |-> Len(key), value |-> value, whole |-> TRUE]

(* The last record of a log is complete: its checksum is written. *)
Completed(log) == [log EXCEPT ![Len(log)] = Whole(@)]

(***************************************************************************)
(* read_from_log_() returns a value rather than throwing: the offset is    *)
(* that of a complete record written for a key of this size.               *)
(***************************************************************************)
Readable(off, key) ==
  /\ off \in 1 .. Len(vlog)
  /\ vlog[off].whole
  /\ vlog[off].keySize = Len(key)

Resolves(map) == \A k \in Key : map[k] # Absent => Readable(map[k], k)

-----------------------------------------------------------------------------

Init ==
  /\ wal = <<>>
  /\ vlog = <<>>
  /\ snapshot = NoOffsets
  /\ tmp = NoOffsets
  /\ index = NoOffsets
  /\ snapshotWriteOps = 0
  /\ pc = "down"
  /\ op = NoOp
  /\ cursor = 0
  /\ calls = 0
  /\ starts = 0

(* The process is gone and what it held in memory with it. *)
ProcessGone ==
  /\ pc' = "down"
  /\ index' = NoOffsets
  /\ snapshotWriteOps' = 0
  /\ op' = NoOp
  /\ cursor' = 0

-----------------------------------------------------------------------------
(* recover() *)

(* main() opens the database: the index is what the snapshot file says. *)
Start ==
  /\ pc = "down"
  /\ starts < MaxStarts
  /\ starts' = starts + 1
  /\ index' = snapshot
  /\ pc' = "replay"
  /\ UNCHANGED <<files, snapshotWriteOps, op, cursor, calls>>

(* wal_replay() reads on until the end of the log or a torn record. *)
MoreToReplay == cursor < Len(wal) /\ wal[cursor + 1].whole
Replayed     == Parsed[wal[cursor + 1].text]

(* Replay appends a PUT's value to the value log again ... *)
ReplayPutBegin ==
  /\ pc = "replay"
  /\ MoreToReplay
  /\ Replayed.type = "PUT"
  /\ vlog' = Append(vlog, Torn(ValueRecord(Replayed.key, Replayed.value)))
  /\ pc' = "replayPut"
  /\ UNCHANGED <<wal, snapshot, tmp, memory, calls, starts>>

(* ... and points the index there. *)
ReplayPutEnd ==
  /\ pc = "replayPut"
  /\ vlog' = Completed(vlog)
  /\ index' = [index EXCEPT ![Replayed.key] = Len(vlog)]
  /\ cursor' = cursor + 1
  /\ pc' = "replay"
  /\ UNCHANGED <<wal, snapshot, tmp, snapshotWriteOps, op, calls, starts>>

(* A mutant of ReplayDel: the record is read again. *)
ReplayDelAgain ==
  /\ pc = "replay"
  /\ MoreToReplay
  /\ Replayed.type = "DEL"
  /\ index' = [index EXCEPT ![Replayed.key] = Absent]
  /\ UNCHANGED <<files, snapshotWriteOps, op, cursor, pc, calls, starts>>

ReplayDel ==
  /\ pc = "replay"
  /\ MoreToReplay
  /\ Replayed.type = "DEL"
  /\ index' = [index EXCEPT ![Replayed.key] = Absent]
  /\ cursor' = cursor + 1
  /\ UNCHANGED <<files, snapshotWriteOps, op, pc, calls, starts>>

ReplayEnd ==
  /\ pc = "replay"
  /\ ~MoreToReplay
  /\ pc' = "rebuild"
  /\ cursor' = 0
  /\ UNCHANGED <<files, index, snapshotWriteOps, op, calls, starts>>

(***************************************************************************)
(* recover() reads the value of every key to rebuild the search index; a   *)
(* value it cannot read throws, and the process is gone.                   *)
(***************************************************************************)
Rebuild ==
  /\ pc = "rebuild"
  /\ IF Resolves(index)
       THEN pc' = "ready" /\ UNCHANGED memory
       ELSE ProcessGone
  /\ UNCHANGED <<files, calls, starts>>

-----------------------------------------------------------------------------
(* put() and del() *)

(* The first thing a call does is append its record to the log. *)
Call(o, text) ==
  /\ pc = "ready"
  /\ calls < MaxCalls
  /\ calls' = calls + 1
  /\ wal' = Append(wal, Torn(WalRecord(text)))
  /\ op' = o
  /\ pc' = "walTorn"
  /\ UNCHANGED <<vlog, snapshot, tmp, index, snapshotWriteOps, cursor, starts>>

Put(k, v) == Call(PutOp(k, v), PutRecord(k, v))
Del(k)    == Call(DelOp(k), DelRecord(k))

WalComplete ==
  /\ pc = "walTorn"
  /\ wal' = Completed(wal)
  /\ pc' = "logged"
  /\ UNCHANGED <<vlog, snapshot, tmp, memory, calls, starts>>

PutStoreBegin ==
  /\ pc = "logged"
  /\ op.type = "PUT"
  /\ vlog' = Append(vlog, Torn(ValueRecord(op.key, op.value)))
  /\ pc' = "vlogTorn"
  /\ UNCHANGED <<wal, snapshot, tmp, memory, calls, starts>>

(* A mutant of PutApply: the offset is taken after the record is written. *)
PutApplyOffsetAfter ==
  /\ pc = "vlogTorn"
  /\ vlog' = Completed(vlog)
  /\ index' = [index EXCEPT ![op.key] = Len(vlog) + 1]
  /\ snapshotWriteOps' = snapshotWriteOps + 1
  /\ IF snapshotWriteOps + 1 >= SnapshotEveryNWriteOps
       THEN pc' = "snapshot" /\ UNCHANGED op
       ELSE pc' = "ready" /\ op' = NoOp
  /\ UNCHANGED <<wal, snapshot, tmp, cursor, calls, starts>>

(* The rest of put(), up to the snapshot it takes every so many writes. *)
PutApply ==
  /\ pc = "vlogTorn"
  /\ vlog' = Completed(vlog)
  /\ index' = [index EXCEPT ![op.key] = Len(vlog)]
  /\ snapshotWriteOps' = snapshotWriteOps + 1
  /\ IF snapshotWriteOps + 1 >= SnapshotEveryNWriteOps
       THEN pc' = "snapshot" /\ UNCHANGED op
       ELSE pc' = "ready" /\ op' = NoOp
  /\ UNCHANGED <<wal, snapshot, tmp, cursor, calls, starts>>

(* The rest of del(); the key need not be there. *)
DelApply ==
  /\ pc = "logged"
  /\ op.type = "DEL"
  /\ index' = [index EXCEPT ![op.key] = Absent]
  /\ op' = NoOp
  /\ pc' = "ready"
  /\ UNCHANGED <<files, snapshotWriteOps, cursor, calls, starts>>

-----------------------------------------------------------------------------
(* snapshot() *)

SnapshotCall ==
  /\ pc = "ready"
  /\ calls < MaxCalls
  /\ calls' = calls + 1
  /\ pc' = "snapshot"
  /\ UNCHANGED <<files, memory, starts>>

(* A mutant of SnapshotOpen: the log is emptied before the snapshot stands. *)
SnapshotOpenTruncates ==
  /\ pc = "snapshot"
  /\ tmp' = NoOffsets
  /\ wal' = <<>>
  /\ pc' = "writing"
  /\ UNCHANGED <<vlog, snapshot, memory, calls, starts>>

(* The temporary file is opened with O_TRUNC. *)
SnapshotOpen ==
  /\ pc = "snapshot"
  /\ tmp' = NoOffsets
  /\ pc' = "writing"
  /\ UNCHANGED <<wal, vlog, snapshot, memory, calls, starts>>

(* One line for each key of the index, in no particular order. *)
SnapshotLine(k) ==
  /\ pc = "writing"
  /\ index[k] # Absent
  /\ tmp[k] = Absent
  /\ tmp' = [tmp EXCEPT ![k] = index[k]]
  /\ UNCHANGED <<wal, vlog, snapshot, memory, pc, calls, starts>>

(* A mutant of SnapshotRename: not all the lines need be there. *)
SnapshotRenameEarly ==
  /\ pc = "writing"
  /\ snapshot' = tmp
  /\ tmp' = NoOffsets
  /\ pc' = "renamed"
  /\ UNCHANGED <<wal, vlog, memory, calls, starts>>

SnapshotRename ==
  /\ pc = "writing"
  /\ \A k \in Key : index[k] # Absent => tmp[k] # Absent
  /\ snapshot' = tmp
  /\ tmp' = NoOffsets
  /\ pc' = "renamed"
  /\ UNCHANGED <<wal, vlog, memory, calls, starts>>

(* A mutant of SnapshotTruncate: every snapshot takes its interval off the count. *)
SnapshotTruncateSubtracts ==
  /\ pc = "renamed"
  /\ wal' = <<>>
  /\ snapshotWriteOps' = snapshotWriteOps - SnapshotEveryNWriteOps
  /\ op' = NoOp
  /\ pc' = "ready"
  /\ UNCHANGED <<vlog, snapshot, tmp, index, cursor, calls, starts>>

(* Only now is the log emptied; a put() that came here restarts its count. *)
SnapshotTruncate ==
  /\ pc = "renamed"
  /\ wal' = <<>>
  /\ snapshotWriteOps' = IF op.type = "PUT" THEN 0 ELSE snapshotWriteOps
  /\ op' = NoOp
  /\ pc' = "ready"
  /\ UNCHANGED <<vlog, snapshot, tmp, index, cursor, calls, starts>>

-----------------------------------------------------------------------------

(* The process is killed, or leaves through EXIT, which does no more. *)
Kill ==
  /\ pc # "down"
  /\ ProcessGone
  /\ UNCHANGED <<files, calls, starts>>

(* What the process does of its own accord once it is started or called. *)
EngineStep ==
  \/ ReplayPutBegin \/ ReplayPutEnd \/ ReplayDel \/ ReplayEnd \/ Rebuild
  \/ WalComplete \/ PutStoreBegin \/ PutApply \/ DelApply
  \/ SnapshotOpen \/ (\E k \in Key : SnapshotLine(k))
  \/ SnapshotRename \/ SnapshotTruncate

Next ==
  \/ EngineStep
  \/ Start
  \/ \E k \in Key : (\E v \in Value : Put(k, v)) \/ Del(k)
  \/ SnapshotCall
  \/ Kill

Spec == Init /\ [][Next]_vars

(***************************************************************************)
(* A running process goes on with what it is doing. Nobody has to start    *)
(* it, call it or kill it.                                                 *)
(***************************************************************************)
FairSpec == Spec /\ WF_vars(EngineStep)

-----------------------------------------------------------------------------
(* What the files and the index stand for *)

(* The value a map of offsets gives a key: {} or {v}. *)
Stored(map, k) == IF map[k] = Absent THEN {} ELSE {vlog[map[k]].value}

(* What get() answers for each key. *)
View == [k \in Key |-> Stored(index, k)]

(* The records among the first n of a log that write key k. *)
WritesOf(log, n, k) == {i \in 1 .. n : Parsed[log[i].text].key = k}

Last(S) == CHOOSE i \in S : \A j \in S : j <= i

Written(o) == IF o.type = "PUT" THEN {o.value} ELSE {}

(* What a key is left with when the first n records of a log are replayed  *)
(* over a store that held `base` under that key.                           *)
AfterReplay(log, n, k, base) ==
  IF WritesOf(log, n, k) = {}
    THEN base
    ELSE Written(Parsed[log[Last(WritesOf(log, n, k))].text])

(* The number of records of a log that replay reaches. *)
ReplayLen(log) ==
  CHOOSE n \in 0 .. Len(log) :
    /\ \A i \in 1 .. n : log[i].whole
    /\ n < Len(log) => ~log[n + 1].whole

(* What a start of the process would recover. *)
Durable == [k \in Key |-> AfterReplay(wal, ReplayLen(wal), k, Stored(snapshot, k))]

(***************************************************************************)
(* A kill has left a torn record in the log. The next process does not     *)
(* cut it off, so it appends its own records where replay never gets to.   *)
(***************************************************************************)
LogTorn == \E i \in 1 .. Len(wal) : ~wal[i].whole /\ (i < Len(wal) \/ pc # "walTorn")

Recovering == pc \in {"down", "replay", "replayPut", "rebuild"}

-----------------------------------------------------------------------------
(* Properties *)

WalRecords   == [text : LogText, whole : BOOLEAN]
ValueRecords == [keySize : Nat, value : Text, whole : BOOLEAN]

(* The type invariant. *)
TypeOK ==
  /\ wal \in Seq(WalRecords)
  /\ vlog \in Seq(ValueRecords)
  /\ snapshot \in [Key -> Nat]
  /\ tmp \in [Key -> Nat]
  /\ index \in [Key -> Nat]
  /\ snapshotWriteOps \in Nat
  /\ pc \in {"down", "replay", "replayPut", "rebuild", "ready", "walTorn", "logged",
             "vlogTorn", "snapshot", "writing", "renamed"}
  /\ op \in [type : {"PUT", "DEL", "NONE"}, key : Key \cup {<<>>}, value : Text]
  /\ cursor \in Nat
  /\ calls \in 0 .. MaxCalls
  /\ starts \in 0 .. MaxStarts

(***************************************************************************)
(* Every offset that the index, the snapshot or the half-written snapshot  *)
(* holds is that of a complete value log record of the key's size: get()   *)
(* and the rebuild in recover() never throw (storage_engine.cpp:95-121),   *)
(* whatever was killed where.                                              *)
(***************************************************************************)
OffsetsResolve == Resolves(index) /\ Resolves(snapshot) /\ Resolves(tmp)

(***************************************************************************)
(* While the log is not torn, the files say what the index says; in the    *)
(* middle of a put() or del() they are ahead by the call that is logged.   *)
(* Replay never runs past a torn record, and when it ends the index has    *)
(* caught up with the files (cognex.cpp:82-110, 210-283, wal.tpp:13-33).   *)
(***************************************************************************)
FilesMatchIndex ==
  /\ ~LogTorn =>
       /\ pc \in {"ready", "walTorn", "snapshot", "writing", "renamed"} => Durable = View
       /\ pc \in {"logged", "vlogTorn"} =>
            Durable = [View EXCEPT ![op.key] = Written(op)]
  /\ pc \in {"replay", "replayPut"} =>
       /\ cursor <= ReplayLen(wal)
       /\ \A k \in Key :
            Stored(index, k) = AfterReplay(wal, cursor, k, Stored(snapshot, k))
  /\ pc = "rebuild" => Durable = View

(***************************************************************************)
(* The promise of CognexKV is kept. Its kv is the index while the process  *)
(* serves calls and what recovery will find while it does not.             *)
(***************************************************************************)
KV == INSTANCE CognexKV WITH
  kv      <- IF Recovering THEN Durable ELSE View,
  durable <- Durable,
  torn    <- LogTorn,
  call    <- LET write == [key |-> op.key, to |-> Written(op)]
             IN  CASE pc = "walTorn"               -> [stage |-> "called", write |-> write]
                   [] pc \in {"logged", "vlogTorn"} -> [stage |-> "logged", write |-> write]
                   [] OTHER                        -> [stage |-> "idle"]

RefinesKV == KV!Spec

(***************************************************************************)
(* A process that is started, called or taking a snapshot gets back to     *)
(* waiting for a call, unless it is killed or throws: replay, the snapshot *)
(* loop and the calls all end.                                             *)
(***************************************************************************)
EngineReturns == pc \notin {"ready", "down"} ~> pc \in {"ready", "down"}

(***************************************************************************)
(* README.md:20 "Persists key-value data safely across crashes": a restart *)
(* recovers every call that has returned. It does not hold, since nothing  *)
(* removes a torn record from the log.                                     *)
(***************************************************************************)
ReturnedCallsSurvive == pc = "ready" => Durable = View

(***************************************************************************)
(* docs/overview.md:17 "String keys and values": a call that has returned  *)
(* is recovered whatever text its key is, as long as no record is torn. It *)
(* does not hold for a key with a space, which replay takes for the end of *)
(* the key.                                                                *)
(***************************************************************************)
AnyKeySurvives == pc = "ready" /\ ~LogTorn => Durable = View
=============================================================================
