------------------------ MODULE CognexStorage_proofs ------------------------
(***************************************************************************)
(* Proofs about CognexStorage: its type invariant, that every offset the   *)
(* index and the snapshot hold can be read, and, while no key has a space  *)
(* in it, that the files match the index and that CognexKV is implemented. *)
(***************************************************************************)
EXTENDS CognexStorage, CognexText_proofs

(* What a call or a replayed record can be. *)
Ops == [type : {"PUT", "DEL"}, key : Key, value : Text]

-----------------------------------------------------------------------------
(* Records and logs *)

LEMMA LogTextIsText == LogText \subseteq Text
<1>1. ASSUME NEW k \in Key, NEW v \in Value
      PROVE  PutRecord(k, v) \in Text
  <2>1. k \in Text /\ v \in Text
    BY TextAssumption
  <2> QED
    BY <2>1, PutRecordLayout DEF PutLayout
<1>2. ASSUME NEW k \in Key
      PROVE  DelRecord(k) \in Text
  <2>1. k \in Text
    BY TextAssumption
  <2> QED
    BY <2>1, DelRecordLayout DEF DelLayout
<1> QED
  BY <1>1, <1>2 DEF LogText

LEMMA ParsedType == \A t \in LogText : Parsed[t] \in Ops
<1> SUFFICES ASSUME NEW t \in LogText
             PROVE  Parsed[t] \in Ops
  OBVIOUS
<1>1. Parsed[t] = ParsedRecord(t)
  BY DEF Parsed
<1>2. ParsedRecord(t) \in [type : {"PUT", "DEL", "NONE"}, key : Text, value : Text]
  BY LogTextIsText, ParsedRecordType
<1>3. Parsed[t].type # "NONE" /\ Parsed[t].key \in Key
  BY ReplayAssumption
<1> QED
  BY <1>1, <1>2, <1>3 DEF Ops

LEMMA CompletedLog ==
  ASSUME NEW R, NEW log \in Seq(R), \A r \in R : Whole(r) \in R
  PROVE  /\ Completed(log) \in Seq(R)
         /\ Len(Completed(log)) = Len(log)
         /\ \A i \in 1 .. Len(log) :
              Completed(log)[i] = IF i = Len(log) THEN Whole(log[i])
                                                  ELSE log[i]
<1>1. CASE log = <<>>
  <2>1. Completed(<<>>) = <<>>
    BY DEF Completed
  <2>2. Completed(log) = log
    BY <1>1, <2>1
  <2>3. Len(log) = 0
    BY <1>1
  <2> QED
    BY <2>2, <2>3
<1>2. CASE log # <<>>
  <2>1. Len(log) \in 1 .. Len(log) /\ log[Len(log)] \in R
    BY <1>2, EmptySeq, ElementOfSeq
  <2>2. Whole(log[Len(log)]) \in R
    BY <2>1
  <2> DEFINE e == Whole(log[Len(log)])
  <2>3. Completed(log) = [log EXCEPT ![Len(log)] = e]
    BY DEF Completed
  <2> HIDE DEF e
  <2>4. e \in R
    BY <2>2 DEF e
  <2>5. /\ Completed(log) \in Seq(R)
        /\ Len(Completed(log)) = Len(log)
        /\ \A j \in 1 .. Len(log) : Completed(log)[j] = IF j = Len(log) THEN e ELSE log[j]
    BY <2>1, <2>3, <2>4, ExceptSeq
  <2> QED
    BY <2>5 DEF e
<1> QED
  BY <1>1, <1>2

LEMMA WholeTypes ==
  /\ \A r \in WalRecords : Whole(r) \in WalRecords
  /\ \A r \in ValueRecords : Whole(r) \in ValueRecords
BY DEF WalRecords, ValueRecords, Whole

(* Value log b is value log a with records added or completed. *)
Grown(a, b) ==
  /\ Len(a) <= Len(b)
  /\ \A i \in 1 .. Len(a) :
       /\ b[i].keySize = a[i].keySize
       /\ b[i].value = a[i].value
       /\ a[i].whole => b[i].whole

-----------------------------------------------------------------------------
(* The type invariant *)

LEMMA CallTypes ==
  /\ \A k \in Key, v \in Value :
       /\ PutRecord(k, v) \in LogText
       /\ Torn(WalRecord(PutRecord(k, v))) \in WalRecords
       /\ PutOp(k, v) \in Ops
  /\ \A k \in Key :
       /\ DelRecord(k) \in LogText
       /\ Torn(WalRecord(DelRecord(k))) \in WalRecords
       /\ DelOp(k) \in Ops
<1>1. \A t \in LogText : Torn(WalRecord(t)) \in WalRecords
  BY DEF Torn, WalRecord, WalRecords
<1>2. <<>> \in Text
  BY DEF Text
<1> QED
  BY <1>1, <1>2, TextAssumption DEF LogText, PutOp, DelOp, Ops

LEMMA ValueRecordType ==
  ASSUME NEW key \in Text, NEW value \in Text
  PROVE  Torn(ValueRecord(key, value)) \in ValueRecords
<1>1. Len(key) \in Nat
  BY DEF Text
<1> QED
  BY <1>1 DEF Torn, ValueRecord, ValueRecords

OpTypes == [type : {"PUT", "DEL", "NONE"}, key : Key \cup {<<>>}, value : Text]

LEMMA OpsAreTyped == Ops \subseteq OpTypes /\ NoOp \in OpTypes
<1>1. <<>> \in Text
  BY DEF Text
<1> QED
  BY <1>1 DEF Ops, OpTypes, NoOp, NoRecord

(* The control points at which a put() or del() is under way. *)
InCall == {"walTorn", "logged", "vlogTorn"}

(***************************************************************************)
(* At these points op is a call; while a PUT is replayed there is one; and *)
(* the cursor moves in replay only.                                        *)
(***************************************************************************)
CallOK ==
  /\ pc \in InCall => op \in Ops
  /\ pc = "replayPut" => MoreToReplay
  /\ pc \notin {"replay", "replayPut"} => cursor = 0

Typed == TypeOK /\ CallOK

LEMMA ReplayedType == TypeOK /\ MoreToReplay => Replayed \in Ops /\ cursor + 1 \in 1 .. Len(wal)
<1> SUFFICES ASSUME TypeOK, MoreToReplay
             PROVE  Replayed \in Ops /\ cursor + 1 \in 1 .. Len(wal)
  OBVIOUS
<1>1. cursor + 1 \in 1 .. Len(wal)
  BY DEF TypeOK, MoreToReplay
<1>2. wal[cursor + 1] \in WalRecords
  BY <1>1, ElementOfSeq DEF TypeOK
<1> QED
  BY <1>1, <1>2, ParsedType DEF Replayed, WalRecords

LEMMA NoOffsetsType == NoOffsets \in [Key -> Nat]
BY DEF NoOffsets, Absent

(* Every variable of CognexStorage keeps its type. *)
LEMMA TypedInit == Init => Typed
<1> SUFFICES ASSUME Init
             PROVE  Typed
  OBVIOUS
<1>1. <<>> \in Seq(WalRecords) /\ <<>> \in Seq(ValueRecords)
  OBVIOUS
<1> QED
  BY <1>1, NoOffsetsType, OpsAreTyped, BoundAssumption
     DEF Init, Typed, TypeOK, CallOK, InCall, OpTypes

(* The process being gone, or a file step, as far as types go. *)
LEMMA CompletedTypes ==
  /\ wal \in Seq(WalRecords) => Completed(wal) \in Seq(WalRecords)
  /\ vlog \in Seq(ValueRecords) => Completed(vlog) \in Seq(ValueRecords)
BY CompletedLog, WholeTypes, Zenon

LEMMA StoreType ==
  ASSUME vlog \in Seq(ValueRecords), NEW o \in Ops
  PROVE  Append(vlog, Torn(ValueRecord(o.key, o.value))) \in Seq(ValueRecords)
<1>1. o.key \in Text /\ o.value \in Text
  BY TextAssumption DEF Ops
<1>2. Torn(ValueRecord(o.key, o.value)) \in ValueRecords
  BY <1>1, ValueRecordType
<1> QED
  BY <1>2, AppendLog

LEMMA GoneTyped ==
  TypeOK /\ ProcessGone /\ UNCHANGED <<files, calls, starts>> => Typed'
BY NoOffsetsType, OpsAreTyped
   DEF ProcessGone, files, Typed, TypeOK, CallOK, InCall, OpTypes

LEMMA TypedStep == Typed /\ [Next]_vars => Typed'
<1> SUFFICES ASSUME Typed, [Next]_vars
             PROVE  Typed'
  OBVIOUS
<1> USE DEF Typed, TypeOK, CallOK, InCall
<1>1. CASE Start
  BY <1>1, BoundAssumption DEF Start, files
<1>2. CASE ReplayPutBegin
  <2>1. Replayed \in Ops
    BY <1>2, ReplayedType DEF ReplayPutBegin
  <2>2. vlog' \in Seq(ValueRecords)
    BY <1>2, <2>1, StoreType DEF ReplayPutBegin
  <2>3. MoreToReplay'
    BY <1>2 DEF ReplayPutBegin, MoreToReplay, memory
  <2> QED
    BY <1>2, <2>2, <2>3 DEF ReplayPutBegin, memory
<1>3. CASE ReplayPutEnd
  <2>1. Replayed.key \in Key
    BY <1>3, ReplayedType DEF ReplayPutEnd, Ops
  <2>2. vlog' \in Seq(ValueRecords) /\ Len(vlog) \in Nat
    BY <1>3, CompletedTypes, LenProperties DEF ReplayPutEnd
  <2>3. index' \in [Key -> Nat]
    BY <1>3, <2>2 DEF ReplayPutEnd
  <2> QED
    BY <1>3, <2>2, <2>3 DEF ReplayPutEnd
<1>4. CASE ReplayDel
  <2>1. index' \in [Key -> Nat]
    BY <1>4 DEF ReplayDel, Absent
  <2> QED
    BY <1>4, <2>1 DEF ReplayDel, files
<1>5. CASE ReplayEnd
  BY <1>5 DEF ReplayEnd, files
<1>6. CASE Rebuild
  <2>1. CASE Resolves(index)
    BY <1>6, <2>1 DEF Rebuild, files, memory
  <2>2. CASE ~Resolves(index)
    BY <1>6, <2>2, GoneTyped DEF Rebuild
  <2> QED
    BY <2>1, <2>2
<1>7. ASSUME NEW o \in Ops, NEW text \in LogText, Torn(WalRecord(text)) \in WalRecords,
             Call(o, text)
      PROVE  Typed'
  <2>1. wal' \in Seq(WalRecords)
    BY <1>7, AppendLog DEF Call
  <2>2. o \in OpTypes
    BY OpsAreTyped
  <2>3. calls' \in 0 .. MaxCalls
    BY <1>7, BoundAssumption DEF Call
  <2> QED
    BY <1>7, <2>1, <2>2, <2>3 DEF Call, OpTypes
<1>8. CASE \E k \in Key : (\E v \in Value : Put(k, v)) \/ Del(k)
  <2>1. PICK k \in Key : (\E v \in Value : Put(k, v)) \/ Del(k)
    BY <1>8
  <2>2. CASE \E v \in Value : Put(k, v)
    BY <2>2, <1>7, CallTypes DEF Put
  <2>3. CASE Del(k)
    BY <2>3, <1>7, CallTypes DEF Del
  <2> QED
    BY <2>1, <2>2, <2>3
<1>9. CASE WalComplete
  BY <1>9, CompletedTypes DEF WalComplete, memory
<1>10. CASE PutStoreBegin
  <2>1. vlog' \in Seq(ValueRecords)
    BY <1>10, StoreType DEF PutStoreBegin
  <2> QED
    BY <1>10, <2>1 DEF PutStoreBegin, memory
<1>11. CASE PutApply
  <2>1. op.key \in Key
    BY <1>11 DEF PutApply, Ops
  <2>2. vlog' \in Seq(ValueRecords) /\ Len(vlog) \in Nat
    BY <1>11, CompletedTypes, LenProperties DEF PutApply
  <2>3. index' \in [Key -> Nat]
    BY <1>11, <2>2 DEF PutApply
  <2>4. op' \in OpTypes /\ pc' \in {"snapshot", "ready"}
    BY <1>11, OpsAreTyped DEF PutApply, OpTypes
  <2> QED
    BY <1>11, <2>2, <2>3, <2>4 DEF PutApply, OpTypes
<1>12. CASE DelApply
  <2>1. index' \in [Key -> Nat]
    BY <1>12 DEF DelApply, Absent
  <2> QED
    BY <1>12, <2>1, OpsAreTyped DEF DelApply, files, OpTypes
<1>13. CASE SnapshotCall
  <2>1. calls' \in 0 .. MaxCalls
    BY <1>13, BoundAssumption DEF SnapshotCall
  <2> QED
    BY <1>13, <2>1 DEF SnapshotCall, files, memory
<1>14. CASE SnapshotOpen
  BY <1>14, NoOffsetsType DEF SnapshotOpen, memory
<1>15. ASSUME NEW k \in Key, SnapshotLine(k)
       PROVE  Typed'
  BY <1>15 DEF SnapshotLine, memory
<1>16. CASE SnapshotRename
  BY <1>16, NoOffsetsType DEF SnapshotRename, memory
<1>17. CASE SnapshotTruncate
  <2>1. wal' \in Seq(WalRecords)
    BY <1>17, EmptySeq DEF SnapshotTruncate
  <2> QED
    BY <1>17, <2>1, OpsAreTyped DEF SnapshotTruncate, OpTypes
<1>18. CASE Kill
  BY <1>18, GoneTyped DEF Kill
<1>19. CASE UNCHANGED vars
  BY <1>19 DEF vars, files, memory, MoreToReplay
<1> QED
  BY <1>1, <1>2, <1>3, <1>4, <1>5, <1>6, <1>8, <1>9, <1>10, <1>11, <1>12, <1>13, <1>14,
     <1>15, <1>16, <1>17, <1>18, <1>19 DEF Next, EngineStep

(* Every variable keeps its type. *)
THEOREM TypeCorrect == Spec => []TypeOK
<1>1. Typed => TypeOK
  BY DEF Typed
<1> QED
  BY <1>1, TypedInit, TypedStep, PTL DEF Spec

-----------------------------------------------------------------------------
(* Offsets can be read *)

LEMMA GrownAppend ==
  ASSUME NEW log \in Seq(ValueRecords), NEW r \in ValueRecords
  PROVE  Grown(log, Append(log, r))
<1>1. Len(log) \in Nat
  BY LenProperties
<1> QED
  BY <1>1, AppendLog DEF Grown

LEMMA GrownCompleted ==
  ASSUME NEW log \in Seq(ValueRecords)
  PROVE  Grown(log, Completed(log))
<1>1. ASSUME NEW i \in 1 .. Len(log)
      PROVE  /\ Whole(log[i]).keySize = log[i].keySize
             /\ Whole(log[i]).value = log[i].value
             /\ Whole(log[i]).whole
  <2>1. log[i] \in ValueRecords
    BY ElementOfSeq
  <2>2. \A r \in ValueRecords :
          Whole(r).keySize = r.keySize /\ Whole(r).value = r.value /\ Whole(r).whole
    BY DEF ValueRecords, Whole
  <2> QED
    BY <2>1, <2>2
<1>2. Len(log) \in Nat
  BY LenProperties
<1>3. /\ Len(Completed(log)) = Len(log)
      /\ \A i \in 1 .. Len(log) :
           Completed(log)[i] = IF i = Len(log) THEN Whole(log[i]) ELSE log[i]
  BY CompletedLog, WholeTypes
<1> QED
  BY <1>1, <1>2, <1>3 DEF Grown

(* A map that can be read still can, with the same values, when the value  *)
(* log grows.                                                              *)
LEMMA GrownResolves ==
  ASSUME NEW map, Len(vlog) \in Nat, Len(vlog)' \in Nat, Grown(vlog, vlog'), Resolves(map)
  PROVE  Resolves(map)' /\ \A k \in Key : Stored(map, k)' = Stored(map, k)
<1>1. ASSUME NEW k \in Key, map[k] # Absent
      PROVE  Readable(map[k], k)' /\ vlog'[map[k]].value = vlog[map[k]].value
  BY <1>1 DEF Resolves, Readable, Grown
<1> QED
  BY <1>1 DEF Resolves, Stored

LEMMA NothingResolves == Resolves(NoOffsets)
BY DEF Resolves, NoOffsets

(* The last record of the value log was appended for o. *)
LastValueIs(o) ==
  /\ o.type = "PUT"
  /\ Len(vlog) \in 1 .. Len(vlog)
  /\ vlog[Len(vlog)].keySize = Len(o.key)
  /\ vlog[Len(vlog)].value = o.value

(* Where a value is being appended, it is that of the call or replayed record. *)
PendingValue ==
  /\ pc = "vlogTorn" => LastValueIs(op)
  /\ pc = "replayPut" => LastValueIs(Replayed)

LEMMA AppendedValue ==
  ASSUME vlog \in Seq(ValueRecords), NEW o \in Ops, o.type = "PUT",
         vlog' = Append(vlog, Torn(ValueRecord(o.key, o.value)))
  PROVE  LastValueIs(o)'
<1>1. o.key \in Text /\ o.value \in Text
  BY TextAssumption DEF Ops
<1> DEFINE r == Torn(ValueRecord(o.key, o.value))
<1>2. r \in ValueRecords /\ r.keySize = Len(o.key) /\ r.value = o.value
  BY <1>1, ValueRecordType DEF Torn, ValueRecord
<1> HIDE DEF r
<1>3. vlog' = Append(vlog, r)
  BY DEF r
<1>4. Len(vlog) \in Nat
  BY LenProperties
<1>5. Len(vlog') = Len(vlog) + 1 /\ vlog'[Len(vlog) + 1] = r
  BY <1>2, <1>3, AppendLog
<1> QED
  BY <1>2, <1>4, <1>5 DEF LastValueIs

(* The index that put() or replay leaves when its value record is complete. *)
LEMMA PointedResolves ==
  ASSUME vlog \in Seq(ValueRecords), index \in [Key -> Nat], Resolves(index),
         NEW o \in Ops, LastValueIs(o), vlog' = Completed(vlog),
         index' = [index EXCEPT ![o.key] = Len(vlog)]
  PROVE  /\ Resolves(index)'
         /\ \A k \in Key :
              Stored(index, k)' = IF k = o.key THEN {o.value} ELSE Stored(index, k)
<1>1. Len(vlog) \in 1 .. Len(vlog)
  BY DEF LastValueIs
<1>2. Len(vlog)' = Len(vlog) /\ Len(vlog) \in Nat /\ Grown(vlog, vlog')
  BY CompletedLog, WholeTypes, LenProperties, GrownCompleted
<1>3. vlog'[Len(vlog)] = Whole(vlog[Len(vlog)])
  BY <1>1, CompletedLog, WholeTypes
<1>4. vlog[Len(vlog)] \in ValueRecords
  BY <1>1, ElementOfSeq
<1>5. /\ vlog'[Len(vlog)].keySize = Len(o.key)
      /\ vlog'[Len(vlog)].value = o.value
      /\ vlog'[Len(vlog)].whole
  BY <1>3, <1>4 DEF Whole, ValueRecords, LastValueIs
<1>6. ASSUME NEW k \in Key, k = o.key
      PROVE  /\ index'[k] # Absent => Readable(index[k], k)'
             /\ Stored(index, k)' = {o.value}
  <2>1. index'[k] = Len(vlog) /\ index'[k] # Absent
    BY <1>1, <1>6 DEF Absent
  <2> QED
    BY <1>1, <1>2, <1>5, <1>6, <2>1 DEF Readable, Stored
<1>7. ASSUME NEW k \in Key, k # o.key
      PROVE  /\ index'[k] # Absent => Readable(index[k], k)'
             /\ Stored(index, k)' = Stored(index, k)
  <2>1. index'[k] = index[k]
    BY <1>7
  <2> QED
    BY <1>2, <2>1 DEF Resolves, Readable, Grown, Stored
<1> QED
  BY <1>6, <1>7 DEF Resolves

(* The index that del() or the replay of one leaves. *)
LEMMA ErasedResolves ==
  ASSUME index \in [Key -> Nat], Resolves(index), NEW key \in Key, vlog' = vlog,
         index' = [index EXCEPT ![key] = Absent]
  PROVE  /\ Resolves(index)'
         /\ \A k \in Key : Stored(index, k)' = IF k = key THEN {} ELSE Stored(index, k)
<1>1. \A k \in Key : index'[k] = IF k = key THEN Absent ELSE index[k]
  OBVIOUS
<1> QED
  BY <1>1 DEF Resolves, Readable, Stored

LEMMA GrownSame ==
  ASSUME vlog' = vlog
  PROVE  Grown(vlog, vlog')
BY DEF Grown

(* The value log only grows. *)
LEMMA ValueLogGrows ==
  Typed /\ [Next]_vars => Grown(vlog, vlog') /\ Len(vlog) \in Nat /\ Len(vlog)' \in Nat
<1> SUFFICES ASSUME Typed, [Next]_vars
             PROVE  Grown(vlog, vlog') /\ Len(vlog) \in Nat /\ Len(vlog)' \in Nat
  OBVIOUS
<1>1. vlog \in Seq(ValueRecords) /\ vlog' \in Seq(ValueRecords)
  BY TypedStep DEF Typed, TypeOK
<1>2. Len(vlog) \in Nat /\ Len(vlog)' \in Nat
  BY <1>1, LenProperties
<1>3. CASE ReplayPutBegin
  <2>1. Replayed \in Ops
    BY <1>3, ReplayedType DEF ReplayPutBegin, Typed
  <2>2. Torn(ValueRecord(Replayed.key, Replayed.value)) \in ValueRecords
    BY <2>1, TextAssumption, ValueRecordType DEF Ops
  <2> QED
    BY <1>1, <1>2, <1>3, <2>2, GrownAppend DEF ReplayPutBegin
<1>4. CASE PutStoreBegin
  <2>1. op \in Ops
    BY <1>4 DEF PutStoreBegin, Typed, CallOK, InCall
  <2>2. Torn(ValueRecord(op.key, op.value)) \in ValueRecords
    BY <2>1, TextAssumption, ValueRecordType DEF Ops
  <2> QED
    BY <1>1, <1>2, <1>4, <2>2, GrownAppend DEF PutStoreBegin
<1>5. CASE ReplayPutEnd \/ PutApply
  BY <1>1, <1>2, <1>5, GrownCompleted DEF ReplayPutEnd, PutApply
<1>6. CASE vlog' = vlog
  BY <1>2, <1>6, GrownSame
<1>7. ReplayPutBegin \/ PutStoreBegin \/ (ReplayPutEnd \/ PutApply) \/ vlog' = vlog
  BY DEF Next, EngineStep, Start, ReplayDel, ReplayEnd, Rebuild, Put, Del, Call, WalComplete,
         DelApply, SnapshotCall, SnapshotOpen, SnapshotLine, SnapshotRename, SnapshotTruncate,
         Kill, vars, files
<1> QED
  BY <1>3, <1>4, <1>5, <1>6, <1>7

(* So a map that no step touches goes on being readable, and says the same. *)
LEMMA MapKept ==
  ASSUME Typed, [Next]_vars, NEW map, Resolves(map)
  PROVE  Resolves(map)' /\ \A k \in Key : Stored(map, k)' = Stored(map, k)
BY ValueLogGrows, GrownResolves

OffsetsInv == Typed /\ PendingValue /\ OffsetsResolve

LEMMA OffsetsInit == Init => OffsetsInv
BY TypedInit, NothingResolves DEF Init, OffsetsInv, PendingValue, OffsetsResolve

LEMMA OffsetsStep == OffsetsInv /\ [Next]_vars => OffsetsInv'
<1> SUFFICES ASSUME OffsetsInv, [Next]_vars
             PROVE  OffsetsInv'
  OBVIOUS
<1>0. Typed /\ Typed' /\ TypeOK
  BY TypedStep DEF OffsetsInv, Typed
<1>20. /\ index' = index => Resolves(index)'
       /\ snapshot' = snapshot => Resolves(snapshot)'
       /\ tmp' = tmp => Resolves(tmp)'
       /\ index' = snapshot => Resolves(index)'
       /\ snapshot' = tmp => Resolves(snapshot)'
       /\ index' = NoOffsets => Resolves(index)'
       /\ tmp' = NoOffsets => Resolves(tmp)'
  <2>1. Resolves(index) /\ Resolves(snapshot) /\ Resolves(tmp) /\ Resolves(NoOffsets)
    BY NothingResolves DEF OffsetsInv, OffsetsResolve
  <2>2. ASSUME NEW map, Resolves(map)
        PROVE  Resolves(map)'
    BY <1>0, <2>2, MapKept
  <2> QED
    BY <2>1, <2>2
<1> USE DEF OffsetsInv
<1>1. CASE Start
  BY <1>0, <1>1, <1>20 DEF Start, files, PendingValue, OffsetsResolve
<1>2. CASE ReplayPutBegin
  <2>1. Replayed \in Ops /\ Replayed' = Replayed
    BY <1>0, <1>2, ReplayedType DEF ReplayPutBegin, Replayed, memory
  <2>2. LastValueIs(Replayed)'
    <3> DEFINE o == Replayed
    <3>1. \A q \in Ops : q = o => LastValueIs(q)'
      BY <1>0, <1>2, AppendedValue DEF ReplayPutBegin, TypeOK
    <3> QED
      BY <2>1, <3>1 DEF LastValueIs
  <2> QED
    BY <1>0, <1>2, <1>20, <2>2 DEF ReplayPutBegin, PendingValue, OffsetsResolve, memory
<1>3. CASE ReplayPutEnd
  <2>1. Replayed \in Ops /\ LastValueIs(Replayed)
    BY <1>0, <1>3, ReplayedType DEF ReplayPutEnd, CallOK, Typed, PendingValue
  <2>2. Resolves(index)'
    BY <1>0, <1>3, <2>1, PointedResolves DEF ReplayPutEnd, TypeOK, OffsetsResolve
  <2> QED
    BY <1>0, <1>3, <1>20, <2>2 DEF ReplayPutEnd, PendingValue, OffsetsResolve
<1>4. CASE ReplayDel
  <2>1. Replayed \in Ops
    BY <1>0, <1>4, ReplayedType DEF ReplayDel
  <2>2. Resolves(index)'
    BY <1>0, <1>4, <2>1, ErasedResolves DEF ReplayDel, TypeOK, OffsetsResolve, Ops, files
  <2> QED
    BY <1>0, <1>4, <1>20, <2>2 DEF ReplayDel, PendingValue, OffsetsResolve, files
<1>5. CASE ReplayEnd
  BY <1>0, <1>5, <1>20 DEF ReplayEnd, files, PendingValue, OffsetsResolve
<1>6. CASE Rebuild
  BY <1>0, <1>6, <1>20 DEF Rebuild, ProcessGone, files, memory, PendingValue, OffsetsResolve
<1>7. CASE \E k \in Key : (\E v \in Value : Put(k, v)) \/ Del(k)
  BY <1>0, <1>7, <1>20 DEF Put, Del, Call, PendingValue, OffsetsResolve
<1>8. CASE WalComplete
  BY <1>0, <1>8, <1>20 DEF WalComplete, memory, PendingValue, OffsetsResolve
<1>9. CASE PutStoreBegin
  <2>1. op \in Ops /\ op' = op
    BY <1>0, <1>9 DEF PutStoreBegin, Typed, CallOK, InCall, memory
  <2>2. LastValueIs(op)'
    <3>1. \A q \in Ops : q = op => LastValueIs(q)'
      BY <1>0, <1>9, AppendedValue DEF PutStoreBegin, TypeOK
    <3> QED
      BY <2>1, <3>1 DEF LastValueIs
  <2> QED
    BY <1>0, <1>9, <1>20, <2>2 DEF PutStoreBegin, PendingValue, OffsetsResolve, memory
<1>10. CASE PutApply
  <2>1. op \in Ops /\ LastValueIs(op)
    BY <1>0, <1>10 DEF PutApply, Typed, CallOK, InCall, PendingValue
  <2>2. Resolves(index)'
    BY <1>0, <1>10, <2>1, PointedResolves DEF PutApply, TypeOK, OffsetsResolve
  <2> QED
    BY <1>0, <1>10, <1>20, <2>2 DEF PutApply, PendingValue, OffsetsResolve
<1>11. CASE DelApply
  <2>1. op.key \in Key
    BY <1>0, <1>11 DEF DelApply, Typed, CallOK, InCall, Ops
  <2>2. Resolves(index)'
    BY <1>0, <1>11, <2>1, ErasedResolves DEF DelApply, TypeOK, OffsetsResolve, files
  <2> QED
    BY <1>0, <1>11, <1>20, <2>2 DEF DelApply, PendingValue, OffsetsResolve, files
<1>12. CASE SnapshotCall
  BY <1>0, <1>12, <1>20 DEF SnapshotCall, files, memory, PendingValue, OffsetsResolve
<1>13. CASE SnapshotOpen
  BY <1>0, <1>13, <1>20 DEF SnapshotOpen, memory, PendingValue, OffsetsResolve
<1>14. ASSUME NEW k \in Key, SnapshotLine(k)
       PROVE  OffsetsInv'
  <2>1. \A j \in Key : tmp'[j] = IF j = k THEN index[k] ELSE tmp[j]
    BY <1>0, <1>14 DEF SnapshotLine, TypeOK
  <2>2. vlog' = vlog
    BY <1>14 DEF SnapshotLine
  <2>3. Resolves(tmp)'
    BY <2>1, <2>2 DEF OffsetsResolve, Resolves, Readable
  <2> QED
    BY <1>0, <1>14, <1>20, <2>3 DEF SnapshotLine, memory, PendingValue, OffsetsResolve
<1>15. CASE SnapshotRename
  BY <1>0, <1>15, <1>20 DEF SnapshotRename, memory, PendingValue, OffsetsResolve
<1>16. CASE SnapshotTruncate
  BY <1>0, <1>16, <1>20 DEF SnapshotTruncate, PendingValue, OffsetsResolve
<1>17. CASE Kill
  BY <1>0, <1>17, <1>20 DEF Kill, ProcessGone, files, PendingValue, OffsetsResolve
<1>18. CASE UNCHANGED vars
  <2>1. PendingValue'
    BY <1>18 DEF vars, files, memory, PendingValue, LastValueIs, Replayed
  <2> QED
    BY <1>0, <1>18, <1>20, <2>1 DEF vars, files, memory, OffsetsResolve
<1> QED
  BY <1>1, <1>2, <1>3, <1>4, <1>5, <1>6, <1>7, <1>8, <1>9, <1>10, <1>11, <1>12, <1>13, <1>14,
     <1>15, <1>16, <1>17, <1>18 DEF Next, EngineStep

(***************************************************************************)
(* Whatever is killed where, get() and the rebuild in recover() can read   *)
(* every offset they look up (storage_engine.cpp:95-121).                  *)
(***************************************************************************)
THEOREM OffsetsAlwaysResolve == Spec => []OffsetsResolve
<1>1. OffsetsInv => OffsetsResolve
  BY DEF OffsetsInv
<1> QED
  BY <1>1, OffsetsInit, OffsetsStep, PTL DEF Spec

-----------------------------------------------------------------------------
(* What replay makes of a log *)

LEMMA LastIs ==
  ASSUME NEW n \in Nat, NEW S \in SUBSET (1 .. n), S # {}
  PROVE  Last(S) \in S /\ \A j \in S : j <= Last(S)
<1>1. S \in SUBSET (0 .. n)
  OBVIOUS
<1>2. \E i \in S : \A j \in S : j <= i
  BY <1>1, NatMax
<1> QED
  BY <1>2 DEF Last

LEMMA LastUnique ==
  ASSUME NEW n \in Nat, NEW S \in SUBSET (1 .. n), NEW i \in S, \A j \in S : j <= i
  PROVE  Last(S) = i
<1> DEFINE l == Last(S)
<1>1. l \in S /\ \A j \in S : j <= l
  BY LastIs
<1> HIDE DEF l
<1>2. l <= i /\ i <= l /\ l \in Nat /\ i \in Nat
  BY <1>1
<1>3. l = i
  BY <1>2
<1> QED
  BY <1>3 DEF l

(* Replaying nothing changes nothing. *)
LEMMA ReplayNone ==
  ASSUME NEW log, NEW k, NEW base
  PROVE  AfterReplay(log, 0, k, base) = base
<1>1. WritesOf(log, 0, k) = {}
  BY DEF WritesOf
<1> QED
  BY <1>1 DEF AfterReplay

(* Each further record replaces the value of the key it writes. *)
LEMMA ReplayNext ==
  ASSUME NEW log, NEW n \in Nat, NEW k, NEW base
  PROVE  AfterReplay(log, n + 1, k, base) =
           IF Parsed[log[n + 1].text].key = k
             THEN Written(Parsed[log[n + 1].text])
             ELSE AfterReplay(log, n, k, base)
<1> DEFINE S == WritesOf(log, n, k)
           T == WritesOf(log, n + 1, k)
<1>1. T \in SUBSET (1 .. n + 1)
  BY DEF WritesOf
<1>2. CASE Parsed[log[n + 1].text].key = k
  <2>1. n + 1 \in T /\ \A j \in T : j <= n + 1
    BY <1>2 DEF WritesOf
  <2>2. Last(T) = n + 1
    <3> HIDE DEF T
    <3> QED
      BY <1>1, <2>1, LastUnique
  <2> QED
    BY <1>2, <2>1, <2>2 DEF AfterReplay
<1>3. CASE Parsed[log[n + 1].text].key # k
  <2>1. T = S
    BY <1>3 DEF WritesOf
  <2> QED
    BY <1>3, <2>1 DEF AfterReplay
<1> QED
  BY <1>2, <1>3

(* Replaying a log again changes nothing. *)
LEMMA ReplayTwice ==
  ASSUME NEW log, NEW n, NEW k, NEW base
  PROVE  AfterReplay(log, n, k, AfterReplay(log, n, k, base)) = AfterReplay(log, n, k, base)
BY DEF AfterReplay

SameTexts(a, b, n) == \A i \in 1 .. n : a[i].text = b[i].text

(* What replay makes of n records depends on their texts alone. *)
LEMMA ReplaySame ==
  ASSUME NEW a, NEW b, NEW n \in Nat, SameTexts(a, b, n), NEW k, NEW base
  PROVE  AfterReplay(a, n, k, base) = AfterReplay(b, n, k, base)
<1>1. WritesOf(a, n, k) = WritesOf(b, n, k)
  BY DEF WritesOf, SameTexts
<1>2. CASE WritesOf(a, n, k) = {}
  BY <1>1, <1>2 DEF AfterReplay
<1>3. CASE WritesOf(a, n, k) # {}
  <2>1. WritesOf(a, n, k) \in SUBSET (1 .. n)
    BY DEF WritesOf
  <2>2. Last(WritesOf(a, n, k)) \in 1 .. n
    BY <1>3, <2>1, LastIs
  <2> QED
    BY <1>1, <1>3, <2>2 DEF AfterReplay, SameTexts
<1> QED
  BY <1>2, <1>3

(* Replay of the log stops after n records. *)
StopsAfter(log, n) ==
  /\ n \in 0 .. Len(log)
  /\ \A i \in 1 .. n : log[i].whole
  /\ n < Len(log) => ~log[n + 1].whole

LEMMA ReplayStops ==
  ASSUME NEW log \in Seq(WalRecords)
  PROVE  StopsAfter(log, ReplayLen(log))
<1>0. Len(log) \in Nat
  BY LenProperties
<1>1. \E n \in 0 .. Len(log) : StopsAfter(log, n)
  <2> DEFINE T == {i \in 1 .. Len(log) : ~log[i].whole}
  <2>1. CASE T = {}
    <3>1. StopsAfter(log, Len(log))
      BY <1>0, <2>1 DEF StopsAfter
    <3> QED
      BY <1>0, <3>1
  <2>2. CASE T # {}
    <3>1. T \in SUBSET Nat
      BY <1>0
    <3>2. PICK i \in T : \A j \in T : i <= j
      BY <2>2, <3>1, NatMin
    <3>3. i - 1 \in 0 .. Len(log) /\ StopsAfter(log, i - 1)
      <4>1. i \in 1 .. Len(log) /\ ~log[i].whole
        BY <3>2
      <4>2. ASSUME NEW j \in 1 .. (i - 1)
            PROVE  log[j].whole
        BY <1>0, <3>2, <4>1
      <4>3. (i - 1) + 1 = i
        BY <1>0, <4>1
      <4> QED
        BY <1>0, <4>1, <4>2, <4>3 DEF StopsAfter
    <3> QED
      BY <3>3
  <2> QED
    BY <2>1, <2>2
<1>2. ReplayLen(log) = CHOOSE n \in 0 .. Len(log) : StopsAfter(log, n)
  BY DEF ReplayLen, StopsAfter
<1> QED
  BY <1>1, <1>2

LEMMA ReplayStopsOnce ==
  ASSUME NEW log \in Seq(WalRecords), NEW n, StopsAfter(log, n)
  PROVE  ReplayLen(log) = n
<1> DEFINE m == ReplayLen(log)
<1>1. StopsAfter(log, m)
  BY ReplayStops
<1> HIDE DEF m
<1>2. Len(log) \in Nat
  BY LenProperties
<1>3. m \in 0 .. Len(log) /\ n \in 0 .. Len(log)
  BY <1>1 DEF StopsAfter
<1>4. ~(m < n)
  <2> SUFFICES ASSUME m < n
               PROVE  FALSE
    OBVIOUS
  <2>1. m + 1 \in 1 .. n /\ m < Len(log)
    BY <1>2, <1>3
  <2> QED
    BY <1>1, <2>1 DEF StopsAfter
<1>5. ~(n < m)
  <2> SUFFICES ASSUME n < m
               PROVE  FALSE
    OBVIOUS
  <2>1. n + 1 \in 1 .. m /\ n < Len(log)
    BY <1>2, <1>3
  <2> QED
    BY <1>1, <2>1 DEF StopsAfter
<1>6. m = n
  BY <1>2, <1>3, <1>4, <1>5
<1> QED
  BY <1>6 DEF m

-----------------------------------------------------------------------------
(* The files match the index *)

(* The record being appended to the log is that of the call. *)
PendingRecord ==
  pc = "walTorn" =>
    /\ Len(wal) \in 1 .. Len(wal)
    /\ ~wal[Len(wal)].whole
    /\ Parsed[wal[Len(wal)].text] = op

(* How far the snapshot being written has come. *)
PendingSnapshot ==
  /\ pc = "writing" => \A k \in Key : tmp[k] \in {Absent, index[k]}
  /\ pc = "renamed" => snapshot = index

FilesInv == OffsetsInv /\ PendingRecord /\ PendingSnapshot /\ FilesMatchIndex

(* Replay makes of a record the call that wrote it. *)
RoundTrip ==
  /\ \A k \in Key, v \in Value : Parsed[PutRecord(k, v)] = PutOp(k, v)
  /\ \A k \in Key : Parsed[DelRecord(k)] = DelOp(k)

LEMMA PlainRoundTrip ==
  ASSUME \A k \in Key : Plain(k)
  PROVE  RoundTrip
<1>1. ASSUME NEW k \in Key, NEW v \in Value
      PROVE  Parsed[PutRecord(k, v)] = PutOp(k, v)
  <2>1. k \in Text /\ v \in Text /\ Plain(k)
    BY TextAssumption
  <2>2. ParsedRecord(PutRecord(k, v)) = [type |-> "PUT", key |-> k, value |-> v]
    BY <2>1, PutRoundTrip
  <2>3. Parsed[PutRecord(k, v)] = ParsedRecord(PutRecord(k, v))
    BY CallTypes DEF Parsed
  <2> QED
    BY <2>2, <2>3 DEF PutOp
<1>2. ASSUME NEW k \in Key
      PROVE  Parsed[DelRecord(k)] = DelOp(k)
  <2>1. k \in Text
    BY TextAssumption
  <2>2. ParsedRecord(DelRecord(k)) = [type |-> "DEL", key |-> k, value |-> <<>>]
    BY <2>1, DelRoundTrip
  <2>3. Parsed[DelRecord(k)] = ParsedRecord(DelRecord(k))
    BY CallTypes DEF Parsed
  <2> QED
    BY <2>2, <2>3 DEF DelOp
<1> QED
  BY <1>1, <1>2 DEF RoundTrip

(* The parts of the files that a step leaves alone mean what they meant. *)
LEMMA MeaningKept ==
  ASSUME OffsetsInv, [Next]_vars
  PROVE  /\ index' = index => View' = View
         /\ index' = index => \A k \in Key : Stored(index, k)' = Stored(index, k)
         /\ snapshot' = snapshot => \A k \in Key : Stored(snapshot, k)' = Stored(snapshot, k)
         /\ wal' = wal /\ snapshot' = snapshot => Durable' = Durable
<1>0. Typed /\ Resolves(index) /\ Resolves(snapshot)
  BY DEF OffsetsInv, OffsetsResolve
<1>1. index' = index => \A k \in Key : Stored(index, k)' = Stored(index, k)
  <2>1. \A map : map = index => \A k \in Key : Stored(map, k)' = Stored(map, k)
    BY <1>0, MapKept
  <2> QED
    BY <2>1
<1>2. snapshot' = snapshot => \A k \in Key : Stored(snapshot, k)' = Stored(snapshot, k)
  <2>1. \A map : map = snapshot => \A k \in Key : Stored(map, k)' = Stored(map, k)
    BY <1>0, MapKept
  <2> QED
    BY <2>1
<1> QED
  BY <1>1, <1>2 DEF View, Durable

(* With no torn record in the log, replay reads all of it. *)
LEMMA WholeLog ==
  ASSUME TypeOK, ~LogTorn, pc # "walTorn"
  PROVE  ReplayLen(wal) = Len(wal) /\ \A i \in 1 .. Len(wal) : wal[i].whole
<1>1. wal \in Seq(WalRecords) /\ Len(wal) \in Nat
  BY LenProperties DEF TypeOK
<1>2. \A i \in 1 .. Len(wal) : wal[i].whole
  BY DEF LogTorn
<1>3. StopsAfter(wal, Len(wal))
  BY <1>1, <1>2 DEF StopsAfter
<1> QED
  BY <1>1, <1>2, <1>3, ReplayStopsOnce

(* put() and del() begin: the torn record is not replayed yet. *)
LEMMA FilesCall ==
  ASSUME FilesInv, [Next]_vars, OffsetsInv', NEW o, NEW text \in LogText, Parsed[text] = o,
         Call(o, text)
  PROVE  FilesInv'
<1> DEFINE r == Torn(WalRecord(text))
           n == Len(wal)
<1>1. r \in WalRecords /\ r.text = text /\ ~r.whole
  BY DEF Torn, WalRecord, WalRecords
<1>2. wal \in Seq(WalRecords) /\ n \in Nat /\ TypeOK
  BY LenProperties DEF FilesInv, OffsetsInv, Typed, TypeOK
<1>3. wal' = Append(wal, r) /\ pc' = "walTorn" /\ op' = o
  BY DEF Call
<1> HIDE DEF r, n
<1>4. /\ wal' \in Seq(WalRecords)
      /\ Len(wal') = n + 1
      /\ \A i \in 1 .. n : wal'[i] = wal[i]
      /\ wal'[n + 1] = r
  BY <1>1, <1>2, <1>3, AppendLog DEF n
<1>5. PendingRecord'
  <2>1. Len(wal') \in 1 .. Len(wal')
    BY <1>2, <1>4
  <2> QED
    BY <1>1, <1>3, <1>4, <2>1 DEF PendingRecord
<1>6. ASSUME ~LogTorn'
      PROVE  Durable' = View'
  <2>1. \A i \in 1 .. n : wal[i].whole
    BY <1>2, <1>4, <1>6 DEF LogTorn
  <2>2. ~LogTorn
    BY <2>1 DEF LogTorn, n
  <2>3. ReplayLen(wal) = n
    BY <1>2, <2>2, WholeLog DEF Call, n
  <2>4. StopsAfter(wal', n)
    BY <1>1, <1>2, <1>4, <2>1 DEF StopsAfter
  <2>5. ReplayLen(wal') = n
    BY <1>4, <2>4, ReplayStopsOnce
  <2>6. \A k \in Key : Stored(snapshot, k)' = Stored(snapshot, k)
    BY MeaningKept DEF FilesInv, Call
  <2>7. \A k \in Key : \A base : AfterReplay(wal', n, k, base) = AfterReplay(wal, n, k, base)
    <3> SUFFICES ASSUME NEW k \in Key, NEW base
                 PROVE  AfterReplay(wal', n, k, base) = AfterReplay(wal, n, k, base)
      OBVIOUS
    <3>1. SameTexts(wal', wal, n)
      BY <1>4 DEF SameTexts
    <3>2. n \in Nat
      BY <1>2
    <3> QED
      BY <3>1, <3>2, ReplaySame
  <2>8. Durable' = Durable
    BY <2>3, <2>5, <2>6, <2>7 DEF Durable
  <2>9. View' = View
    BY MeaningKept DEF FilesInv, Call
  <2> QED
    BY <2>2, <2>8, <2>9 DEF FilesInv, FilesMatchIndex, Call
<1> QED
  BY <1>3, <1>5, <1>6 DEF FilesInv, FilesMatchIndex, PendingSnapshot

(* The record is complete: what a restart recovers is ahead by the call. *)
LEMMA FilesLogged ==
  ASSUME FilesInv, [Next]_vars, OffsetsInv', WalComplete
  PROVE  FilesInv'
<1> DEFINE m == Len(wal) - 1
<1>1. /\ wal \in Seq(WalRecords) /\ Len(wal) \in Nat /\ TypeOK
      /\ op \in Ops /\ op' = op /\ pc = "walTorn" /\ pc' = "logged"
      /\ wal' = Completed(wal) /\ snapshot' = snapshot /\ index' = index
  BY LenProperties DEF FilesInv, OffsetsInv, Typed, TypeOK, CallOK, InCall, WalComplete, memory
<1>2. Len(wal) \in 1 .. Len(wal) /\ ~wal[Len(wal)].whole /\ Parsed[wal[Len(wal)].text] = op
  BY <1>1 DEF FilesInv, PendingRecord
<1>3. m \in Nat /\ m + 1 = Len(wal)
  BY <1>1, <1>2
<1>4. /\ wal' \in Seq(WalRecords)
      /\ Len(wal') = Len(wal)
      /\ \A i \in 1 .. Len(wal) : wal'[i] = IF i = Len(wal) THEN Whole(wal[i]) ELSE wal[i]
  BY <1>1, CompletedLog, WholeTypes
<1>5. \A r \in WalRecords : Whole(r).text = r.text /\ Whole(r).whole
  BY DEF WalRecords, Whole
<1>6. /\ \A i \in 1 .. m : wal'[i] = wal[i]
      /\ wal'[m + 1].text = wal[m + 1].text
      /\ wal'[m + 1].whole
  <2>1. wal[Len(wal)] \in WalRecords
    BY <1>1, <1>2, ElementOfSeq
  <2>2. wal'[Len(wal)] = Whole(wal[Len(wal)])
    BY <1>2, <1>4
  <2>3. wal'[Len(wal)].text = wal[Len(wal)].text /\ wal'[Len(wal)].whole
    BY <1>5, <2>1, <2>2
  <2>4. \A i \in 1 .. m : wal'[i] = wal[i]
    BY <1>1, <1>4
  <2> QED
    BY <1>3, <2>3, <2>4
<1> HIDE DEF m
<1>7. ASSUME ~LogTorn'
      PROVE  Durable' = [View' EXCEPT ![op.key] = Written(op)]
  <2>1. \A i \in 1 .. m : wal[i].whole
    BY <1>1, <1>3, <1>4, <1>6, <1>7 DEF LogTorn
  <2>2. ~LogTorn
    BY <1>1, <1>3, <2>1 DEF LogTorn
  <2>3. StopsAfter(wal, m) /\ StopsAfter(wal', m + 1)
    <3>1. ~wal[m + 1].whole
      BY <1>2, <1>3
    <3> QED
      BY <1>1, <1>3, <1>4, <1>6, <2>1, <3>1 DEF StopsAfter
  <2>4. ReplayLen(wal) = m /\ ReplayLen(wal') = m + 1
    BY <1>1, <1>4, <2>3, ReplayStopsOnce
  <2>5. \A k \in Key : Stored(snapshot, k)' = Stored(snapshot, k)
    BY <1>1, MeaningKept DEF FilesInv
  <2>6. Durable = View /\ View' = View
    BY <1>1, <2>2, MeaningKept DEF FilesInv, FilesMatchIndex
  <2>7. ASSUME NEW k \in Key
        PROVE  Durable'[k] = IF k = op.key THEN Written(op) ELSE View[k]
    <3> DEFINE base == Stored(snapshot, k)
    <3> HIDE DEF base
    <3>1. Durable'[k] = AfterReplay(wal', m + 1, k, base)
      BY <2>4, <2>5 DEF Durable, base
    <3>2. View[k] = AfterReplay(wal, m, k, base)
      BY <2>4, <2>6 DEF Durable, base
    <3>3. AfterReplay(wal', m, k, base) = AfterReplay(wal, m, k, base)
      <4>1. SameTexts(wal', wal, m)
        BY <1>6 DEF SameTexts
      <4> QED
        BY <1>3, <4>1, ReplaySame
    <3>4. AfterReplay(wal', m + 1, k, base) =
            IF Parsed[wal'[m + 1].text].key = k
              THEN Written(Parsed[wal'[m + 1].text])
              ELSE AfterReplay(wal', m, k, base)
      BY <1>3, ReplayNext
    <3>5. Parsed[wal'[m + 1].text] = op
      BY <1>2, <1>3, <1>6
    <3> QED
      BY <3>1, <3>2, <3>3, <3>4, <3>5
  <2> QED
    BY <2>6, <2>7 DEF Durable, View
<1> QED
  BY <1>1, <1>7 DEF FilesInv, FilesMatchIndex, PendingRecord, PendingSnapshot

(* put() and del() have their effect on what get() answers. *)
LEMMA EffectOnView ==
  ASSUME OffsetsInv, PutApply \/ DelApply
  PROVE  /\ op \in Ops
         /\ View' = [View EXCEPT ![op.key] = Written(op)]
<1>1. op \in Ops
  BY DEF OffsetsInv, Typed, CallOK, InCall, PutApply, DelApply
<1>2. \A k \in Key : Stored(index, k)' = IF k = op.key THEN Written(op) ELSE Stored(index, k)
  <2>1. CASE PutApply
    <3>1. LastValueIs(op) /\ Written(op) = {op.value}
      BY <2>1 DEF PutApply, OffsetsInv, PendingValue, LastValueIs, Written
    <3> QED
      BY <1>1, <2>1, <3>1, PointedResolves
         DEF PutApply, OffsetsInv, Typed, TypeOK, OffsetsResolve
  <2>2. CASE DelApply
    <3>1. Written(op) = {} /\ op.key \in Key
      BY <1>1, <2>2 DEF DelApply, Written, Ops
    <3> QED
      BY <2>2, <3>1, ErasedResolves
         DEF DelApply, OffsetsInv, Typed, TypeOK, OffsetsResolve, files
  <2> QED
    BY <2>1, <2>2
<1> QED
  BY <1>1, <1>2 DEF View

(* put() and del() have their effect: the index catches up with the files. *)
LEMMA FilesEffect ==
  ASSUME FilesInv, [Next]_vars, OffsetsInv', PutApply \/ DelApply
  PROVE  FilesInv'
<1>1. /\ op \in Ops /\ wal' = wal /\ snapshot' = snapshot
      /\ pc \in {"logged", "vlogTorn"} /\ pc' \in {"ready", "snapshot"}
  BY DEF FilesInv, OffsetsInv, Typed, CallOK, InCall, PutApply, DelApply, files
<1>2. Durable' = Durable
  BY <1>1, MeaningKept DEF FilesInv
<1>3. View' = [View EXCEPT ![op.key] = Written(op)]
  BY EffectOnView DEF FilesInv
<1>4. LogTorn' = LogTorn
  BY <1>1 DEF LogTorn
<1> QED
  BY <1>1, <1>2, <1>3, <1>4 DEF FilesInv, FilesMatchIndex, PendingRecord, PendingSnapshot

(* Replay puts one more record into effect. *)
LEMMA FilesReplay ==
  ASSUME FilesInv, [Next]_vars, OffsetsInv', ReplayPutEnd \/ ReplayDel
  PROVE  FilesInv'
<1>1. /\ TypeOK /\ MoreToReplay /\ Replayed \in Ops /\ cursor + 1 \in 1 .. Len(wal)
      /\ wal' = wal /\ snapshot' = snapshot /\ cursor' = cursor + 1
      /\ pc \in {"replay", "replayPut"} /\ pc' = "replay"
  BY ReplayedType
     DEF FilesInv, OffsetsInv, Typed, CallOK, ReplayPutEnd, ReplayDel, files
<1>2. cursor \in Nat /\ Len(wal) \in Nat /\ wal \in Seq(WalRecords)
  BY <1>1, LenProperties DEF TypeOK
<1>3. cursor' <= ReplayLen(wal')
  <2>1. cursor <= ReplayLen(wal) /\ wal[cursor + 1].whole
    BY <1>1 DEF FilesInv, FilesMatchIndex, MoreToReplay
  <2>2. StopsAfter(wal, ReplayLen(wal))
    BY <1>2, ReplayStops
  <2>3. cursor # ReplayLen(wal) /\ ReplayLen(wal) \in Nat
    BY <1>1, <1>2, <2>1, <2>2 DEF StopsAfter
  <2> QED
    BY <1>1, <1>2, <2>1, <2>3
<1>4. \A k \in Key :
        Stored(index, k)' = IF k = Replayed.key THEN Written(Replayed) ELSE Stored(index, k)
  <2>1. CASE ReplayPutEnd
    <3>1. LastValueIs(Replayed) /\ Written(Replayed) = {Replayed.value}
      BY <2>1 DEF ReplayPutEnd, FilesInv, OffsetsInv, PendingValue, LastValueIs, Written
    <3> QED
      BY <1>1, <2>1, <3>1, PointedResolves
         DEF ReplayPutEnd, FilesInv, OffsetsInv, Typed, TypeOK, OffsetsResolve
  <2>2. CASE ReplayDel
    <3>1. Written(Replayed) = {} /\ Replayed.key \in Key
      BY <1>1, <2>2 DEF ReplayDel, Written, Ops
    <3> QED
      BY <2>2, <3>1, ErasedResolves
         DEF ReplayDel, FilesInv, OffsetsInv, Typed, TypeOK, OffsetsResolve, files
  <2> QED
    BY <2>1, <2>2
<1>5. \A k \in Key : Stored(snapshot, k)' = Stored(snapshot, k)
  BY <1>1, MeaningKept DEF FilesInv
<1>6. ASSUME NEW k \in Key
      PROVE  Stored(index, k)' = AfterReplay(wal, cursor + 1, k, Stored(snapshot, k)')
  <2> DEFINE base == Stored(snapshot, k)
  <2> HIDE DEF base
  <2>1. Stored(index, k) = AfterReplay(wal, cursor, k, base)
    BY <1>1 DEF FilesInv, FilesMatchIndex, base
  <2>2. AfterReplay(wal, cursor + 1, k, base) =
          IF Replayed.key = k THEN Written(Replayed) ELSE AfterReplay(wal, cursor, k, base)
    BY <1>2, ReplayNext DEF Replayed
  <2>3. Stored(index, k)' = AfterReplay(wal, cursor + 1, k, base)
    BY <1>4, <2>1, <2>2
  <2> QED
    BY <1>5, <2>3 DEF base
<1>7. \A k \in Key : Stored(index, k)' = AfterReplay(wal', cursor', k, Stored(snapshot, k)')
  BY <1>1, <1>6
<1> QED
  BY <1>1, <1>3, <1>7 DEF FilesInv, FilesMatchIndex, PendingRecord, PendingSnapshot

(* Replay is over: the index says what the files say. *)
LEMMA FilesReplayed ==
  ASSUME FilesInv, [Next]_vars, OffsetsInv', ReplayEnd
  PROVE  FilesInv'
<1>1. /\ TypeOK /\ pc = "replay" /\ pc' = "rebuild" /\ ~MoreToReplay
      /\ wal' = wal /\ snapshot' = snapshot /\ index' = index
  BY DEF FilesInv, OffsetsInv, Typed, ReplayEnd, files
<1>2. cursor \in Nat /\ Len(wal) \in Nat /\ wal \in Seq(WalRecords)
  BY <1>1, LenProperties DEF TypeOK
<1>3. cursor = ReplayLen(wal)
  <2>1. cursor <= ReplayLen(wal)
    BY <1>1 DEF FilesInv, FilesMatchIndex
  <2>2. StopsAfter(wal, ReplayLen(wal))
    BY <1>2, ReplayStops
  <2> DEFINE n == ReplayLen(wal)
  <2> HIDE DEF n
  <2>3. n \in 0 .. Len(wal) /\ cursor <= n /\ \A i \in 1 .. n : wal[i].whole
    BY <2>1, <2>2 DEF n, StopsAfter
  <2>4. ~(cursor < n)
    <3> SUFFICES ASSUME cursor < n
                 PROVE  FALSE
      OBVIOUS
    <3>1. cursor < Len(wal) /\ cursor + 1 \in 1 .. n
      BY <1>2, <2>3
    <3> QED
      BY <1>1, <2>3, <3>1 DEF MoreToReplay
  <2>5. cursor = n
    BY <1>2, <2>3, <2>4
  <2> QED
    BY <2>5 DEF n
<1>4. Durable = View
  <2>1. \A k \in Key : Stored(index, k) = AfterReplay(wal, ReplayLen(wal), k, Stored(snapshot, k))
    BY <1>1, <1>3 DEF FilesInv, FilesMatchIndex
  <2> QED
    BY <2>1 DEF Durable, View
<1>5. Durable' = Durable /\ View' = View
  BY <1>1, MeaningKept DEF FilesInv
<1> QED
  BY <1>1, <1>4, <1>5 DEF FilesInv, FilesMatchIndex, PendingRecord, PendingSnapshot

(* The new snapshot under the old log. *)
LEMMA FilesRenamed ==
  ASSUME FilesInv, [Next]_vars, OffsetsInv', SnapshotRename
  PROVE  FilesInv'
<1>1. /\ TypeOK /\ pc = "writing" /\ pc' = "renamed"
      /\ wal' = wal /\ vlog' = vlog /\ index' = index /\ snapshot' = tmp
  BY DEF FilesInv, OffsetsInv, Typed, SnapshotRename, memory
<1>2. snapshot' = index
  <2>1. \A k \in Key : tmp[k] = index[k]
    BY <1>1 DEF SnapshotRename, FilesInv, PendingSnapshot
  <2> QED
    BY <1>1, <2>1 DEF TypeOK
<1>3. View' = View
  BY <1>1, MeaningKept DEF FilesInv
<1>4. ASSUME ~LogTorn'
      PROVE  Durable' = View'
  <2>1. ~LogTorn
    BY <1>1, <1>4 DEF LogTorn
  <2>2. Durable = View
    BY <1>1, <2>1 DEF FilesInv, FilesMatchIndex
  <2>3. \A k \in Key : Stored(snapshot, k)' = Stored(index, k)
    BY <1>1, <1>2 DEF Stored
  <2>4. ASSUME NEW k \in Key
        PROVE  Durable'[k] = View[k]
    <3> DEFINE n == ReplayLen(wal)
               base == Stored(snapshot, k)
    <3>1. View[k] = AfterReplay(wal, n, k, base)
      BY <2>2 DEF Durable
    <3>2. Durable'[k] = AfterReplay(wal, n, k, View[k])
      BY <1>1, <2>3 DEF Durable, View
    <3> HIDE DEF n, base
    <3>3. AfterReplay(wal, n, k, AfterReplay(wal, n, k, base)) = AfterReplay(wal, n, k, base)
      BY ReplayTwice
    <3> QED
      BY <3>1, <3>2, <3>3
  <2> QED
    BY <1>3, <2>4 DEF Durable, View
<1> QED
  BY <1>1, <1>2, <1>4 DEF FilesInv, FilesMatchIndex, PendingRecord, PendingSnapshot

(* The snapshot alone. *)
LEMMA FilesTruncated ==
  ASSUME FilesInv, [Next]_vars, OffsetsInv', SnapshotTruncate
  PROVE  FilesInv'
<1>1. /\ pc = "renamed" /\ pc' = "ready" /\ snapshot = index
      /\ wal' = <<>> /\ vlog' = vlog /\ index' = index /\ snapshot' = snapshot
  BY DEF FilesInv, PendingSnapshot, SnapshotTruncate
<1>2. ReplayLen(wal') = 0
  <2>1. wal' \in Seq(WalRecords) /\ Len(wal') = 0
    BY <1>1
  <2>2. StopsAfter(wal', 0)
    BY <2>1 DEF StopsAfter
  <2> QED
    BY <2>1, <2>2, ReplayStopsOnce
<1>3. \A k \in Key : Stored(snapshot, k)' = Stored(index, k)'
  BY <1>1
<1>4. \A k \in Key : AfterReplay(wal', 0, k, Stored(snapshot, k)') = Stored(snapshot, k)'
  BY ReplayNone
<1>5. Durable' = View'
  BY <1>2, <1>3, <1>4 DEF Durable, View
<1> QED
  BY <1>1, <1>5 DEF FilesInv, FilesMatchIndex, PendingRecord, PendingSnapshot

LEMMA FilesInit == Init => FilesInv
BY OffsetsInit DEF Init, FilesInv, PendingRecord, PendingSnapshot, FilesMatchIndex

LEMMA FilesStep ==
  ASSUME RoundTrip
  PROVE  FilesInv /\ [Next]_vars => FilesInv'
<1> SUFFICES ASSUME FilesInv, [Next]_vars
             PROVE  FilesInv'
  OBVIOUS
<1>0. OffsetsInv /\ OffsetsInv' /\ TypeOK
  BY OffsetsStep DEF FilesInv, OffsetsInv, Typed
<1>1. /\ index' = index => View' = View
      /\ index' = index => \A k \in Key : Stored(index, k)' = Stored(index, k)
      /\ snapshot' = snapshot => \A k \in Key : Stored(snapshot, k)' = Stored(snapshot, k)
      /\ wal' = wal /\ snapshot' = snapshot => Durable' = Durable
  BY <1>0, MeaningKept
<1> USE DEF FilesMatchIndex, PendingRecord, PendingSnapshot
<1>2. CASE Start
  <2>1. /\ pc' = "replay" /\ cursor' = cursor /\ wal' = wal /\ snapshot' = snapshot
        /\ index' = snapshot /\ cursor = 0 /\ vlog' = vlog
    <3>1. cursor = 0
      BY <1>2 DEF Start, FilesInv, OffsetsInv, Typed, CallOK
    <3> QED
      BY <1>2, <3>1 DEF Start, files
  <2>2. cursor' = 0 /\ 0 <= ReplayLen(wal')
    <3>1. wal \in Seq(WalRecords) /\ Len(wal) \in Nat
      BY <1>0, LenProperties DEF TypeOK
    <3>2. ReplayLen(wal) \in 0 .. Len(wal)
      BY <3>1, ReplayStops DEF StopsAfter
    <3> QED
      BY <2>1, <3>1, <3>2
  <2>3. \A k \in Key : Stored(index, k)' = AfterReplay(wal', 0, k, Stored(snapshot, k)')
    <3>1. index' = snapshot'
      BY <2>1
    <3> QED
      BY <3>1, ReplayNone
  <2> QED
    BY <1>0, <2>1, <2>2, <2>3 DEF FilesInv
<1>3. CASE ReplayPutBegin
  BY <1>0, <1>1, <1>3 DEF ReplayPutBegin, FilesInv, memory
<1>4. CASE ReplayPutEnd \/ ReplayDel
  BY <1>0, <1>4, FilesReplay
<1>5. CASE ReplayEnd
  BY <1>0, <1>5, FilesReplayed
<1>6. CASE Rebuild
  BY <1>0, <1>1, <1>6 DEF Rebuild, ProcessGone, FilesInv, files, memory
<1>7. CASE \E k \in Key : (\E v \in Value : Put(k, v)) \/ Del(k)
  <2>1. ASSUME NEW k \in Key, NEW v \in Value, Put(k, v)
        PROVE  FilesInv'
    BY <1>0, <2>1, CallTypes, FilesCall DEF Put, RoundTrip
  <2>2. ASSUME NEW k \in Key, Del(k)
        PROVE  FilesInv'
    BY <1>0, <2>2, CallTypes, FilesCall DEF Del, RoundTrip
  <2> QED
    BY <1>7, <2>1, <2>2
<1>8. CASE WalComplete
  BY <1>0, <1>8, FilesLogged
<1>9. CASE PutStoreBegin
  BY <1>0, <1>1, <1>9 DEF PutStoreBegin, FilesInv, memory, LogTorn
<1>10. CASE PutApply \/ DelApply
  BY <1>0, <1>10, FilesEffect
<1>11. CASE SnapshotCall
  BY <1>0, <1>1, <1>11 DEF SnapshotCall, FilesInv, files, memory, LogTorn
<1>12. CASE SnapshotOpen
  BY <1>0, <1>1, <1>12 DEF SnapshotOpen, FilesInv, memory, LogTorn, NoOffsets
<1>13. ASSUME NEW k \in Key, SnapshotLine(k)
       PROVE  FilesInv'
  <2>1. \A j \in Key : tmp'[j] = IF j = k THEN index[k] ELSE tmp[j]
    BY <1>0, <1>13 DEF SnapshotLine, TypeOK
  <2> QED
    BY <1>0, <1>1, <1>13, <2>1 DEF SnapshotLine, FilesInv, memory, LogTorn
<1>14. CASE SnapshotRename
  BY <1>0, <1>14, FilesRenamed
<1>15. CASE SnapshotTruncate
  BY <1>0, <1>15, FilesTruncated
<1>16. CASE Kill
  BY <1>0, <1>1, <1>16 DEF Kill, ProcessGone, FilesInv, files
<1>17. CASE UNCHANGED vars
  BY <1>0, <1>1, <1>17 DEF vars, files, memory, FilesInv, LogTorn
<1> QED
  BY <1>2, <1>3, <1>4, <1>5, <1>6, <1>7, <1>8, <1>9, <1>10, <1>11, <1>12, <1>13, <1>14,
     <1>15, <1>16, <1>17 DEF Next, EngineStep

(***************************************************************************)
(* As long as no key has a space in it, the files match the index: they    *)
(* are ahead by the call that is logged, and recovery catches up with them *)
(* (cognex.cpp:82-110, 210-283).                                           *)
(***************************************************************************)
THEOREM FilesAlwaysMatchIndex ==
  ASSUME \A k \in Key : Plain(k)
  PROVE  Spec => []FilesMatchIndex
<1>1. FilesInv => FilesMatchIndex
  BY DEF FilesInv
<1>2. FilesInv /\ [Next]_vars => FilesInv'
  BY PlainRoundTrip, FilesStep
<1> QED
  BY <1>1, <1>2, FilesInit, PTL DEF Spec

-----------------------------------------------------------------------------
(***************************************************************************)
(* CognexStorage implements CognexKV, as long as no key has a space in it: *)
(* the proof of RefinesKV, one step of CognexStorage at a time.            *)
(***************************************************************************)

(* What stands for the variables of CognexKV. *)
kvBar   == IF Recovering THEN Durable ELSE View
written == [key |-> op.key, to |-> Written(op)]
callBar ==
  CASE pc = "walTorn"                -> [stage |-> "called", write |-> written]
    [] pc \in {"logged", "vlogTorn"} -> [stage |-> "logged", write |-> written]
    [] OTHER                         -> [stage |-> "idle"]

(* A step that CognexKV does not see. *)
Stutter ==
  /\ kvBar' = kvBar
  /\ Durable' = Durable
  /\ LogTorn' = LogTorn
  /\ callBar' = callBar

LEMMA StutterMeans == Stutter => UNCHANGED KV!vars
BY DEF Stutter, kvBar, callBar, written, KV!vars

-----------------------------------------------------------------------------
(* Only values are stored *)

(* A write of one of the values, or of none. *)
ValueOps == {o \in Ops : o.type = "PUT" => o.value \in Value}

(***************************************************************************)
(* What is in the value log and what put() is about to add to it are       *)
(* values: replay does not make one up.                                    *)
(***************************************************************************)
ValuesInv ==
  /\ \A i \in 1 .. Len(vlog) : vlog[i].value \in Value
  /\ pc \in InCall => op \in ValueOps

LEMMA ParsedIsValueOp ==
  ASSUME RoundTrip, NEW t \in LogText
  PROVE  Parsed[t] \in ValueOps
<1>1. \A k \in Key, v \in Value : PutOp(k, v) \in ValueOps
  BY CallTypes DEF ValueOps, PutOp
<1>2. \A k \in Key : DelOp(k) \in ValueOps
  BY CallTypes DEF ValueOps, DelOp
<1> QED
  BY <1>1, <1>2 DEF LogText, RoundTrip

LEMMA ReplayedIsValueOp ==
  ASSUME RoundTrip, TypeOK, MoreToReplay
  PROVE  Replayed \in ValueOps
<1>1. cursor + 1 \in 1 .. Len(wal)
  BY ReplayedType
<1>2. wal[cursor + 1] \in WalRecords
  BY <1>1, ElementOfSeq DEF TypeOK
<1> QED
  BY <1>2, ParsedIsValueOp DEF Replayed, WalRecords

(* A record is appended to the value log, or its last one is completed. *)
LEMMA StoredValues ==
  ASSUME vlog \in Seq(ValueRecords), \A i \in 1 .. Len(vlog) : vlog[i].value \in Value
  PROVE  /\ \A o \in ValueOps :
              o.type = "PUT" /\ vlog' = Append(vlog, Torn(ValueRecord(o.key, o.value))) =>
                \A i \in 1 .. Len(vlog') : vlog'[i].value \in Value
         /\ vlog' = Completed(vlog) => \A i \in 1 .. Len(vlog') : vlog'[i].value \in Value
<1>1. ASSUME NEW o \in ValueOps, o.type = "PUT",
             vlog' = Append(vlog, Torn(ValueRecord(o.key, o.value)))
      PROVE  \A i \in 1 .. Len(vlog') : vlog'[i].value \in Value
  <2> DEFINE r == Torn(ValueRecord(o.key, o.value))
  <2>1. o.key \in Text /\ o.value \in Text /\ o.value \in Value
    BY <1>1, TextAssumption DEF ValueOps, Ops
  <2>2. r \in ValueRecords /\ r.value \in Value
    BY <2>1, ValueRecordType DEF Torn, ValueRecord
  <2>3. vlog' = Append(vlog, r)
    BY <1>1
  <2> HIDE DEF r
  <2>4. Len(vlog) \in Nat
    BY LenProperties
  <2>5. /\ Len(vlog') = Len(vlog) + 1
        /\ \A i \in 1 .. Len(vlog) : vlog'[i] = vlog[i]
        /\ vlog'[Len(vlog) + 1] = r
    BY <2>2, <2>3, AppendLog
  <2> QED
    BY <2>2, <2>4, <2>5
<1>2. ASSUME vlog' = Completed(vlog)
      PROVE  \A i \in 1 .. Len(vlog') : vlog'[i].value \in Value
  <2>1. /\ Len(vlog') = Len(vlog)
        /\ \A i \in 1 .. Len(vlog) : vlog'[i].value = vlog[i].value
    BY <1>2, GrownCompleted, CompletedLog, WholeTypes DEF Grown
  <2> QED
    BY <2>1
<1> QED
  BY <1>1, <1>2

LEMMA ValuesInit == Init => ValuesInv
BY DEF Init, ValuesInv, InCall

LEMMA ValuesStep ==
  ASSUME RoundTrip, Typed, ValuesInv, [Next]_vars
  PROVE  ValuesInv'
<1> USE DEF ValuesInv, InCall
<1>0. TypeOK /\ vlog \in Seq(ValueRecords)
  BY DEF Typed, TypeOK
<1>1. CASE ReplayPutBegin
  <2>1. Replayed \in ValueOps /\ Replayed.type = "PUT"
    BY <1>0, <1>1, ReplayedIsValueOp DEF ReplayPutBegin
  <2>2. vlog' = Append(vlog, Torn(ValueRecord(Replayed.key, Replayed.value)))
    BY <1>1 DEF ReplayPutBegin
  <2> QED
    BY <1>0, <1>1, <2>1, <2>2, StoredValues DEF ReplayPutBegin
<1>2. CASE ReplayPutEnd
  BY <1>0, <1>2, StoredValues DEF ReplayPutEnd
<1>3. CASE \E k \in Key : (\E v \in Value : Put(k, v)) \/ Del(k)
  <2>1. op' \in ValueOps
    BY <1>3, CallTypes DEF Put, Del, Call, ValueOps, PutOp, DelOp
  <2>2. vlog' = vlog
    BY <1>3 DEF Put, Del, Call
  <2> QED
    BY <2>1, <2>2
<1>4. CASE WalComplete
  BY <1>4 DEF WalComplete, memory
<1>5. CASE PutStoreBegin
  <2>1. op \in ValueOps /\ op.type = "PUT"
    BY <1>5 DEF PutStoreBegin
  <2>2. vlog' = Append(vlog, Torn(ValueRecord(op.key, op.value))) /\ op' = op
    BY <1>5 DEF PutStoreBegin, memory
  <2> QED
    BY <1>0, <2>1, <2>2, StoredValues
<1>6. CASE PutApply
  BY <1>0, <1>6, StoredValues DEF PutApply
<1>7. CASE vlog' = vlog /\ pc' \notin InCall
  BY <1>7
<1>8. CASE UNCHANGED vars
  BY <1>8 DEF vars, files, memory
<1>9. \/ ReplayPutBegin \/ ReplayPutEnd \/ WalComplete \/ PutStoreBegin \/ PutApply
      \/ \E k \in Key : (\E v \in Value : Put(k, v)) \/ Del(k)
      \/ vlog' = vlog /\ pc' \notin InCall
      \/ UNCHANGED vars
  BY DEF Next, EngineStep, Start, ReplayDel, ReplayEnd, Rebuild, ProcessGone,
         DelApply, SnapshotCall, SnapshotOpen, SnapshotLine, SnapshotRename, SnapshotTruncate,
         Kill, files
<1> QED
  BY <1>1, <1>2, <1>3, <1>4, <1>5, <1>6, <1>7, <1>8, <1>9

-----------------------------------------------------------------------------
(* The contents that the files and the index stand for *)

KVInv == FilesInv /\ ValuesInv

DurableTyped == Durable \in KV!Contents

LEMMA StoredType ==
  ASSUME ValuesInv, NEW map, Resolves(map), NEW k \in Key
  PROVE  Stored(map, k) \in KV!Optional(Value)
BY DEF ValuesInv, Resolves, Readable, Stored, KV!Optional

LEMMA WrittenType == \A o \in ValueOps : Written(o) \in KV!Optional(Value)
BY DEF ValueOps, Written, KV!Optional

(* What a restart recovers, key by key, from a snapshot that says base. *)
LEMMA AfterReplayType ==
  ASSUME RoundTrip, TypeOK, NEW k \in Key, NEW base \in KV!Optional(Value)
  PROVE  AfterReplay(wal, ReplayLen(wal), k, base) \in KV!Optional(Value)
<1> DEFINE n == ReplayLen(wal)
<1>1. wal \in Seq(WalRecords) /\ Len(wal) \in Nat
  BY LenProperties DEF TypeOK
<1>2. n \in 0 .. Len(wal)
  BY <1>1, ReplayStops DEF StopsAfter
<1> HIDE DEF n
<1>3. CASE WritesOf(wal, n, k) = {}
  BY <1>3 DEF AfterReplay, n
<1>4. CASE WritesOf(wal, n, k) # {}
  <2>1. n \in Nat /\ WritesOf(wal, n, k) \in SUBSET (1 .. n)
    BY <1>1, <1>2 DEF WritesOf
  <2>2. Last(WritesOf(wal, n, k)) \in 1 .. Len(wal)
    <3>1. Last(WritesOf(wal, n, k)) \in 1 .. n
      BY <1>4, <2>1, LastIs
    <3> QED
      BY <1>1, <1>2, <3>1
  <2>3. wal[Last(WritesOf(wal, n, k))] \in WalRecords
    BY <1>1, <2>2, ElementOfSeq
  <2>4. Parsed[wal[Last(WritesOf(wal, n, k))].text] \in ValueOps
    BY <2>3, ParsedIsValueOp DEF WalRecords
  <2> QED
    BY <1>4, <2>4, WrittenType DEF AfterReplay, n
<1> QED
  BY <1>3, <1>4

LEMMA DurableIsTyped ==
  ASSUME RoundTrip, KVInv
  PROVE  DurableTyped
<1>1. TypeOK /\ ValuesInv /\ Resolves(snapshot)
  BY DEF KVInv, FilesInv, OffsetsInv, Typed, OffsetsResolve
<1>2. \A k \in Key : AfterReplay(wal, ReplayLen(wal), k, Stored(snapshot, k)) \in KV!Optional(Value)
  <2> SUFFICES ASSUME NEW k \in Key
               PROVE  AfterReplay(wal, ReplayLen(wal), k, Stored(snapshot, k)) \in KV!Optional(Value)
    OBVIOUS
  <2>1. Stored(snapshot, k) \in KV!Optional(Value)
    BY <1>1, StoredType
  <2> QED
    BY <1>1, <2>1, AfterReplayType
<1> QED
  BY <1>2 DEF DurableTyped, Durable, KV!Contents

-----------------------------------------------------------------------------
(* Every step of CognexStorage is a step of CognexKV *)

LEMMA InitRefines == Init => KV!Init
<1> SUFFICES ASSUME Init
             PROVE  KV!Init
  OBVIOUS
<1>1. Durable = [k \in Key |-> {}]
  <2>1. ReplayLen(wal) = 0
    <3>1. wal \in Seq(WalRecords) /\ Len(wal) = 0
      BY DEF Init
    <3>2. StopsAfter(wal, 0)
      BY <3>1 DEF StopsAfter
    <3> QED
      BY <3>1, <3>2, ReplayStopsOnce
  <2>2. \A k \in Key : Stored(snapshot, k) = {}
    BY DEF Init, Stored, NoOffsets
  <2>3. \A k \in Key : AfterReplay(wal, 0, k, Stored(snapshot, k)) = {}
    BY <2>2, ReplayNone
  <2> QED
    BY <2>1, <2>3 DEF Durable
<1>2. ~LogTorn /\ Recovering /\ pc = "down"
  BY DEF Init, LogTorn, Recovering
<1> QED
  BY <1>1, <1>2 DEF KV!Init, KV!Idle

(* The log is as torn as it was when no record is added to it. *)
LEMMA TornKept ==
  ASSUME wal' = wal, pc # "walTorn", pc' # "walTorn"
  PROVE  LogTorn' = LogTorn
BY DEF LogTorn

LEMMA StutterSteps ==
  ASSUME KVInv, KVInv', [Next]_vars,
         \/ Start \/ ReplayPutBegin \/ ReplayPutEnd \/ ReplayDel \/ ReplayEnd \/ Rebuild
         \/ PutStoreBegin \/ SnapshotCall \/ SnapshotOpen \/ (\E k \in Key : SnapshotLine(k))
         \/ UNCHANGED vars
  PROVE  Stutter
<1>1. Resolves(index) /\ OffsetsInv
  BY DEF KVInv, FilesInv, OffsetsInv, OffsetsResolve
<1>2. wal' = wal /\ snapshot' = snapshot
  BY DEF Start, ReplayPutBegin, ReplayPutEnd, ReplayDel, ReplayEnd, Rebuild, PutStoreBegin,
         SnapshotCall, SnapshotOpen, SnapshotLine, vars, files
<1>3. Durable' = Durable
  BY <1>1, <1>2, MeaningKept
<1>4. LogTorn' = LogTorn
  BY <1>1, <1>2 DEF LogTorn, Start, ReplayPutBegin, ReplayPutEnd, ReplayDel, ReplayEnd, Rebuild,
         PutStoreBegin, SnapshotCall, SnapshotOpen, SnapshotLine, vars
<1>5. callBar' = callBar
  BY <1>1 DEF callBar, written, Start, ReplayPutBegin, ReplayPutEnd, ReplayDel, ReplayEnd, Rebuild,
         PutStoreBegin, SnapshotCall, SnapshotOpen, SnapshotLine, vars, memory
<1>6. kvBar' = kvBar
  <2>1. CASE Recovering /\ Recovering'
    BY <1>3, <2>1 DEF kvBar
  <2>2. CASE Rebuild
    <3>1. Durable = View
      BY <2>2 DEF Rebuild, KVInv, FilesInv, FilesMatchIndex
    <3>2. View' = View
      BY <1>1, <2>2, MeaningKept DEF Rebuild, memory
    <3>3. Recovering /\ ~Recovering'
      BY <1>1, <2>2 DEF Rebuild, Recovering
    <3> QED
      BY <3>1, <3>2, <3>3 DEF kvBar
  <2>3. CASE ~Recovering /\ ~Recovering' /\ index' = index
    <3>1. View' = View
      BY <1>1, <2>3, MeaningKept
    <3> QED
      BY <2>3, <3>1 DEF kvBar
  <2>4. \/ Recovering /\ Recovering'
        \/ Rebuild
        \/ ~Recovering /\ ~Recovering' /\ index' = index
    BY DEF Recovering, Start, ReplayPutBegin, ReplayPutEnd, ReplayDel, ReplayEnd,
           PutStoreBegin, SnapshotCall, SnapshotOpen, SnapshotLine, vars, memory
  <2> QED
    BY <2>1, <2>2, <2>3, <2>4
<1> QED
  BY <1>3, <1>4, <1>5, <1>6 DEF Stutter

(* Replay stops where it stopped if only what is after that place changes. *)
LEMMA SameReplay ==
  ASSUME NEW a \in Seq(WalRecords), NEW b \in Seq(WalRecords), NEW n, StopsAfter(a, n),
         StopsAfter(b, n), \A i \in 1 .. n : a[i].text = b[i].text
  PROVE  /\ ReplayLen(a) = n /\ ReplayLen(b) = n
         /\ \A k, base : AfterReplay(b, n, k, base) = AfterReplay(a, n, k, base)
<1>1. ReplayLen(a) = n /\ ReplayLen(b) = n
  BY ReplayStopsOnce
<1>2. n \in Nat
  BY LenProperties DEF StopsAfter
<1>3. SameTexts(b, a, n)
  BY DEF SameTexts
<1> QED
  BY <1>1, <1>2, <1>3, ReplaySame

(* put() and del() begin: nothing to recover yet, and the log is as torn as it was. *)
LEMMA CallSteps ==
  ASSUME KVInv, [Next]_vars, NEW o \in ValueOps, NEW text \in LogText, Call(o, text)
  PROVE  KV!Invoke([key |-> o.key, to |-> Written(o)])
<1> DEFINE r == Torn(WalRecord(text))
           n == ReplayLen(wal)
<1>1. r \in WalRecords /\ ~r.whole
  BY DEF Torn, WalRecord, WalRecords
<1>2. wal \in Seq(WalRecords) /\ Len(wal) \in Nat /\ TypeOK
  BY LenProperties DEF KVInv, FilesInv, OffsetsInv, Typed, TypeOK
<1>3. StopsAfter(wal, n)
  BY <1>2, ReplayStops
<1>4. pc = "ready" /\ pc' = "walTorn" /\ wal' = Append(wal, r) /\ op' = o
  BY DEF Call
<1> HIDE DEF r, n
<1>5. /\ wal' \in Seq(WalRecords)
      /\ Len(wal') = Len(wal) + 1
      /\ \A i \in 1 .. Len(wal) : wal'[i] = wal[i]
      /\ wal'[Len(wal) + 1] = r
  BY <1>1, <1>2, <1>4, AppendLog
<1>6. StopsAfter(wal', n)
  BY <1>1, <1>2, <1>3, <1>5 DEF StopsAfter
<1>7. /\ ReplayLen(wal') = ReplayLen(wal)
      /\ \A k, base : AfterReplay(wal', n, k, base) = AfterReplay(wal, n, k, base)
  <2>1. \A i \in 1 .. n : wal[i].text = wal'[i].text
    BY <1>2, <1>3, <1>5 DEF StopsAfter
  <2> QED
    BY <1>2, <1>3, <1>5, <1>6, <2>1, SameReplay
<1>8. Durable' = Durable /\ View' = View
  <2>1. View' = View /\ \A k \in Key : Stored(snapshot, k)' = Stored(snapshot, k)
    BY MeaningKept DEF KVInv, FilesInv, Call
  <2> QED
    BY <1>7, <2>1 DEF Durable, n
<1>9. LogTorn' = LogTorn
  <2>1. LogTorn <=> \E i \in 1 .. Len(wal) : ~wal[i].whole
    BY <1>4 DEF LogTorn
  <2>2. LogTorn' <=> \E i \in 1 .. Len(wal') : ~wal'[i].whole /\ i < Len(wal')
    BY <1>2, <1>4, <1>5 DEF LogTorn
  <2> QED
    BY <1>2, <1>5, <2>1, <2>2 DEF LogTorn
<1>10. ~Recovering /\ ~Recovering'
  BY <1>4 DEF Recovering
<1> QED
  BY <1>4, <1>8, <1>9, <1>10 DEF KV!Invoke, KV!Idle, KV!Called

(* The record is complete: a restart recovers the write, unless an earlier record is torn. *)
LEMMA LogSteps ==
  ASSUME KVInv, KVInv', [Next]_vars, WalComplete
  PROVE  KV!Log(written)
<1>1. wal \in Seq(WalRecords) /\ Len(wal) \in Nat /\ TypeOK /\ OffsetsInv
  BY LenProperties DEF KVInv, FilesInv, OffsetsInv, Typed, TypeOK
<1>2. pc = "walTorn" /\ pc' = "logged" /\ wal' = Completed(wal) /\ op' = op /\ index' = index
  BY DEF WalComplete, memory
<1>3. Len(wal) \in 1 .. Len(wal)
  BY <1>2 DEF KVInv, FilesInv, PendingRecord
<1>4. /\ wal' \in Seq(WalRecords)
      /\ Len(wal') = Len(wal)
      /\ \A i \in 1 .. Len(wal) : wal'[i] = IF i = Len(wal) THEN Whole(wal[i]) ELSE wal[i]
  BY <1>1, <1>2, CompletedLog, WholeTypes
<1>5. wal'[Len(wal)].whole
  <2>1. \A x \in WalRecords : Whole(x).whole
    BY DEF WalRecords, Whole
  <2>2. wal[Len(wal)] \in WalRecords
    BY <1>1, <1>3, ElementOfSeq
  <2> QED
    BY <1>3, <1>4, <2>1, <2>2
<1>6. LogTorn' = LogTorn
  <2>1. LogTorn <=> \E i \in 1 .. Len(wal) : ~wal[i].whole /\ i < Len(wal)
    BY <1>1, <1>2 DEF LogTorn
  <2>2. LogTorn' <=> \E i \in 1 .. Len(wal) : ~wal'[i].whole
    BY <1>2, <1>4 DEF LogTorn
  <2>3. \A i \in 1 .. Len(wal) : i < Len(wal) => wal'[i] = wal[i]
    BY <1>4
  <2>4. \A i \in 1 .. Len(wal) : ~(i < Len(wal)) => i = Len(wal)
    BY <1>1
  <2>5. (\E i \in 1 .. Len(wal) : ~wal[i].whole /\ i < Len(wal))
          <=> \E i \in 1 .. Len(wal) : ~wal'[i].whole
    BY <1>5, <2>3, <2>4
  <2> QED
    BY <2>1, <2>2, <2>5 DEF LogTorn
<1>7. View' = View
  BY <1>1, <1>2, MeaningKept
<1>8. ASSUME LogTorn
      PROVE  Durable' = Durable
  <2> DEFINE n == ReplayLen(wal)
  <2>1. StopsAfter(wal, n)
    BY <1>1, ReplayStops
  <2> HIDE DEF n
  <2>2. n + 1 < Len(wal)
    <3>1. PICK i \in 1 .. Len(wal) : ~wal[i].whole /\ i < Len(wal)
      BY <1>1, <1>2, <1>8 DEF LogTorn
    <3> QED
      BY <1>1, <2>1, <3>1 DEF StopsAfter
  <2>3. StopsAfter(wal', n)
    BY <1>1, <1>4, <2>1, <2>2 DEF StopsAfter
  <2>4. /\ ReplayLen(wal') = ReplayLen(wal)
        /\ \A k, base : AfterReplay(wal', n, k, base) = AfterReplay(wal, n, k, base)
    <3>1. \A i \in 1 .. n : wal[i].text = wal'[i].text
      BY <1>1, <1>4, <2>1, <2>2 DEF StopsAfter
    <3> QED
      BY <1>1, <1>4, <2>1, <2>3, <3>1, SameReplay
  <2>5. \A k \in Key : Stored(snapshot, k)' = Stored(snapshot, k)
    BY <1>1, MeaningKept DEF WalComplete
  <2> QED
    BY <2>4, <2>5 DEF Durable, n
<1>9. ASSUME ~LogTorn
      PROVE  Durable' = [Durable EXCEPT ![op.key] = Written(op)]
  <2>1. Durable = View
    BY <1>2, <1>9 DEF KVInv, FilesInv, FilesMatchIndex
  <2>2. Durable' = [View' EXCEPT ![op.key] = Written(op)]
    BY <1>2, <1>6, <1>9 DEF KVInv, FilesInv, FilesMatchIndex, Written
  <2> QED
    BY <1>7, <2>1, <2>2
<1>10. ~Recovering /\ ~Recovering'
  BY <1>2 DEF Recovering
<1>11. written.key = op.key /\ written.to = Written(op)
  BY DEF written
<1>12. Durable' = IF LogTorn THEN Durable ELSE KV!Applied(Durable, written)
  BY <1>8, <1>9, <1>11 DEF KV!Applied
<1> HIDE DEF written
<1> QED
  BY <1>2, <1>6, <1>7, <1>10, <1>12 DEF KV!Log, KV!Called, KV!Logged, written

(* put() and del() have their effect. *)
LEMMA EffectSteps ==
  ASSUME KVInv, [Next]_vars, PutApply \/ DelApply
  PROVE  KV!Effect(written)
<1>1. /\ wal' = wal /\ snapshot' = snapshot /\ OffsetsInv
      /\ pc \in {"logged", "vlogTorn"} /\ pc' \in {"ready", "snapshot"}
  BY DEF KVInv, FilesInv, PutApply, DelApply, files
<1>2. Durable' = Durable
  BY <1>1, MeaningKept
<1>3. View' = [View EXCEPT ![op.key] = Written(op)]
  BY <1>1, EffectOnView
<1>4. LogTorn' = LogTorn
  BY <1>1, TornKept
<1>5. ~Recovering /\ ~Recovering'
  BY <1>1 DEF Recovering
<1>6. View' = KV!Applied(View, written)
  BY <1>3 DEF KV!Applied, written
<1> QED
  BY <1>1, <1>2, <1>4, <1>5, <1>6 DEF KV!Effect, KV!Logged, KV!Idle, written

(* The new snapshot under the old log. *)
LEMMA RenameSteps ==
  ASSUME KVInv, DurableTyped', [Next]_vars, SnapshotRename
  PROVE  KV!SaveSnapshot
<1>1. /\ pc = "writing" /\ pc' = "renamed" /\ OffsetsInv
      /\ wal' = wal /\ vlog' = vlog /\ index' = index
  BY DEF KVInv, FilesInv, SnapshotRename, memory
<1>2. \A k \in Key : snapshot'[k] = index[k]
  BY <1>1 DEF SnapshotRename, KVInv, FilesInv, PendingSnapshot
<1>3. View' = View
  BY <1>1, MeaningKept
<1>4. LogTorn' = LogTorn
  BY <1>1, TornKept
<1>5. \A k \in Key : Durable'[k] \in {Durable[k], View[k]}
  <2> SUFFICES ASSUME NEW k \in Key
               PROVE  Durable'[k] \in {Durable[k], View[k]}
    OBVIOUS
  <2>1. Stored(snapshot, k)' = Stored(index, k)
    BY <1>1, <1>2 DEF Stored
  <2>2. Durable'[k] = AfterReplay(wal, ReplayLen(wal), k, Stored(index, k))
    BY <1>1, <2>1 DEF Durable
  <2>3. Durable[k] = AfterReplay(wal, ReplayLen(wal), k, Stored(snapshot, k))
    BY DEF Durable
  <2>4. View[k] = Stored(index, k)
    BY DEF View
  <2> QED
    BY <2>2, <2>3, <2>4 DEF AfterReplay
<1>6. Durable' \in KV!Contents
  BY DEF DurableTyped, KV!Contents, KV!Optional
<1>7. ~Recovering /\ ~Recovering'
  BY <1>1 DEF Recovering
<1> QED
  BY <1>1, <1>3, <1>4, <1>5, <1>6, <1>7 DEF KV!SaveSnapshot, KV!Idle

(* The snapshot alone. *)
LEMMA TruncateSteps ==
  ASSUME KVInv, KVInv', [Next]_vars, SnapshotTruncate
  PROVE  KV!DropLog
<1>1. pc = "renamed" /\ pc' = "ready" /\ wal' = <<>> /\ index' = index /\ OffsetsInv
  BY DEF KVInv, FilesInv, SnapshotTruncate
<1>2. ~LogTorn'
  BY <1>1 DEF LogTorn
<1>3. Durable' = View' /\ View' = View
  BY <1>1, <1>2, MeaningKept DEF KVInv, FilesInv, FilesMatchIndex
<1>4. ~Recovering /\ ~Recovering'
  BY <1>1 DEF Recovering
<1> QED
  BY <1>1, <1>2, <1>3, <1>4 DEF KV!DropLog, KV!Idle

(* A kill, which leaves a record that was being written torn. *)
LEMMA KillSteps ==
  ASSUME KVInv, [Next]_vars, Kill
  PROVE  KV!Crash
<1>1. pc' = "down" /\ wal' = wal /\ snapshot' = snapshot /\ OffsetsInv
  BY DEF KVInv, FilesInv, Kill, ProcessGone, files
<1>2. Durable' = Durable /\ Recovering'
  BY <1>1, MeaningKept DEF Recovering
<1>3. LogTorn' <=> LogTorn \/ pc = "walTorn"
  <2>1. CASE pc = "walTorn"
    <3>1. Len(wal) \in 1 .. Len(wal) /\ ~wal[Len(wal)].whole
      BY <2>1 DEF KVInv, FilesInv, PendingRecord
    <3> QED
      BY <1>1, <2>1, <3>1 DEF LogTorn
  <2>2. CASE pc # "walTorn"
    BY <1>1, <2>2, TornKept
  <2> QED
    BY <2>1, <2>2
<1>4. LogTorn' \in BOOLEAN /\ LogTorn \in BOOLEAN
  BY DEF LogTorn
<1>5. (callBar.stage = "called") <=> pc = "walTorn"
  BY DEF callBar
<1>6. callBar' = [stage |-> "idle"]
  BY <1>1 DEF callBar
<1> QED
  BY <1>1, <1>2, <1>3, <1>4, <1>5, <1>6 DEF KV!Crash, KV!Idle, callBar, written

LEMMA NextRefines ==
  ASSUME KVInv, KVInv', DurableTyped', [Next]_vars
  PROVE  [KV!Next]_KV!vars
<1>1. CASE \/ Start \/ ReplayPutBegin \/ ReplayPutEnd \/ ReplayDel \/ ReplayEnd \/ Rebuild
           \/ PutStoreBegin \/ SnapshotCall \/ SnapshotOpen \/ (\E k \in Key : SnapshotLine(k))
           \/ UNCHANGED vars
  BY <1>1, StutterSteps, StutterMeans
<1>2. CASE \E k \in Key : (\E v \in Value : Put(k, v)) \/ Del(k)
  <2>1. \E o \in ValueOps : KV!Invoke([key |-> o.key, to |-> Written(o)])
    <3>1. ASSUME NEW k \in Key, NEW v \in Value, Put(k, v)
          PROVE  PutOp(k, v) \in ValueOps /\
                 KV!Invoke([key |-> PutOp(k, v).key, to |-> Written(PutOp(k, v))])
      <4>1. PutOp(k, v) \in ValueOps
        BY CallTypes DEF ValueOps, PutOp
      <4> QED
        BY <3>1, <4>1, CallTypes, CallSteps DEF Put
    <3>2. ASSUME NEW k \in Key, Del(k)
          PROVE  DelOp(k) \in ValueOps /\
                 KV!Invoke([key |-> DelOp(k).key, to |-> Written(DelOp(k))])
      <4>1. DelOp(k) \in ValueOps
        BY CallTypes DEF ValueOps, DelOp
      <4> QED
        BY <3>2, <4>1, CallTypes, CallSteps DEF Del
    <3> QED
      BY <1>2, <3>1, <3>2
  <2>2. \A o \in ValueOps : [key |-> o.key, to |-> Written(o)] \in KV!Write
    BY WrittenType DEF KV!Write, ValueOps, Ops
  <2> QED
    BY <2>1, <2>2 DEF KV!Next
<1>3. pc \in InCall => written \in KV!Write
  BY WrittenType DEF KVInv, ValuesInv, ValueOps, Ops, KV!Write, written
<1>4. CASE WalComplete
  BY <1>3, <1>4, LogSteps DEF KV!Next, WalComplete, InCall
<1>5. CASE PutApply \/ DelApply
  BY <1>3, <1>5, EffectSteps DEF KV!Next, PutApply, DelApply, InCall
<1>6. CASE SnapshotRename
  BY <1>6, RenameSteps DEF KV!Next
<1>7. CASE SnapshotTruncate
  BY <1>7, TruncateSteps DEF KV!Next
<1>8. CASE Kill
  BY <1>8, KillSteps DEF KV!Next
<1> QED
  BY <1>1, <1>2, <1>4, <1>5, <1>6, <1>7, <1>8 DEF Next, EngineStep

(***************************************************************************)
(* As long as no key has a space in it, the promise of CognexKV is kept,   *)
(* torn records in the log or not (cognex.cpp:82-110, 210-283).            *)
(***************************************************************************)
THEOREM KeepsThePromise ==
  ASSUME \A k \in Key : Plain(k)
  PROVE  Spec => RefinesKV
<1>1. RoundTrip
  BY PlainRoundTrip
<1>2. Init => KVInv
  BY FilesInit, ValuesInit DEF KVInv
<1>3. KVInv /\ [Next]_vars => KVInv'
  BY <1>1, FilesStep, ValuesStep DEF KVInv, FilesInv, OffsetsInv
<1>4. Init => KV!Init
  BY InitRefines
<1>5. KVInv => DurableTyped
  BY <1>1, DurableIsTyped
<1>6. KVInv /\ KVInv' /\ DurableTyped' /\ [Next]_vars => [KV!Next]_KV!vars
  BY NextRefines
<1> QED
  BY <1>2, <1>3, <1>4, <1>5, <1>6, PTL DEF Spec, RefinesKV, KV!Spec
=============================================================================
